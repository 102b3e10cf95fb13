\* Three runs of the tool in three rounds, a copied round, and a builder that
\* is asked for two prefixes that share no round and for two that do.
SPECIFICATION Spec
CONSTANTS
  x1 = x1
  x2 = x2
  x3 = x3
  r1 = r1
  retry = retry
  r2 = r2
  first = first
  second = second
  all = all
  Run = {x1, x2, x3}
  Round = {r1, retry, r2}
  Pairs <- MCPairs
  Copies <- MCCopies
  RoundsOf <- MCRoundsOf
  Jobs <- MCJobs
  Answers <- MCAnswers
INVARIANTS
  ConsensusIsTwoReviews
PROPERTIES
  TidyCampaignIsAccepted
