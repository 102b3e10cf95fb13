\* Two threads, three gates (two of them for one plan), claims that name the
\* gate's approval and reservation and claims that name foreign ones, and a
\* marker ledger whose system calls may fail; a thread may be a run of the
\* single attempt command.
SPECIFICATION SmokeSpec
CONSTANTS
  t1 = t1
  t2 = t2
  g1 = g1
  g2 = g2
  g3 = g3
  g4 = g4
  q1 = q1
  q2 = q2
  d = d
  n1 = n1
  n2 = n2
  n3 = n3
  Thread = {t1, t2}
  Gate = {g1, g2, g3, g4}
  Plan = {q1, q2}
  Domain = {d}
  Nonce = {n1, n2, n3}
  Live = {g1, g3}
  PlanOf <- TwoPlansOf
  DomainOf <- OneDomainOf
  Claims <- GenuineAndForeign
  Failing = {q2}
  Homes <- MCHomes
  Answers <- MCAnswers
  MaxBytes = 1
  MaxPart = 1
  Status = {200, 404, 500}
  Finish = {"stop", "length"}
INVARIANTS
  SentWasAuthorized
  SpendingIsAccountedFor
PROPERTIES
  ImplementsOneAttempt
