SPECIFICATION PipelineSpec
CONSTANTS
  q1 = q1
  q2 = q2
  a1 = a1
  a2 = a2
  Primary <- MCPrimary
  Question = {q1, q2}
  Candidate <- MCCandidate
  Atom <- MCAtom
  Inputs <- MCInputs
  ChangeSets <- MCChangeSets
  Requests <- MCRequests
  Config <- MCConfig
  Calls <- MCCalls
  MaxBuildLines = 1
  Window = 1
  Queries <- MCQueries
  Surroundings <- MCSurroundings
INVARIANTS
  OnlyThePlanIsAccepted
  DispatchIffSufficient
  PlannedInFull
  EveryLineIsReviewedOrReported
  WholeChangesOnly
  QuestionsAreEarned
  FilesAreReviewedOrRefusedForCause
  RefusedOnlyForATie
  UncoveredIsExplained
  AIOnlyAdds
  EvidenceKeepsItsShare
