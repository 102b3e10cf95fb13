\* Two runs, one live and one injected, race for two plans; every system call may fail, a run may be killed,
\* the machine may lose power once.  The state directory is an old one.
SPECIFICATION Spec
CONSTANTS
  p1 = p1
  p2 = p2
  p3 = p3
  valid = valid
  failed = failed
  Outcome = {valid, failed}
  ValidShape = valid
  Proc = {p1, p2}
  Live = {p1}
  NPlans = 2
  InitialDir = "durable"
  Denied <- NobodyDenied
  Timeout <- OneTick
  Cap = 1
  MaxElapsed = 0
  IOFails = TRUE
  Crashes = TRUE
  MaxPowerLoss = 1
INVARIANTS
  RunsTellTheTruth
  ResultsAreWhole
PROPERTIES
  ImplementsOneAttempt
