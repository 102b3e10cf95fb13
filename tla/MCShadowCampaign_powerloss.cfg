\* Two runs create the state directory while the machine may lose power.
SPECIFICATION Spec
CONSTANTS
  p1 = p1
  p2 = p2
  p3 = p3
  valid = valid
  failed = failed
  Outcome = {valid, failed}
  ValidShape = valid
  Proc = {p1, p2, p3}
  Live = {p1}
  NPlans = 1
  InitialDir = "absent"
  Denied <- NobodyDenied
  Timeout <- OneTick
  Cap = 1
  MaxElapsed = 0
  IOFails = FALSE
  Crashes = FALSE
  MaxPowerLoss = 1
INVARIANT
  AtMostOneAttempt
