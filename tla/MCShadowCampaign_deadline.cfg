\* One live run over three plans of growing timeouts, the second of which no
\* gate approves, with a clock that moves between any two looks at it, beside
\* a run with an injected transport that may hang.
SPECIFICATION FairSpec
CONSTANTS
  p1 = p1
  p2 = p2
  p3 = p3
  valid = valid
  failed = failed
  Outcome = {valid, failed}
  ValidShape = valid
  Proc = {p1, p2}
  Live = {p1}
  NPlans = 3
  InitialDir = "absent"
  Denied <- SecondDenied
  Timeout <- Rising
  Cap = 4
  MaxElapsed = 5
  IOFails = FALSE
  Crashes = FALSE
  MaxPowerLoss = 0
INVARIANTS
  LatePlansAreStopped
PROPERTIES
  LiveRunsEnd
