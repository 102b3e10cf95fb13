\* The promise of the data contract, without the exception of NeverRaises.
SPECIFICATION AttemptSpec
CONSTANTS
  MaxBytes = 3
  MaxPart = 2
  Status = {200, 429, 500, 600}
  Finish = {"stop", "length"}
INVARIANT
  EveryAttemptIsRecorded
