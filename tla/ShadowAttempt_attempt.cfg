\* Every reply of the repository's transport and of an injected one, status
\* codes on both sides of every boundary, a body of up to the limit and over;
\* and any graph of well-formed artifacts, presented to the campaign's verifier.
SPECIFICATION EitherSpec
CONSTANTS
  MaxBytes = 3
  MaxPart = 2
  Status = {100, 199, 200, 201, 428, 429, 430, 499, 500, 599, 600}
  Finish = {"stop", "length"}
INVARIANTS
  NeverRaises
  OutcomeTellsTheWire
  AcceptedIsExplained
