\* Two threads with three runners, a signer that keeps one context.
SPECIFICATION Spec
CONSTANTS
  t1 = t1  t2 = t2  h1 = h1  h2 = h2  c1 = c1  c2 = c2  c3 = c3
  old = old  new = new  far = far  s1 = s1  s2 = s2  s3 = s3  s4 = s4
  near = near  away = away
  Thread = {t1, t2}
  Gate = {h1, h2}
  Cap = {c1, c3}
  Registry = {old, new, far}
  Signer = {s1, s2, s3, s4}
  DomainOf <- MCDomainOf
  GateOf <- MCGateOf
  Pinned <- MCPinned
  Config <- MCConfig
  MaxPending = 1
  Clock = {1, 2}
  MaxBytes = 1
  MaxPart = 1
  Status = {200, 404, 429, 503}
  Finish = {"stop", "length"}
  Answers <- MCAnswers
INVARIANTS ContextsAreInFlight SentIsFormalized
PROPERTIES NoSplicing ImplementsAttested
SYMMETRY Symmetry
