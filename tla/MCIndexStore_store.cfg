\* Two commands at a time, each of which may publish or fight for an alias:
\* every origin against every namespace, with and without the opt-ins, and two
\* connections that may be lost.
SPECIFICATION FairSpec
CONSTANTS
  Command = {c1, c2}
  p1 = p1  p2 = p2  e1 = e1  g1 = g1  l1 = l1
  current = current  staging = staging  test = test  free = free
  Index = {p1, p2, e1, g1, l1}
  Alias = {current, staging, test, free}
  NoIndex = NoIndex  NoAlias = NoAlias  NoCommand = NoCommand
  Tasks <- Everything
  OriginOf <- MCOriginOf
  NamespaceOf <- MCNamespaceOf
  Entries = 2
  Lossy = {l1}
  Preloaded = {}
  MaxFaults = 2
INVARIANTS FailuresAreExplained NoPartialVersion
PROPERTIES EveryCommandEnds KeepsPromise MovesAreAskedForAndTold
