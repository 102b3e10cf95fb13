\* Two runs of a campaign of two documents and one for the second document
\* alone; every system call may fail, runs are killed, power may fail.
SPECIFICATION Spec
CONSTANTS
  p1 = p1
  p2 = p2
  p3 = p3
  a = a
  b = b
  cards = cards
  alone = alone
  Plan = {a, b}
  Proc = {p1, p2, p3}
  Earlier = Earlier
  Job <- MCJob
  NoPlan = NoPlan
  State = State
  Place = {cards, alone}
  Reply <- MCReply
  Reserved = 2
  Timeout = 1
  Overhead = 1
  Worlds <- MCWorlds
  IOFails = TRUE
  Crashes = TRUE
INVARIANTS
  ReceiptsAreTrue
  EndsAreExplained
PROPERTIES
  ImplementsOneAttempt
