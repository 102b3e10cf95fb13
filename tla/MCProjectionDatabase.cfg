\* Two store clients, an SQL client and two deployments on one database.
SPECIFICATION DatabaseSpec
CONSTANTS
  c1 = c1
  c2 = c2
  x1 = x1
  p1 = p1
  p2 = p2
  a1 = a1
  a2 = a2
  b1 = b1
  m1 = m1
  m2 = m2
  first = first
  second = second
  other = other
  NoClient = NoClient
  NoMigrator = NoMigrator
  Client = {c1, c2}
  Sql = {x1}
  Projection = {p1, p2}
  Tampered = {p1}
  Atom = {a1, a2}
  Binding = {b1}
  Migrator = {m1, m2}
  Initial = first
  Jobs <- MCJobs
  Local <- MCLocal
  LockOf <- MCLockOf
  RecordOf <- MCRecordOf
  AtomRow <- MCAtomRow
  Metadata <- MCMetadata
INVARIANTS
  SealedIsClassified
  HistoryIsOneDeployments
PROPERTIES
  AnswersAreTrue
  HistoryOnlyGrows
