CONSTANTS
  Creates = {c1, c2, c3}
  Deletes = {d1}
  Hosts = {h1, h2}
  FileCount = 4
  RoleFile = 2
  Repeatable = {3}
  Needs <- MCNeeds
  MaxRuns = 3

SPECIFICATION PlaneSpec

INVARIANTS
  StartsWhole
  AgainOnlyTorn
  OnePrimary
  PrimaryRemains
  ConflictExplained

PROPERTIES
  AtomicCalls
  CallsEnd

\* Every call is made once, and a database may be past repair.
CHECK_DEADLOCK FALSE
