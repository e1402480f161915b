\* Two requests, a provision and two seed runs meet on one database.
SPECIFICATION Spec
CONSTANTS
  r1 = r1
  r2 = r2
  p1 = p1
  p2 = p2
  s1 = s1
  s2 = s2
  Request = {r1, r2}
  Provision = {p1}
  Seed = {s1, s2}
  Batches = 2
  MaxFaults = 2
  None = None
SYMMETRY Interchangeable
INVARIANTS
  TypeOK
  ReadyIsMigrated
  SeedLeavesOwnRows
PROPERTIES
  RetryHeals
CHECK_DEADLOCK FALSE
