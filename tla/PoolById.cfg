\* Calls by tenant id, the only ones the routes make today; nothing shuts down.
SPECIFICATION FairSpec
CONSTANTS
  Tenant = {t1, t2}
  Domain = {d1, d2}
  Requested <- ById
  Call = {c1, c2, c3}
  Closer = {}
  Renames = FALSE
  None = None
PROPERTIES
  EveryCallSettles
  ImplementsSharedConnection
CHECK_DEADLOCK FALSE
