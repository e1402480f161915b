\* Calls by id and by sub-domain race, and a closeAll runs among them.
SPECIFICATION Spec
CONSTANTS
  Tenant = {t1, t2}
  Domain = {d1, d2}
  Requested <- ByAny
  Call = {c1, c2, c3}
  Closer = {k1}
  Renames = FALSE
  None = None
SYMMETRY Interchangeable
INVARIANTS
  PendingIsRunning
  ServedByOwnTenant
  MapsAgree
CHECK_DEADLOCK FALSE
