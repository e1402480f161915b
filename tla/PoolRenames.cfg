\* Rows are renamed under the server, and two closeAlls overlap.
SPECIFICATION Spec
CONSTANTS
  Tenant = {t1, t2}
  Domain = {d1, d2}
  Requested <- ById
  Call = {c1, c2, c3}
  Closer = {k1, k2}
  Renames = TRUE
  None = None
SYMMETRY Interchangeable
INVARIANTS
  TypeOK
  OpenIsCached
CHECK_DEADLOCK FALSE
