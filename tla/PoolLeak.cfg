SPECIFICATION Spec
CONSTANTS
  Tenant = {t1}
  Domain = {d1}
  Requested <- ById
  Call = {c1, c2}
  Closer = {}
  Renames = FALSE
  None = None
INVARIANTS
  OneOpenSourcePerTenant
CHECK_DEADLOCK FALSE
