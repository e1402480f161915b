\* Two tenants' requests are served, clients go away, two signals arrive.
SPECIFICATION FairSpecServer
CONSTANTS
  Tenant = {t1, t2}
  Domain = {d1, d2}
  Requested <- ById
  Call = {c1, c2}
  Closer = {k1, k2}
  Renames = TRUE
  None = None
INVARIANTS
  ServerTypeOK
  NoRequestCutOff
  ExitIsGraceful
  OneSignalIsSafe
PROPERTIES
  SignalEndsProcess
CHECK_DEADLOCK FALSE
