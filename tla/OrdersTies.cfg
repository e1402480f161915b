\* Nothing decides between orders created at the same time.
SPECIFICATION Spec
CONSTANTS
  t1 = t1
  t2 = t2
  o1 = o1
  o2 = o2
  o3 = o3
  o4 = o4
  Tenant = {t1, t2}
  Order = {o1, o2, o3, o4}
  Owner <- Owners
  Status = {"pending", "completed"}
  StatusOf <- Statuses
  Times <- AllTimes
  TicksPerMs = 2
  Actives = {{t1, t2}, {t1}}
  Queries <- Clients
  MaxWrites = 0
INVARIANTS
  PagesCoverAll
CHECK_DEADLOCK FALSE
