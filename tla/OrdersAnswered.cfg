\* Whichever tenants fail, the request comes to an end.
SPECIFICATION FairSpec
CONSTANTS
  t1 = t1
  t2 = t2
  o1 = o1
  o2 = o2
  o3 = o3
  o4 = o4
  Tenant = {t1, t2}
  Order = {o1, o3}
  Owner <- OwnersOfTwo
  Status = {"pending", "completed"}
  StatusOf <- StatusesOfTwo
  Times <- AllTimes
  TicksPerMs = 2
  Actives = {{t1, t2}, {t1}}
  Queries <- Clients
  MaxWrites = 1
PROPERTIES
  EveryRequestAnswered
CHECK_DEADLOCK FALSE
