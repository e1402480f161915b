\* A seed run comes before the first request.
SPECIFICATION FairSpec
CONSTANTS
  r1 = r1
  r2 = r2
  p1 = p1
  p2 = p2
  s1 = s1
  s2 = s2
  Request = {r1}
  Provision = {}
  Seed = {s1}
  Batches = 1
  MaxFaults = 0
  None = None
PROPERTIES
  FirstRequestConnects
CHECK_DEADLOCK FALSE
