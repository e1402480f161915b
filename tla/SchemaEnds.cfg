\* A request, a provision and two seed runs come to an end.
SPECIFICATION FairSpec
CONSTANTS
  r1 = r1
  r2 = r2
  p1 = p1
  p2 = p2
  s1 = s1
  s2 = s2
  Request = {r1}
  Provision = {p1}
  Seed = {s1, s2}
  Batches = 1
  MaxFaults = 1
  None = None
PROPERTIES
  EveryAttemptEnds
CHECK_DEADLOCK FALSE
