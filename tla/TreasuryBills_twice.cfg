SPECIFICATION Spec
CONSTANTS
  Bills = {b1}
  Requests = {r1}
  Sweeps = {s1, s2}
  Price = 5
  Faces = {6}
  Fallible = {}
  MaxFaults = 0
  MaxCrashes = 0
INVARIANT PaidOutOnce
CHECK_DEADLOCK FALSE
