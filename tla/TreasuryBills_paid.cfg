SPECIFICATION FairSpec
CONSTANTS
  Bills = {b1, b2}
  Requests = {r1}
  Sweeps = {s1}
  Price = 5
  Faces = {6}
  Fallible = {"ticker", "post", "mark", "row"}
  MaxFaults = 1
  MaxCrashes = 1
PROPERTIES
  DuePaid
CHECK_DEADLOCK FALSE
