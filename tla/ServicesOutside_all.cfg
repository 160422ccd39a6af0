SPECIFICATION OutsideSpec
CONSTANTS
  Callers = {c1, c2}
  Tickers = {a, b}
  Requests = {r1, r2}
  Links = {l1, l2}
  Keys = {k1, k2}
  Addresses = {a1}
  Threads = {r1, r2}
  Names = {n1, n2}
  KeysMax = 1
  Readers = {u1, u2}
  Threshold = 2
  MaxFailed = 2
  MaxSessions = 1
  MaxSignOuts = 2
  MaxCrashes = 1
  MaxCalls = 2
  MaxTries = 1
  MaxTrips = 1
  Cap = 1
  QueueMax = 2
  MaxRecords = 6
  Rate = 2
  Slots = 1
  FailuresMax = 2
  MaxEntries = 1
  Minute = 2
  SweepEvery = 1
  Window = 2
  Lockout = 3
  LogEvery = 2
  Cooldown = 3
  MaxTime = 3
  Cards = {1, 2, 3}
  Levels = {1, 2}
  Seeds <- MCSeeds
  Size = 2
  LastDay = 3
  MaxReviews = 3
  MaxStarts = 1
SYMMETRY WhoSymmetry
CHECK_DEADLOCK FALSE
INVARIANTS
  StaysSignedOut OneResetPerLink KeysHold AuditIsComplete
PROPERTIES
  SessionIsShared ThrottlesHold SessionsAreFair
