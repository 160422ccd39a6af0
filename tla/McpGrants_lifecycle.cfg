SPECIFICATION Spec
CONSTANTS
  h1 = h1
  h2 = h2
  r1 = r1
  r2 = r2
  g1 = g1
  g2 = g2
  t1 = t1
  t2 = t2
  None = None
  Threads = {h1, h2}
  Requests = {r1, r2}
  Grants = {g1, g2}
  RefreshTokens = {t1, t2}
  PendingMax = 1
  MaxResets = 2
  MaxCrashes = 1
SYMMETRY IdSymmetry
INVARIANTS GrantsHold
CHECK_DEADLOCK FALSE
