SPECIFICATION Spec
CONSTANTS
  g1 = g1
  g2 = g2
  t1 = t1
  t2 = t2
  t3 = t3
  v1 = v1
  w1 = w1
  w2 = w2
  Verifiers = {v1}
  Workers = {w1, w2}
  Grants = {g1, g2}
  Tokens = {t1, t2, t3}
  Owner <- MCOwner
  MaxEntries = 1
  MaxGeneration = 2
SYMMETRY ThreadSymmetry
INVARIANTS AcceptedIsCurrent CacheFollowsGrants
