SPECIFICATION Spec
CONSTANTS
  m1 = m1
  m2 = m2
  x1 = x1
  x2 = x2
  ScheduledRuns = {s1}
  ManualRuns = {m1, m2}
  ResumedRuns = {q1}
  Restorers = {x1, x2}
  Contended <- MCContended
SYMMETRY RequestSymmetry
INVARIANTS RunsAreTracked RestoresAreSafe FailuresRecorded
CHECK_DEADLOCK FALSE
