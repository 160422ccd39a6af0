SPECIFICATION FairSpec
CONSTANTS
  None = None
  Families = {f1, f2, f3}
  Runners = {f1, f2}
  Recurring = {f1, f2}
  Threads = {t1, t2}
  MaxReloads = 1
  MaxRegularFires = 1
  MaxMisfires = 1
INVARIANTS
  ReportsAccounted
  NoLostWakeup
  OneFamilyUndisturbed
PROPERTIES
  SerialSpec
  TurnsComeAndGo
CHECK_DEADLOCK FALSE
