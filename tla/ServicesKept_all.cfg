SPECIFICATION KeptSpec
CONSTANTS
  Conditions = {c1, c2}
  Kinds = {"falling", "stop", "rising", "points", "unpriced", "daily"}
  BackupRuns = {r1, r2}
  Callers = {t1, t2}
  Messages = {m1, m2}
  Threads = {q1}
  Refresher = worker
  Fresh = 1
  Stale = 2
  MaxLedger = 1
  MaxPrices = 1
  MaxFails = 1
  Settings = {s1, s2}
  Entries = {n1, n2}
  Inodes = {1, 2, 3}
  MaxSaves = 2
  LastDay = 3
  MaxEdits = 2
  MaxSnapshots = 1
  MaxCrashes = 1
  Retention = 3
  MaxBackups = 4
  MaxRestores = 1
  MaxDamage = 1
  MaxFaults = 1
  Prices = {94, 97, 100}
  Stop = 97
  Rearm = 3
  Retrigger = 2
  Cooldown = 1
  PerDay = 2
  TicksPerDay = 2
  KeepDays = 1
  MaxTime = 4
  MaxLost = 1
  MaxRetries = 2
  MinInterval = 1
  MaxAge = 3
  WarnCooldown = 2
SYMMETRY RunSymmetry
CHECK_DEADLOCK FALSE
INVARIANTS
  ArchivesVerify TotalsAreHonest SettingsKept HistoryAgrees
PROPERTIES
  AlertsAreNews MessagesHeld
