SPECIFICATION FairSpec
CONSTANTS
  Gone = Gone
  Nothing = Nothing
  Removed = Removed
  None = None
  Ops = {p1, p2}
  Kinds = {"repair", "remove"}
  LastDate = 3
  Suspect = {1}
  Quotes = {q1}
  Fixes = {v1}
  Refreshing = TRUE
  MaxFailures = 1
  MaxCrashes = 1
PROPERTIES
  RepairsPrevail
CHECK_DEADLOCK FALSE
