SPECIFICATION Spec
CONSTANTS
  Tickers = {"A", "B", "C"}
  Portfolios <- OneList
  Universes <- OneList
  Targets <- OneList
  Samples <- TwoLists
  Imports <- OneList
  Starters = {"p", "q"}
  Scopes <- JobSets
  MaxDay = 2
CHECK_DEADLOCK FALSE
PROPERTIES WholeListWorked
