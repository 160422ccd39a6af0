SPECIFICATION Spec
CONSTANTS
  Tickers = {"A", "B", "C"}
  Portfolios <- OneList
  Universes <- OneList
  Targets <- OneList
  Samples <- TwoLists
  Imports <- OneList
  Starters = {"p", "q"}
  Scopes <- JobSets
  MaxDay = 2
INVARIANTS CompleteMeansAll StagesOrderedApart
CHECK_DEADLOCK FALSE
PROPERTIES BegunIsFinished
