SPECIFICATION SpecOne
CONSTANTS
  Keys = {k1, k2}
  Threads = {c1, c2}
  Workers <- OneWorkerEach
  Limit = 1
  MaxJobs = 3
  Operators = {e1, e2}
  Occurrences = {d1}
  TransfersMade = {f1}
  None = None
  Fallible = {"in", "undo", "link", "post", "resolve", "delete", "sibling"}
  MaxFaults = 1
  MaxCrashes = 1
  Bills = {b1}
  Sweeps = {s1, s2}
  Price = 5
  Faces = {5, 6, 7}
  FailingDeals = {"ticker", "create", "undo", "post", "mark", "resnapshot", "edit", "correct", "buy", "sell", "row"}
  Ops = {e1, e2, p3}
  LastDate = 2
  Suspect = {1, 2}
  Quotes = {q1}
  Fixes = {v1}
  Gone = Gone
  NoRepair = NoRepair
  Removed = Removed
  MaxFailures = 1
  Quantities = {1, 3}
  Prices = {1, 4}
  Fees = {1}
  Earnings = {2}
  Movements <- Withdrawn
  MaxRows = 4
  Tickers = {a, b, c, d}
  Sectors = {x, y}
  Params <- Settings
  MaxHeld = 3
SYMMETRY Names
CHECK_DEADLOCK FALSE
INVARIANTS
  FlightsServed ShortlistIsBest BooksBalance
PROPERTIES
  AcceptedIsCarriedOut PostedWhole BooksAgreeTogether RepairsReplaceOnlyTheirs
