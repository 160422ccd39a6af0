SPECIFICATION FairSpec
CONSTANTS
  Callers = {t1, t2}
  Messages = {m1, m2}
  Columns = {c1, c2}
  Requests = {q1}
  Refresher = worker
CHECK_DEADLOCK FALSE
PROPERTIES
  MessagesSettle MigrationFinishes RunsSettle PricesShow
