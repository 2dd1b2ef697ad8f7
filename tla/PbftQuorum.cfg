CONSTANTS
  a = a
  b = b
  Content = {a, b}
  Fresh <- FreshByView
  N = 3
  Live = {0, 1, 2}
  Impatient = {}
  CheckOutcomes = {TRUE, FALSE}
  ckp_interval = 2
  MaxView = 0
  MaxLedger = 2
  MaxRestarts = 0
SPECIFICATION Spec
INVARIANTS ClosedIsCommitted ExecutedIsCommitted
CHECK_DEADLOCK FALSE
