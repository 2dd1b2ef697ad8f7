CONSTANTS
  a = a
  b = b
  Content = {a, b}
  Fresh <- FreshByView
  N = 3
  Live = {0, 1, 2}
  Impatient = {1, 2}
  CheckOutcomes = {TRUE}
  ckp_interval = 10
  MaxView = 2
  MaxLedger = 1
  MaxRestarts = 0
SPECIFICATION Spec
INVARIANTS Agreement
CHECK_DEADLOCK FALSE
