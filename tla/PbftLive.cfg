CONSTANTS
  a = a
  b = b
  Content = {a, b}
  Fresh <- FreshByView
  N = 6
  Live = {2, 3, 4, 5}
  Impatient = {2, 3, 4, 5}
  CheckOutcomes = {TRUE}
  ckp_interval = 10
  MaxView = 2
  MaxLedger = 1
  MaxRestarts = 0
SPECIFICATION LiveSpec
PROPERTIES EveryoneCloses
CHECK_DEADLOCK FALSE
