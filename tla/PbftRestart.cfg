CONSTANTS
  a = a
  b = b
  Content = {a, b}
  Fresh <- FreshAny
  N = 4
  Live = {0, 1, 2}
  Impatient = {0, 1, 2}
  CheckOutcomes = {TRUE}
  ckp_interval = 10
  MaxView = 1
  MaxLedger = 1
  MaxRestarts = 1
SPECIFICATION Spec
INVARIANTS  CommitsOnce
 
CHECK_DEADLOCK FALSE
