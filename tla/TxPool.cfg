CONSTANTS
  x = x
  y = y
  Tx <- PoolTx
  queue_limit = 3
  account_txs_limit = 2
  max_trans = 3
  Failures = {FALSE}
  MaxNonce = 2
  MaxImports = 2
  MaxBlock = 1
SPECIFICATION Spec
INVARIANTS IndexesAgree WithinLimits NeverAhead DropsOnlyDead
PROPERTIES PriceNeverFalls
CHECK_DEADLOCK FALSE
