CONSTANTS
  OS_LINUX = FALSE
  MaxLedger = 5
  MaxCrashes = 5
SPECIFICATION StoreSpec
INVARIANTS Consistent ProofOfLast NeverForgets RestartsAfterGenesis
CHECK_DEADLOCK FALSE
