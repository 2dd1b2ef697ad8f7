CONSTANTS
    Key <- TheKeys
    Value = {v, w}
    Branch = {0, 1}
    Nil = Nil
    kept = 1
    loaded = 0
SPECIFICATION Spec
INVARIANTS MemoryIsTree RootIsCanonical StoreIsCanonical ReadsOldOrNew ListsStored
SYMMETRY Symmetry
