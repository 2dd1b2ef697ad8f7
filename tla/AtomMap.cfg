CONSTANTS
    Key = {a, b}
    MaxValue = 1
    NoEntry = NoEntry
    MaxDepth = 2
SPECIFICATION Spec
INVARIANTS NoAlias
PROPERTIES ChangesOnlyAtCommit Transactional
SYMMETRY Symmetry
