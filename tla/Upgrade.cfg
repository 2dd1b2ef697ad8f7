CONSTANTS
    a = a
    b = b
    c = c
    d = d
    Node = {a, b, c, d}
    MaxRecords = 2
    Validator = {a, b, c, d}
    Faulty = {d}
    MaxVersion = 2
    Scenario <- Scenarios
SPECIFICATION Spec
INVARIANTS   UpgradesRaise 
PROPERTIES CrossesOnce
CHECK_DEADLOCK FALSE
