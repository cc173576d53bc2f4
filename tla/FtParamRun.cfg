SPECIFICATION Spec
CONSTANTS
    Params = {mac, freq}
    Values = {v1, v2}
    Erased = erased
    None = none
    Spaced = TRUE
    MaxFaults = 3
INVARIANTS SuccessIsDouble
PROPERTIES NeverLost AtomicUpdate
