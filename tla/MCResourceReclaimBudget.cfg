SPECIFICATION LiveSpec
CONSTANTS
    Records = {r1, r2, r3}
    Keys = {k1}
    Hash = 0
    Scopes = {x1}
    MaxSlots = 1
    MaxReaders = 1
    MaxPins = 1
    CellCount = 3
    Probe <- MCProbe
    Budgets = {1}
    MaxEpoch = 4
    MaxGeneration = 2
    None = None
    Empty = Empty
    Tombstone = Tombstone
CHECK_DEADLOCK FALSE
PROPERTY RetiredAreCollected
