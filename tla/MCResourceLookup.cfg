SPECIFICATION LiveSpec
CONSTANTS
    Records = {r1, r2, r3}
    Keys = {k1, k2}
    Hash = 2
    Scopes = {x1}
    MaxSlots = 2
    MaxReaders = 1
    MaxPins = 1
    CellCount = 3
    Probe <- MCProbe
    Budgets = {3}
    MaxEpoch = 4
    MaxGeneration = 2
    None = None
    Empty = Empty
    Tombstone = Tombstone
CHECK_DEADLOCK FALSE
INVARIANTS
    HeldRecordsLive
    PinnedRecordsLive
    IndexFaithful
    HandlesNameOneKey
PROPERTIES
    MissesAreReal
    RetiredAreCollected
