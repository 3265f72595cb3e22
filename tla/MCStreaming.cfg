SPECIFICATION Spec
CONSTANTS
    Capacity = 2
    EntryCapacity = 2
    Consumers = {c1}
    Units = {u1, u2}
    MaxGeneration = 2
    MaxRepeats = 0
SYMMETRY Symmetry
CHECK_DEADLOCK FALSE
INVARIANTS
    DemandFollowed
    ActiveIsWanted
    NothingLeftBehind
