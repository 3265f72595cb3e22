SPECIFICATION FairSpec
CONSTANTS
    Capacity = 1
    EntryCapacity = 1
    Consumers = {c1}
    Units = {u1, u2}
    MaxGeneration = 3
    MaxRepeats = 1
CHECK_DEADLOCK FALSE
PROPERTIES
    ImplementsProvider
    CancelledAreReleased
    WantedAreServed
