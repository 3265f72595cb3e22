SPECIFICATION LiveTrackerSpec
CONSTANTS
    Slots = {s1, s2}
    Workers = {}
    Threads = {main, gpu}
    Owner = main
    Providers = {"RENDER"}
    Copies = {1}
    EdgeCapacity = 1
    MaxGeneration = 2
    MaxBatch = 1
    None = None
    Gpu = gpu
    Provider = "RENDER"
    Capacity = 2
    MaxFence = 2
INVARIANTS
    TicketsLive
    FencesInOrder
PROPERTIES
    FinalizedBeforeDependents
    TicketsSettle
