SPECIFICATION Spec
CONSTANTS
    Slots = {s1, s2, s3}
    Workers = {w1, w2}
    Threads = {main}
    Owner = main
    Providers = {"RENDER"}
    Copies = {1, 2}
    EdgeCapacity = 2
    MaxGeneration = 2
    MaxBatch = 2
    None = None
SYMMETRY Symmetry
INVARIANTS
    CountersExact
    EdgesExact
    PrerequisitesHonoured
    BlockedHasLiveCause
    RunsOnceOnItsOwner
    ReadyWorkIsWatched
    ShutdownLeavesNothing
