SPECIFICATION LiveSpec
CONSTANTS
    Slots = {s1, s2}
    Workers = {w1}
    Threads = {main, side}
    Owner = main
    Providers = {"RENDER"}
    Copies = {1}
    EdgeCapacity = 1
    MaxGeneration = 2
    MaxBatch = 1
    None = None
INVARIANT SleepersWaitForLiveTasks
PROPERTIES
    WaitersReturn
    TasksSettle
    ShutdownCompletes
