SPECIFICATION LoadSpec
CONSTANTS
    Data = {d1, d2}
    MaxStaging = 1
    MaxBlocks = 6
    Keys = {"a", "b", "c"}
    MaxResources = 3
    MaxEdges = 3
    MaxEvents = 2
    Publications <- MCPublications
    Requests <- MCRequests
    MaxChanges = 4
CHECK_DEADLOCK FALSE
INVARIANTS
    MemoryExact
    DependenciesAcyclic
    NothingUnnoticed
    ValidPlanIsCurrent
SYMMETRY Symmetry
