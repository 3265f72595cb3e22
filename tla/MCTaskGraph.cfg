SPECIFICATION Spec
CONSTANTS
    AccessLists <- MCAccessLists
    PassCapacity = 3
    AccessCapacity = 4
    EdgeCapacity = 3
    MaxExplicit = 1
INVARIANTS
    CompileIsExact
    ConflictsExclude
    ReportsAreTrue
