SPECIFICATION LoadSpec
CONSTANTS
    Data = {d1, d2}
    MaxStaging = 2
    MaxBlocks = 9
    Keys = {"a"}
    MaxResources = 1
    MaxEdges = 0
    MaxEvents = 1
    Publications <- Plain
    Requests <- Plain
    MaxChanges = 4
CHECK_DEADLOCK FALSE
PROPERTY OutdatedLoadsRejected
