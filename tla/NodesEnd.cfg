SPECIFICATION FairNodesSpec
CONSTANTS
    NumIntents = 2
    NumSlaves = 2
    MaxNodes = 2
    MaxLiveNodes = 1
    MaxAttempts = 2
    AllowReassignment = TRUE
    MaxRuntimes = 2
    MaxFaults = 2
INVARIANTS
    LiveNodesAreLimited
    OneResult
PROPERTIES
    LostStaysLost
    RuntimeEnds
CHECK_DEADLOCK FALSE
