SPECIFICATION NodesSpec
CONSTANTS
    NumIntents = 2
    NumSlaves = 2
    MaxNodes = 2
    MaxLiveNodes = 2
    MaxAttempts = 3
    AllowReassignment = TRUE
    MaxRuntimes = 1
    MaxFaults = 1
PROPERTIES
    ReassignmentIsLocal
CHECK_DEADLOCK FALSE
