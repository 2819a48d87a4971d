SPECIFICATION NodesSpec
CONSTANTS
    NumIntents = 2
    NumSlaves = 2
    MaxNodes = 2
    MaxLiveNodes = 2
    MaxAttempts = 2
    AllowReassignment = TRUE
    MaxRuntimes = 1
    MaxFaults = 3
INVARIANTS
    NodesTypeOK
    OneLiveAttempt
    BudgetIsNearlyKept
    CompletedRunHasResults
CHECK_DEADLOCK FALSE
