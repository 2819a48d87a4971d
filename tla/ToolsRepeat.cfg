SPECIFICATION ToolsSpec
CONSTANTS
  MaxPatches = 3
  MaxDeliveries = 3
CHECK_DEADLOCK FALSE
INVARIANTS
  OneRunPerMessage
  RunningKeepsItsAttempt
