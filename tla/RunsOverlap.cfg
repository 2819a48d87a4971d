SPECIFICATION LifecycleSpec
CONSTANTS
  h1 = h1
  h2 = h2
  p1 = p1
  p2 = p2
  p3 = p3
  Handlers = {h1, h2}
  Operations = {p1, p2}
  Kinds <- ProgramKinds
  MaxAttempts = 2
  MaxExecutions = 2
SYMMETRY Symmetry
CHECK_DEADLOCK FALSE
INVARIANTS
  LifecycleTypeOK
  AttemptsHaveTheirEpoch
  CompletedWasEarned
  OutcomeMatchesState
  RerunIsAnswerable
PROPERTIES
  EndedIsFinal
