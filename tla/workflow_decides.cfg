SPECIFICATION Spec
CONSTANTS
  None = None
  InputPaths <- MCInputPaths
  Workflows <- MCWorkflows
INVARIANTS TypeOK DecisionReplayable StagesInOrder RetryAccounting StoredComplete TraceSupportsStatus
PROPERTIES ImplementsLifecycle EventuallyEnds
CHECK_DEADLOCK FALSE
