SPECIFICATION Spec
CONSTANTS
  None = None
  InputPaths <- MCInputPaths
  Workflows <- MCWorkflows
INVARIANT ContextStored
CHECK_DEADLOCK FALSE
