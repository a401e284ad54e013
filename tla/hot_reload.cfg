SPECIFICATION Spec
CONSTANTS
  c1 = c1
  c2 = c2
  c3 = c3
  c4 = c4
  a = a
  b = b
  d = d
  w = w
  Calls <- MCCalls
  WorkflowIds <- MCWorkflowIds
  Workers <- MCWorkers
  WorkflowOf <- MCWorkflowOf
  WorkerOf <- MCWorkerOf
  Deployed <- MCDeployed
  MaxSize = 2
  MaxEdits = 1
  MaxRestarts = 1
SYMMETRY Twins
INVARIANT PicksUpChange
CHECK_DEADLOCK FALSE
