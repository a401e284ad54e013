SPECIFICATION Spec
CONSTANTS
  c1 = c1
  c2 = c2
  c3 = c3
  c4 = c4
  r1 = r1
  r2 = r2
  w1 = w1
  w2 = w2
  NoExecution = NoExecution
  Calls <- MCFewCalls
  Requests <- MCRequests
  Workers <- MCWorkers
  RequestOf <- MCRequestOf
  WorkerOf <- MCWorkerOf
  RedisConfigured = TRUE
  SingleWriter = FALSE
  MaxCrashes = 0
  MaxOutages = 0
  MaxExpiries = 0
INVARIANT DuplicatesAnswered
CHECK_DEADLOCK FALSE
