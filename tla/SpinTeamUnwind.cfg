\* A task panics on the calling thread.
CONSTANTS
  Callers = {c1}
  Workers = {w1, w2}
  MaxTasks = 2
  MaxLoops = 1
  Timeouts = FALSE
  MaxPanics = 1
SPECIFICATION Spec
CHECK_DEADLOCK FALSE
INVARIANTS
  JobOutlivesWorkers
