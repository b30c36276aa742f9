\* Two callers compete for a team of two workers; a park may time out, but
\* never has to; tasks may panic on either side.
CONSTANTS
  Callers = {c1, c2}
  Workers = {w1, w2}
  MaxTasks = 2
  MaxLoops = 2
  Timeouts = TRUE
  MaxPanics = 2
SPECIFICATION FairSpec
INVARIANTS
  TypeOK
  JobOutlivesWorkersUnlessUnwound
  LoopIsComplete
PROPERTIES
  LoopsReturn
  WorkersExit
