\* Five pages: more than the queue, the reader's hand and the second pool hold.
CONSTANTS
  Pages = 5
  PREFETCH = 2
SPECIFICATION FairFeedSpec
INVARIANTS
  TakesItsOwn
PROPERTIES
  PollingSuffices
  ScopeReturns
