\* Five pages: the queue, the prefetch thread and the second pool are all full
\* while a page decodes and one is left to read.
CONSTANTS
  Pages = 5
  PREFETCH = 2
SPECIFICATION FairSpec
INVARIANTS
  InFlightBound
  EndsAsItSays
PROPERTIES
  RunReturns
  KeepsStreamPromise
