\* Five pages over three rows: pages finish out of order, a row is refilled
\* while others decode, and answers pile up behind a slow page.
CONSTANTS
  Pages = 5
  Rows = 3
  MaxNewTokens = 2
  Drafting = TRUE
SPECIFICATION FairSpec
INVARIANTS
  TypeOK
  EveryPageAccounted
  NeverIdles
  ArrivesOnce
  RowsKeepTheirSession
  NoCacheLeak
  AloneDraftsFromAll
PROPERTIES
  KeepsStreamPromise
  AnswersEveryPage
