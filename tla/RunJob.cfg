\* Two pages, the second of which may fail to decode; three runs, each with or
\* without --escalate, and a power loss between two of them.
CONSTANTS
  Inputs = 2
  BadPages = {2}
  MaxRuns = 3
  MaxOutages = 1
SPECIFICATION Spec
CHECK_DEADLOCK FALSE
INVARIANTS
  OkMeansRecorded
  OwnOutputAccepted
  LoadsOnce
PROPERTIES
  RecordsStay
  ResumeAddsMissingOnly
