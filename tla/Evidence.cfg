CONSTANTS
    Book <- MCBook
    Scenarios <- MCScenarios
    Outline <- MCOutline
SPECIFICATION Spec
INVARIANTS TypeOK ClosureIsTrue ChainAgrees LaunchedOnce
PROPERTY RecordsStay
CHECK_DEADLOCK FALSE
