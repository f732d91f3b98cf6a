SPECIFICATION Spec
CONSTANTS
    Tasks = {t1, t2, t3}
    NULL = NULL
    Polling = Polling
    Halted = Halted
    MiddleExits = TRUE
    BadPointers = FALSE
INVARIANTS
    EndedNeverRuns
CHECK_DEADLOCK FALSE
