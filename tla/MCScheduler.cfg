SPECIFICATION Spec
CONSTANTS
    Tasks = {t1, t2, t3, t4}
    NULL = NULL
    Polling = Polling
    Halted = Halted
    MiddleExits = FALSE
    BadPointers = TRUE
INVARIANTS
    ListHoldsTheLive
    FocusExists
    EndedNeverRuns
    RegistersAreOwn
PROPERTIES
    EveryTaskRuns
CHECK_DEADLOCK FALSE
