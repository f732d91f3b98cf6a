SPECIFICATION Spec
CONSTANTS
    RingSize = 3
    Chars = {c1, c2}
    ZERO = ZERO
    Events = {e1, e2}
    NULL = NULL
    MaxTyped = 5
    MaxPending = 3
INVARIANTS
    EventsInOrder
