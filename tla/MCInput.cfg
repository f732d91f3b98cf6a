SPECIFICATION MCSpec
CONSTANTS
    Processes = {p1, p2}
    WindowSet = {w1, w2, w3}
    Borderless = {w3}
    Places = {left, middle}
    Centre = middle
    NIL = NIL
    RingSize = 3
    Chars = {c1, c2}
    ZERO = ZERO
    Events = {e1, e2}
    NULL = NULL
    MaxTyped = 5
    MaxPending = 3
INVARIANTS
    WindowsAreOwned
    KeysInOrder
PROPERTIES
    FocusMovesKeys
