SPECIFICATION WindowsSpec
CONSTANTS
    Processes = {p1, p2}
    WindowSet = {w1, w2, w3}
    Borderless = {w3}
    Places = {left, middle}
    Centre = middle
    NIL = NIL
PROPERTIES
    ClickedIsTopmost
