SPECIFICATION MemorySpec
CONSTANTS
    Total = 4
    Slack = 0
    MaxRequest = 2
    Word = 1
    Processes = {p1, p2}
    KERNEL = KERNEL
    NOBODY = NOBODY
    PageSize = 4
    MaxWild = 1
    MaxKernel = 1
    MaxEntries = 2
CHECK_DEADLOCK FALSE
CONSTRAINT FewOnceCareless
SYMMETRY Alike
VIEW WithoutReturn
INVARIANTS
    HeldIsOwned
    HeldIsMapped
    CheckAcceptsTheHeld
PROPERTIES
    ForeignPagesWereOwn
