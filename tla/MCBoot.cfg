\* Pages of 16 bytes, tables of 8 entries, up to 78 pages of memory, two processes.
CONSTANTS
    PageSize = 16
    Radix = 8
    TableAddress = 64
    HeapAddress = 80
    MinimumSize = 128
    LowMemory = 16
    BootMapped = 2048
    KernelLocation = 16
    MapLocation = 48
    KERNEL = kernel
    Processes = {p1, p2}
    ProgramPage = 2
    StackBlocks = 2
    Slots = 2
    Funcs = 2
    PEACH = peach
    UNUSED = unused
    UNREADABLE = unreadable
    MaxStrings = 2
    Machines <- MachineSet
SPECIFICATION Spec
INVARIANTS
    HeapIsUsable
    HeapIsMapped
    DevicesFound
    DisksAreReachable
PROPERTIES
    BootSucceeds
    BootEnds
CHECK_DEADLOCK FALSE
