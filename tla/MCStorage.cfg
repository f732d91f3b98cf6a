SPECIFICATION MCSpec
CONSTANTS
    SectorSize = 3
    BufferSize = 4
    BucketSectors = 2
    Buckets = 2
    RingSize = 2
    IntMax = 63
    DeviceSectors = 12
    StartLba = 6
    EndLba = 9
    MaxPos = 6
    MaxTotal = 4
    CrossingReads = TRUE
    Failures = TRUE
    Size = 3
    MaxWork = 2
    MaxCommands = 7
INVARIANTS
    StaysInPartition
    ReadIsExact
    CompletionsOnceInOrder
    CommandsOnceInOrder
    AnswerIsOwn
CHECK_DEADLOCK FALSE
