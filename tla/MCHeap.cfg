SPECIFICATION Spec
CONSTANTS
    Total = 5
    Slack = 1
    MaxRequest = 6
    Word = 8
INVARIANTS
    TableMatchesLive
PROPERTIES
    DriftOnlyByShrinkOrOverrun
    AllocatorSpec
