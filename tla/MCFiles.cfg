CONSTANTS
    ClusterBytes = 2
    ClusterEntries = 2
    Processes = {p1, p2}
    MaxDescriptors = 3
    Primary = 1
    NoFilesystem = NoFilesystem
    NoDrive = NoDrive
    Volumes <- MCVolumes
    Requests <- MCRequests
    Sizes = {0, 1, 3}
    Counts = {1, 2}
    MaxPos = 6
SPECIFICATION Spec
CHECK_DEADLOCK FALSE
VIEW WithoutAnswer
SYMMETRY Alike
INVARIANTS
    DescriptorsAreHeld
PROPERTIES
    ReadIsTheFile
    OpensThePath
