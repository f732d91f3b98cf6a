CONSTANTS
    Graphics = {g1, g2, g3}
    Screen = Screen
    NULL = NULL
    ScreenWidth = 3
    ScreenHeight = 2
    Word = 16
    Big = 64
    FrameWidth = 1
    FrameHeight = 1
    FrameParts = 2
    TitleHeight = 1
    Brushes <- MCBrushes
    Regions <- MCRegions
    Spots <- MCSpots
    Extents <- MCExtents
    Targets <- MCTargets
    MaxZ = 12
SPECIFICATION GraphicsSpec
CHECK_DEADLOCK FALSE
VIEW WithoutLast
SYMMETRY Alike
CONSTRAINT Small
INVARIANTS
    TreeIsSound
    RegionShowsTheTree
    ClickHitsTheTopmost
PROPERTIES
    WindowsLeaveNoTrace
