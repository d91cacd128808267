SPECIFICATION Spec
CONSTANTS
    Fragments <- LoopFragments
    Geometries <- LoopGeometries
    Levels <- LoopLevels
    Probe = 4
    MaxEvents = 3
    MaxResizes = 1
INVARIANT FeedReturns
CHECK_DEADLOCK FALSE
