SPECIFICATION FairSpec
CONSTANTS
    Surfaces <- MCSurfaces
    MaxHandlers = 2
CHECK_DEADLOCK FALSE
INVARIANT FailureIsReal
PROPERTY ShutdownEnds
