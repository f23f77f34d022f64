CONSTANTS
    p1 = p1
    RunLoop = RunLoop
    NoOne = NoOne
    NeedsToken = TRUE
    Callers <- MCCallers
    Modes <- MCModes
    StoreFaults <- MCStores
    Broken = {1}
    MaxVersion = 2
SPECIFICATION FairSpec
INVARIANTS
    PullNowFresh
    DocumentsCorrespond
PROPERTIES
    ImplementsReplica
    CatchesUp
CHECK_DEADLOCK FALSE
