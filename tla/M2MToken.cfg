SPECIFICATION FairSpec
CONSTANTS
    t1 = t1
    t2 = t2
    None = None
    Tokens <- MCTokens
    Sources <- MCSources
    Lifetimes <- MCLifetimes
    RenewBefore = 5
    InitialBackoff = 2
    MaxBackoff = 5
    Second = 1
    MaxDelay = 2
    MaxEdits = 3
CHECK_DEADLOCK FALSE
INVARIANT RenewsInTime
PROPERTY TokenStaysAlive
PROPERTY FileFollowed
