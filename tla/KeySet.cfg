SPECIFICATION FairSpec
CONSTANTS
    p1 = p1
    p2 = p2
    w1 = w1
    w2 = w2
    m1 = m1
    m2 = m2
    Down = Down
    Loader = Loader
    NoOne = NoOne
    Unfetched = Unfetched
    Failed = Failed
    Providers <- MCProviders
    Documents <- MCDocuments
    Refreshers <- MCRefreshers
    MaxChanges = 2
    Stamps = 1
CHECK_DEADLOCK FALSE
PROPERTY KeysConverge
INVARIANT KidNamesOneKey
PROPERTY KeysMoveForward
