SPECIFICATION VerifierSpec
CONSTANTS
    k8s = k8s
    w1 = w1
    c1 = c1
    c2 = c2
    m1 = m1
    m2 = m2
    Down = Down
    Loader = Loader
    NoOne = NoOne
    Unfetched = Unfetched
    Failed = Failed
    Unreadable = Unreadable
    Absent = Absent
    Bad = Bad
    NoToken = NoToken
    NoKey = NoKey
    Providers <- MCProviders
    Documents <- MCDocuments
    Refreshers <- MCRefreshers
    MaxChanges = 1
    Stamps = 2
    Tokens <- MCTokens
    Callers <- MCCallers
    KeyAlgs <- MCKeyAlgs
    Algorithms <- MCAlgorithms
    Audiences <- MCAudiences
    AllowMissingAud <- MCAllowMissingAud
    Kubernetes <- MCKubernetes
    Topologies <- MCTopologies
    OwnNamespace <- MCOwnNamespace
    Leeway = 1
    CacheSize = 1
    MaxTime = 1
SYMMETRY MCSymmetry
CHECK_DEADLOCK FALSE
INVARIANT AcceptedAsIfChecked
PROPERTY AcceptedIsAdmitted
