SPECIFICATION FairSpec
CONSTANTS
    r1 = r1
    Never = Never
    Requests <- MCRequests
    Lifetimes <- MCLifetimes
    Expiries <- MCExpiries
    MinRenew = 2
    FirstBackoff = 1
    MaxBackoff = 2
    MinPause = 1
    MaxTime = 2
    MaxTokens = 2
INVARIANT NoLostReload
PROPERTY TokenReachesRequests
PROPERTY RenewWakesWriter
