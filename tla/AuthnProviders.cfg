SPECIFICATION FairSpec
CONSTANTS
    Malformed = Malformed
    Missing = Missing
    NoHash = NoHash
    Contents <- MCContents
    Edits <- MCForward
    MaxEdits = 2
    Modes <- MCModes
    Displays <- MCDisplays
    StoreFails <- MCReloadFails
    Jwks <- MCJwks
    Audiences <- MCAudiences
    AllowMissingAud <- MCAllowMissingAud
    Tokens <- MCTokens
    NoClaim = NoClaim
    LowerCase <- MCLowerCase
    UpperCase <- MCUpperCase
CHECK_DEADLOCK FALSE
INVARIANT HealthyMeansKeys
INVARIANT OneAnswer
INVARIANT AcceptedMeansTrusted
PROPERTY ReloadKeepsRequired
PROPERTY DocumentFollowsFile
