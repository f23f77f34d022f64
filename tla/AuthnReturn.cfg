SPECIFICATION FairSpec
CONSTANTS
    Malformed = Malformed
    Missing = Missing
    NoHash = NoHash
    Contents <- MCTwoContents
    Edits <- MCAnyChange
    MaxEdits = 2
    Modes <- MCModes
    Displays <- MCDisplays
    StoreFails <- MCStoreWorks
    Jwks <- MCJwks
    Audiences <- MCAudiences
    AllowMissingAud <- MCAllowMissingAud
    Tokens <- MCTokens
    NoClaim = NoClaim
    LowerCase <- MCLowerCase
    UpperCase <- MCUpperCase
CHECK_DEADLOCK FALSE
PROPERTY DocumentFollowsFile
