SPECIFICATION PipelineSpec
CONSTANTS
    All = "ALL"
    True = True
    False = False
    NoCondition = NoCondition
    Unparsable = Unparsable
    Trivial = Trivial
    AuthError = AuthError
    NoAnswer = NoAnswer
    Predicates = {"p", "q"}
    ResourceTypes <- MCResourceTypes
    Operations <- MCOperations
    Roles <- MCRoles
    Conditions <- MCConditions
    Nodes <- MCNodes
    Refs <- WalkedRefs
    Height <- TreeHeight
    Converted <- ConvertedPolicies
    Statistics <- ConvertedStats
    Requests <- MCRequests
    Lower <- MCLower
    Numerals <- MCNumerals
    Matching <- MCMatching
    PipValues <- MCPipValues
    Key <- MCKey
    Unquotable <- MCUnquotable
    PredicateType <- MCPredicateType
    Sources <- MCSources
    AskedBy <- MCAskedBy
    CalledBy <- MCCalledBy
    Pinned = TRUE
    PlaceholderKeys <- MCPlaceholderKeys
    Identity <- MCIdentity
    JsonTexts <- MCJsonTexts
    Spelling <- MCSpelling
    Segments <- MCSegments
    JsonExtract <- ExtractedAt
    UnionBelow <- UnionOfObjects
INVARIANT DecisionMeansPolicies
INVARIANT FailedPipNeverGrants
INVARIANT ConditionMeansText
INVARIANT PulledMeansSource
INVARIANT ParsedAsWritten
INVARIANT ActivationIsEnough
INVARIANT WindowNeverOpens
INVARIANT PipsMeanDeclared
INVARIANT DenialNamesCause
INVARIANT BulkMeansSingles
CHECK_DEADLOCK FALSE
