SPECIFICATION FairRequestSpec
CONSTANTS
    AbortIndex = 4
    MaxInt8 = 9
    Chains <- MCChains
    NoRoute <- MCNoRoute
    MaxNextCalls = 1
    RouteChains <- MCRoutes
    ErrorChains <- MCErrors
    ErrorCode = 404
    Codes <- Final
    CanHijack = TRUE
    CanFlush = TRUE
    MaxBody = 2
    MaxReentry = 1
INVARIANTS
    Answered
    StatusReported
    RecoveryAnswers500
    Resumes
PROPERTIES
    AbortStopsRequest
    RequestEnds
