SPECIFICATION FairSpec
CONSTANTS
    AbortIndex = 4
    MaxInt8 = 9
    Chains <- MCChains3
    NoRoute <- MCNoRoute
    MaxNextCalls = 1
INVARIANTS
    IndexFits
    InOrder
    NoneSkipped
    IInv
    IsAbortedTruthful
PROPERTIES
    PipelineSpec
    Ends
