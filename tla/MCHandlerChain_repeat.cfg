SPECIFICATION Spec
CONSTANTS
    AbortIndex = 4
    MaxInt8 = 9
    Chains <- MCChains1
    NoRoute <- MCNoRoute
    MaxNextCalls = 10
INVARIANTS
    InOrder
PROPERTIES
    AbortStops
