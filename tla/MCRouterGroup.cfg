SPECIFICATION Spec
CONSTANTS
    auth = auth
    log = log
    Nil = Nil
    HandlerFuncs = {auth, log}
    Lists <- MCLists
    Methods = {"GET"}
    Segments = {"a"}
    AbortIndex = 4
    Spare = 1
    MaxGroups = 3
    MaxArrays = 5
INVARIANTS
    MissChains
    ChainsFit
PROPERTIES
    RegistrationSpec
CHECK_DEADLOCK FALSE
