SPECIFICATION Spec
CONSTANTS
    Params <- MCParams
    CatchAlls <- MCCatchAlls
    Letters <- MCLetters
    Routes <- Cased
    Paths <- SomePaths
    Upper <- MCUpper
    CasedPaths <- MCCasedPaths
    MaxRoutes = 4
    MaxRounds = 9
INVARIANTS
    Sound
    BestFound
    OrderIndependent
    WellFormed
    NoRedirectLoop
    FixedFound
    CompleteForOneWildcard
