SPECIFICATION Spec
CONSTANTS
    Params <- MCParams
    CatchAlls <- MCCatchAlls
    Letters <- MCLetters
    Routes <- Segments
    Paths <- SomePaths
    Upper <- MCUpper
    CasedPaths <- MCCasedPaths
    MaxRoutes = 2
    MaxRounds = 9
INVARIANTS
    NeverInvalidNode
