SPECIFICATION Spec
CONSTANTS
    Params <- MCParams
    CatchAlls <- MCCatchAlls
    Letters <- MCLetters
    Routes <- Segments
    Paths <- LongPaths
    Upper <- MCUpper
    CasedPaths <- MCCasedPaths
    MaxRoutes = 3
    MaxRounds = 9
INVARIANTS
    Complete
