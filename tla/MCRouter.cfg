SPECIFICATION Spec
CONSTANTS
    Params <- MCParams
    CatchAlls <- MCCatchAlls
    Letters <- MCLetters
    GET = GET
    POST = POST
    PUT = PUT
    Methods = {GET, POST, PUT}
    Routes <- Segments
    Paths <- SomePaths
    MaxRoutes = 3
    MaxRounds = 9
    RedirectTrailingSlash = TRUE
    HandleMethodNotAllowed = TRUE
SYMMETRY Symmetry
INVARIANTS
    OwnLookupFits
    RouteGiven
    AllowComplete
