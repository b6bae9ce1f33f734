SPECIFICATION Spec
CONSTANTS
    Others = {"a", "b"}
    Paths <- MCPaths
INVARIANTS
    Cleaned
    InBounds
