SPECIFICATION Spec
CONSTANTS
    Workers = {w1}
    c = c
    d = d
    Dot = Dot
    NoNode = NoNode
    Names <- MCNames
    Paths <- MCPaths
    Routes <- MCRoutes
INVARIANTS TypeOK CallbackIsForPath RegisteredIsFound
CHECK_DEADLOCK FALSE
