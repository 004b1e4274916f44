CONSTANTS
    Geoms <- MC_Geoms
    Prims <- MC_Prims
    MaxCrossings = 3
    MaxHits = 4
    TieJitter = FALSE
    AdjacentTraversal = FALSE
    INVALID_ID = INVALID_ID
SPECIFICATION Spec
INVARIANT ParityExact
CHECK_DEADLOCK FALSE
