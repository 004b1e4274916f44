CONSTANTS
    Geoms <- MC_Geoms
    Prims <- MC_Prims
    MaxCrossings = 3
    MaxHits = 4
    TieJitter = TRUE
    AdjacentTraversal = FALSE
    INVALID_ID = INVALID_ID
SPECIFICATION Spec
INVARIANT CountNoLoss
INVARIANT CountExactWhenAdjacent
CHECK_DEADLOCK FALSE
