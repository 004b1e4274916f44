CONSTANTS
    Triangles <- MC_Triangles
    MaxDist = 2
    INVALID_ID = INVALID_ID
    Garbage = Garbage
SPECIFICATION Spec
INVARIANT ClosestIsFirstMinimal
CHECK_DEADLOCK FALSE
