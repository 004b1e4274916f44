CONSTANTS
    MaxRays = 5
    MAX_BATCH_SIZE = 2
    Answers <- MC_Answers
    Geoms <- MC_Geoms
    INVALID_ID = INVALID_ID
    NgClasses <- MC_NgClasses
    Garbage = Garbage
SPECIFICATION Spec
INVARIANT OrderPreserved
CHECK_DEADLOCK FALSE
