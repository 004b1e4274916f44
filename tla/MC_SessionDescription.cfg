CONSTANTS
    Requests = {r1, r2, r3}
SPECIFICATION Spec
INVARIANT PromiseSetOnce
PROPERTY PromiseSettled
CHECK_DEADLOCK FALSE
