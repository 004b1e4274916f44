CONSTANTS
    W = 4
    MaxVertices = 15
    MaxTriangles = 6
SPECIFICATION Spec
INVARIANT VertexFetchExact
CHECK_DEADLOCK FALSE
