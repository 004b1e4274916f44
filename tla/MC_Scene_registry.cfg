CONSTANTS
    Meshes <- MC_Meshes
    MaxGeometries = 3
    RegistryMayFail = TRUE
    NoIndex = NoIndex
    NoQuery = NoQuery
SPECIFICATION Spec
INVARIANT RegistryCoversIndex
