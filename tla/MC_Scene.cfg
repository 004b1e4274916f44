CONSTANTS
    Meshes <- MC_Meshes
    MaxGeometries = 3
    RegistryMayFail = FALSE
    NoIndex = NoIndex
    NoQuery = NoQuery
SPECIFICATION Spec
INVARIANT CommittedIndexCurrent
INVARIANT QueryFresh
INVARIANT RegistryCoversIndex
