\* storage_engine.c over btree.c under callers that put only absent keys.
CONSTANTS
    k1 = k1
    k2 = k2
    k3 = k3
    v1 = v1
    v2 = v2
    None = None
    Keys <- MCKeys
    Values <- MCValues
    MAX_KEYS = 2
    PutNewKeysOnly = TRUE
SPECIFICATION Spec
INVARIANTS
    TypeOK
    EngineOwnsComponents
PROPERTY KVRefinement
\* After storage_engine_cleanup no call is made on the engine.
CHECK_DEADLOCK FALSE
