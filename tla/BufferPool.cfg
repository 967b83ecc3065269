\* buffer_pool.c with three frames and three callers.
CONSTANTS
    h1 = h1
    h2 = h2
    h3 = h3
    PoolSize = 12288
    Holders <- MCHolders
SPECIFICATION Spec
SYMMETRY HolderSymmetry
INVARIANTS
    TypeOK
    FreeListExact
    ExclusivePin
\* After buffer_pool_destroy, or a failed buffer_pool_create, the pool takes
\* no further step.
CHECK_DEADLOCK FALSE
