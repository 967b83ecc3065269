\* btree.c when a caller puts a key that is already present.
CONSTANTS
    k1 = k1
    k2 = k2
    k3 = k3
    v1 = v1
    v2 = v2
    None = None
    Keys <- MCKeys
    Values <- MCValues
    MAX_KEYS = 2
    PutNewKeysOnly = FALSE
SPECIFICATION Spec
PROPERTY KVRefinement
\* After btree_destroy no call is made on the tree.
CHECK_DEADLOCK FALSE
