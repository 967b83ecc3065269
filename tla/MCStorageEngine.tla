--------------------------- MODULE MCStorageEngine --------------------------
(* Three keys, two values and a root of MAX_KEYS = 2 entries behind an     *)
(* engine whose allocations may each fail.                                 *)
EXTENDS StorageEngine

CONSTANTS k1, k2, k3, v1, v2

MCKeys == {k1, k2, k3}
MCValues == {v1, v2}
=============================================================================
