------------------------------- MODULE MCBTree ------------------------------
(* Three keys, two values and a root of MAX_KEYS = 2 entries, so that the  *)
(* full root, the shift of a delete and the failed create all occur.       *)
EXTENDS BTree

CONSTANTS k1, k2, k3, v1, v2

MCKeys == {k1, k2, k3}
MCValues == {v1, v2}
=============================================================================
