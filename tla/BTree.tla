------------------------------- MODULE BTree -------------------------------
(***************************************************************************)
(* src/cgo/btree.c.  The tree is a single leaf root: keys[i], values[i]    *)
(* for i < num_keys, appended by btree_insert, found by a linear scan in   *)
(* btree_search and removed with a shift-down by btree_delete; children    *)
(* are never used.  The root's entries are the sequence entries, with      *)
(* num_keys = Len(entries).  Keys and values are model values: strcmp on   *)
(* NUL-terminated copies is equality, and the strcpy lengths are not       *)
(* modelled.  last records each call and its return value, as in KVStore. *)
(*                                                                         *)
(* PutNewKeysOnly restricts callers to putting a key that is not present   *)
(* (deleting it first to replace its value).                               *)
(***************************************************************************)
EXTENDS Integers, Sequences, SequencesExt

CONSTANTS Keys, Values, None, MAX_KEYS, PutNewKeysOnly

ASSUME /\ None \notin Keys \union Values
       /\ MAX_KEYS \in Nat \ {0}
       /\ PutNewKeysOnly \in BOOLEAN

VARIABLES
    tree,      \* "live", "failed" (btree_create returned NULL), "destroyed"
    entries,   \* root->keys/values[0 .. num_keys-1] as <<[key, val]>>
    last       \* the last call, its argument and return

vars == <<tree, entries, last>>

Call(op, k, v, r) == [op |-> op, key |-> k, val |-> v, ret |-> r]

\* Index (1-based) of the first i with strcmp(root->keys[i], key) == 0, or 0.
FirstMatch(k) == SelectInSeq(entries, LAMBDA e : e.key = k)

(***************************************************************************)
(* btree_create (30-44) with btree_node_create (21-28): malloc or calloc   *)
(* may fail and NULL is returned; otherwise an empty leaf root.            *)
(***************************************************************************)
Init ==
    /\ tree \in {"live", "failed"}
    /\ entries = << >>
    /\ last = Call("none", None, None, 0)

(***************************************************************************)
(* btree_insert (65-78): -1 on a NULL tree; append when num_keys <         *)
(* MAX_KEYS, else -1.  No search for an existing key.                      *)
(***************************************************************************)
btree_insert_off_by_one(k, v) ==
    IF tree = "live" /\ Len(entries) <= MAX_KEYS
      THEN /\ entries' = Append(entries, [key |-> k, val |-> v])
           /\ last' = Call("put", k, v, 0)
      ELSE /\ UNCHANGED entries
           /\ last' = Call("put", k, v, -1)

btree_insert(k, v) ==
    IF tree = "live" /\ Len(entries) < MAX_KEYS
      THEN /\ entries' = Append(entries, [key |-> k, val |-> v])
           /\ last' = Call("put", k, v, 0)
      ELSE /\ UNCHANGED entries
           /\ last' = Call("put", k, v, -1)

(***************************************************************************)
(* btree_search (80-91): a strdup of the first matching value, or NULL.    *)
(***************************************************************************)
btree_search(k) ==
    LET i == FirstMatch(k) IN
    /\ last' = Call("get", k,
                    IF tree = "live" /\ i # 0 THEN entries[i].val ELSE None, 0)
    /\ UNCHANGED entries

(***************************************************************************)
(* btree_delete (93-110): at the first match, copy entries j+1 down to j   *)
(* for j < num_keys-1 and decrement num_keys; -1 when none matches.        *)
(***************************************************************************)
btree_delete_no_shift(k) ==
    LET i == FirstMatch(k) IN
    IF tree = "live" /\ i # 0
      THEN /\ entries' = SubSeq(entries, 1, Len(entries) - 1)
           /\ last' = Call("delete", k, None, 0)
      ELSE /\ UNCHANGED entries
           /\ last' = Call("delete", k, None, -1)

btree_delete(k) ==
    LET i == FirstMatch(k) IN
    IF tree = "live" /\ i # 0
      THEN /\ entries' = RemoveAt(entries, i)
           /\ last' = Call("delete", k, None, 0)
      ELSE /\ UNCHANGED entries
           /\ last' = Call("delete", k, None, -1)

\* btree_destroy (46-63) frees the root; no call follows it.
btree_destroy ==
    /\ tree = "live"
    /\ tree' = "destroyed"
    /\ UNCHANGED <<entries, last>>

\* The callers' choice of call; puts of a present key only when allowed.
Next ==
    \/ /\ tree # "destroyed"
       /\ \E k \in Keys :
            \/ /\ ~PutNewKeysOnly \/ FirstMatch(k) = 0
               /\ \E v \in Values : btree_insert(k, v)
            \/ btree_search(k)
            \/ btree_delete(k)
       /\ UNCHANGED tree
    \/ btree_destroy

Spec == Init /\ [][Next]_vars

-----------------------------------------------------------------------------

\* At most MAX_KEYS entries: every strcpy of btree_insert lands inside
\* root->keys[MAX_KEYS] and root->values[MAX_KEYS].
TypeOK ==
    /\ tree \in {"live", "failed", "destroyed"}
    /\ entries \in Seq([key : Keys, val : Values])
    /\ Len(entries) <= MAX_KEYS
    /\ last \in [op : {"none", "put", "get", "delete"},
                 key : Keys \union {None}, val : Values \union {None},
                 ret : {0, -1}]

\* The map the root stands for: each key's first matching value, as
\* btree_search sees it.
KV == INSTANCE KVStore
        WITH store <- [k \in Keys |->
                         IF FirstMatch(k) # 0
                           THEN entries[FirstMatch(k)].val ELSE None]

(***************************************************************************)
(* btree_insert, btree_search and btree_delete implement the key-value     *)
(* map: every successful put is visible to the following gets until the    *)
(* key is deleted, get returns the value last put, and delete succeeds     *)
(* exactly for a present key.                                              *)
(***************************************************************************)
KVRefinement == KV!Spec
=============================================================================
