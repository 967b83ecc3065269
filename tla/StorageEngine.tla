--------------------------- MODULE StorageEngine ---------------------------
(***************************************************************************)
(* src/cgo/storage_engine.c: an engine owns one B-tree and one buffer      *)
(* pool.  storage_engine_init builds both and tears the engine down when   *)
(* either allocation fails; put/get/delete go to the B-tree (module BTree, *)
(* instantiated below); cleanup destroys what exists.  The pool is only    *)
(* created and destroyed by the engine, so its handle is modelled, not its *)
(* frames (those are module BufferPool).  data_dir and the B-tree path are *)
(* strings never read back and are left out.                               *)
(***************************************************************************)
EXTENDS Integers, Sequences

CONSTANTS Keys, Values, None, MAX_KEYS, PutNewKeysOnly

VARIABLES
    engine,       \* "none" before init, "live", "null" (init returned NULL),
                  \* "cleaned" after storage_engine_cleanup
    btree,        \* engine->btree: "none", "null", "live", "destroyed"
    buffer_pool,  \* engine->buffer_pool: "none", "null", "live", "destroyed"
    entries,      \* the B-tree root, as in BTree
    last          \* the last call and its return, as in BTree

vars == <<engine, btree, buffer_pool, entries, last>>

BT == INSTANCE BTree WITH tree <- btree

\* What storage_engine_cleanup (35-42) does to one owned handle.
Destroyed(h) == IF h = "live" THEN "destroyed" ELSE h

Init ==
    /\ engine = "none"
    /\ btree = "none"
    /\ buffer_pool = "none"
    /\ entries = << >>
    /\ last = BT!Call("none", None, None, 0)

(***************************************************************************)
(* storage_engine_init (16-33): malloc of the engine may fail (NULL, no    *)
(* component built); otherwise buffer_pool_create and btree_create each    *)
(* may fail, and when either did, storage_engine_cleanup destroys the      *)
(* other and NULL is returned.                                             *)
(***************************************************************************)
storage_engine_init_keep_half(poolOk, treeOk) ==
    /\ engine' = IF poolOk /\ treeOk THEN "live" ELSE "null"
    /\ buffer_pool' = IF poolOk THEN "live" ELSE "null"
    /\ btree' = IF treeOk THEN "live" ELSE "null"

storage_engine_init(poolOk, treeOk) ==
    LET pool == IF poolOk THEN "live" ELSE "null"
        tree == IF treeOk THEN "live" ELSE "null"
    IN IF poolOk /\ treeOk
         THEN /\ engine' = "live"
              /\ buffer_pool' = pool
              /\ btree' = tree
         ELSE /\ engine' = "null"
              /\ buffer_pool' = Destroyed(pool)
              /\ btree' = Destroyed(tree)

StorageEngineInit ==
    /\ engine = "none"
    /\ \/ /\ engine' = "null"
          /\ UNCHANGED <<btree, buffer_pool>>
       \/ \E poolOk, treeOk \in BOOLEAN : storage_engine_init(poolOk, treeOk)
    /\ UNCHANGED <<entries, last>>

(***************************************************************************)
(* storage_engine_put/get/delete (44-57): -1 or NULL on a NULL engine,     *)
(* else the B-tree call.  Callers put absent keys only when                *)
(* PutNewKeysOnly, as in BTree.                                            *)
(***************************************************************************)
storage_engine_put(k, v) ==
    IF engine = "live"
      THEN /\ ~PutNewKeysOnly \/ BT!FirstMatch(k) = 0
           /\ BT!btree_insert(k, v)
      ELSE /\ last' = BT!Call("put", k, v, -1)
           /\ UNCHANGED entries

storage_engine_get(k) ==
    IF engine = "live"
      THEN BT!btree_search(k)
      ELSE /\ last' = BT!Call("get", k, None, 0)
           /\ UNCHANGED entries

storage_engine_delete_null_ok(k) ==
    IF engine = "live"
      THEN BT!btree_delete(k)
      ELSE /\ last' = BT!Call("delete", k, None, 0)
           /\ UNCHANGED entries

storage_engine_delete(k) ==
    IF engine = "live"
      THEN BT!btree_delete(k)
      ELSE /\ last' = BT!Call("delete", k, None, -1)
           /\ UNCHANGED entries

\* The caller holds the pointer init returned, live or NULL.
Call ==
    /\ engine \in {"live", "null"}
    /\ \E k \in Keys :
         \/ \E v \in Values : storage_engine_put(k, v)
         \/ storage_engine_get(k)
         \/ storage_engine_delete(k)
    /\ UNCHANGED <<engine, btree, buffer_pool>>

\* storage_engine_cleanup (35-42) of a live engine; no call follows it.
storage_engine_cleanup ==
    /\ engine = "live"
    /\ engine' = "cleaned"
    /\ btree' = Destroyed(btree)
    /\ buffer_pool' = Destroyed(buffer_pool)
    /\ UNCHANGED <<entries, last>>

Next == StorageEngineInit \/ Call \/ storage_engine_cleanup

Spec == Init /\ [][Next]_vars

-----------------------------------------------------------------------------

TypeOK ==
    /\ engine \in {"none", "live", "null", "cleaned"}
    /\ btree \in {"none", "null", "live", "destroyed"}
    /\ buffer_pool \in {"none", "null", "live", "destroyed"}
    /\ entries \in Seq([key : Keys, val : Values])
    /\ Len(entries) <= MAX_KEYS

(***************************************************************************)
(* storage_engine_init and storage_engine_cleanup leave no component       *)
(* behind: a B-tree or buffer pool is live exactly while the engine that   *)
(* owns it is, whichever of the allocations of init failed.                *)
(***************************************************************************)
EngineOwnsComponents ==
    /\ btree = "live" <=> engine = "live"
    /\ buffer_pool = "live" <=> engine = "live"

(***************************************************************************)
(* Through the engine, including a NULL engine from a failed init, put,    *)
(* get and delete behave as the key-value map of KVStore.                  *)
(***************************************************************************)
KVRefinement == BT!KVRefinement
=============================================================================
