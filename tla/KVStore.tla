------------------------------ MODULE KVStore ------------------------------
(***************************************************************************)
(* What the key-value storage layer promises its callers (spec.md, scope   *)
(* (c)): a map from keys to values.  Each call is one step, and last       *)
(* records the call and what it returned:                                  *)
(*   put(k, v)  makes v the value of k and returns 0, or fails with -1     *)
(*              and changes nothing (the store may be full);               *)
(*   get(k)     returns the value of k, or None when k has none;           *)
(*   delete(k)  removes the value of k and returns 0, or returns -1 when   *)
(*              k has none.                                                *)
(***************************************************************************)
EXTENDS Integers

CONSTANTS Keys, Values, None

ASSUME None \notin Values

VARIABLES store, last

Init ==
    /\ store = [k \in Keys |-> None]
    /\ last = [op |-> "none", key |-> None, val |-> None, ret |-> 0]

Put(k, v) ==
    \/ /\ store' = [store EXCEPT ![k] = v]
       /\ last' = [op |-> "put", key |-> k, val |-> v, ret |-> 0]
    \/ /\ UNCHANGED store
       /\ last' = [op |-> "put", key |-> k, val |-> v, ret |-> -1]

Get(k) ==
    /\ last' = [op |-> "get", key |-> k, val |-> store[k], ret |-> 0]
    /\ UNCHANGED store

Delete(k) ==
    IF store[k] # None
      THEN /\ store' = [store EXCEPT ![k] = None]
           /\ last' = [op |-> "delete", key |-> k, val |-> None, ret |-> 0]
      ELSE /\ UNCHANGED store
           /\ last' = [op |-> "delete", key |-> k, val |-> None, ret |-> -1]

Next ==
    \E k \in Keys :
        \/ \E v \in Values : Put(k, v)
        \/ Get(k)
        \/ Delete(k)

Spec == Init /\ [][Next]_<<store, last>>
=============================================================================
