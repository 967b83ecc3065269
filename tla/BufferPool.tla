----------------------------- MODULE BufferPool -----------------------------
(***************************************************************************)
(* The page cache of src/cgo/buffer_pool.c: an array of num_pages frames,  *)
(* a stack of free frame indices (free_list[0 .. free_count-1]) and, per   *)
(* frame, the pinned flag and ref_count.  buffer_pool_get_page pops the    *)
(* stack and pins the frame with ref_count 1; buffer_pool_release_page     *)
(* decrements ref_count and pushes the frame back when it reaches 0.       *)
(*                                                                         *)
(* Callers are the model values of Holders; got[h] is the set of frames    *)
(* whose pointer h ever got from get_page, holds[h] those it has not       *)
(* released since.  release_page cannot tell the two apart, so a caller    *)
(* may release any pointer it got, while the pool is alive; misused        *)
(* records whether a stale pointer (not held) was ever released.  The page *)
(* data, page_id and dirty (set but never read) are left out; get_page's   *)
(* page_id argument only labels the frame.                                 *)
(***************************************************************************)
EXTENDS Naturals, Sequences, SequencesExt, FiniteSets

CONSTANTS
    PoolSize,   \* the pool_size argument of buffer_pool_create, in bytes
    Holders     \* the callers that get and release pages

PAGE_SIZE == 4096

\* pool->num_pages = pool_size / PAGE_SIZE (buffer_pool.c:28).
NumPages == PoolSize \div PAGE_SIZE

\* Frame indices: the pointer page equals &pool->pages[f].
Frames == 0 .. NumPages - 1

ASSUME NumPages \in Nat \ {0}

VARIABLES
    pool,        \* "live" after a successful create, "failed", "destroyed"
    pinned,      \* pages[f].pinned
    ref_count,   \* pages[f].ref_count
    free_list,   \* free_list[0 .. free_count-1] as a sequence, top last
    got,         \* got[h]: frames h ever got a pointer to
    holds,       \* holds[h]: frames h got and has not released since
    misused      \* some caller released a pointer it did not hold

vars == <<pool, pinned, ref_count, free_list, got, holds, misused>>

\* Bound of the model: stale releases stop once a ref_count is at -1.
MinRefCount == -1

\* free_count is the length of the live prefix of free_list.
free_count == Len(free_list)

(***************************************************************************)
(* buffer_pool_create (buffer_pool.c:23-47): malloc of the header and of   *)
(* the two arrays may fail, and then NULL is returned; otherwise calloc    *)
(* zeroes the frames and free_list[i] = i for every frame.                 *)
(***************************************************************************)
InitOneBased ==
    /\ pool \in {"live", "failed"}
    /\ pinned = [f \in Frames |-> FALSE]
    /\ ref_count = [f \in Frames |-> 0]
    /\ free_list = [i \in 1 .. NumPages |-> i]
    /\ got = [h \in Holders |-> {}]
    /\ holds = [h \in Holders |-> {}]
    /\ misused = FALSE

Init ==
    /\ pool \in {"live", "failed"}
    /\ pinned = [f \in Frames |-> FALSE]
    /\ ref_count = [f \in Frames |-> 0]
    /\ free_list = [i \in 1 .. NumPages |-> i - 1]
    /\ got = [h \in Holders |-> {}]
    /\ holds = [h \in Holders |-> {}]
    /\ misused = FALSE

(***************************************************************************)
(* buffer_pool_get_page (57-70).  With free_count = 0 it returns NULL and  *)
(* changes nothing, so the step is only taken when a frame is free; it     *)
(* pops free_list[--free_count].                                           *)
(***************************************************************************)
GetPageNoRefCount(h) ==
    /\ pool = "live"
    /\ free_count > 0
    /\ LET f == free_list[free_count] IN
       /\ free_list' = SubSeq(free_list, 1, free_count - 1)
       /\ pinned' = [pinned EXCEPT ![f] = TRUE]
       /\ got' = [got EXCEPT ![h] = @ \union {f}]
       /\ holds' = [holds EXCEPT ![h] = @ \union {f}]
    /\ UNCHANGED <<pool, ref_count, misused>>

GetPage(h) ==
    /\ pool = "live"
    /\ free_count > 0
    /\ LET f == free_list[free_count] IN
       /\ free_list' = SubSeq(free_list, 1, free_count - 1)
       /\ pinned' = [pinned EXCEPT ![f] = TRUE]
       /\ ref_count' = [ref_count EXCEPT ![f] = 1]
       /\ got' = [got EXCEPT ![h] = @ \union {f}]
       /\ holds' = [holds EXCEPT ![h] = @ \union {f}]
    /\ UNCHANGED <<pool, misused>>

(***************************************************************************)
(* buffer_pool_release_page (72-81): ref_count--, and at 0 the frame is    *)
(* unpinned and free_list[free_count++] = its index.                       *)
(***************************************************************************)
ReleasePageNoPush(h, f) ==
    /\ pool = "live"
    /\ f \in got[h]
    /\ ref_count[f] > MinRefCount
    /\ ref_count' = [ref_count EXCEPT ![f] = @ - 1]
    /\ IF ref_count'[f] = 0
         THEN pinned' = [pinned EXCEPT ![f] = FALSE]
         ELSE UNCHANGED pinned
    /\ holds' = [holds EXCEPT ![h] = @ \ {f}]
    /\ misused' = (misused \/ f \notin holds[h])
    /\ UNCHANGED <<pool, free_list, got>>

ReleasePage(h, f) ==
    /\ pool = "live"
    /\ f \in got[h]
    /\ ref_count[f] > MinRefCount
    /\ ref_count' = [ref_count EXCEPT ![f] = @ - 1]
    /\ IF ref_count'[f] = 0
         THEN /\ pinned' = [pinned EXCEPT ![f] = FALSE]
              /\ free_list' = Append(free_list, f)
         ELSE UNCHANGED <<pinned, free_list>>
    /\ holds' = [holds EXCEPT ![h] = @ \ {f}]
    /\ misused' = (misused \/ f \notin holds[h])
    /\ UNCHANGED <<pool, got>>

(***************************************************************************)
(* buffer_pool_destroy (49-55) frees the arrays; pointers still held by    *)
(* callers dangle, and no caller releases after it.                         *)
(***************************************************************************)
Destroy ==
    /\ pool = "live"
    /\ pool' = "destroyed"
    /\ UNCHANGED <<pinned, ref_count, free_list, got, holds, misused>>

Next ==
    \/ \E h \in Holders : GetPage(h)
    \/ \E h \in Holders, f \in Frames : ReleasePage(h, f)
    \/ Destroy

Spec == Init /\ [][Next]_vars

-----------------------------------------------------------------------------

TypeOK ==
    /\ pool \in {"live", "failed", "destroyed"}
    /\ pinned \in [Frames -> BOOLEAN]
    /\ ref_count \in [Frames -> MinRefCount .. 1]
    /\ free_list \in Seq(Frames)
    /\ holds \in [Holders -> SUBSET Frames]
    /\ \A h \in Holders : holds[h] \subseteq got[h]
    /\ misused \in BOOLEAN

HoldersOf(f) == {h \in Holders : f \in holds[h]}

(***************************************************************************)
(* The free stack of get_page/release_page lists each unpinned frame       *)
(* exactly once and no pinned frame, so release_page's push                *)
(* free_list[free_count++] never writes past the num_pages entries of the  *)
(* array (buffer_pool.c:79) and get_page never hands out a pinned frame,   *)
(* even when callers release stale pointers: ref_count passes through 0    *)
(* only once between two pops.                                             *)
(***************************************************************************)
FreeListExact ==
    /\ free_count <= NumPages
    /\ IsInjective(free_list)
    /\ \A f \in Frames : (f \in ToSet(free_list)) <=> ~pinned[f]

(***************************************************************************)
(* As long as no caller has released a pointer it no longer held, a frame  *)
(* handed out by get_page belongs to one caller at a time: its ref_count   *)
(* is the number of callers holding it and it is pinned exactly while one  *)
(* does.                                                                   *)
(***************************************************************************)
ExclusivePin ==
    ~misused =>
    \A f \in Frames :
        /\ Cardinality(HoldersOf(f)) <= 1
        /\ ref_count[f] = Cardinality(HoldersOf(f))
        /\ pinned[f] <=> HoldersOf(f) # {}
=============================================================================
