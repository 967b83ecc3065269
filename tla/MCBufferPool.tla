---------------------------- MODULE MCBufferPool ----------------------------
(* Three frames (PoolSize = 3 * PAGE_SIZE) shared by three callers.      *)
EXTENDS BufferPool, TLC

CONSTANTS h1, h2, h3

MCHolders == {h1, h2, h3}

\* Callers are interchangeable; frames are not (the free stack orders them).
HolderSymmetry == Permutations(MCHolders)
=============================================================================
