----------------------------- MODULE TokenStream -----------------------------
(***************************************************************************)
(* What the lexer promises the caller of "produce next token" (spec.md     *)
(* 4.4 and 6), independent of how tokens are scanned.  The stream is in    *)
(* one of the states of 4.4:                                               *)
(*   "ready"    no call yet, or the last call yielded a token;             *)
(*   "ended"    the last call yielded the end-of-input token;              *)
(*   "errored"  the last call failed (what follows is unspecified, 6);     *)
(*   "closed"   the lexer was torn down.                                   *)
(* current is the token the caller can read (NoToken after a failure);    *)
(* cursor is the position, which never decreases (3), and text the input. *)
(* A call after the end-of-input token yields it again unchanged (6): no  *)
(* action leaves "ended" but Close, so such a call is a stuttering step.  *)
(***************************************************************************)
EXTENDS Naturals, Sequences

CONSTANT NoToken

VARIABLES text, phase, cursor, current

tsvars == <<text, phase, cursor, current>>

\* the states from which a call may produce a new result
Callable == {"ready", "errored"}

Init ==
    /\ phase = "ready"
    /\ cursor = 0
    /\ current = NoToken

\* a token other than end of input: it starts at or after the cursor, on a
\* byte of the input, and the cursor ends past its first byte
Yield ==
    /\ phase \in Callable
    /\ phase' = "ready"
    /\ current' # NoToken
    /\ current'.type # "EOF"
    /\ cursor <= current'.loc.offset
    /\ current'.loc.offset < cursor'
    /\ cursor' <= Len(text)
    /\ UNCHANGED text

\* the end-of-input token, at the end of the input
End ==
    /\ phase \in Callable
    /\ phase' = "ended"
    /\ cursor' = Len(text)
    /\ current' # NoToken
    /\ current'.type = "EOF"
    /\ current'.loc.offset = Len(text)
    /\ UNCHANGED text

\* a failed call: no token, the position left wherever the scan stopped
Fail ==
    /\ phase \in Callable
    /\ phase' = "errored"
    /\ current' = NoToken
    /\ cursor <= cursor'
    /\ cursor' <= Len(text)
    /\ UNCHANGED text

\* teardown; nothing can be observed afterwards
Close ==
    /\ phase # "closed"
    /\ phase' = "closed"
    /\ UNCHANGED <<text, cursor>>

Next == Yield \/ End \/ Fail \/ Close

Spec == Init /\ [][Next]_tsvars
=============================================================================
