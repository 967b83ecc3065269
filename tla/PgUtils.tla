------------------------------- MODULE PgUtils -------------------------------
(***************************************************************************)
(* The memory and string utilities at the top of src/cgo/sql_parser.c.    *)
(* A heap buffer is the record [text, size]: the characters written into  *)
(* it and the bytes it was allocated with; a C string held in one is its  *)
(* text.  pg_malloc's exit(1) on out-of-memory ends the process and is    *)
(* not modelled: every allocation here succeeds.                           *)
(***************************************************************************)
EXTENDS KeywordTable

CONSTANT NULL   \* the NULL pointer

\* palloc (19-21) through pg_malloc (10-17): size bytes, nothing written.
palloc(size) == [text |-> << >>, size |-> size]

\* pstrdup (37-43): NULL for NULL, else strlen + 1 bytes holding a copy.
pstrdup(str) ==
    IF str = NULL THEN NULL ELSE [text |-> str.text, size |-> Len(str.text) + 1]

\* Faulty variant of pg_strcasecmp: the loop's end taken as a match, so a
\* string equals every string it is a case-insensitive prefix of.
RECURSIVE pg_strcasecmp_prefix(_, _)
pg_strcasecmp_prefix(s1, s2) ==
    IF s1 = NULL \/ s2 = NULL THEN s1 # s2
    ELSE IF s1 # << >> /\ s2 # << >>
         THEN /\ ToLower(Head(s1)) = ToLower(Head(s2))
              /\ pg_strcasecmp_prefix(Tail(s1), Tail(s2))
         ELSE TRUE

(***************************************************************************)
(* pg_strcasecmp (46-56): TRUE when the strings are equal up to ASCII case *)
(* (tolower on both bytes, then *s1 == *s2 where the loop stopped); with a *)
(* NULL argument it returns s1 != s2.                                      *)
(***************************************************************************)
RECURSIVE pg_strcasecmp(_, _)
pg_strcasecmp(s1, s2) ==
    IF s1 = NULL \/ s2 = NULL THEN s1 # s2
    ELSE IF s1 # << >> /\ s2 # << >>
         THEN /\ ToLower(Head(s1)) = ToLower(Head(s2))
              /\ pg_strcasecmp(Tail(s1), Tail(s2))
         ELSE s1 = s2

-----------------------------------------------------------------------------

\* Reference: equal length and equal bytes after ASCII lower-casing.
CaseInsensitiveEqual(s1, s2) ==
    Len(s1) = Len(s2) /\ LowerCase(s1) = LowerCase(s2)

StrcasecmpAgrees(strings) ==
    \A s1, s2 \in strings : pg_strcasecmp(s1, s2) <=> CaseInsensitiveEqual(s1, s2)
=============================================================================
