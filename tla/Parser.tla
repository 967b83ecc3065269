------------------------------- MODULE Parser -------------------------------
(***************************************************************************)
(* The parser driver of src/cgo/sql_parser.c (parser_create, parser_parse, *)
(* parser_error, parser_destroy) over the Lexer it owns.  parser_parse     *)
(* tokenizes the input into a fresh List: each iteration of its loop is    *)
(* one step, a call of lexer_next_token (the Lexer's NextToken) together   *)
(* with what the loop body does with its result, so a call of              *)
(* parser_parse is ParseBegin followed by ParseStep until pc is "idle"     *)
(* again.  Nothing else runs meanwhile: the code is single-threaded.       *)
(*                                                                         *)
(* A List is the sequence of its elements; a token copy keeps the type,    *)
(* the pstrdup'ed value text and the location.  parser->error_msg is never *)
(* assigned (only NULL), and parser->tokens is never set, so neither is a  *)
(* variable.                                                               *)
(***************************************************************************)
EXTENDS Lexer

VARIABLES
    pstate,      \* "live" from parser_create, "destroyed" by parser_destroy
    pc,          \* "idle" between calls, "loop" inside parser_parse
    tokens,      \* the List parser_parse is filling
    parse_tree   \* parser->parse_tree: NULL or the List of the last parse

pvars == <<pstate, pc, tokens, parse_tree>>
allvars == <<vars, pvars>>

\* Bound of the model: every token takes at least one byte of the input, so
\* a List never holds more than MaxLen tokens and the guard never binds.
MaxTokens == MaxLen

\* make_list (778-784): an empty List.
make_list == << >>

\* list_prepend (794-801): the element goes before the first one.
list_prepend(list, node) == <<node>> \o list

\* Faulty variant of list_append: the new element put in front.
list_append_front(list, node) == list_prepend(list, node)

\* list_append (786-792): the element goes after the last one.
list_append(list, node) == Append(list, node)

\* list_length (807-809) and list_nth (803-805), 0-based, NULL out of range:
\* how a caller reads the List parser_parse returns.
list_length(list) == Len(list)

list_nth(list, i) == IF i < 0 \/ i >= list_length(list) THEN NULL ELSE list[i + 1]

\* The copy parser_parse makes: *token_copy = *token, value pstrdup'ed.
CopyToken(t) == [type |-> t.type, loc |-> t.loc, value |-> pstrdup(t.value)]

\* parser_create (912-919): lexer_create over the input, nothing parsed.
ParserInit ==
    /\ Init
    /\ pstate = "live"
    /\ pc = "idle"
    /\ tokens = make_list
    /\ parse_tree = NULL

\* parser_parse entry (937-943): the parser and its lexer exist; a new List.
ParseBegin ==
    /\ pstate = "live"
    /\ pc = "idle"
    /\ pc' = "loop"
    /\ tokens' = make_list
    /\ UNCHANGED <<vars, pstate, parse_tree>>

(***************************************************************************)
(* One iteration of while (lexer_next_token(...)) (945-960) and, when the  *)
(* loop ends, the return (962-966): a false return of the lexer or an EOF  *)
(* token ends the loop and the List becomes parse_tree; any other token is *)
(* copied and appended.                                                    *)
(***************************************************************************)
ParseStepContinueAtEOF ==
    /\ pc = "loop"
    /\ Len(tokens) <= MaxTokens
    /\ NextToken
    /\ IF has_current'
         THEN /\ tokens' = IF tok'.type # "EOF"
                             THEN list_append(tokens, CopyToken(tok'))
                             ELSE tokens
              /\ UNCHANGED <<pc, parse_tree>>
         ELSE /\ pc' = "idle"
              /\ parse_tree' = tokens
              /\ UNCHANGED tokens
    /\ UNCHANGED pstate

ParseStep ==
    /\ pc = "loop"
    /\ Len(tokens) <= MaxTokens
    /\ NextToken
    /\ IF has_current' /\ tok'.type # "EOF"
         THEN /\ tokens' = list_append(tokens, CopyToken(tok'))
              /\ UNCHANGED <<pc, parse_tree>>
         ELSE /\ pc' = "idle"
              /\ parse_tree' = tokens
              /\ UNCHANGED tokens
    /\ UNCHANGED pstate

\* parser_destroy (921-935): lexer_destroy; parse_tree is not freed.
ParserDestroy ==
    /\ pstate = "live"
    /\ pc = "idle"
    /\ Destroy
    /\ pstate' = "destroyed"
    /\ UNCHANGED <<pc, tokens, parse_tree>>

\* parser_error (969-977): parser->error_msg is NULL, so the lexer's.
ParserErrorOwnOnly == NULL

ParserError == lexer_error

ParserNext == ParseBegin \/ ParseStep \/ ParserDestroy

ParserSpec == ParserInit /\ [][ParserNext]_allvars

\* The loop of parser_parse runs without waiting on anyone; whether and
\* when the caller calls parser_parse again is the caller's choice.
ParserFairSpec == ParserSpec /\ WF_allvars(ParseStep)

-----------------------------------------------------------------------------

(***************************************************************************)
(* parser_parse returns the partial List when the lexer fails (spec 4.3:   *)
(* a failed call ends the usable stream), and its caller can only tell a   *)
(* complete List from a truncated one by parser_error: after a parse, a    *)
(* NULL parser_error means the loop ended at the lexer's EOF token.        *)
(***************************************************************************)
ParseErrorReported ==
    pstate = "live" /\ pc = "idle" /\ parse_tree # NULL /\ ParserError = NULL
        => has_current /\ tok.type = "EOF"

(***************************************************************************)
(* The List parser_parse builds, and the parse_tree it returns, hold the   *)
(* tokens in the order of the source: each starts after the previous one  *)
(* (list_append after each lexer_next_token).                              *)
(***************************************************************************)
InSourceOrder(list) ==
    \A i \in 0 .. list_length(list) - 2 :
        list_nth(list, i).loc.offset < list_nth(list, i + 1).loc.offset

ParseListInSourceOrder ==
    /\ InSourceOrder(tokens)
    /\ parse_tree # NULL => InSourceOrder(parse_tree)

(***************************************************************************)
(* Every call of parser_parse returns: the loop reaches EOF or a failing   *)
(* call of lexer_next_token whatever the input.                            *)
(***************************************************************************)
ParseTerminates == pc = "loop" ~> pc = "idle"

(***************************************************************************)
(* The lexer under parser_parse implements the token stream of spec.md 4.4 *)
(* and 6: each call of lexer_next_token is a step of TokenStream, whose    *)
(* state is read off the Lexer: the current token is lexer_current_token,  *)
(* a failed call is told from a fresh lexer by error_msg, and "ended" is   *)
(* holding the EOF token.  In particular every call after EOF, such as the *)
(* one a second parser_parse makes, yields the same EOF token again.       *)
(***************************************************************************)
StreamPhase ==
    CASE ~alive                          -> "closed"
      [] has_current /\ tok.type = "EOF" -> "ended"
      [] has_current \/ err = NULL       -> "ready"
      [] OTHER                           -> "errored"

TS == INSTANCE TokenStream
        WITH text <- input, phase <- StreamPhase, cursor <- pos,
             current <- lexer_current_token, NoToken <- NULL

TokenStreamRefinement == TS!Spec
=============================================================================
