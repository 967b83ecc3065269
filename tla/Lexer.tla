------------------------------- MODULE Lexer -------------------------------
(***************************************************************************)
(* The Lexer of src/cgo/sql_parser.c: lexer_create, lexer_next_token,      *)
(* lexer_destroy and the cursor and scanner routines they call.            *)
(*                                                                         *)
(* Positions are 0-based byte offsets as in the C code; input[i] of C is   *)
(* input[i+1] here.  The scanners move a position c; the line and column *)
(* that lexer_advance keeps beside it are the fold of its per-byte step   *)
(* over the bytes consumed.  The token buffer current_token.value is NULL or *)
(* the record [text, size]: the characters written into it and the bytes  *)
(* palloc gave it.  Every call of lexer_next_token is one step, its skip   *)
(* loop and scanner loops being recursive operators over the cursor.      *)
(* The literal values ival/fval (strtoll/strtod) are not modelled.         *)
(***************************************************************************)
EXTENDS PgUtils, FiniteSets

CONSTANTS
    Alphabet,   \* the bytes the input is made of
    MaxLen      \* the longest input considered

ASSUME NUL \notin Alphabet /\ MaxLen \in Nat

VARIABLES
    input,        \* lexer->input[0 .. input_len-1]
    pos,          \* lexer->pos
    line,         \* lexer->line
    column,       \* lexer->column
    tok,          \* lexer->current_token: [type, value, loc]
    has_current,  \* lexer->has_current
    err,          \* lexer->error_msg
    leaked,       \* token buffers whose last pointer was overwritten
    alive         \* FALSE once lexer_destroy has run

vars == <<input, pos, line, column, tok, has_current, err, leaked, alive>>

\* the val of a scanner that did not write token->value
NoAlloc == NULL

n == Len(input)

\* input[i], or the '\0' that lexer_peek returns at and past input_len
Ch(i) == IF i < n THEN input[i + 1] ELSE NUL

\* the characters of input[from .. to-1]
Slice(from, to) == SubSeq(input, from + 1, to)

Peek(c) == Ch(c)

\* Faulty variant of Adv: no end-of-input check.
AdvUnguarded(c) == c + 1

\* lexer_advance on the position: a no-op at the end of the input
Adv(c) == IF c >= n THEN c ELSE c + 1

\* Faulty variant of AdvanceLineCol: column not reset at a newline.
AdvanceLineColNoReset(lc, ch) ==
    IF ch = "\n" THEN [lc EXCEPT !.line = @ + 1] ELSE [lc EXCEPT !.column = @ + 1]

\* lexer_advance on [line, column] for the consumed byte ch
AdvanceLineCol(lc, ch) ==
    IF ch = "\n" THEN [line |-> lc.line + 1, column |-> 1]
                 ELSE [lc EXCEPT !.column = @ + 1]

\* line and column after lexer_advance has consumed input[from .. c-1],
\* lexer_advance changing nothing at the end of the input
RECURSIVE LineColFrom(_, _, _)
LineColFrom(lc, from, c) ==
    IF from >= c \/ from >= n THEN lc ELSE LineColFrom(AdvanceLineCol(lc, input[from + 1]), from + 1, c)

LineColTo(c) == LineColFrom([line |-> line, column |-> column], pos, c)

RECURSIVE AdvN(_, _)
AdvN(c, k) == IF k = 0 THEN c ELSE AdvN(Adv(c), k - 1)

(***************************************************************************)
(* Whitespace and comments.                                                *)
(***************************************************************************)
RECURSIVE SkipWhitespace(_)
SkipWhitespace(c) == IF c < n /\ IsSpace(Peek(c)) THEN SkipWhitespace(Adv(c)) ELSE c

IsLineCommentStart(c)  == Peek(c) = "-" /\ c + 1 < n /\ Ch(c + 1) = "-"
IsBlockCommentStart(c) == Peek(c) = "/" /\ c + 1 < n /\ Ch(c + 1) = "*"

RECURSIVE ToLineEnd(_)
ToLineEnd(c) == IF c < n /\ Peek(c) # "\n" THEN ToLineEnd(Adv(c)) ELSE c

\* the block-comment loop runs while pos + 1 < input_len
RECURSIVE ToBlockEnd(_)
ToBlockEnd(c) ==
    IF c + 1 < n
    THEN IF Peek(c) = "*" /\ Ch(c + 1) = "/" THEN Adv(Adv(c)) ELSE ToBlockEnd(Adv(c))
    ELSE c

SkipComment(c) ==
    CASE IsLineCommentStart(c)  -> ToLineEnd(Adv(Adv(c)))
      [] IsBlockCommentStart(c) -> ToBlockEnd(Adv(Adv(c)))
      [] OTHER                  -> c

\* the skip loop at the head of lexer_next_token
RECURSIVE SkipInsignificant(_)
SkipInsignificant(c) ==
    IF c >= n THEN c
    ELSE LET w == SkipWhitespace(c)
         IN  IF w < n /\ (IsLineCommentStart(w) \/ IsBlockCommentStart(w))
             THEN SkipInsignificant(SkipComment(w))
             ELSE w

(***************************************************************************)
(* Scanner results: the cursor after the scan, success, the token type,   *)
(* what was written into token->value, and the error message.             *)
(***************************************************************************)
Ok(c, type, text, size) ==
    [c |-> c, ok |-> TRUE, type |-> type,
     val |-> [palloc(size) EXCEPT !.text = text], err |-> NULL]
Fail(c, msg, val) ==
    [c |-> c, ok |-> FALSE, type |-> NULL, val |-> val, err |-> msg]

\* Faulty variant of StringBody: the closing quote is left unconsumed.
RECURSIVE StringBodyKeepsQuote(_, _, _)
StringBodyKeepsQuote(c, quote, start) ==
    IF c >= n THEN Fail(c, "unterminated string literal", NoAlloc)
    ELSE CASE Peek(c) = quote /\ Ch(c + 1) = quote -> StringBodyKeepsQuote(Adv(Adv(c)), quote, start)
           [] Peek(c) = quote -> Ok(c, "SCONST", Slice(start, c), c - start + 1)
           [] Peek(c) = "\\"  -> StringBodyKeepsQuote(Adv(Adv(c)), quote, start)
           [] OTHER           -> StringBodyKeepsQuote(Adv(c), quote, start)

\* lexer_scan_string: the value is input[start .. pos-1], the body as written
RECURSIVE StringBody(_, _, _)
StringBody(c, quote, start) ==
    IF c >= n THEN Fail(c, "unterminated string literal", NoAlloc)
    ELSE CASE Peek(c) = quote /\ Ch(c + 1) = quote -> StringBody(Adv(Adv(c)), quote, start)
           [] Peek(c) = quote -> Ok(Adv(c), "SCONST", Slice(start, c), c - start + 1)
           [] Peek(c) = "\\"  -> StringBody(Adv(Adv(c)), quote, start)
           [] OTHER           -> StringBody(Adv(c), quote, start)

ScanString(c) == StringBody(Adv(c), Peek(c), c + 1)

RECURSIVE DigitRun(_)
DigitRun(c) == IF c < n /\ IsDigit(Peek(c)) THEN DigitRun(Adv(c)) ELSE c

RECURSIVE AlnumRun(_)
AlnumRun(c) == IF c < n /\ IsAlnum(Peek(c)) THEN AlnumRun(Adv(c)) ELSE c

\* Faulty variant of ScanNumber: a '.' is taken without a digit after it.
ScanNumberLooseDot(c) ==
    LET i      == DigitRun(c)
        hasDot == Peek(i) = "."
        f      == IF hasDot THEN DigitRun(Adv(i)) ELSE i
        hasExp == Peek(f) \in {"e", "E"}
        s      == IF Peek(Adv(f)) \in {"+", "-"} THEN Adv(Adv(f)) ELSE Adv(f)
        e      == IF hasExp THEN DigitRun(s) ELSE f
    IN  IF hasExp /\ ~IsDigit(Peek(s))
        THEN Fail(s, "invalid number format", NoAlloc)
        ELSE Ok(e, IF hasDot \/ hasExp THEN "FCONST" ELSE "ICONST",
                Slice(c, e), e - c + 1)

\* Faulty variant of ScanNumber: a bad exponent fails without consuming.
ScanNumberStuck(c) ==
    LET i      == DigitRun(c)
        hasDot == Peek(i) = "." /\ IsDigit(Ch(i + 1))
        f      == IF hasDot THEN DigitRun(Adv(i)) ELSE i
        hasExp == Peek(f) \in {"e", "E"}
        s      == IF Peek(Adv(f)) \in {"+", "-"} THEN Adv(Adv(f)) ELSE Adv(f)
        e      == IF hasExp THEN DigitRun(s) ELSE f
    IN  IF hasExp /\ ~IsDigit(Peek(s))
        THEN Fail(c, "invalid number format", NoAlloc)
        ELSE Ok(e, IF hasDot \/ hasExp THEN "FCONST" ELSE "ICONST",
                Slice(c, e), e - c + 1)

\* lexer_scan_number
ScanNumber(c) ==
    LET i      == DigitRun(c)
        hasDot == Peek(i) = "." /\ IsDigit(Ch(i + 1))
        f      == IF hasDot THEN DigitRun(Adv(i)) ELSE i
        hasExp == Peek(f) \in {"e", "E"}
        s      == IF Peek(Adv(f)) \in {"+", "-"} THEN Adv(Adv(f)) ELSE Adv(f)
        e      == IF hasExp THEN DigitRun(s) ELSE f
    IN  IF hasExp /\ ~IsDigit(Peek(s))
        THEN Fail(s, "invalid number format", NoAlloc)
        ELSE Ok(e, IF hasDot \/ hasExp THEN "FCONST" ELSE "ICONST",
                Slice(c, e), e - c + 1)

\* lexer_scan_identifier
ScanIdentifier(c) ==
    IF ~IsAlpha(Peek(c))
    THEN Fail(c, "invalid identifier", NoAlloc)
    ELSE LET e == AlnumRun(Adv(c))
             text == Slice(c, e)
         IN  Ok(e, LookupKeyword(text), text, Len(text) + 1)

\* the single-character cases of the switch in lexer_scan_operator
SingleCharOps ==
    [ch \in {"(", ")", "[", "]", "{", "}", ",", ";", ".", "+", "*", "/", "%", "^", "=", "&"} |->
        CASE ch = "(" -> "LPAREN"   [] ch = ")" -> "RPAREN"
          [] ch = "[" -> "LBRACKET" [] ch = "]" -> "RBRACKET"
          [] ch = "{" -> "LBRACE"   [] ch = "}" -> "RBRACE"
          [] ch = "," -> "COMMA"    [] ch = ";" -> "SEMICOLON"
          [] ch = "." -> "DOT"      [] ch = "+" -> "PLUS"
          [] ch = "*" -> "MULTIPLY" [] ch = "/" -> "DIVIDE"
          [] ch = "%" -> "MODULO"   [] ch = "^" -> "POWER"
          [] ch = "=" -> "EQ"       [] ch = "&" -> "BITAND"]

OpErrors == {"unexpected character '!'", "unexpected character"}

(***************************************************************************)
(* The switch of lexer_scan_operator for every case but '$': the type and *)
(* the characters the case writes after value[0], given the character ch  *)
(* and the two that follow it (nx is the C variable next).                 *)
\* Faulty variant of OpMatch: "->" is taken without looking for "->>".
OpMatchShortArrow(ch, nx, n2) ==
    LET R(t, rest) == [type |-> t, rest |-> rest]
    IN CASE ch \in DOMAIN SingleCharOps -> R(SingleCharOps[ch], <<>>)
         [] ch = "-" -> IF nx = ">" THEN R("JSON_EXTRACT", <<">">>) ELSE R("MINUS", <<>>)
         [] ch = "<" -> (CASE nx = "=" -> R("LE", <<"=">>)
                           [] nx = ">" -> R("NE", <<">">>)
                           [] nx = "<" -> R("LSHIFT", <<"<">>)
                           [] OTHER    -> R("LT", <<>>))
         [] ch = ">" -> (CASE nx = "=" -> R("GE", <<"=">>)
                           [] nx = ">" -> R("RSHIFT", <<">">>)
                           [] OTHER    -> R("GT", <<>>))
         [] ch = "!" -> (CASE nx = "=" -> R("NE", <<"=">>)
                           [] nx = "~" /\ n2 = "*" -> R("REGEX_INMATCH", <<"~", "*">>)
                           [] nx = "~" -> R("REGEX_NMATCH", <<"~">>)
                           [] OTHER    -> R("unexpected character '!'", <<>>))
         [] ch = "|" -> IF nx = "|" THEN R("CONCAT", <<"|">>) ELSE R("BITOR", <<>>)
         [] ch = "#" -> IF nx = ">"
                        THEN IF n2 = ">" THEN R("JSON_PATH_TEXT", <<">", ">">>)
                                         ELSE R("JSON_PATH", <<">">>)
                        ELSE R("BITXOR", <<>>)
         [] ch = "~" -> IF nx = "*" THEN R("REGEX_IMATCH", <<"*">>) ELSE R("REGEX_MATCH", <<>>)
         [] ch = ":" -> IF nx = ":" THEN R("TYPECAST", <<":">>) ELSE R("COLON", <<>>)
         [] OTHER    -> R("unexpected character", <<>>)

(***************************************************************************)
OpMatch(ch, nx, n2) ==
    LET R(t, rest) == [type |-> t, rest |-> rest]
    IN CASE ch \in DOMAIN SingleCharOps -> R(SingleCharOps[ch], <<>>)
         [] ch = "-" -> IF nx = ">"
                        THEN IF n2 = ">" THEN R("JSON_EXTRACT_TEXT", <<">", ">">>)
                                         ELSE R("JSON_EXTRACT", <<">">>)
                        ELSE R("MINUS", <<>>)
         [] ch = "<" -> (CASE nx = "=" -> R("LE", <<"=">>)
                           [] nx = ">" -> R("NE", <<">">>)
                           [] nx = "<" -> R("LSHIFT", <<"<">>)
                           [] OTHER    -> R("LT", <<>>))
         [] ch = ">" -> (CASE nx = "=" -> R("GE", <<"=">>)
                           [] nx = ">" -> R("RSHIFT", <<">">>)
                           [] OTHER    -> R("GT", <<>>))
         [] ch = "!" -> (CASE nx = "=" -> R("NE", <<"=">>)
                           [] nx = "~" /\ n2 = "*" -> R("REGEX_INMATCH", <<"~", "*">>)
                           [] nx = "~" -> R("REGEX_NMATCH", <<"~">>)
                           [] OTHER    -> R("unexpected character '!'", <<>>))
         [] ch = "|" -> IF nx = "|" THEN R("CONCAT", <<"|">>) ELSE R("BITOR", <<>>)
         [] ch = "#" -> IF nx = ">"
                        THEN IF n2 = ">" THEN R("JSON_PATH_TEXT", <<">", ">">>)
                                         ELSE R("JSON_PATH", <<">">>)
                        ELSE R("BITXOR", <<>>)
         [] ch = "~" -> IF nx = "*" THEN R("REGEX_IMATCH", <<"*">>) ELSE R("REGEX_MATCH", <<>>)
         [] ch = ":" -> IF nx = ":" THEN R("TYPECAST", <<":">>) ELSE R("COLON", <<>>)
         [] OTHER    -> R("unexpected character", <<>>)

(***************************************************************************)
(* lexer_scan_operator: palloc(3) for value, consume ch, then the switch; *)
(* '$' frees that buffer and allocates one sized for the marker.           *)
(***************************************************************************)
ScanOperator(c) ==
    LET ch  == Peek(c)
        nx  == Ch(c + 1)
        one == Adv(c)
        buf == [palloc(3) EXCEPT !.text = <<ch>>]
        m   == OpMatch(ch, nx, Ch(c + 2))
        d   == DigitRun(one)
    IN  CASE ch = "$" /\ IsDigit(nx) -> Ok(d, "PARAM", Slice(c, d), d - c + 1)
          [] ch = "$"                -> Fail(one, "invalid parameter marker", buf)
          [] m.type \in OpErrors     -> Fail(one, m.type, buf)
          [] OTHER -> Ok(AdvN(one, Len(m.rest)), m.type, <<ch>> \o m.rest, 3)

\* the dispatch on the lookahead byte in lexer_next_token
Dispatch(c) ==
    CASE Peek(c) \in {"'", "\""} -> ScanString(c)
      [] IsDigit(Peek(c))        -> ScanNumber(c)
      [] IsAlpha(Peek(c))        -> ScanIdentifier(c)
      [] OTHER                   -> ScanOperator(c)

(***************************************************************************)
(* lexer_create: the whole input is loaded; palloc0 zeroes current_token *)
(* (type TOKEN_EOF = 0, value NULL, location 0).                           *)
(***************************************************************************)
Init ==
    /\ input \in BoundedSeq(Alphabet, MaxLen)
    /\ pos = 0 /\ line = 1 /\ column = 1
    /\ tok = [type |-> "EOF", value |-> NULL, loc |-> [line |-> 0, column |-> 0, offset |-> 0]]
    /\ has_current = FALSE
    /\ err = NULL
    /\ leaked = 0
    /\ alive = TRUE

\* the start of lexer_next_token: a held token's buffer is freed
Kept == IF has_current /\ tok.value # NULL THEN NULL ELSE tok.value

\* the location recorded for a token whose first byte is at c
LocOf(c) == [line |-> LineColTo(c).line, column |-> LineColTo(c).column, offset |-> c]

\* Faulty variant of MoveTo: the cursor moved without lexer_advance.
MoveToPosOnly(c) == pos' = c /\ UNCHANGED <<line, column>>

MoveTo(c) == pos' = c /\ line' = LineColTo(c).line /\ column' = LineColTo(c).column

\* lexer_next_token reaching the end of input: the EOF token, value NULL
NextTokenEOF ==
    /\ alive
    /\ LET c == SkipInsignificant(pos)
       IN  /\ c >= n
           /\ MoveTo(c)
           /\ tok' = [type |-> "EOF", value |-> NULL, loc |-> LocOf(c)]
    /\ has_current' = TRUE
    /\ leaked' = leaked + (IF Kept # NULL THEN 1 ELSE 0)
    /\ UNCHANGED <<input, err, alive>>

(***************************************************************************)
(* lexer_next_token dispatching to a scanner.  A scanner that writes      *)
(* token->value overwrites the pointer the call did not free.  On failure *)
(* the error message is replaced and has_current becomes FALSE; the token *)
(* type, then unobservable, is left as it was.                             *)
(***************************************************************************)
NextTokenScan ==
    /\ alive
    /\ LET c == SkipInsignificant(pos)
           r == Dispatch(c)
       IN  /\ c < n
           /\ MoveTo(r.c)
           /\ tok' = [type  |-> IF r.ok THEN r.type ELSE tok.type,
                      value |-> IF r.val = NoAlloc THEN Kept ELSE r.val,
                      loc   |-> LocOf(c)]
           /\ has_current' = r.ok
           /\ err' = IF r.ok THEN err ELSE r.err
           /\ leaked' = leaked + (IF r.val # NoAlloc /\ Kept # NULL THEN 1 ELSE 0)
    /\ UNCHANGED <<input, alive>>

NextToken == NextTokenEOF \/ NextTokenScan

\* lexer_destroy: frees current_token.value, error_msg and the lexer
Destroy ==
    /\ alive
    /\ alive' = FALSE
    /\ tok' = [tok EXCEPT !.value = NULL]
    /\ err' = NULL
    /\ UNCHANGED <<input, pos, line, column, has_current, leaked>>

Next == NextToken \/ Destroy

Spec == Init /\ [][Next]_vars

\* lexer_current_token: the held token, or NULL after a failed call
lexer_current_token == IF has_current THEN tok ELSE NULL

\* lexer_error: the message of the last failed call, never cleared
lexer_error == err

(***************************************************************************)
(* Properties.                                                             *)
(***************************************************************************)
Errors == OpErrors \cup {"unterminated string literal", "invalid number format",
                         "invalid identifier", "invalid parameter marker"}

TypeOK ==
    /\ input \in Seq(Alphabet)
    /\ pos \in 0..n /\ line \in Nat \ {0} /\ column \in Nat \ {0}
    /\ tok.value \in {NULL} \cup [text : Seq(Alphabet), size : Nat]
    /\ tok.loc.offset \in 0..n
    /\ has_current \in BOOLEAN /\ alive \in BOOLEAN
    /\ err \in {NULL} \cup Errors
    /\ leaked \in Nat

\* The (line, column) that lexer_advance should have counted after the first
\* p bytes: one line per newline, columns from the last newline.
LineColAt(p) ==
    LET nls == {i \in 1..p : input[i] = "\n"}
    IN  [line   |-> 1 + Cardinality(nls),
         column |-> p + 1 - (IF nls = {} THEN 0 ELSE Max(nls))]

(***************************************************************************)
(* Lexer state invariant of spec section 3: line and column always count  *)
(* the newlines and bytes consumed so far, and a token's location is that *)
(* count at its first byte.  Violated by any scanner or skip loop that    *)
(* moves pos other than through lexer_advance's line/column bookkeeping.  *)
(***************************************************************************)
LocationTracksInput ==
    /\ [line |-> line, column |-> column] = LineColAt(pos)
    /\ has_current =>
          [line |-> tok.loc.line, column |-> tok.loc.column] = LineColAt(tok.loc.offset)

(***************************************************************************)
(* The current token is exactly the input consumed by the call that made  *)
(* it: from its location to the cursor lie its characters as stored in   *)
(* value, and for a string constant the body between an opening and an    *)
(* identical closing quote.  Catches a scanner whose writes into value and *)
(* whose lexer_advance calls disagree (the hand-written operator cases).   *)
(***************************************************************************)
LexemeAtLocation ==
    alive /\ has_current /\ tok.type # "EOF" =>
        LET o == tok.loc.offset
            t == tok.value.text
        IN  Slice(o, pos) = IF tok.type = "SCONST" THEN <<Ch(o)>> \o t \o <<Ch(o)>> ELSE t

(***************************************************************************)
(* Reference definitions of the lexical grammar, written independently of *)
(* the scanners: the operator spellings and their token types, the        *)
(* numeral grammar of spec section 4.3, and SQL string decoding.           *)
(***************************************************************************)
OperatorTable ==
    [s \in {<<ch>> : ch \in DOMAIN SingleCharOps} |-> SingleCharOps[s[1]]]
    @@ (<<"-">> :> "MINUS") @@ (<<"-", ">">> :> "JSON_EXTRACT")
    @@ (<<"-", ">", ">">> :> "JSON_EXTRACT_TEXT")
    @@ (<<"<">> :> "LT") @@ (<<"<", "=">> :> "LE") @@ (<<"<", ">">> :> "NE")
    @@ (<<"<", "<">> :> "LSHIFT") @@ (<<">">> :> "GT") @@ (<<">", "=">> :> "GE")
    @@ (<<">", ">">> :> "RSHIFT") @@ (<<"!", "=">> :> "NE")
    @@ (<<"!", "~">> :> "REGEX_NMATCH") @@ (<<"!", "~", "*">> :> "REGEX_INMATCH")
    @@ (<<"|">> :> "BITOR") @@ (<<"|", "|">> :> "CONCAT") @@ (<<"#">> :> "BITXOR")
    @@ (<<"#", ">">> :> "JSON_PATH") @@ (<<"#", ">", ">">> :> "JSON_PATH_TEXT")
    @@ (<<"~">> :> "REGEX_MATCH") @@ (<<"~", "*">> :> "REGEX_IMATCH")
    @@ (<<":">> :> "COLON") @@ (<<":", ":">> :> "TYPECAST")

AllDigits(s)  == Len(s) > 0 /\ \A i \in 1..Len(s) : IsDigit(s[i])
IsFraction(s) == Len(s) > 1 /\ s[1] = "." /\ AllDigits(Tail(s))
IsExponent(s) ==
    Len(s) > 1 /\ s[1] \in {"e", "E"}
    /\ (AllDigits(Tail(s)) \/ (s[2] \in {"+", "-"} /\ AllDigits(Tail(Tail(s)))))

\* digits, an optional fraction, an optional exponent
IsNumeral(s) ==
    \E i, j \in 1..Len(s) + 1 :
        /\ i <= j
        /\ AllDigits(SubSeq(s, 1, i - 1))
        /\ (i = j \/ IsFraction(SubSeq(s, i, j - 1)))
        /\ (j = Len(s) + 1 \/ IsExponent(SubSeq(s, j, Len(s))))

\* the text of a string literal with each doubled delimiter read as one
RECURSIVE Undouble(_, _)
Undouble(s, q) ==
    CASE Len(s) < 2                -> s
      [] s[1] = q /\ s[2] = q      -> <<q>> \o Undouble(Tail(Tail(s)), q)
      [] s[1] = "\\"              -> <<s[1], s[2]>> \o Undouble(Tail(Tail(s)), q)
      [] OTHER                     -> <<s[1]>> \o Undouble(Tail(s), q)

\* the input from the current token's first byte on
Rest == SubSeq(input, tok.loc.offset + 1, n)

HoldsToken == alive /\ has_current /\ tok.type # "EOF"

(***************************************************************************)
(* Greedy operator matching (spec 4.3): an operator token is the longest  *)
(* operator spelling the input offers at its location, with the type that *)
(* spelling denotes ("->>" is one token, never "->" then ">").  About the *)
(* nested next/lookahead tests of the switch in lexer_scan_operator.       *)
(***************************************************************************)
GreedyOperator ==
    HoldsToken /\ tok.type \in Range(OperatorTable) =>
        /\ tok.value.text \in DOMAIN OperatorTable
        /\ OperatorTable[tok.value.text] = tok.type
        /\ IsPrefix(tok.value.text, Rest)
        /\ \A s \in DOMAIN OperatorTable : IsPrefix(s, Rest) => Len(s) <= Len(tok.value.text)

(***************************************************************************)
(* Numerals (spec 4.3): a numeric token is a numeral, no longer prefix of *)
(* the input at its location is one, and it is a float exactly when it    *)
(* has a fraction or an exponent.  About the '.'-digit lookahead and the  *)
(* exponent branch of lexer_scan_number.                                   *)
(***************************************************************************)
NumberMaximalMunch ==
    HoldsToken /\ tok.type \in {"ICONST", "FCONST"} =>
        LET t == tok.value.text
        IN  /\ IsNumeral(t)
            /\ \A k \in Len(t) + 1..Len(Rest) : ~IsNumeral(SubSeq(Rest, 1, k))
            /\ (tok.type = "FCONST") <=> \E i \in 1..Len(t) : t[i] \in {".", "e", "E"}

(***************************************************************************)
(* Keyword classification (spec 8): a word recognised as a reserved word  *)
(* is the table entry it spells, and every ASCII-case variant of a word   *)
(* gets the kind its lower-case spelling gets.  About the case-folding   *)
(* comparison and the exact-length test in lookup_keyword.                 *)
(***************************************************************************)
KeywordClassification ==
    HoldsToken /\ IsAlpha(Ch(tok.loc.offset)) =>
        /\ tok.type # "IDENT" => tok.type = KeywordOf(tok.value.text)
        /\ tok.type = LookupKeyword(LowerCase(tok.value.text))

(***************************************************************************)
(* Every word the keyword table spells is scanned as that reserved word, *)
(* never as a plain identifier (spec 4.2 and 8).                           *)
(***************************************************************************)
KeywordComplete ==
    HoldsToken /\ tok.type = "IDENT" => KeywordOf(tok.value.text) = "IDENT"

(***************************************************************************)
(* No call of lexer_next_token that reaches a scanner, failed or not,      *)
(* leaves the cursor where it was, so a caller that keeps asking for       *)
(* tokens, as the loop of parser_parse does, reaches the end-of-input      *)
(* token, and one that stops at a failure (spec 7) stops after progress.   *)
(***************************************************************************)
ScanAdvances == [][NextTokenScan => pos' > pos]_vars

(***************************************************************************)
(* pg_strcasecmp, the library's case-insensitive comparison (no caller in  *)
(* the scanner, which uses strncasecmp through lookup_keyword), says two   *)
(* non-NULL strings are equal exactly when they have the same length and   *)
(* the same bytes after ASCII lower-casing: its byte loop stops at the     *)
(* first NUL of either and the final *s1 == *s2 tells a prefix apart.     *)
(* Checked on the runs of letters in the input, so on every letter string  *)
(* of up to MaxLen bytes of the alphabet.                                  *)
(***************************************************************************)
LetterRuns == {Slice(i, j) : i \in 0 .. n, j \in 0 .. n} \cap Seq(LetterChars)

StrcasecmpIsCaseInsensitiveEq == StrcasecmpAgrees(LetterRuns)

(***************************************************************************)
(* Spec 3 and 8: every token but end-of-input has a rawText equal to the  *)
(* source bytes from its location on.                                      *)
(***************************************************************************)
RawTextIsSource ==
    HoldsToken => IsPrefix(tok.value.text, Rest)

(***************************************************************************)
(* Spec 3 and 8: a string constant's value is its contents with escapes   *)
(* resolved, a doubled delimiter standing for one ('it''s' is it's).       *)
(***************************************************************************)
StringValueDecoded ==
    HoldsToken /\ tok.type = "SCONST" =>
        tok.value.text = Undouble(Slice(tok.loc.offset + 1, pos - 1), Ch(tok.loc.offset))

(***************************************************************************)
(* Every byte written into token->value, and the terminating '\0', lies  *)
(* inside the buffer palloc returned for it.                               *)
(***************************************************************************)
ValueWithinBuffer ==
    alive /\ tok.value # NULL => Len(tok.value.text) + 1 <= tok.value.size

(***************************************************************************)
(* No token buffer is lost: each one palloc'd for current_token.value is  *)
(* freed by the next lexer_next_token or by lexer_destroy.                 *)
(***************************************************************************)
NoLeakedTokenBuffer == leaked = 0

(***************************************************************************)
(* Spec 4.1 and 8: a call that meets a block comment with no closing "*/" *)
(* consumes the rest of the input and returns the end-of-input token.     *)
(***************************************************************************)
UnterminatedCommentEndsInput ==
    [][ LET w == SkipWhitespace(pos)
        IN  (alive /\ IsBlockCommentStart(w)
             /\ ~\E i \in w + 2..n - 2 : Slice(i, i + 2) = <<"*", "/">>)
            /\ NextToken
            => (has_current' /\ tok'.type = "EOF") ]_vars

=============================================================================
