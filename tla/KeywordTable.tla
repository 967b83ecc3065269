---------------------------- MODULE KeywordTable ----------------------------
(***************************************************************************)
(* The keyword table of src/cgo/sql_parser.c and its lookup: the ASCII     *)
(* character classes used by the scanners, the static sorted array         *)
(* keywords[] and the binary search lookup_keyword(str, len).              *)
(*                                                                         *)
(* A character is a one-character string; a spelling is a sequence of     *)
(* characters.  NUL stands for the '\0' byte that lexer_peek returns past *)
(* the end of the input and that terminates the C keyword spellings.      *)
(***************************************************************************)
EXTENDS Integers, Sequences, SequencesExt

NUL == "NUL"

DigitSeq == <<"0","1","2","3","4","5","6","7","8","9">>
UpperSeq == <<"A","B","C","D","E","F","G","H","I","J","K","L","M",
              "N","O","P","Q","R","S","T","U","V","W","X","Y","Z">>
LowerSeq == <<"a","b","c","d","e","f","g","h","i","j","k","l","m",
              "n","o","p","q","r","s","t","u","v","w","x","y","z">>

DigitChars == ToSet(DigitSeq)
UpperChars == ToSet(UpperSeq)
LetterChars == UpperChars \cup ToSet(LowerSeq) \cup {"_"}

\* is_digit, is_alpha (letters and '_'), is_alnum, is_space
IsDigit(ch) == ch \in DigitChars
IsAlpha(ch) == ch \in LetterChars
IsAlnum(ch) == IsAlpha(ch) \/ IsDigit(ch)
IsSpace(ch) == ch \in {" ", "\t", "\n", "\r", "\f"}

\* The byte value of each identifier character and of NUL, as the C
\* comparison sees it.
CharCode ==
    [ch \in LetterChars \cup DigitChars \cup {NUL} |->
        LET At(s) == CHOOSE i \in 1..Len(s) : s[i] = ch
        IN  CASE ch = NUL           -> 0
              [] ch = "_"           -> 95
              [] ch \in DigitChars -> 47 + At(DigitSeq)
              [] ch \in UpperChars -> 64 + At(UpperSeq)
              [] OTHER              -> 96 + At(LowerSeq)]

\* tolower() on an ASCII character.
LowerOf == [ch \in UpperChars |-> LowerSeq[CHOOSE i \in 1..26 : UpperSeq[i] = ch]]
ToLower(ch) == IF ch \in UpperChars THEN LowerOf[ch] ELSE ch

LowerCase(s) == [i \in 1..Len(s) |-> ToLower(s[i])]

\* keywords[]: the static table, sorted by spelling, never written.
Keywords == <<
    [name |-> <<"a","c","t","i","o","n">>, token |-> "ACTION"],
    [name |-> <<"a","l","l">>, token |-> "ALL"],
    [name |-> <<"a","l","t","e","r">>, token |-> "ALTER"],
    [name |-> <<"a","n","a","l","y","z","e">>, token |-> "ANALYZE_P"],
    [name |-> <<"a","n","d">>, token |-> "AND"],
    [name |-> <<"a","n","y">>, token |-> "ANY"],
    [name |-> <<"a","r","r","a","y">>, token |-> "ARRAY"],
    [name |-> <<"a","s">>, token |-> "AS"],
    [name |-> <<"a","s","c">>, token |-> "ASC"],
    [name |-> <<"b","e","g","i","n">>, token |-> "BEGIN_P"],
    [name |-> <<"b","e","t","w","e","e","n">>, token |-> "BETWEEN"],
    [name |-> <<"b","i","g","i","n","t">>, token |-> "BIGINT"],
    [name |-> <<"b","i","t">>, token |-> "BIT"],
    [name |-> <<"b","o","o","l","e","a","n">>, token |-> "BOOLEAN"],
    [name |-> <<"b","o","t","h">>, token |-> "BOTH"],
    [name |-> <<"b","y">>, token |-> "BY"],
    [name |-> <<"c","a","s","c","a","d","e">>, token |-> "CASCADE"],
    [name |-> <<"c","a","s","e">>, token |-> "CASE"],
    [name |-> <<"c","a","s","t">>, token |-> "CAST"],
    [name |-> <<"c","h","a","r">>, token |-> "CHAR_P"],
    [name |-> <<"c","h","a","r","a","c","t","e","r">>, token |-> "CHARACTER"],
    [name |-> <<"c","h","e","c","k">>, token |-> "CHECK"],
    [name |-> <<"c","l","u","s","t","e","r">>, token |-> "CLUSTER"],
    [name |-> <<"c","o","a","l","e","s","c","e">>, token |-> "COALESCE_EXPR"],
    [name |-> <<"c","o","l","l","a","t","e">>, token |-> "COLLATE"],
    [name |-> <<"c","o","l","u","m","n">>, token |-> "COLUMN_REF"],
    [name |-> <<"c","o","m","m","i","t">>, token |-> "COMMIT"],
    [name |-> <<"c","o","m","m","i","t","t","e","d">>, token |-> "COMMITTED"],
    [name |-> <<"c","o","n","s","t","r","a","i","n","t">>, token |-> "CONSTRAINT"],
    [name |-> <<"c","o","p","y">>, token |-> "COPY"],
    [name |-> <<"c","r","e","a","t","e">>, token |-> "CREATE"],
    [name |-> <<"c","r","o","s","s">>, token |-> "CROSS"],
    [name |-> <<"c","u","r","r","e","n","t">>, token |-> "CURRENT_P"],
    [name |-> <<"d","a","t","a","b","a","s","e">>, token |-> "DATABASE"],
    [name |-> <<"d","a","t","e">>, token |-> "DATE"],
    [name |-> <<"d","e","c","i","m","a","l">>, token |-> "DECIMAL_P"],
    [name |-> <<"d","e","f","a","u","l","t">>, token |-> "DEFAULT"],
    [name |-> <<"d","e","f","e","r","r","a","b","l","e">>, token |-> "DEFERRABLE"],
    [name |-> <<"d","e","f","e","r","r","e","d">>, token |-> "DEFERRED"],
    [name |-> <<"d","e","l","e","t","e">>, token |-> "DELETE"],
    [name |-> <<"d","e","s","c">>, token |-> "DESC"],
    [name |-> <<"d","i","s","t","i","n","c","t">>, token |-> "DISTINCT"],
    [name |-> <<"d","o","u","b","l","e">>, token |-> "DOUBLE_P"],
    [name |-> <<"d","r","o","p">>, token |-> "DROP"],
    [name |-> <<"e","l","s","e">>, token |-> "ELSE"],
    [name |-> <<"e","n","d">>, token |-> "END_P"],
    [name |-> <<"e","x","c","e","p","t">>, token |-> "EXCEPT"],
    [name |-> <<"e","x","e","c","u","t","e">>, token |-> "EXECUTE"],
    [name |-> <<"e","x","i","s","t","s">>, token |-> "EXISTS"],
    [name |-> <<"e","x","p","l","a","i","n">>, token |-> "EXPLAIN"],
    [name |-> <<"e","x","t","r","a","c","t">>, token |-> "EXTRACT"],
    [name |-> <<"f","a","l","s","e">>, token |-> "FALSE_P"],
    [name |-> <<"f","o","l","l","o","w","i","n","g">>, token |-> "FOLLOWING"],
    [name |-> <<"f","o","r">>, token |-> "FOR"],
    [name |-> <<"f","o","r","e","i","g","n">>, token |-> "FOREIGN"],
    [name |-> <<"f","r","o","m">>, token |-> "FROM"],
    [name |-> <<"f","u","l","l">>, token |-> "FULL_P"],
    [name |-> <<"f","u","n","c","t","i","o","n">>, token |-> "FUNCTION"],
    [name |-> <<"g","r","a","n","t">>, token |-> "GRANT"],
    [name |-> <<"g","r","o","u","p">>, token |-> "GROUP_P"],
    [name |-> <<"h","a","v","i","n","g">>, token |-> "HAVING"],
    [name |-> <<"i","f">>, token |-> "IF_P"],
    [name |-> <<"i","l","i","k","e">>, token |-> "ILIKE"],
    [name |-> <<"i","m","m","e","d","i","a","t","e">>, token |-> "IMMEDIATE"],
    [name |-> <<"i","n">>, token |-> "IN"],
    [name |-> <<"i","n","d","e","x">>, token |-> "INDEX"],
    [name |-> <<"i","n","i","t","i","a","l","l","y">>, token |-> "INITIALLY"],
    [name |-> <<"i","n","n","e","r">>, token |-> "INNER_P"],
    [name |-> <<"i","n","s","e","r","t">>, token |-> "INSERT"],
    [name |-> <<"i","n","t","e","g","e","r">>, token |-> "INTEGER"],
    [name |-> <<"i","n","t","e","r","s","e","c","t">>, token |-> "INTERSECT"],
    [name |-> <<"i","n","t","e","r","v","a","l">>, token |-> "INTERVAL"],
    [name |-> <<"i","n","t","o">>, token |-> "INTO_CLAUSE"],
    [name |-> <<"i","s">>, token |-> "IS"],
    [name |-> <<"j","o","i","n">>, token |-> "JOIN"],
    [name |-> <<"j","s","o","n">>, token |-> "JSON"],
    [name |-> <<"j","s","o","n","b">>, token |-> "JSONB"],
    [name |-> <<"k","e","y">>, token |-> "KEY"],
    [name |-> <<"l","e","a","d","i","n","g">>, token |-> "LEADING"],
    [name |-> <<"l","e","f","t">>, token |-> "LEFT"],
    [name |-> <<"l","e","v","e","l">>, token |-> "LEVEL"],
    [name |-> <<"l","i","k","e">>, token |-> "LIKE"],
    [name |-> <<"l","i","m","i","t">>, token |-> "LIMIT"],
    [name |-> <<"l","o","c","a","l">>, token |-> "LOCAL"],
    [name |-> <<"m","a","t","c","h">>, token |-> "MATCH"],
    [name |-> <<"n","a","t","u","r","a","l">>, token |-> "NATURAL"],
    [name |-> <<"n","o">>, token |-> "NO"],
    [name |-> <<"n","o","t">>, token |-> "NOT"],
    [name |-> <<"n","u","l","l">>, token |-> "NULL_P"],
    [name |-> <<"n","u","m","e","r","i","c">>, token |-> "NUMERIC"],
    [name |-> <<"o","f","f","s","e","t">>, token |-> "OFFSET"],
    [name |-> <<"o","n">>, token |-> "ON"],
    [name |-> <<"o","n","l","y">>, token |-> "ONLY"],
    [name |-> <<"o","r">>, token |-> "OR"],
    [name |-> <<"o","r","d","e","r">>, token |-> "ORDER"],
    [name |-> <<"o","u","t","e","r">>, token |-> "OUTER_P"],
    [name |-> <<"o","v","e","r">>, token |-> "OVER"],
    [name |-> <<"o","v","e","r","l","a","y">>, token |-> "OVERLAY"],
    [name |-> <<"p","a","r","t","i","a","l">>, token |-> "PARTIAL"],
    [name |-> <<"p","a","r","t","i","t","i","o","n">>, token |-> "PARTITION"],
    [name |-> <<"p","o","s","i","t","i","o","n">>, token |-> "POSITION"],
    [name |-> <<"p","r","e","c","e","d","i","n","g">>, token |-> "PRECEDING"],
    [name |-> <<"p","r","e","c","i","s","i","o","n">>, token |-> "PRECISION"],
    [name |-> <<"p","r","i","m","a","r","y">>, token |-> "PRIMARY"],
    [name |-> <<"p","r","o","c","e","d","u","r","e">>, token |-> "PROCEDURE"],
    [name |-> <<"p","u","b","l","i","c">>, token |-> "PUBLIC"],
    [name |-> <<"r","a","n","g","e">>, token |-> "RANGE"],
    [name |-> <<"r","e","a","d">>, token |-> "READ"],
    [name |-> <<"r","e","a","l">>, token |-> "REAL"],
    [name |-> <<"r","e","c","u","r","s","i","v","e">>, token |-> "RECURSIVE"],
    [name |-> <<"r","e","f","e","r","e","n","c","e","s">>, token |-> "REFERENCES"],
    [name |-> <<"r","e","i","n","d","e","x">>, token |-> "REINDEX"],
    [name |-> <<"r","e","s","t","r","i","c","t">>, token |-> "RESTRICT"],
    [name |-> <<"r","e","v","o","k","e">>, token |-> "REVOKE"],
    [name |-> <<"r","i","g","h","t">>, token |-> "RIGHT"],
    [name |-> <<"r","o","l","e">>, token |-> "ROLE"],
    [name |-> <<"r","o","l","l","b","a","c","k">>, token |-> "ROLLBACK"],
    [name |-> <<"r","o","w">>, token |-> "ROW"],
    [name |-> <<"r","o","w","s">>, token |-> "ROWS"],
    [name |-> <<"s","c","h","e","m","a">>, token |-> "SCHEMA"],
    [name |-> <<"s","e","l","e","c","t">>, token |-> "SELECT"],
    [name |-> <<"s","e","r","i","a","l","i","z","a","b","l","e">>, token |-> "SERIALIZABLE"],
    [name |-> <<"s","e","t">>, token |-> "SET"],
    [name |-> <<"s","i","m","i","l","a","r">>, token |-> "SIMILAR"],
    [name |-> <<"s","m","a","l","l","i","n","t">>, token |-> "SMALLINT"],
    [name |-> <<"s","o","m","e">>, token |-> "SOME"],
    [name |-> <<"s","t","a","r","t">>, token |-> "START"],
    [name |-> <<"s","u","b","s","t","r","i","n","g">>, token |-> "SUBSTRING"],
    [name |-> <<"t","a","b","l","e">>, token |-> "TABLE"],
    [name |-> <<"t","e","m","p">>, token |-> "TEMP"],
    [name |-> <<"t","e","m","p","o","r","a","r","y">>, token |-> "TEMPORARY"],
    [name |-> <<"t","e","x","t">>, token |-> "TEXT"],
    [name |-> <<"t","h","e","n">>, token |-> "THEN"],
    [name |-> <<"t","i","m","e">>, token |-> "TIME"],
    [name |-> <<"t","i","m","e","s","t","a","m","p">>, token |-> "TIMESTAMP"],
    [name |-> <<"t","r","a","i","l","i","n","g">>, token |-> "TRAILING"],
    [name |-> <<"t","r","a","n","s","a","c","t","i","o","n">>, token |-> "TRANSACTION"],
    [name |-> <<"t","r","i","g","g","e","r">>, token |-> "TRIGGER"],
    [name |-> <<"t","r","i","m">>, token |-> "TRIM"],
    [name |-> <<"t","r","u","e">>, token |-> "TRUE_P"],
    [name |-> <<"t","r","u","n","c","a","t","e">>, token |-> "TRUNCATE"],
    [name |-> <<"u","n","b","o","u","n","d","e","d">>, token |-> "UNBOUNDED"],
    [name |-> <<"u","n","c","o","m","m","i","t","t","e","d">>, token |-> "UNCOMMITTED"],
    [name |-> <<"u","n","i","o","n">>, token |-> "UNION"],
    [name |-> <<"u","n","i","q","u","e">>, token |-> "UNIQUE"],
    [name |-> <<"u","p","d","a","t","e">>, token |-> "UPDATE"],
    [name |-> <<"u","s","e","r">>, token |-> "USER"],
    [name |-> <<"u","s","i","n","g">>, token |-> "USING"],
    [name |-> <<"v","a","c","u","u","m">>, token |-> "VACUUM"],
    [name |-> <<"v","a","r","c","h","a","r">>, token |-> "VARCHAR"],
    [name |-> <<"v","i","e","w">>, token |-> "VIEW"],
    [name |-> <<"w","h","e","n">>, token |-> "WHEN"],
    [name |-> <<"w","h","e","r","e">>, token |-> "WHERE"],
    [name |-> <<"w","i","n","d","o","w">>, token |-> "WINDOW"],
    [name |-> <<"w","i","t","h">>, token |-> "WITH"],
    [name |-> <<"w","o","r","k">>, token |-> "WORK"],
    [name |-> <<"w","r","i","t","e">>, token |-> "WRITE"]
    >>

(***************************************************************************)
(* strncasecmp(s, name, Len(s)): the sign of the first difference of the  *)
(* lower-cased bytes among the first Len(s) bytes; a spelling shorter than *)
(* s shows its terminating NUL.                                            *)
(***************************************************************************)
\* Faulty variant of CaseCmpFrom: strncmp, without case folding.
RECURSIVE CaseCmpFromNoFold(_, _, _)
CaseCmpFromNoFold(s, name, i) ==
    IF i > Len(s) THEN 0
    ELSE LET a == CharCode[s[i]]
             b == CharCode[IF i <= Len(name) THEN name[i] ELSE NUL]
         IN  IF a # b THEN a - b ELSE CaseCmpFromNoFold(s, name, i + 1)

RECURSIVE CaseCmpFrom(_, _, _)
CaseCmpFrom(s, name, i) ==
    IF i > Len(s) THEN 0
    ELSE LET a == CharCode[ToLower(s[i])]
             b == CharCode[IF i <= Len(name) THEN name[i] ELSE NUL]
         IN  IF a # b THEN a - b ELSE CaseCmpFrom(s, name, i + 1)

StrNCaseCmp(s, name) == CaseCmpFrom(s, name, 1)

(***************************************************************************)
(* lookup_keyword: binary search over the 0-based indices left..right.    *)
(***************************************************************************)
RECURSIVE BSearch(_, _, _)
BSearch(s, left, right) ==
    IF left > right THEN "IDENT"
    ELSE LET mid == (left + right) \div 2
             e   == Keywords[mid + 1]
             cmp == StrNCaseCmp(s, e.name)
         IN  CASE cmp = 0 /\ Len(e.name) = Len(s) -> e.token
               [] cmp < 0                          -> BSearch(s, left, mid - 1)
               [] OTHER                            -> BSearch(s, mid + 1, right)

LookupKeyword(s) == BSearch(s, 0, Len(Keywords) - 1)

(***************************************************************************)
(* Reference definition: the token of the entry whose spelling is the     *)
(* lower-cased candidate, found without any search order.                  *)
(***************************************************************************)
KeywordOf(s) ==
    IF \E i \in 1..Len(Keywords) : Keywords[i].name = LowerCase(s)
    THEN Keywords[CHOOSE i \in 1..Len(Keywords) : Keywords[i].name = LowerCase(s)].token
    ELSE "IDENT"
=============================================================================
