------------------------------ MODULE MCLexer ------------------------------
(***************************************************************************)
(* Inputs for model checking the Lexer: small byte alphabets, each aimed  *)
(* at one group of scanners, over which every input up to MaxLen bytes is *)
(* tokenized.                                                              *)
(***************************************************************************)
EXTENDS Lexer

\* operator and punctuation bytes, with a digit for '$n'
OperatorBytes == {"-", ">", "<", "=", "!", "~", "*", "#", "|", ":", "$", "1"}

\* quotes, escapes, comment openers, newline, and the letters of the
\* keywords "and" and "any"/"an" prefixes in both cases
LiteralBytes == {"'", "\\", "/", "*", "-", "\n", "a", "1", ".", "e",
                 "n", "d", "A", "N"}

\* one byte of every scanner's class, a comment opener and a failing byte
ProgressBytes == {"'", "1", "e", "a", "-", "/", "*", "!", "$"}

\* the bytes of the keyword "as"
AsBytes == {"a", "s"}

\* a quote and a word byte
QuoteBytes == {"'", "a"}

\* a byte rejected by the operator scanner, then a word byte
BangBytes == {"!", "a"}

\* a block-comment opener and a word byte
CommentBytes == {"/", "*", "a"}
====
