------------------------------ MODULE MCParser ------------------------------
(* parser_parse over every input of the MCLexer alphabets.                 *)
EXTENDS Parser, MCLexer
=============================================================================
