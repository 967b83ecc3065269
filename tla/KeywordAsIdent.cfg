\* The keyword AS is scanned as an identifier.
CONSTANTS
    Alphabet <- AsBytes
    MaxLen = 2
    NULL = NULL
SPECIFICATION Spec
\* after lexer_destroy the lexer takes no further step
CHECK_DEADLOCK FALSE
INVARIANT KeywordComplete
