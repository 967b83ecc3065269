\* A string token's value is not the source text at its location.
CONSTANTS
    Alphabet <- QuoteBytes
    MaxLen = 3
    NULL = NULL
SPECIFICATION Spec
\* after lexer_destroy the lexer takes no further step
CHECK_DEADLOCK FALSE
INVARIANT RawTextIsSource
