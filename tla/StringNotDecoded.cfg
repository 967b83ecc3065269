\* A doubled quote inside a string literal is kept doubled in its value.
CONSTANTS
    Alphabet <- QuoteBytes
    MaxLen = 4
    NULL = NULL
SPECIFICATION Spec
\* after lexer_destroy the lexer takes no further step
CHECK_DEADLOCK FALSE
INVARIANT StringValueDecoded
