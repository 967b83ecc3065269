\* Calling lexer_next_token after a rejected operator byte loses a buffer.
CONSTANTS
    Alphabet <- BangBytes
    MaxLen = 2
    NULL = NULL
SPECIFICATION Spec
\* after lexer_destroy the lexer takes no further step
CHECK_DEADLOCK FALSE
INVARIANT NoLeakedTokenBuffer
