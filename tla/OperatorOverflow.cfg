\* Three-byte operators write four bytes into a three-byte buffer.
CONSTANTS
    Alphabet <- OperatorBytes
    MaxLen = 3
    NULL = NULL
SPECIFICATION Spec
\* after lexer_destroy the lexer takes no further step
CHECK_DEADLOCK FALSE
INVARIANT ValueWithinBuffer
