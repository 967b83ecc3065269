\* Greedy operator matching over every input of up to four operator bytes.
CONSTANTS
    Alphabet <- OperatorBytes
    MaxLen = 4
    NULL = NULL
SPECIFICATION Spec
\* after lexer_destroy the lexer takes no further step
CHECK_DEADLOCK FALSE

INVARIANT GreedyOperator
