\* parser_parse over one byte of each scanner class and the failing bytes.
CONSTANTS
    Alphabet <- ProgressBytes
    MaxLen = 3
    NULL = NULL
SPECIFICATION ParserFairSpec
\* after parser_destroy the parser takes no further step
CHECK_DEADLOCK FALSE
INVARIANT ParseErrorReported
INVARIANT ParseListInSourceOrder
PROPERTY ParseTerminates
PROPERTY TokenStreamRefinement
