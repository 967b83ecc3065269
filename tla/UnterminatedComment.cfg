\* An unclosed block comment does not swallow the rest of the input.
CONSTANTS
    Alphabet <- CommentBytes
    MaxLen = 3
    NULL = NULL
SPECIFICATION Spec
\* after lexer_destroy the lexer takes no further step
CHECK_DEADLOCK FALSE
PROPERTY UnterminatedCommentEndsInput
