\* Strings, numerals, comments, newlines and words: lexemes, locations,
\* numeral grammar and keyword classification.
CONSTANTS
    Alphabet <- LiteralBytes
    MaxLen = 4
    NULL = NULL
SPECIFICATION Spec
\* after lexer_destroy the lexer takes no further step
CHECK_DEADLOCK FALSE
INVARIANT TypeOK
INVARIANT LocationTracksInput
INVARIANT LexemeAtLocation
INVARIANT NumberMaximalMunch
INVARIANT KeywordClassification
PROPERTY ScanAdvances
INVARIANT StrcasecmpIsCaseInsensitiveEq
