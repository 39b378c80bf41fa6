SPECIFICATION SyntaxSpec
CONSTANTS
    Name = {"x", "Array"}
    Generic = {"Array"}
    Vocabularies <- MCVocabularies
    LexErrors = {"StringSimple"}
    MaxTokens = 8
    Headers <- MCHeaders
INVARIANT Balanced
INVARIANT AcceptsOnlyNested
INVARIANT Aligned
PROPERTY ParsersEnd
CHECK_DEADLOCK FALSE
