SPECIFICATION ParseSpec
CONSTANT
    MaxLine = 6
INVARIANTS
    TokensAsDefined
PROPERTY
    AlwaysReturns
CHECK_DEADLOCK FALSE
