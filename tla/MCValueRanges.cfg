CONSTANTS
    Declared <- AllTypes
    CharMax = 1
    ShortMax = 1
    IntMax = 3
    LongMax = 7
    LongLongMax = 7
    CharSigned = TRUE
    BigLiteral <- Int128
SPECIFICATION Spec
INVARIANTS
    DeadInRange
    RefinedToSpan
