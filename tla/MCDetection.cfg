CONSTANTS
    Ids <- MCIds
    Strategies = {"FunctionCall", "AsmComment", "GlobalInt"}
    FunctionCall = "FunctionCall"
    Pattern <- MCPattern
    Magic = 3
    Base = 4
    IntMax <- MCIntMax
    OtherLines <- MCOtherLines
SPECIFICATION Spec
INVARIANT FindsNonEliminated
