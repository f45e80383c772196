CONSTANTS
    Sites <- MCSites
    Inputs <- SparseInput
    MaxId = 3
    MaxLength = 3
SPECIFICATION Spec
INVARIANT MarkersUnique
CHECK_DEADLOCK FALSE
