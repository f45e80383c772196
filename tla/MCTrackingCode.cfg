CONSTANTS
    Processes = {parent, child}
    First = parent
    Threads = {main, other}
    Values <- MCValues
SPECIFICATION FairSpec
INVARIANTS
    TypeOK
    RefinedFromEncountered
    BoundsEncountered
PROPERTIES
    TrackedRangesSpec
    EncounteredIsRefined
CHECK_DEADLOCK FALSE
