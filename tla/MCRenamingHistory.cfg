CONSTANTS
    Sites <- MCSites
    Inputs <- AllInputs
    MaxId = 3
    MaxLength = 3
    Modes = {"DCE", "VR", "DCE_AND_VR"}
    MaxMarkers = 3
    MaxPrograms = 2
    MaxRemoved = 3
SPECIFICATION HistoryOrGivenSpec
INVARIANTS
    UniqueIfFirstComplete
    UniqueIffNotTaken
    FollowIffOrderSafe
    FollowIfFewRemoved
CHECK_DEADLOCK FALSE
