CONSTANTS
    Sites <- MCSites
    Inputs <- CombinedInput
    MaxId = 3
    MaxLength = 3
SPECIFICATION Spec
INVARIANT SitesFollowMarkers
CHECK_DEADLOCK FALSE
