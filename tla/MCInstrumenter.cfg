CONSTANT
    Length = 5
SPECIFICATION Spec
INVARIANTS
    OnePlacePerMarker
    IdsContiguous
CHECK_DEADLOCK FALSE
