CONSTANT
    Sources <- MCSources
SPECIFICATION Spec
INVARIANTS
    InnerFirst
    MarkersDeclared
    InstrumentedAsNested
CHECK_DEADLOCK FALSE
