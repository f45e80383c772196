CONSTANTS
    Ids = {0, 1}
    Readers = {reader}
    Owner = owner
    UserFlags = {flag}
    IncludeFlag = include
    Mentioning = {include}
    Absent = Absent
    Cut = Cut
    None = None
SPECIFICATION Spec
INVARIANT
    LoadedMarkersCover
PROPERTIES
    MacrosDefined
    Reparsed
CHECK_DEADLOCK FALSE
