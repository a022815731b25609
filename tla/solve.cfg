SPECIFICATION Spec
CONSTANTS
    MAX_RTNS = 3
    Places = {p1, p2}
    SOLVE = SOLVE
    INTEG = INTEG
    StateFiles = {"SAME", "OTHER_FORMAT"}
INVARIANTS
    OneOfEachKind
    MarkersHaveState
PROPERTIES
    ImplementsCallStack
