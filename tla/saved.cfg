SPECIFICATION Spec
CONSTANTS
    StackSize = 2
    Memories <- MCMemories
    MaxSessions = 2
INVARIANTS
    ValuesComeBack
    CursorComesBack
    ReturnsComeBackInProgram
    MarkersKeepTheirState
\* The calculator is started MaxSessions times.
CHECK_DEADLOCK FALSE
