SPECIFICATION Spec
CONSTANTS
    A = A
    F = F
    NoArg = NoArg
    LocalLabels = {A}
    GlobalLabels = {}
    MAX_RTNS = 2
    Typable <- TypableLocal
    Bodies <- BodiesLocal
    MaxPrgms = 1
    MaxLines = 4
INVARIANTS
    CacheAgrees
    CursorValid
