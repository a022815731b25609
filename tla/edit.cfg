SPECIFICATION Spec
CONSTANTS
    A = A
    F = F
    NoArg = NoArg
    LocalLabels = {}
    GlobalLabels = {F}
    MAX_RTNS = 2
    Typable <- TypableGlobal
    Bodies <- BodiesGlobal
    MaxPrgms = 3
    MaxLines = 5
INVARIANTS
    ProgramsWellFormed
    LabelTableExact
    ReturnAddressesValid
PROPERTIES
    EditsForgetReturns
    ClpKeepsOtherCursor
    ImplementsListing
