SPECIFICATION Spec
CONSTANTS
    Prime = 3
    Operations = {"det"}
    Complex = {TRUE}
    Dialogs = 0
    Denominators <- Squares
    Numerators <- Divided
INVARIANTS
    DetIsDeterminant
