SPECIFICATION Spec
CONSTANTS
    Prime = 3
    Operations = {"div", "mul", "inv", "det"}
    Complex = {FALSE, TRUE}
    Dialogs = 1
    Denominators <- Squares
    Numerators <- Divided
INVARIANTS
    QuotientSolves
    ProductIsRight
    RealDetIsDeterminant
    AnsweredOnce
    BlocksFreed
    SettingIsKept
