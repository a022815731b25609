SPECIFICATION Spec
CONSTANTS
    Shown = {"ALPHA1", "FGHI", "A_THRU_F", "EDIT1", "EDIT2", "SIMQ", "VARMENU", "INTEG_PARAMS", "CUSTOM1"}
    Commands = {"A_THRU_F", "DECM", "EDIT", "XEQ", "AON", "GTO", "STO", "LBL", "CLP", "MVAR", "KEYG", "DIM", "GOTOROW"}
    Steps = {"AON", "MENU", "HEXM"}
    MaxText = 1
    MaxLines = 1
    MaxDigits = 2
    MaxExits = 9
    Kinds = {"real", "mat"}
    Presses <- KeysPressed
INVARIANTS
    CallbackFits
    HexKeysMeanHex
    ModesMatchMenus
    ArgFits
    ExitLeadsHome
