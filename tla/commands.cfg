SPECIFICATION Spec
CONSTANTS
    Variables = {"REGS", "A"}
    Arrays = {1, 2}
    MaxOdd = 2
INVARIANTS
    ValuesHeldOnce
    RegsIsAMatrix
    SharedArraysUntouched
    FailedCommandChangesNothing
