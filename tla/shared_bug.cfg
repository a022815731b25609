SPECIFICATION Spec
CONSTANTS
    Variables = {"REGS", "A"}
    Arrays = {1, 2}
    MaxOdd = 1
INVARIANTS
    StatisticsLeaveCopiesAlone
