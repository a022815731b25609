---------------------------- MODULE SavedStateMC ----------------------------
(***************************************************************************)
(* An instance of SavedState: what the calculator may hold.                 *)
(***************************************************************************)
EXTENDS SavedStateProps

Word == [n |-> 3, format |-> "STRING"]
Num(n, f) == [n |-> n, format |-> f]

RealMatrix(array, f) == [type |-> "REALMATRIX", array |-> array,
    cells |-> IF array = 1 THEN <<Num(1, f), Word>> ELSE <<Num(array, f)>>]
ComplexMatrix(array, f) == [type |-> "COMPLEXMATRIX", array |-> array,
    cells |-> <<Num(1, f), Num(array, f)>>]
Values(f) == {Real(1, f), [type |-> "STRING", array |-> NoArray, cells |-> <<Word>>],
              RealMatrix(1, f), RealMatrix(2, f), ComplexMatrix(3, f), ComplexMatrix(4, f)}

Plain == [op |-> "PLAIN", format |-> "NONE"]
Literal(f) == [op |-> "NUMBER", format |-> f]

\* Numbers before other commands, in two programs.
TwoPrograms(f) == <<<<Literal(f), End>>, <<Literal(f), Plain, End>>>>

Blank(f) == [Fresh EXCEPT !.values = <<Real(1, f), Real(2, f)>>, !.prgms = TwoPrograms(f)]

\* Registers and variables of all kinds, one of which may be edited.
WithValues(f) ==
    {[Blank(f) EXCEPT !.values = <<x, y, v>>, !.matedit_x = e] :
        x \in Values(f), y \in Values(f), v \in Values(f), e \in {NULL, RealMatrix(1, f)}}

\* Where each line of each program begins.
Addresses(f) == UNION {{[prgm |-> p, pc |-> Starts(TwoPrograms(f)[p])[i]] :
                            i \in DOMAIN TwoPrograms(f)[p]} : p \in 1 .. 2}
Calls(f) == {a \in Addresses(f) : a.pc > 0}
Returns(f) ==
    {<<>>} \union {<<a>> : a \in Calls(f)} \union {<<a, b>> : a \in Calls(f), b \in Calls(f)}
      \union {<<[prgm |-> m, pc |-> 0], a>> : m \in {Solver, Integrator}, a \in Calls(f)}

\* Where GTO . . leaves the cursor.
GotoDotDot == [prgm |-> 2, pc |-> -1]

\* The cursor, the return stack and the place where typing began: in the
\* current program while a command is being typed in program mode.
WithPlaces(f) ==
    {m \in {[Blank(f) EXCEPT !.current_prgm = at.prgm, !.pc = at.pc, !.rtns = rtns,
                             !.incomplete_saved_pc = typing.pc, !.entry = entry,
                             !.modes = "SET", !.keybuf = <<"KEY">>, !.menus = "SET",
                             !.math = {k \in {"SOLVE", "INTEG"} : \E i \in DOMAIN rtns :
                                 rtns[i].prgm = IF k = "SOLVE" THEN Solver ELSE Integrator}] :
             at \in Addresses(f) \union {GotoDotDot}, typing \in Addresses(f), rtns \in Returns(f),
             entry \in BOOLEAN} :
        m.entry => Place(m, m.current_prgm, m.incomplete_saved_pc) # 0}

MCMemories == [f \in {"BINARY", "BID128", "BCD20"} |-> WithPlaces(f) \union WithValues(f)]
=============================================================================
