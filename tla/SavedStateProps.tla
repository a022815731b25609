-------------------------- MODULE SavedStateProps --------------------------
(***************************************************************************)
(* What coming back from the state file must keep.                          *)
(***************************************************************************)
EXTENDS SavedState

Restored == build # "none" /\ sessions > 0 /\ loaded = "file"
IsReset == build # "none" /\ loaded = "reset"

Place(m, prgm, at) ==
    LET starts == Starts(m.prgms[prgm])
    IN  IF \E i \in DOMAIN starts : starts[i] = at
        THEN CHOOSE i \in DOMAIN starts : starts[i] = at ELSE 0

Number(cell) == cell.format # "STRING"
SameCells(type, old, new) ==
    /\ DOMAIN old = DOMAIN new
    /\ \A i \in DOMAIN old :
         /\ old[i].n = new[i].n
         /\ Number(old[i]) <=> Number(new[i])
         /\ \/ ~Number(new[i])
            \/ Unconverted(type, old, i, FormatOf[saved.build], FormatOf[build])
            \/ old[i].format # FormatOf[saved.build]
            \/ new[i].format = FormatOf[build]

\* Every register, variable and the matrix being edited come back with the
\* numbers and strings they had, the numbers in the format of the program that
\* reads them, and registers and variables share an array with the ones they
\* shared it with before: unpersist_vartype() finds each alias by the place
\* persist_vartype() gave its array.  (Half of a complex matrix of an older
\* decimal version is not converted: core_globals.cc:1106.)
ValuesComeBack ==
    Restored =>
        LET old == saved.memory.values
            new == memory.values
        IN  /\ DOMAIN old = DOMAIN new
            /\ \A i \in DOMAIN old :
                 /\ old[i].type = new[i].type
                 /\ SameCells(old[i].type, old[i].cells, new[i].cells)
            /\ \A i, j \in DOMAIN old :
                 (IsMatrix(old[i]) /\ old[i].array = old[j].array)
                   <=> (IsMatrix(new[i]) /\ new[i].array = new[j].array)
            /\ SameCells(memory.matedit_x.type, saved.memory.matedit_x.cells,
                         memory.matedit_x.cells)

\* The program is on the line it was on, and so is the line that a command
\* begun in program mode goes back to when it is cancelled, although literals
\* change their size between the builds (convert_programs()); after a file that
\* cannot be read the cursor is before the first line of the only program there
\* is, on line 00 (goto_dot_dot()), nothing returns to it and nothing has begun.
CursorComesBack ==
    /\ Restored =>
         LET old == saved.memory
         IN  /\ memory.current_prgm = old.current_prgm
             /\ \A prgm \in DOMAIN old.prgms :
                  /\ Len(memory.prgms[prgm]) = Len(old.prgms[prgm])
                  /\ \A i \in DOMAIN old.prgms[prgm] :
                       memory.prgms[prgm][i].op = old.prgms[prgm][i].op
             /\ Place(memory, memory.current_prgm, memory.pc)
                  = Place(old, old.current_prgm, old.pc)
             /\ old.pc < 0 => memory.pc = old.pc
             /\ memory.entry = old.entry
             /\ old.entry => Place(memory, memory.current_prgm, memory.incomplete_saved_pc)
                               = Place(old, old.current_prgm, old.incomplete_saved_pc)
    /\ IsReset => /\ memory.prgms = <<<<End>>>> /\ memory.current_prgm = 1 /\ memory.pc = -1
                  /\ memory.rtns = <<>> /\ ~memory.entry /\ memory.modes = "NONE" /\ memory.math = {}

SameReturns ==
    LET old == saved.memory
        dropped == Marked(old.rtns) /\ saved.build # build /\ "binary" \in {saved.build, build}
    IN  IF dropped THEN memory.rtns = <<>>
        ELSE /\ DOMAIN memory.rtns = DOMAIN old.rtns
             /\ \A i \in DOMAIN old.rtns :
                  /\ memory.rtns[i].prgm = old.rtns[i].prgm
                  /\ old.rtns[i].prgm \in DOMAIN old.prgms =>
                       Place(old, old.rtns[i].prgm, old.rtns[i].pc)
                         \in {0, Place(memory, old.rtns[i].prgm, memory.rtns[i].pc)}

\* The address where the typing of a command began is in the current program,
\* or was never set.
SavedCursorIsInProgram ==
    LET m == saved.memory
    IN  m.incomplete_saved_pc <= Last(Starts(m.prgms[m.current_prgm]))

\* Subroutines return to the line they were called from after the programs
\* were converted, except when the address where the typing of some command
\* began lies past the end of the current program (see ReturnsComeBack).
ReturnsComeBackInProgram == Restored /\ SavedCursorIsInProgram => SameReturns

\* core_globals.cc:2880 "Since converting programs can cause instructions to
\* move, I have to update all stored PC values to correct for this."
ReturnsComeBack == Restored => SameReturns

MarkersHaveTheirState(m) ==
    \A i \in DOMAIN m.rtns :
        /\ m.rtns[i].prgm = Solver => "SOLVE" \in m.math
        /\ m.rtns[i].prgm = Integrator => "INTEG" \in m.math

\* A return to SOLVE or INTEG on the return stack has the state it needs: what
\* unpersist_math() discards, convert_programs() has taken off the stack.
\* (In a file of an older decimal version only the former happens.)
MarkersKeepTheirState ==
    Restored /\ saved.build # "older" /\ MarkersHaveTheirState(saved.memory)
        => MarkersHaveTheirState(memory)
=============================================================================
