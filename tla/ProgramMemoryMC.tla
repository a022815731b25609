-------------------------- MODULE ProgramMemoryMC --------------------------
(***************************************************************************)
(* Instances of ProgramMemory for TLC.                                      *)
(***************************************************************************)
EXTENDS ProgramMemoryProps

CONSTANTS A, F

Plain == Cmd("PLAIN", NoArg)

\* Several programs: global labels and calls between them.
TypableGlobal == {End, Plain, Cmd("LBL", F), Cmd("XEQ", F), Cmd("CLP", F)}
BodiesGlobal == {<<Cmd("LBL", F)>>}

\* Local labels and the jumps that remember their targets.
TypableLocal == {Cmd("LBL", A), Cmd("GTO", A), Cmd("XEQ", A), Cmd("TEST", NoArg),
                 Cmd("RTN", NoArg)}
TypableJumps == {End, Cmd("LBL", A), Cmd("GTO", A)}
BodiesLocal == {<<Cmd("LBL", A), Cmd("STOP", NoArg)>>}

NoBodies == {}
=============================================================================
