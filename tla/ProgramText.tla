---------------------------- MODULE ProgramText ----------------------------
(***************************************************************************)
(* The text of Free42's programs and the searches made in it: the operators *)
(* the program store and the interpreter are built from                     *)
(* (src/common/core_globals.cc).                                            *)
(*                                                                          *)
(* A command is one element of a sequence, whatever number of bytes it      *)
(* takes in prgm_struct.text, so a program counter is a line number: line 0 *)
(* stands for the code's pc = -1 ("line 00"), line n for the byte offset of *)
(* the n-th command, and Len(text) + 1 for pc = size.  Programs are         *)
(* numbered from 1 (the code numbers them from 0).                          *)
(***************************************************************************)
EXTENDS Integers, Sequences, SequencesExt

CONSTANTS
    LocalLabels,   \* local labels: numbers and A..J, a..e
    GlobalLabels,  \* alpha labels
    NoArg          \* the argument of a command that takes none

ASSUME LabelsAssumption ==
    /\ LocalLabels \cap GlobalLabels = {}
    /\ NoArg \notin LocalLabels \cup GlobalLabels

(***************************************************************************)
(* The four bytes after a GTO or XEQ of a local label remember where the    *)
(* label was found; these two values say that it was not.                   *)
(***************************************************************************)
Unknown == -1
Nonexistent == -2

\* "PLAIN" stands for every command that only works on data, "TEST" for the
\* conditionals, "NONE" for the line a power cycle can leave (see PowerCycle).
Ops == {"END", "LBL", "GTO", "XEQ", "RTN", "STOP", "CLP", "TEST", "PLAIN", "NONE"}

Command ==
    [target : Int, arg : LocalLabels \cup GlobalLabels \cup {NoArg}, op : Ops]

Cmd(op, arg) == [target |-> Unknown, arg |-> arg, op |-> op]
End == Cmd("END", NoArg)

IsLocalJump(c) == c.op \in {"GTO", "XEQ"} /\ c.arg \in LocalLabels
IsGlobalJump(c) == c.op \in {"GTO", "XEQ"} /\ c.arg \in GlobalLabels
IsTableLine(c) == c.op = "END" \/ (c.op = "LBL" /\ c.arg \in GlobalLabels)

\* A program: its text, and whether no jump in it remembers a target.
Program == [text : Seq(Command), lclbl_invalid : BOOLEAN]

WithTarget(c, n) == [target |-> n, arg |-> c.arg, op |-> c.op]
Forget(c) == WithTarget(c, Unknown)

(***************************************************************************)
(* Positions.                                                               *)
(***************************************************************************)

\* Line 00 is entered and executed as line 01.
FirstIfZero(pc) == IF pc = 0 THEN 1 ELSE pc

\* Mutant: inserts after the END.
InsertionPoint_AfterEnd(text, pc) == pc + 1

\* Where a command typed in at pc goes: after the current line, but never
\* after the END.
InsertionPoint(text, pc) ==
    IF pc = 0 THEN 1 ELSE IF text[pc].op = "END" THEN pc ELSE pc + 1

pc2line(text, pc) == IF pc > Len(text) THEN Len(text) ELSE pc
line2pc(text, line) == IF line > Len(text) THEN Len(text) ELSE line

\* Mutant: off by one at the END.
sst_PastEnd(text, pc) == IF pc > Len(text) THEN 0 ELSE pc + 1

sst(text, pc) == IF pc >= Len(text) THEN 0 ELSE pc + 1

bst(text, pc) ==
    LET line == pc2line(text, pc)
    IN  IF line = 0 THEN Len(text) ELSE line2pc(text, line - 1)

(***************************************************************************)
(* Searches.                                                                *)
(***************************************************************************)

\* The search runs forward from pc, stops before the END, and wraps around to
\* the top of the program once.
find_local_label(text, label, pc) ==
    LET hits == {i \in 1 .. Len(text) - 1 :
                    text[i].op = "LBL" /\ text[i].arg = label}
        ahead == {i \in hits : i >= FirstIfZero(pc)}
        first(S) == CHOOSE i \in S : \A j \in S : i <= j
    IN  IF hits = {} THEN Nonexistent
        ELSE IF ahead # {} THEN first(ahead) ELSE first(hits)

\* The index in the label table of the last label with this name, 0 if none.
find_global_label(table, name) ==
    LET hits == {i \in DOMAIN table : table[i].name = name}
    IN  IF hits = {} THEN 0 ELSE CHOOSE i \in hits : \A j \in hits : j <= i

\* The label table as rebuild_label_table() computes it: the global labels
\* and the ENDs (whose name is empty) in program order.
rebuild_label_table(programs) ==
    LET entries(p) ==
          LET text == programs[p].text
          IN  SelectSeq([i \in DOMAIN text |->
                            [name |-> text[i].arg, prgm |-> p, pc |-> i]],
                        LAMBDA e : IsTableLine(text[e.pc]))
    IN  FlattenSeq([p \in DOMAIN programs |-> entries(p)])

(***************************************************************************)
(* Changes to one program.                                                  *)
(***************************************************************************)

invalidate_lclbls(prgm) ==
    IF prgm.lclbl_invalid THEN prgm
    ELSE [text |-> [i \in DOMAIN prgm.text |->
                        IF IsLocalJump(prgm.text[i]) THEN Forget(prgm.text[i])
                        ELSE prgm.text[i]],
          lclbl_invalid |-> TRUE]

\* A program given another text.
Rewritten(prgm, text) ==
    invalidate_lclbls([text |-> text, lclbl_invalid |-> prgm.lclbl_invalid])

\* What a jump at line pc finds: the remembered target, or a search from the
\* next line, whose result the fetch writes into the text.
TargetOf(text, pc) ==
    IF text[pc].target # Unknown THEN text[pc].target
    ELSE find_local_label(text, text[pc].arg, pc + 1)

\* Mutant: does not record that the text now holds a target.
Remember_NoFlag(prgm, pc) ==
    [prgm EXCEPT !.text[pc].target = TargetOf(prgm.text, pc)]

Remember(prgm, pc) ==
    IF IsLocalJump(prgm.text[pc]) /\ prgm.text[pc].target = Unknown
    THEN [text |-> [prgm.text EXCEPT ![pc] = WithTarget(@, TargetOf(prgm.text, pc))],
          lclbl_invalid |-> FALSE]
    ELSE prgm

\* The lines of a program are its commands and, last, its only END.
WellFormed(text) ==
    /\ text # <<>>
    /\ \A i \in DOMAIN text : text[i].op = "END" <=> i = Len(text)

=============================================================================
