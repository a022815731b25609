------------------------- MODULE ProgramMemoryProps -------------------------
(***************************************************************************)
(* What the program store must keep true.                                   *)
(***************************************************************************)
EXTENDS ProgramMemory

Label == [name : GlobalLabels \cup {NoArg}, prgm : Nat, pc : Nat]

\* Each program holds exactly one END and it is its last line: every scan of
\* a program's text in core_globals.cc stops at it and at nothing else.
ProgramsWellFormed == \A p \in DOMAIN prgms : WellFormed(prgms[p].text)

\* The label table, which most operations patch in place, is always the table
\* a full scan of the programs would give, in the same order
\* (update_label_table and the compaction loops against rebuild_label_table).
LabelTableExact == labels = rebuild_label_table(prgms)

\* Every return address is a line of an existing program, and never line 00:
\* docmd_rtn jumps to it without a check.
ReturnAddressesValid ==
    \A i \in DOMAIN rtns :
        /\ rtns[i].prgm \in DOMAIN prgms
        /\ rtns[i].pc \in 1 .. Len(prgms[rtns[i].prgm].text)

\* The listing of a program, without the remembered jump targets.
Stripped(t) == [i \in DOMAIN t |-> Forget(t[i])]
Listings(programs) == [p \in DOMAIN programs |-> Stripped(programs[p].text)]

\* No step that changes a listing leaves a return address behind, which would
\* bring the program back to a line that has moved.
EditsForgetReturns ==
    [][Listings(prgms') # Listings(prgms) => rtns' = <<>>]_vars

\* A step that clears another program leaves the cursor on the same line of
\* the same program (clear_prgm_by_index must adjust current_prgm).
ClpKeepsOtherCursor ==
    [][\A p \in DOMAIN prgms :
        (ClpKey(p) /\ OnProgram /\ p # current_prgm) =>
            /\ pc' = pc
            /\ current_prgm' \in DOMAIN prgms'
            /\ Listings(prgms')[current_prgm'] = Listings(prgms)[current_prgm]]_vars

\* What a jump remembers is what the search would find now
\* (core_globals.cc: "-1 signals 'unknown', -2 means 'nonexistent', and
\* anything else is the pc where the destination label is found").
CacheAgrees ==
    \A p \in DOMAIN prgms :
        LET t == prgms[p].text IN
        \A i \in DOMAIN t : IsLocalJump(t[i]) =>
            t[i].target \in {Unknown, find_local_label(t, t[i].arg, i + 1)}

\* A step that brings lines whose jumps remember targets into a program that
\* counts as remembering none, whose next change will not clear them: an END
\* splits the program, and the lower half is given no flag (store_command), or
\* an END is deleted and the upper program keeps its own (delete_command).
StrandsTargets ==
    \/ \E c \in Typable : /\ c.op = "END"
                          /\ TypeCommand(c) \/ FinishEntry(c)
                          /\ ~ prgms[current_prgm].lclbl_invalid
    \/ /\ Backspace /\ text[pc].op = "END" /\ current_prgm # Len(prgms)
       /\ prgms[current_prgm].lclbl_invalid
       /\ ~ prgms[current_prgm + 1].lclbl_invalid

\* A GTO or XEQ of a local label that finds it continues at that label, in the
\* program it is in (docmd_gto takes the remembered pc without looking at what
\* is there).
\* (The code violates it: see the README; no run checks it.)
JumpLandsOnLabel ==
    [][(ExecLocalJump /\ pc' \notin {pc, line + 1}) =>
        /\ pc' \in DOMAIN text
        /\ text[pc'] = Cmd("LBL", command.arg)]_vars

\* The cursor is on an existing program, on which every reader of
\* prgms[current_prgm] depends, and not past its text.
CursorValid == OnProgram /\ pc <= Len(text)

\* Only commands with a command number are ever stored in a program.
\* (The code violates it: see the README; no run checks it.)
StoredCommandsExist ==
    \A p \in DOMAIN prgms : \A i \in DOMAIN prgms[p].text :
        prgms[p].text[i].op # "NONE"

\* The program store, with its array of programs that splits and joins around
\* ENDs, is one list of lines to the user: every step is a step of
\* ProgramListing.
Listing == INSTANCE ProgramListing WITH
    Lines <- Typable \cup {End, Cmd("PLAIN", NoArg), Cmd("NONE", NoArg)},
    EndLine <- End,
    Imports <- Bodies,
    listing <- FlattenSeq(Listings(prgms)),
    mode <- mode

ImplementsListing == Listing!Spec

=============================================================================
