--------------------------- MODULE ProgramMemory ---------------------------
(***************************************************************************)
(* Free42's program store and its cursor: the programs, the table of global *)
(* labels, the subroutine return stack, the program being entered or run,   *)
(* and every operation that changes them: editing in program mode, GTO, CLP *)
(* and the other catalog commands, program execution, SST, program import   *)
(* and the power cycle (src/common/core_globals.cc, core_keydown.cc,        *)
(* core_main.cc, core_commands1.cc, core_commands2.cc).                     *)
(*                                                                          *)
(* Solver and integrator markers on the return stack are in SolveInteg.     *)
(* Conditions on data (the outcome of a test, a command that fails, flag 25 *)
(* ignoring the failure) are choices.  The code reads through pc without    *)
(* checking it, so an action that reads the current line requires the       *)
(* cursor to be on one: what the program does from a stray cursor is not    *)
(* followed, except where the code tests for it.                            *)
(***************************************************************************)
EXTENDS ProgramText, FiniteSets

CONSTANTS
    MAX_RTNS,   \* depth of the return stack (8 in the code)
    Typable,    \* the commands the user types or imports
    Bodies,     \* the programs in importable files, without their END
    MaxPrgms,   \* bound: number of programs
    MaxLines    \* bound: total number of lines, ENDs included

ASSUME ProgramMemoryAssumption ==
    /\ MAX_RTNS \in Nat \ {0}
    /\ Typable \subseteq {c \in Command : c.target = Unknown}
    /\ Bodies \subseteq Seq({c \in Command : c.target = Unknown /\ c.op # "END"}) \ {<<>>}
    /\ MaxPrgms \in Nat
    /\ MaxLines \in Nat

VARIABLES
    prgms,                \* the programs: [text, lclbl_invalid]
    labels,               \* the label table: [name, prgm, pc]
    current_prgm,
    pc,
    rtns,                 \* return addresses [prgm, pc], innermost last
    mode,                 \* "normal", "prgm" (program mode) or "running"
    entry,                \* what is being typed in, in program mode
    incomplete_saved_pc   \* where the cursor was before the typing started; set
                          \* to 0 when it ends, after which nothing reads it

vars == <<prgms, labels, current_prgm, pc, rtns, mode, entry, incomplete_saved_pc>>
memory == <<prgms, labels, current_prgm, rtns>>
typing == <<entry, incomplete_saved_pc>>

text == prgms[current_prgm].text
OnProgram == current_prgm \in DOMAIN prgms
OnLine == OnProgram /\ pc \in 0 .. Len(text)

EmptyProgram == [text |-> <<End>>, lclbl_invalid |-> TRUE]

TotalLines(programs) == Len(FlattenSeq([p \in DOMAIN programs |-> programs[p].text]))
Within(programs) == Len(programs) <= MaxPrgms /\ TotalLines(programs) <= MaxLines

Init ==
    /\ prgms = <<EmptyProgram>>
    /\ labels = rebuild_label_table(<<EmptyProgram>>)
    /\ current_prgm = 1
    /\ pc = 0
    /\ rtns = <<>>
    /\ mode = "normal"
    /\ entry = "none"
    /\ incomplete_saved_pc = 0

-----------------------------------------------------------------------------
(***************************************************************************)
(* The primitives of core_globals.cc.                                       *)
(***************************************************************************)

\* Mutant: the label on the line that moved is forgotten.
update_label_table_OffByOne(prgm, at, n) ==
    [i \in DOMAIN labels |->
        IF labels[i].prgm = prgm /\ labels[i].pc > at
        THEN [labels[i] EXCEPT !.pc = @ + n] ELSE labels[i]]

\* Lines of prgm from line at on have moved by n.
update_label_table(prgm, at, n) ==
    [i \in DOMAIN labels |->
        IF labels[i].prgm = prgm /\ labels[i].pc >= at
        THEN [labels[i] EXCEPT !.pc = @ + n] ELSE labels[i]]

\* Storing an END splits the program; lclbl_invalid of the new one is never
\* assigned and holds whatever the array slot or the fresh memory held.
SplitAt(at, stale) ==
    LET upper == Rewritten(prgms[current_prgm], Append(SubSeq(text, 1, at - 1), End))
        lower == [text |-> SubSeq(text, at, Len(text)), lclbl_invalid |-> stale]
    IN  SubSeq(prgms, 1, current_prgm - 1)
          \o <<upper, invalidate_lclbls(lower)>>
          \o SubSeq(prgms, current_prgm + 1, Len(prgms))

store_command(at, c) ==
    /\ IF c.op = "END"
       THEN /\ \E stale \in BOOLEAN : prgms' = SplitAt(at, stale)
            /\ current_prgm' = current_prgm + 1
       ELSE /\ prgms' = [prgms EXCEPT ![current_prgm] =
                            Rewritten(@, InsertAt(text, at, c))]
            /\ UNCHANGED current_prgm
    /\ labels' = IF IsTableLine(c) THEN rebuild_label_table(prgms')
                 ELSE update_label_table(current_prgm, at, 1)
    /\ rtns' = <<>>

\* Mutant: the deleted END stays in the text.
Joined_KeepsEnd ==
    LET both == text \o prgms[current_prgm + 1].text
    IN  RemoveAt([prgms EXCEPT ![current_prgm] = Rewritten(@, both)],
                 current_prgm + 1)

\* Deleting an END joins the next program to this one.
Joined ==
    LET both == Front(text) \o prgms[current_prgm + 1].text
    IN  RemoveAt([prgms EXCEPT ![current_prgm] = Rewritten(@, both)],
                 current_prgm + 1)

\* Mutant: without clear_all_rtns().
delete_command_KeepsRtns(at) ==
    /\ text[at].op # "END"
    /\ prgms' = [prgms EXCEPT ![current_prgm] =
                     Rewritten(@, RemoveAt(text, at))]
    /\ labels' = rebuild_label_table(prgms')
    /\ UNCHANGED rtns

delete_command(at) ==
    IF text[at].op = "END"
    THEN IF current_prgm = Len(prgms)
         THEN UNCHANGED <<prgms, labels, rtns>>
         ELSE /\ prgms' = Joined
              /\ labels' = rebuild_label_table(prgms')
              /\ rtns' = <<>>
    ELSE /\ prgms' = [prgms EXCEPT ![current_prgm] =
                         Rewritten(@, RemoveAt(text, at))]
         /\ labels' = IF IsTableLine(text[at]) THEN rebuild_label_table(prgms')
                      ELSE update_label_table(current_prgm, at, -1)
         /\ rtns' = <<>>

\* Mutant: without clear_all_rtns().
clear_prgm_lines_KeepsRtns(first, n) ==
    LET stop == IF first + n > Len(text) THEN Len(text) ELSE first + n
    IN  /\ prgms' = [prgms EXCEPT ![current_prgm] = Rewritten(@,
                        SubSeq(text, 1, first - 1) \o SubSeq(text, stop, Len(text)))]
        /\ labels' = rebuild_label_table(prgms')
        /\ UNCHANGED <<rtns, current_prgm>>

\* Removes up to n lines from line first on, stopping before the END.
clear_prgm_lines(first, n) ==
    LET stop == IF first + n > Len(text) THEN Len(text) ELSE first + n
        deleted == stop - first
        kept == SelectSeq(labels, LAMBDA l :
                    ~ (l.prgm = current_prgm /\ l.pc \in first .. stop - 1))
    IN  /\ prgms' = [prgms EXCEPT ![current_prgm] = Rewritten(@,
                        SubSeq(text, 1, first - 1) \o SubSeq(text, stop, Len(text)))]
        /\ labels' = [i \in DOMAIN kept |->
                        IF kept[i].prgm = current_prgm /\ kept[i].pc >= stop
                        THEN [kept[i] EXCEPT !.pc = @ - deleted] ELSE kept[i]]
        /\ rtns' = <<>>
        /\ UNCHANGED current_prgm

LastIsEmpty(programs) ==
    programs # <<>> /\ Head(programs[Len(programs)].text).op = "END"

\* The memory goto_dot_dot() leaves: its last program is empty.
WithEmptyLast(programs) ==
    IF LastIsEmpty(programs) THEN programs ELSE Append(programs, EmptyProgram)

goto_dot_dot ==
    /\ prgms' = WithEmptyLast(prgms)
    /\ current_prgm' = Len(prgms')
    /\ pc' = 0
    /\ IF LastIsEmpty(prgms) THEN UNCHANGED <<labels, rtns>>
       ELSE labels' = rebuild_label_table(prgms') /\ rtns' = <<>>

\* Mutant: current_prgm is not adjusted.
clear_prgm_by_index_SameIndex(p, at) ==
    /\ prgms' = IF p = Len(prgms) THEN WithEmptyLast(RemoveAt(prgms, p))
                ELSE RemoveAt(prgms, p)
    /\ labels' = rebuild_label_table(prgms')
    /\ rtns' = <<>>
    /\ UNCHANGED current_prgm
    /\ pc' = IF p = current_prgm THEN 0 ELSE at

\* Deletes program p with the cursor at line at.  If it was the last program,
\* goto_dot_dot() may add an empty one, and the cursor is put back.
clear_prgm_by_index(p, at) ==
    LET rest == RemoveAt(prgms, p)
        kept == SelectSeq(labels, LAMBDA l : l.prgm # p)
        wasLast == p = Len(prgms)
    IN  /\ prgms' = IF wasLast THEN WithEmptyLast(rest) ELSE rest
        /\ labels' = IF wasLast /\ ~ LastIsEmpty(rest)
                     THEN rebuild_label_table(prgms')
                     ELSE [i \in DOMAIN kept |->
                             IF kept[i].prgm > p
                             THEN [kept[i] EXCEPT !.prgm = @ - 1] ELSE kept[i]]
        /\ rtns' = <<>>
        /\ current_prgm' = IF current_prgm > p THEN current_prgm - 1 ELSE current_prgm
        /\ pc' = IF p = current_prgm THEN 0 ELSE at

push_rtn_addr(prgm, at) ==
    rtns' = Append(IF Len(rtns) = MAX_RTNS THEN Tail(rtns) ELSE rtns,
                   [prgm |-> prgm, pc |-> at])

-----------------------------------------------------------------------------
(***************************************************************************)
(* Editing in program mode.                                                 *)
(***************************************************************************)

Editing == mode = "prgm" /\ entry = "none" /\ OnLine

\* A key that stands for a whole command.
TypeCommand(c) ==
    LET at == InsertionPoint(text, pc) IN
    /\ Editing
    /\ store_command(at, c)
    /\ Within(prgms')
    /\ pc' = IF c.op = "END" THEN 1 ELSE at
    /\ UNCHANGED <<mode, typing>>

\* The first key of a command with an argument, of a string or of a number:
\* the cursor moves to where the line will be inserted.  A number does not
\* save where the cursor was.
StartEntry(kind) ==
    /\ Editing
    /\ entry' = kind
    /\ pc' = InsertionPoint(text, pc)
    /\ incomplete_saved_pc' = IF kind = "number" THEN 0 ELSE pc
    /\ UNCHANGED <<memory, mode>>

FinishEntry(c) ==
    /\ mode = "prgm" /\ entry # "none" /\ OnLine
    /\ entry \in {"number", "string"} => c.op = "PLAIN"
    /\ store_command(FirstIfZero(pc), c)
    /\ Within(prgms')
    /\ pc' = IF c.op = "END" THEN 1 ELSE pc
    /\ entry' = "none" /\ incomplete_saved_pc' = 0
    /\ UNCHANGED mode

\* An entry that is given up puts the cursor back; a number moves it up.
CancelEntry ==
    /\ mode = "prgm" /\ entry # "none" /\ OnProgram
    /\ pc' = IF entry = "number" THEN line2pc(text, pc2line(text, pc) - 1)
             ELSE incomplete_saved_pc
    /\ entry' = "none" /\ incomplete_saved_pc' = 0
    /\ UNCHANGED <<memory, mode>>

\* A GTO with a dot is started as a GTO, which moves the cursor; when its
\* label does not exist the cursor is not put back.
FailGotoDot ==
    /\ mode = "prgm" /\ entry = "command"
    /\ entry' = "none" /\ incomplete_saved_pc' = 0
    /\ UNCHANGED <<memory, pc, mode>>

Backspace ==
    /\ Editing /\ pc # 0
    /\ delete_command(pc)
    /\ pc' = pc - 1
    /\ UNCHANGED <<current_prgm, mode, typing>>

DeleteLines(n) ==
    /\ Editing
    /\ clear_prgm_lines(FirstIfZero(pc), n)
    /\ pc' = FirstIfZero(pc)
    /\ UNCHANGED <<mode, typing>>

\* SST in program mode, and BST, which does not execute in normal mode either;
\* the arrow keys drop the return stack, the commands in a menu do not.
StepKey(down) ==
    /\ mode = "prgm" \/ (mode = "normal" /\ ~ down)
    /\ entry = "none" /\ OnProgram
    /\ pc' = IF down THEN sst(text, pc) ELSE bst(text, pc)
    /\ rtns' \in {<<>>, rtns}
    /\ UNCHANGED <<prgms, labels, current_prgm, mode, typing>>

PrgmKey ==
    /\ mode \in {"normal", "prgm"} /\ entry = "none"
    /\ mode' = IF mode = "prgm" THEN "normal" ELSE "prgm"
    /\ UNCHANGED <<memory, pc, typing>>

-----------------------------------------------------------------------------
(***************************************************************************)
(* Commands from the keyboard, and events from the shell.                   *)
(***************************************************************************)

Commanding == mode \in {"normal", "prgm"} /\ entry = "none"

\* GTO . nnn
GotoLine(n) ==
    /\ Commanding /\ OnProgram
    /\ pc' = line2pc(text, n)
    /\ rtns' = <<>>
    /\ UNCHANGED <<prgms, labels, current_prgm, mode, typing>>

\* GTO . and, in normal mode, GTO or XEQ with an entry of the label table.
GotoEntry(i, run) ==
    /\ Commanding
    /\ run => mode = "normal"
    /\ current_prgm' = labels[i].prgm
    /\ pc' = labels[i].pc
    /\ rtns' = <<>>
    /\ mode' = IF run THEN "running" ELSE mode
    /\ UNCHANGED <<prgms, labels, typing>>

\* GTO or XEQ of a local label.
GotoLocal(label, run) ==
    LET target == find_local_label(text, label, pc) IN
    /\ mode = "normal" /\ OnProgram
    /\ rtns' = <<>>
    /\ IF target = Nonexistent THEN UNCHANGED <<pc, mode>>
       ELSE /\ pc' = target
            /\ mode' = IF run THEN "running" ELSE mode
    /\ UNCHANGED <<prgms, labels, current_prgm, typing>>

GotoDotDot ==
    /\ Commanding
    /\ goto_dot_dot
    /\ Within(prgms')
    /\ UNCHANGED <<mode, typing>>

RtnKey ==
    /\ mode = "normal"
    /\ rtns' = <<>>
    /\ pc' = 0
    /\ UNCHANGED <<prgms, labels, current_prgm, mode, typing>>

RunKey ==
    /\ mode = "normal" /\ OnProgram
    /\ pc' = FirstIfZero(pc)
    /\ mode' = "running"
    /\ UNCHANGED <<memory, typing>>

StopKey ==
    /\ mode = "running"
    /\ mode' = "normal"
    /\ UNCHANGED <<memory, pc, typing>>

\* A key of the programmable menu: XEQ pushes the line the program stopped at.
MenuKey(label, xeq) ==
    LET i == find_global_label(labels, label)
        local == label \in LocalLabels
        target == find_local_label(text, label, pc)
    IN  /\ mode = "normal" /\ OnLine
        /\ IF IF local THEN target = Nonexistent ELSE i = 0
           THEN UNCHANGED <<current_prgm, pc, rtns, mode>>
           ELSE /\ current_prgm' = IF local THEN current_prgm ELSE labels[i].prgm
                /\ pc' = IF local THEN target ELSE labels[i].pc
                /\ mode' = "running"
                /\ IF xeq THEN push_rtn_addr(current_prgm, FirstIfZero(pc))
                   ELSE UNCHANGED rtns
        /\ UNCHANGED <<prgms, labels, typing>>

ClpKey(p) ==
    /\ mode = "normal"
    /\ clear_prgm_by_index(p, pc)
    /\ UNCHANGED <<mode, typing>>

ClallKey ==
    /\ mode \in {"normal", "prgm"} /\ entry = "none"
    /\ prgms' = WithEmptyLast(<<>>)
    /\ labels' = rebuild_label_table(prgms')
    /\ current_prgm' = 1
    /\ pc' = 0
    /\ rtns' = <<>>
    /\ mode' = "normal"
    /\ UNCHANGED typing

\* The shell's import command is available at any moment.  Each program in
\* the file goes into an empty last program, line after line.
ImportProgram(body) ==
    LET programs == WithEmptyLast(prgms)
        last == Len(programs)
    IN  /\ prgms' = [programs EXCEPT ![last] =
                        Rewritten(@, Append(body, End))]
        /\ Within(prgms')
        /\ labels' = rebuild_label_table(prgms')
        /\ current_prgm' = last
        /\ pc' = Len(body)
        /\ rtns' = <<>>
        /\ mode' = IF mode = "running" THEN "normal" ELSE mode
        /\ UNCHANGED typing

\* Power off and on.  With flag 11 set the program is started; an unfinished
\* command is completed with no command number, for which cmdlist() reads
\* before its array: the line is stored or not, depending on what it finds.
PowerCycle(auto_exec) ==
    IF ~ auto_exec
    THEN /\ mode = "running" /\ mode' = "normal"
         /\ UNCHANGED <<memory, pc, typing>>
    ELSE /\ mode' = "running"
         /\ entry' = "none" /\ incomplete_saved_pc' = 0
         /\ \/ /\ entry = "command" /\ OnLine
               /\ store_command(FirstIfZero(pc), Cmd("NONE", NoArg))
               /\ Within(prgms')
               /\ UNCHANGED pc
            \/ /\ entry = "number" /\ OnLine
               /\ store_command(FirstIfZero(pc), Cmd("PLAIN", NoArg))
               /\ Within(prgms')
               /\ UNCHANGED pc
            \/ /\ entry # "number"
               /\ pc' = IF entry = "string" THEN incomplete_saved_pc ELSE pc
               /\ UNCHANGED memory

-----------------------------------------------------------------------------
(***************************************************************************)
(* Execution of the command at pc: by continue_running(), or by SST, which  *)
(* stops after it.  The fetch moves pc to the next line.                    *)
(***************************************************************************)

line == FirstIfZero(pc)
command == text[line]

Executing(ops) == mode \in {"running", "normal"} /\ OnLine /\ command.op \in ops

\* An error stops the program at the line it happened on, or is ignored
\* (flag 25).
Fail ==
    \/ pc' = line + 1 /\ UNCHANGED mode
    \/ UNCHANGED pc /\ mode' = "normal"

ExecPlain ==
    /\ Executing({"PLAIN", "LBL"})
    /\ \/ pc' = line + 1 /\ UNCHANGED mode
       \/ command.op = "PLAIN" /\ Fail
    /\ UNCHANGED <<memory, typing>>

\* A false test skips the next line, unless it is the END.
ExecTest ==
    /\ Executing({"TEST"})
    /\ \/ pc' = line + 1
       \/ pc' = IF text[line + 1].op = "END" THEN line + 1 ELSE line + 2
    /\ UNCHANGED <<memory, mode, typing>>

ExecStop ==
    /\ Executing({"STOP"})
    /\ pc' = line + 1
    /\ mode' = "normal"
    /\ UNCHANGED <<memory, typing>>

ExecLocalJump ==
    LET target == TargetOf(text, line) IN
    /\ Executing({"GTO", "XEQ"}) /\ IsLocalJump(command)
    /\ prgms' = [prgms EXCEPT ![current_prgm] = Remember(@, line)]
    /\ IF target = Nonexistent
       THEN Fail /\ UNCHANGED rtns
       ELSE /\ pc' = target
            /\ UNCHANGED mode
            /\ IF command.op = "XEQ" THEN push_rtn_addr(current_prgm, line + 1)
               ELSE UNCHANGED rtns
    /\ UNCHANGED <<labels, current_prgm, typing>>

ExecGlobalJump ==
    LET i == find_global_label(labels, command.arg) IN
    /\ Executing({"GTO", "XEQ"}) /\ IsGlobalJump(command)
    /\ IF i = 0
       THEN Fail /\ UNCHANGED <<current_prgm, rtns>>
       ELSE /\ current_prgm' = labels[i].prgm
            /\ pc' = labels[i].pc
            /\ UNCHANGED mode
            /\ IF command.op = "XEQ" THEN push_rtn_addr(current_prgm, line + 1)
               ELSE UNCHANGED rtns
    /\ UNCHANGED <<prgms, labels, typing>>

\* Nowhere to return to: RTN stops after itself, END at line 00.
ExecRtn ==
    /\ Executing({"RTN", "END"})
    /\ IF rtns = <<>>
       THEN /\ pc' = IF line = Len(text) THEN 0 ELSE line + 1
            /\ mode' = "normal"
            /\ UNCHANGED <<current_prgm, rtns>>
       ELSE /\ current_prgm' = Last(rtns).prgm
            /\ pc' = Last(rtns).pc
            /\ rtns' = Front(rtns)
            /\ UNCHANGED mode
    /\ UNCHANGED <<prgms, labels, typing>>

\* CLP with no name clears the program it is in; the program goes on at line
\* 01 of the one that takes its place.
ExecClp ==
    LET i == find_global_label(labels, command.arg)
        p == IF command.arg = NoArg THEN current_prgm
             ELSE IF i = 0 THEN 0 ELSE labels[i].prgm
    IN
    /\ Executing({"CLP"})
    /\ IF p \in DOMAIN prgms
       THEN clear_prgm_by_index(p, line + 1) /\ UNCHANGED mode
       ELSE Fail /\ UNCHANGED memory
    /\ UNCHANGED typing

\* continue_running() finds the cursor beyond the END.
RunOffEnd ==
    /\ mode = "running" /\ OnProgram /\ pc > Len(text)
    /\ pc' = 0
    /\ mode' = "normal"
    /\ UNCHANGED <<memory, typing>>

-----------------------------------------------------------------------------

Edit ==
    \/ \E c \in Typable : TypeCommand(c) \/ FinishEntry(c)
    \/ \E kind \in {"command", "string", "number"} : StartEntry(kind)
    \/ CancelEntry
    \/ FailGotoDot
    \/ Backspace
    \/ \E n \in 1 .. MaxLines : DeleteLines(n)
    \/ \E down \in BOOLEAN : StepKey(down)
    \/ PrgmKey

Press ==
    \/ \E n \in 0 .. MaxLines : GotoLine(n)
    \/ \E i \in DOMAIN labels, run \in BOOLEAN : GotoEntry(i, run)
    \/ \E label \in LocalLabels, run \in BOOLEAN : GotoLocal(label, run)
    \/ GotoDotDot
    \/ RtnKey
    \/ RunKey
    \/ StopKey
    \/ \E label \in LocalLabels \cup GlobalLabels, xeq \in BOOLEAN : MenuKey(label, xeq)
    \/ \E p \in DOMAIN prgms : ClpKey(p)
    \/ ClallKey

Shell ==
    \/ \E body \in Bodies : ImportProgram(body)
    \/ \E auto_exec \in BOOLEAN : PowerCycle(auto_exec)

Execute ==
    \/ ExecPlain
    \/ ExecTest
    \/ ExecStop
    \/ ExecLocalJump
    \/ ExecGlobalJump
    \/ ExecRtn
    \/ ExecClp
    \/ RunOffEnd

Next == Edit \/ Press \/ Shell \/ Execute

Spec == Init /\ [][Next]_vars

=============================================================================
