------------------------------ MODULE SolveInteg ------------------------------
(***************************************************************************)
(* SOLVE and INTEG call the user's program through the return stack        *)
(* (common/core_math1.cc, core_commands2.cc, core_globals.cc): a marker in *)
(* place of a return address says who is to be returned to, and the rest   *)
(* of what they need is in one global record each.  What they compute is   *)
(* left out: another evaluation or a result is a free choice.              *)
(***************************************************************************)
EXTENDS Naturals, Sequences, SequencesExt

CONSTANTS
    MAX_RTNS,       \* depth of the return stack (8 in the code)
    Places,         \* lines of programs: current_prgm and pc
    SOLVE, INTEG,   \* the markers -2 and -3
    StateFiles      \* state files that may be loaded, see PowerCycle

ASSUME SolveIntegAssumption ==
    /\ MAX_RTNS \in Nat \ {0}
    /\ SOLVE # INTEG /\ {SOLVE, INTEG} \cap Places = {}
    /\ StateFiles \subseteq {"SAME", "OTHER_FORMAT", "OLD_VERSION"}

VARIABLES
    rtns,           \* rtn_prgm[], rtn_pc[] up to rtn_sp
    here,           \* current_prgm and pc
    running,        \* mode_running
    solve, integ    \* state (0: idle), prev_prgm and prev_pc, keep_running

vars == <<rtns, here, running, solve, integ>>

Markers == {SOLVE, INTEG}
Idle(place) == [state |-> 0, prev |-> place, keep |-> FALSE]

Init ==
    /\ rtns = << >>
    /\ here \in Places
    /\ running = FALSE
    /\ solve = Idle(here) /\ integ = Idle(here)

-----------------------------------------------------------------------------
\* The return stack.

Active(marker, stack) == \E i \in DOMAIN stack : stack[i] = marker

push_rtn_addr(stack, address) ==
    Append(IF Len(stack) = MAX_RTNS THEN Tail(stack) ELSE stack, address)
ReturnLost(stack) == Len(stack) = MAX_RTNS /\ Head(stack) \in Markers

unwind_stack_until_solve_OneTooFew(stack) ==
    SubSeq(stack, 1, CHOOSE i \in DOMAIN stack : stack[i] = SOLVE)
unwind_stack_until_solve(stack) ==
    SubSeq(stack, 1, (CHOOSE i \in DOMAIN stack : stack[i] = SOLVE) - 1)

\* docmd_gto() forgets the return stack unless a program is running, which is
\* not so for the SOLVE that the user starts and when handle_error() is called
\* after a single step.
call_solve_fn(stack, programRunning) ==
    push_rtn_addr(IF programRunning THEN stack ELSE << >>, SOLVE)
call_integ_fn(stack, programRunning) ==
    push_rtn_addr(IF programRunning THEN stack ELSE << >>, INTEG)

-----------------------------------------------------------------------------
\* Lines of a program, executed in a run or by SST.  go says which; a step
\* leaves the program stopped.

\* The line fails: the program stops, or goes on if flag 25 is set.
Stopped(go) == running' \in {FALSE, go}

Gto(go) ==
    /\ running = go
    /\ here' \in Places
    /\ UNCHANGED <<rtns, running, solve, integ>>

\* The jump of XEQ is made before the address is pushed, so an error leaves
\* the line number of the caller in the program of the callee.
Xeq(go) ==
    /\ running = go
    /\ rtns' = push_rtn_addr(rtns, here)
    /\ here' \in Places
    /\ IF ReturnLost(rtns) THEN Stopped(go) ELSE UNCHANGED running
    /\ UNCHANGED <<solve, integ>>

\* finish_solve() and finish_integ()
finish(record, go) ==
    /\ here' = record.prev
    /\ running' = (go /\ record.keep)

return_to_solve(stack, go, programRunning) ==
    \/ /\ solve.state # 0                           \* another evaluation
       /\ rtns' = call_solve_fn(stack, programRunning)
       /\ here' \in Places /\ running' = go
       /\ UNCHANGED solve
    \/ /\ solve.state # 0                           \* a result
       /\ rtns' = stack
       /\ finish(solve, go)
       /\ solve' = [solve EXCEPT !.state = 0]

\* No memory, no program, or no state.  The error is one of the line that was
\* executed, or ends the handling of another.
solve_error(stack, programRunning) ==
    /\ rtns' \in {stack, IF programRunning THEN stack ELSE << >>}
    /\ solve' \in {solve, [solve EXCEPT !.state = 0]}
    /\ UNCHANGED here

return_to_integ(stack, go) ==
    \/ /\ integ.state # 0
       /\ rtns' = call_integ_fn(stack, TRUE)
       /\ here' \in Places /\ running' = go
       /\ UNCHANGED integ
    \/ /\ integ.state # 0
       /\ rtns' = stack
       /\ finish(integ, go)
       /\ integ' = [integ EXCEPT !.state = 0]

integ_error(stack) ==
    /\ rtns' = stack
    /\ integ' \in {integ, [integ EXCEPT !.state = 0]}
    /\ UNCHANGED here

Rtn(go) ==
    /\ running = go
    /\ rtns # << >>
    /\ LET top == Last(rtns)
           stack == Front(rtns)
       IN  \/ /\ top \in Places
              /\ rtns' = stack /\ here' = top
              /\ UNCHANGED <<running, solve, integ>>
           \/ /\ top = SOLVE
              /\ return_to_solve(stack, go, TRUE) \/ (solve_error(stack, TRUE) /\ Stopped(go))
              /\ UNCHANGED integ
           \/ /\ top = INTEG
              /\ return_to_integ(stack, go) \/ (integ_error(stack) /\ Stopped(go))
              /\ UNCHANGED solve

\* RTN of the outermost program, or END, which goes to its line 0.
RtnStops ==
    /\ rtns = << >>
    /\ running' = FALSE
    /\ here' \in Places
    /\ UNCHANGED <<rtns, solve, integ>>

\* A line fails.  An active SOLVE takes some errors (handle_error).
Fail(go) ==
    /\ running = go
    /\ \/ /\ Active(SOLVE, rtns)
          /\ LET stack == unwind_stack_until_solve(rtns)
             IN  \/ return_to_solve(stack, go, go)
                 \/ solve_error(stack, go) /\ running' = FALSE
          /\ UNCHANGED integ
       \/ Stopped(go) /\ UNCHANGED <<rtns, here, solve, integ>>

\* What start_solve() and start_integ() check: one of a kind at a time.
CanStart_Always(marker) == TRUE
CanStart(marker) == ~Active(marker, rtns)

Started(keep) == [state |-> 1, prev |-> here, keep |-> keep]
\* The record after a SOLVE that found no memory, or not the function.
Attempted(keep) == {Started(keep), [Started(keep) EXCEPT !.state = solve.state]}

\* docmd_solve(), docmd_integ() as a line of a program.  The error of
\* push_rtn_addr() is not looked at.
SolveLine(go) ==
    /\ running = go /\ CanStart(SOLVE)
    /\ \/ /\ solve' = Started(TRUE)
          /\ rtns' = call_solve_fn(rtns, TRUE) /\ here' \in Places /\ UNCHANGED running
       \/ solve' \in Attempted(TRUE) /\ Stopped(go) /\ UNCHANGED <<rtns, here>>
    /\ UNCHANGED integ

IntegLine(go) ==
    /\ running = go /\ CanStart(INTEG)
    /\ integ' = Started(TRUE)
    /\ \/ rtns' = call_integ_fn(rtns, TRUE) /\ here' \in Places /\ UNCHANGED running
       \/ Stopped(go) /\ UNCHANGED <<rtns, here>>
    /\ UNCHANGED solve

-----------------------------------------------------------------------------
\* The user, with no program running.

SolveKey ==
    /\ ~running
    /\ \/ /\ solve' = Started(FALSE)
          /\ rtns' = call_solve_fn(<< >>, FALSE) /\ here' \in Places /\ running' = TRUE
       \/ solve' \in Attempted(FALSE) /\ rtns' = << >> /\ UNCHANGED <<here, running>>
    /\ UNCHANGED integ

IntegKey ==
    /\ ~running
    /\ integ' = Started(FALSE)
    /\ \/ rtns' = call_integ_fn(<< >>, FALSE) /\ here' \in Places /\ running' = TRUE
       \/ rtns' = << >> /\ UNCHANGED <<here, running>>
    /\ UNCHANGED solve

XeqKey ==           \* XEQ; GTO, RTN and editing leave the program stopped
    /\ ~running
    /\ rtns' = << >> /\ here' \in Places
    /\ running' \in BOOLEAN
    /\ UNCHANGED <<solve, integ>>

RunStop == running' = ~running /\ UNCHANGED <<rtns, here, solve, integ>>

\* A running program clears a program (CLP).
ClearProgram ==
    /\ running
    /\ rtns' = << >> /\ here' \in Places
    /\ UNCHANGED <<running, solve, integ>>

\* The calculator is switched off and on.  unpersist_math() takes the SOLVE and
\* INTEG state only from a state file of the same number format and version;
\* convert_programs() deals with a switch between binary and decimal.
SavedReturns_Always(file) == rtns
SavedReturns(file) ==
    IF file = "OTHER_FORMAT" /\ (Active(SOLVE, rtns) \/ Active(INTEG, rtns)) THEN << >> ELSE rtns

unpersist_math(record, file) == IF file = "SAME" THEN record ELSE [record EXCEPT !.state = 0]

PowerCycle ==
    /\ running' \in BOOLEAN
    /\ \E file \in StateFiles :
          /\ rtns' = SavedReturns(file)
          /\ solve' = unpersist_math(solve, file)
          /\ integ' = unpersist_math(integ, file)
    /\ UNCHANGED here

Next ==
    \/ \E go \in BOOLEAN :
          Gto(go) \/ Xeq(go) \/ Rtn(go) \/ Fail(go) \/ SolveLine(go) \/ IntegLine(go)
    \/ RtnStops \/ SolveKey \/ IntegKey \/ XeqKey \/ RunStop \/ ClearProgram \/ PowerCycle

Spec == Init /\ [][Next]_vars

-----------------------------------------------------------------------------
\* Every variable has its type.
TypeOK ==
    /\ rtns \in Seq(Places \cup Markers) /\ Len(rtns) <= MAX_RTNS
    /\ here \in Places /\ running \in BOOLEAN
    /\ solve \in [state : {0, 1}, prev : Places, keep : BOOLEAN]
    /\ integ \in [state : {0, 1}, prev : Places, keep : BOOLEAN]

\* There is one record for SOLVE and one for INTEG, so the stack never holds
\* two markers of a kind, whatever nests in what.
OneOfEachKind ==
    \A i, j \in DOMAIN rtns : rtns[i] \in Markers /\ rtns[i] = rtns[j] => i = j

\* A return to a marker finds the state it needs, or it would be an internal
\* error (return_to_solve, return_to_integ), even after a restart.
MarkersHaveState ==
    /\ Active(SOLVE, rtns) => solve.state # 0
    /\ Active(INTEG, rtns) => integ.state # 0

\* The stack with markers and the two records implement nested calls that each
\* come back to where they were executed.
FrameOf(address) ==
    CASE address = SOLVE -> [kind |-> "SOLVE", back |-> solve.prev]
      [] address = INTEG -> [kind |-> "INTEG", back |-> integ.prev]
      [] OTHER -> [kind |-> "CALL", back |-> address]
frames == [i \in DOMAIN rtns |-> FrameOf(rtns[i])]

Abstract == INSTANCE CallStack
ImplementsCallStack == Abstract!Spec

=============================================================================
