---------------------------- MODULE SolverCommands ----------------------------
(***************************************************************************)
(* SOLVE, VMSOLVE and INTEG, as far as they make, store and free values    *)
(* (common/core_math1.cc, core_commands5.cc, core_commands2.cc): the       *)
(* variable of a solver gets a number and the user's program is called,    *)
(* again and again, until the solver puts its results on the stack.        *)
(* What it computes is left out: another call or a result is a choice.     *)
(* The markers on the return stack are in SolveInteg.                      *)
(*                                                                         *)
(* The error "UNDEFINED" is none of the code's: it ends what leaves a freed *)
(* value in use, or uses a value that is not there.  What the program does *)
(* after it can be anything.                                               *)
(***************************************************************************)
EXTENDS StatisticsCommands

\* ERR_RUN: the user's program was called, by the solver of this variable.
Call(name) == [type |-> "call", of |-> name]
Calls(c, name) == {Outcome(c, "RUN", Call(name))}
Called(o) == {name \in Variables : o.err = "RUN" /\ o.v = Call(name)}

\* The variable's next number, in place if there is a number already.
StoresNumber(c, name) ==
    IF recall_var(c, name).type = "real" THEN Done(c)
    ELSE Then(new_real(c), LAMBDA d, v : Done(store_var(d, name, v)))

\* The user's program is not found: docmd_gto() fails, and the value that the variable
\* still holds is freed.
NotFound(c, name) == Ends(free_vartype(c, recall_var(c, name)), "UNDEFINED")

\* call_solve_fn(), call_integ_fn()
call_fn(c, name) ==
    Then(StoresNumber(c, name), LAMBDA d, v : Calls(d, name) \cup NotFound(d, name))

\* With NONE a program goes on, with STOP the user has the result.
OrStops(outs) == Then(outs, LAMBDA c, v : Done(c) \cup Ends(c, "STOP"))

\* The variable is taken for a number, whatever the user's program has made of it.
finish_solve(c, name) ==
    IF recall_var(c, name).type # "real" THEN Ends(c, "UNDEFINED")
    ELSE OrStops(WholeStack(c, "real"))

finish_integ(c) ==
    OrStops(Then(two_reals(c), LAMBDA d, v : Done(recall_two_results(d, v[1], v[2]))))

return_to_solve(c, name) == call_fn(c, name) \cup finish_solve(c, name)
return_to_integ(c, name) == call_fn(c, name) \cup finish_integ(c)

-----------------------------------------------------------------------------
\* The commands.  active: such a solver has called the program that is running.

\* start_solve()
start_solve(c, name, active) ==
    IF active THEN Ends(c, "SOLVE_SOLVE") ELSE call_fn(c, name)

\* The first guess is in the variable, the second one in X.
SolveDirect(c, arg, active) ==
    IF arg[1] # "str" THEN Ends(c, "INVALID_TYPE")
    ELSE LET v == recall_var(c, arg[2])
         IN  IF v.type \notin {"none", "real"} THEN Rejects(c, v)
             ELSE IF x(c).type # "real" THEN Rejects(c, x(c))
             ELSE start_solve(c, arg[2], active)

docmd_solve(c, arg, active) ==
    WithArg(c, arg, LAMBDA d, a : SolveDirect(d, a, active))

\* From the menu of variables.  No solver is active any more.
docmd_vmsolve(c, arg) ==
    IF arg[1] # "str" THEN Ends(c, "INVALID_TYPE")
    ELSE LET v == recall_var(c, arg[2])
         IN  IF v.type \notin {"none", "real"} THEN Rejects(c, v)
             ELSE start_solve(c, arg[2], FALSE)

\* LLIM, ULIM and ACC can be what they like.  Nothing is asked of the variable.
start_integ(c, name, active) ==
    IF active THEN Ends(c, "INTEG_INTEG")
    ELSE Fails(c, {"NONEXISTENT", "ALPHA_DATA_IS_INVALID", "INVALID_TYPE"})
         \cup call_fn(c, name)

IntegDirect(c, arg, active) ==
    IF arg[1] # "str" THEN Ends(c, "INVALID_TYPE") ELSE start_integ(c, arg[2], active)

docmd_integ(c, arg, active) ==
    WithArg(c, arg, LAMBDA d, a : IntegDirect(d, a, active))

=============================================================================
