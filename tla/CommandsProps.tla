---------------------------- MODULE CommandsProps ----------------------------
(***************************************************************************)
(* What must hold of the values between commands.                          *)
(***************************************************************************)
EXTENDS Commands

\* The value that RCL/ or RCLx keeps until its slices are over.
Temporary == IF calc.pending # None /\ calc.pending.how.kind = "rcl"
             THEN {calc.pending.how.temp} ELSE {}

\* Every value is held in one place: whatever the commands of this model made, moved,
\* duplicated or freed, the values that exist are those in the registers, in variables and
\* in an operation that goes on, and the reference count of an array is the number of
\* matrices that have it.  This ends when SOLVE or INTEG does not find the user's program
\* and frees the value of its variable (call_solve_fn(), call_integ_fn()), or SOLVE's
\* variable is no number at the end (finish_solve()): undefined.
ValuesHeldOnce ==
    undefined \/
    (/\ calc.live = Cardinality(Held(calc)) + Cardinality(Temporary) + calc.lost
     /\ \A a \in Arrays :
            calc.refs[a] >= Cardinality(Holders(calc, a))
                            + Cardinality({v \in Temporary : IsMatrix(v) /\ v.array = a})
     /\ calc.lost = 0 =>
            \A a \in Arrays :
                calc.refs[a] = Cardinality(Holders(calc, a))
                               + Cardinality({v \in Temporary : IsMatrix(v) /\ v.array = a}))

\* The numbered registers are a matrix, or there are none, by whatever way a value gets
\* into the variable REGS: STO, its arithmetic, ASTO, X<>, SIZE, CLV, CLALL.  Only INTEG,
\* and SOLVE when REGS was cleared, put a number there (call_solve_fn(),
\* call_integ_fn()), and only until something is stored again.
RegsIsAMatrix == misplaced \/ RegsUsable(calc)

\* The same without the exception, as docmd_clrg() has it: "Should not happen;
\* STO does not allow anything other than a matrix to be stored in REGS".  The code
\* violates it.
RegsIsAlwaysAMatrix == RegsUsable(calc)

\* No command writes to an array that another matrix has too, but for two that do: the
\* statistics write to the registers (sigma_helper_2(), docmd_clsigma()), and a string
\* that STO or ASTO stores in a register goes to the array that REGS had before it got its
\* own (generic_sto()).
SharedArraysUntouched == "command" \notin calc.shared

\* The same of each of the two: the code violates both.
StatisticsLeaveCopiesAlone == "statistics" \notin calc.shared
TextsLeaveCopiesAlone == "text" \notin calc.shared

\* A command that fails leaves the stack, LASTX and the variables as they were, wherever
\* in it the error comes up, and also where an active SOLVE takes the error and calls the
\* user's program again.  A solver that gives up has changed the number of its variable,
\* which is not seen here.
FailedCommandChangesNothing == harmed = {}

=============================================================================
