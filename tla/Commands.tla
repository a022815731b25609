------------------------------- MODULE Commands -------------------------------
(***************************************************************************)
(* The calculator that executes one command after another, from the        *)
(* keyboard or from a program: each command of the modules this one        *)
(* extends, with what handle_error() does after it (common/core_main.cc),  *)
(* the end of an operation in slices, the solvers' calls of the user's     *)
(* program and its returns to them, and a paste by the shell, which can    *)
(* come between slices.  Commands that do not touch values, those of the   *)
(* matrix editor (MatrixEditor) and GETKEY (KeyEntry) are not here.        *)
(***************************************************************************)
EXTENDS SolverCommands

CONSTANT MaxOdd     \* bound: how many slots may hold something else than at the start

VARIABLES
    calc,           \* the stack, the variables and the arrays: see ValueStack
    harmed,         \* what a command that failed has changed
    solving,        \* {the variable of the SOLVE that waits on the return stack}, or {}
    integrating,    \* {the variable of the INTEG that does}, or {}
    misplaced,      \* a solver's number is in REGS, in place of a matrix
    undefined       \* a value was used that is not there, or freed that is held

vars == <<calc, harmed, solving, integrating, misplaced, undefined>>

Start ==
    LET a == CHOOSE a \in Arrays : TRUE
    IN  [slot    |-> [s \in Slots |-> IF s \in Stack THEN Scalar("real")
                                      ELSE IF s = "REGS" THEN Matrix("realmatrix", a)
                                      ELSE None],
         refs    |-> [b \in Arrays |-> IF b = a THEN 1 ELSE 0],
         data    |-> [b \in Arrays |-> IF b = a THEN "numbers" ELSE "none"],
         live    |-> Cardinality(Stack) + 1,
         lost    |-> 0,
         shared  |-> {},
         lift    |-> FALSE,
         disable |-> FALSE,
         pending |-> None]

Init ==
    /\ calc = Start
    /\ harmed = {}
    /\ solving = {} /\ integrating = {}
    /\ misplaced = FALSE /\ undefined = FALSE

\* Bounds: few slots are out of the ordinary or a solver's variable, one value is lost at
\* most, and none while a solver waits.
Odd(c) == {s \in Slots : c.slot[s].type # Start.slot[s].type}

InBounds(c) ==
    /\ Cardinality(Odd(c) \ (solving' \cup integrating'))
           + Cardinality(solving') + Cardinality(integrating') <= MaxOdd
    /\ c.lost <= IF solving' \cup integrating' = {} THEN 1 ELSE 0

\* What can be seen of a slot.
Visible(c, s) ==
    <<c.slot[s].type, IF IsMatrix(c.slot[s]) THEN c.data[c.slot[s].array] ELSE "none">>

Changed(c, d) == {s \in Slots : Visible(c, s) # Visible(d, s)}

\* What an outcome has changed that is an error.
Harm(c, o) ==
    IF o.err \in Fine \cup {"INTERRUPTIBLE", "UNDEFINED"} THEN {} ELSE Changed(c, o.calc)

RegsUsable(c) == c.slot["REGS"] = None \/ IsMatrix(c.slot["REGS"])

\* A command ends: handle_error().  Only a success says whether the next number lifts
\* the stack.
handle_error(o) ==
    IF o.err \in Fine THEN [o.calc EXCEPT !.lift = o.calc.disable, !.disable = FALSE]
    ELSE [o.calc EXCEPT !.disable = FALSE]

\* The calculator becomes c, by something else than a solver.
Becomes(c) ==
    /\ UNCHANGED <<solving, integrating, undefined>>
    /\ InBounds(c)
    /\ calc' = c
    /\ misplaced' = (misplaced /\ ~RegsUsable(c))

Ended(outs) ==
    \E o \in outs : Becomes(handle_error(o)) /\ harmed' = Harm(calc, o)

\* The arguments of commands that take the name of a variable.
NameArgs == {a \in Args : IsIndirect(a) \/ a[1] = "str"}

-----------------------------------------------------------------------------
\* SOLVE and INTEG.  Each of them is active at most once, as long as its marker is on the
\* return stack.

KeptOrForgotten(active) == {active, {}}

\* What a solver does has ended in o.
SolverLeaves(o, c) ==
    /\ InBounds(c)
    /\ calc' = c
    /\ misplaced' = ~RegsUsable(c)
    /\ undefined' = (o.err = "UNDEFINED")

\* A marker is on the return stack if the user's program was called.  With the jump, or
\* when the stack is full, the other one can get lost.
SolveLeaves(o, c) ==
    /\ solving' = Called(o)
    /\ integrating' \in KeptOrForgotten(integrating)
    /\ SolverLeaves(o, c)

IntegLeaves(o, c) ==
    /\ integrating' = Called(o)
    /\ solving' \in KeptOrForgotten(solving)
    /\ SolverLeaves(o, c)

\* The errors in the user's program that an active SOLVE takes for a function without a
\* value, when handle_error() sees them.  The returns up to its marker are forgotten.
Caught == {"OUT_OF_RANGE", "DIVIDE_BY_0", "INVALID_DATA", "STAT_MATH_ERROR"}

Trapped(outs) ==
    \E name \in solving :
        \E o \in {o \in outs : o.err \in Caught} :
            \E p \in return_to_solve(o.calc, name) :
                /\ SolveLeaves(p, [p.calc EXCEPT !.disable = FALSE])
                /\ harmed' = Harm(calc, o) \cup Harm(o.calc, p)

\* A command is executed.
Idle == calc.pending = None /\ ~undefined
Ready == [calc EXCEPT !.shared = {}]

Executed(outs) == Idle /\ (Ended(outs) \/ Trapped(outs))

Solve(outs) == \E o \in outs : SolveLeaves(o, handle_error(o)) /\ harmed' = Harm(calc, o)
Integrate(outs) == \E o \in outs : IntegLeaves(o, handle_error(o)) /\ harmed' = Harm(calc, o)

\* A command that is refused leaves an active solver as it is, if it was not forgotten
\* before.
Refusals(outs) == {o \in outs : o.err \notin Fine \cup {"UNDEFINED"}}

\* active: a program is running that the solver has called.
SolveStarts ==
    /\ Idle
    /\ \E active \in {FALSE, solving # {}} :
           LET outs == UNION {docmd_solve(Ready, arg, active) : arg \in NameArgs}
           IN  Solve(outs) \/ Ended(Refusals(outs))

SolveStartsInMenu ==
    /\ Idle
    /\ LET outs == UNION {docmd_vmsolve(Ready, arg) : arg \in DirectArgs}
       IN  Solve(outs) \/ Ended(Refusals(outs))

IntegStarts ==
    /\ Idle
    /\ \E active \in {FALSE, integrating # {}} :
           LET outs == UNION {docmd_integ(Ready, arg, active) : arg \in NameArgs}
           IN  Integrate(outs) \/ Ended(Refusals(outs))

\* RTN or END, where the marker is the last return address.
docmd_rtn ==
    /\ Idle
    /\ \/ \E name \in solving : Solve(return_to_solve(Ready, name))
       \/ \E name \in integrating : Integrate(return_to_integ(Ready, name))

\* The user's programs are left by other ways: clear_all_rtns(), or a full return stack.
ReturnsForgotten ==
    /\ ~undefined /\ solving \cup integrating # {}
    /\ solving' \in KeptOrForgotten(solving) /\ integrating' \in KeptOrForgotten(integrating)
    /\ UNCHANGED <<calc, harmed, misplaced, undefined>>

\* What comes after is not followed.
Undefined == undefined /\ UNCHANGED vars

-----------------------------------------------------------------------------
\* The commands, grouped by what they are for.  c: Ready.

Moves(c) ==
    UNION {docmd_clx(c), docmd_enter(c), docmd_swap(c), docmd_rdn(c), docmd_rup(c),
           docmd_lastx(c), docmd_clst(c), docmd_number(c), docmd_pi(c)}

Stores(c) ==
    UNION {UNION {docmd_sto(c, a), docmd_rcl(c, a), docmd_x_swap(c, a), docmd_asto(c, a),
                  docmd_arcl(c, a), docmd_input(c, a), docmd_view(c, a),
                  docmd_isg(c, a), docmd_dse(c, a)} : a \in Args}

NamedVariables(c) ==
    UNION {UNION {docmd_clv(c, a), docmd_prv(c, a)} : a \in NameArgs}

StoArithmetic(c) ==
    UNION {UNION {docmd_sto_div(c, a), docmd_sto_mul(c, a), docmd_sto_sub(c, a),
                  docmd_sto_add(c, a)} : a \in Args}

RclArithmetic(c) ==
    UNION {UNION {docmd_rcl_div(c, a), docmd_rcl_mul(c, a), docmd_rcl_sub(c, a),
                  docmd_rcl_add(c, a)} : a \in Args}

Arithmetic(c) ==
    UNION {docmd_div(c), docmd_mul(c), docmd_sub(c), docmd_add(c), docmd_chs(c),
           docmd_y_pow_x(c), docmd_complex(c), docmd_mod(c), docmd_percent(c),
           docmd_percent_ch(c), docmd_comb(c), docmd_perm(c), docmd_hmsadd(c),
           docmd_hmssub(c)}

Parts(c) ==
    UNION {docmd_abs(c), docmd_sign(c), docmd_ip(c), docmd_fp(c), docmd_rnd(c),
           docmd_to_deg(c), docmd_to_rad(c), docmd_to_hr(c), docmd_to_hms(c),
           docmd_to_rec(c), docmd_to_pol(c), docmd_fact(c), docmd_gamma(c)}

Elementary(c) ==
    UNION {docmd_sin(c), docmd_cos(c), docmd_tan(c), docmd_asin(c), docmd_acos(c),
           docmd_atan(c), docmd_sinh(c), docmd_cosh(c), docmd_tanh(c), docmd_asinh(c),
           docmd_acosh(c), docmd_atanh(c), docmd_log(c), docmd_ln(c), docmd_ln_1_x(c),
           docmd_10_pow_x(c), docmd_e_pow_x(c), docmd_e_pow_x_1(c), docmd_sqrt(c),
           docmd_square(c), docmd_inv(c)}

Registers(c) ==
    UNION {docmd_size(c, TRUE), docmd_size(c, FALSE), docmd_clrg(c), docmd_clsigma(c),
           docmd_clall(c), docmd_sigma_reg_t(c)}

Tests(c) ==
    UNION {x_compare_0(c), x_compare_y(c), docmd_x_eq_y(c), docmd_x_ne_y(c),
           is_type_t(c, {"real"}), is_type_t(c, {"string"}), is_type_t(c, MatrixTypes)}

Looking(c) ==
    UNION {docmd_aip(c), docmd_xtoa(c), docmd_agraph(c), docmd_pixel(c), docmd_delay(c),
           docmd_seed(c), docmd_arot(c), docmd_adate(c), docmd_atime(c), docmd_prsigma(c),
           docmd_prx(c), docmd_prstk(c), docmd_prusr(c)}

Makes(c) ==
    UNION {docmd_ran(c), docmd_aleng(c), docmd_atox(c), docmd_posa(c), docmd_accel(c),
           docmd_locat(c), docmd_heading(c), docmd_date(c), docmd_time(c),
           docmd_date_plus(c), docmd_ddays(c), docmd_dow(c)}

Matrices(c) ==
    UNION {docmd_newmat(c), docmd_dim_t(c), docmd_cross(c), docmd_dot(c), docmd_fnrm(c),
           docmd_rnrm(c), docmd_rsum(c), docmd_uvec(c), docmd_trans(c), docmd_rclij(c),
           max_min_helper(c), docmd_find(c), docmd_det(c), docmd_invrt(c)}

Statistics(c) ==
    UNION {docmd_sigmaadd(c), docmd_sigmasub(c), docmd_best(c), docmd_corr(c),
           docmd_slope(c), docmd_yint(c), docmd_wmean(c), docmd_fcstx(c), docmd_fcsty(c),
           docmd_mean(c), docmd_sum(c), docmd_sdev(c)}

Bases(c) ==
    UNION {docmd_and(c), docmd_or(c), docmd_xor(c), docmd_not(c), docmd_baseadd(c),
           docmd_basesub(c), docmd_basemul(c), docmd_basediv(c), docmd_basechs(c),
           docmd_rotxy(c), docmd_bit_t(c), docmd_to_dec(c), docmd_to_oct(c)}

-----------------------------------------------------------------------------
\* An operation in slices comes to its end: mode_interruptible().

\* Printing is over, or was stopped.
PrintEnds(c) == Done(c) \cup Ends(c, "STOP")

ResultOf(c, type) == Unchecked(new_value(c, type))

Reported(c, how, errors) == Completes(Fails(c, errors), how)

\* The decomposition fails or is interrupted: then linalg_div() returns without its
\* completion, and what RCL/ has recalled is not freed.
DecompositionFails(c, how) ==
    Fails(IF how.kind = "rcl" THEN [c EXCEPT !.lost = @ + 1] ELSE c,
          {"SINGULAR_MATRIX", "INSUFFICIENT_MEMORY", "INTERRUPTED"})

OperationEnds(c, p) ==
    Completes(ResultOf(c, p.type), p.how)
    \cup CASE p.op = "mul" -> Reported(c, p.how, {"OUT_OF_RANGE", "INTERRUPTED"})
           [] p.op = "div" ->
                  Reported(c, p.how, {"OUT_OF_RANGE", "INTERRUPTED"})
                  \cup DecompositionFails(c, p.how)
           [] OTHER -> Reported(c, p.how, {"OUT_OF_RANGE", "SINGULAR_MATRIX", "INTERRUPTED"})

Resumed ==
    /\ calc.pending # None /\ ~undefined
    /\ LET p == calc.pending
           c == [calc EXCEPT !.pending = None]
           outs == IF p.op = "print" THEN PrintEnds(c) ELSE OperationEnds(c, p)
       IN  Ended(outs) \/ Trapped(outs)

-----------------------------------------------------------------------------
\* VMSTO stores X and shows the value.  If there is no memory for showing it, it fails
\* and has stored.
StoresAndShows ==
    /\ Idle
    /\ harmed' = {}
    /\ \E a \in DirectArgs :
           \E o \in docmd_vmsto(Ready, a) \cup docmd_vmsto2(Ready, a) :
               Becomes(handle_error(o))

\* The shell pastes a value, at any time.
core_paste ==
    /\ ~undefined
    /\ harmed' = {}
    /\ \E o \in Recalls(new_real(calc) \cup new_complex(calc) \cup new_string(calc)) :
           Becomes(IF o.err = "NONE" THEN [o.calc EXCEPT !.lift = FALSE] ELSE o.calc)

Next ==
    \/ Executed(Moves(Ready))
    \/ Executed(Stores(Ready))
    \/ Executed(NamedVariables(Ready))
    \/ Executed(StoArithmetic(Ready))
    \/ Executed(RclArithmetic(Ready))
    \/ Executed(Arithmetic(Ready))
    \/ Executed(Parts(Ready))
    \/ Executed(Elementary(Ready))
    \/ Executed(Registers(Ready))
    \/ Executed(Tests(Ready))
    \/ Executed(Looking(Ready))
    \/ Executed(Makes(Ready))
    \/ Executed(Matrices(Ready))
    \/ Executed(Statistics(Ready))
    \/ Executed(Bases(Ready))
    \/ SolveStarts
    \/ SolveStartsInMenu
    \/ IntegStarts
    \/ docmd_rtn
    \/ Resumed
    \/ StoresAndShows
    \/ core_paste
    \/ ReturnsForgotten
    \/ Undefined

Spec == Init /\ [][Next]_vars

=============================================================================
