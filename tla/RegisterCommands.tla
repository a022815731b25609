--------------------------- MODULE RegisterCommands ---------------------------
(***************************************************************************)
(* The commands of common/core_commands2.cc that use values: tests, loops, *)
(* INPUT and VIEW, printing, and those that put characters or pixels       *)
(* somewhere and only look at X and Y.  Printing a matrix goes on in       *)
(* slices.                                                                 *)
(***************************************************************************)
EXTENDS StackCommands

\* What a command does that only needs its operands to be of some type.
Looks(c, v, types, ends) ==
    IF v.type \notin types THEN Rejects(c, v) ELSE Fails(c, ends)

docmd_comb(c) == OfTwoReals(c, {"INVALID_DATA", "OUT_OF_RANGE"})
docmd_perm(c) == OfTwoReals(c, {"INVALID_DATA", "OUT_OF_RANGE"})
docmd_fact(c) == MapsX(c, RealTypes, {"INVALID_DATA", "OUT_OF_RANGE"})
docmd_gamma(c) == MapsX(c, RealTypes, {"INVALID_DATA", "OUT_OF_RANGE"})
docmd_ran(c) == Recalls(new_real(c))
docmd_seed(c) == Looks(c, x(c), {"real"}, {"NONE"})

\* A variable that does not exist is taken to be 0.
docmd_input(c, arg) ==
    LET Recall(d, a) ==
            {o \in RclDirect(d, a) : o.err # "NONEXISTENT"}
            \cup (IF \E o \in RclDirect(d, a) : o.err = "NONEXISTENT" THEN new_real(d) ELSE {})
    IN  Then(WithArg(c, arg, Recall), LAMBDA d, v : Ends(recall_result(d, v), "STOP"))

\* The value is recalled, shown and freed.
view_helper(c, arg) ==
    Then(generic_rcl(c, arg),
         LAMBDA d, v : Done(free_vartype(d, v)) \cup Ends(free_vartype(d, v), "STOP"))

docmd_view(c, arg) == view_helper(c, arg)

-----------------------------------------------------------------------------
\* ISG and DSE.

\* In place; it is found whether the loop goes on.
generic_loop_helper(c) == Fails(c, {"YES", "NO"})

\* A variable must exist: recall_var()'s answer is used as it is.
LoopHasTarget(c, arg) ==
    \/ arg[1] # "str"
    \/ c.slot[arg[2]] # None

LoopDirect(c, arg) ==
    IF arg[1] = "num"
    THEN LET regs == recall_var(c, "REGS")
         IN  IF regs = None THEN Ends(c, "SIZE_ERROR")
             ELSE CASE regs.type = "realmatrix" ->
                           Ends(c, "SIZE_ERROR")
                           \cup (IF ContainsStrings(c, regs)
                                 THEN Ends(c, "ALPHA_DATA_IS_INVALID") ELSE {})
                           \cup Then(disentangle(c, "REGS"),
                                     LAMBDA d, v :
                                         UNION {generic_loop_helper(o.calc) :
                                                o \in Writes(d, "REGS", {d.data[d.slot["REGS"].array]})})
                    [] regs.type = "complexmatrix" -> Ends(c, "INVALID_TYPE")
                    [] OTHER -> Ends(c, "INTERNAL_ERROR")
    ELSE IF ~LoopHasTarget(c, arg) THEN {}
    ELSE IF c.slot[arg[2]].type = "real" THEN generic_loop_helper(c)
    ELSE Rejects(c, c.slot[arg[2]])

generic_loop(c, arg) == WithArg(c, arg, LoopDirect)

docmd_isg(c, arg) == generic_loop(c, arg)
docmd_dse(c, arg) == generic_loop(c, arg)

-----------------------------------------------------------------------------
\* ALPHA, the display and the tests.

docmd_aip(c) == Looks(c, x(c), {"real"}, {"NONE"})

docmd_xtoa(c) ==
    CASE x(c).type = "real" -> Fails(c, {"NONE", "INVALID_DATA"})
      [] x(c).type \in {"string", "realmatrix"} -> Done(c)
      [] OTHER -> Ends(c, "INVALID_TYPE")

\* A point is given by X and Y, by a complex X, or by each element of a complex matrix.
Draws(c) ==
    IF x(c).type = "real" THEN Looks(c, y(c), {"real"}, {"NONE"})
    ELSE Looks(c, x(c), {"complex", "complexmatrix"}, {"NONE"})

docmd_agraph(c) == Draws(c)
docmd_pixel(c) == Draws(c)

\* X=0?, X#0?, X<0?, X>0?, X<=0?, X>=0?.
x_compare_0(c) == Looks(c, x(c), {"real"}, {"YES", "NO"})

\* X=Y? and X#Y? compare values of any type.
docmd_x_eq_y(c) ==
    IF x(c).type # y(c).type THEN Ends(c, "NO") ELSE Fails(c, {"YES", "NO"})

docmd_x_ne_y(c) ==
    {Outcome(o.calc, IF o.err = "YES" THEN "NO" ELSE "YES", None) : o \in docmd_x_eq_y(c)}

\* X<Y?, X>Y?, X<=Y?, X>=Y?.
x_compare_y(c) ==
    IF x(c).type # "real" THEN Rejects(c, x(c)) ELSE Looks(c, y(c), {"real"}, {"YES", "NO"})

docmd_delay(c) == Looks(c, x(c), {"real"}, {"NONE", "INVALID_DATA"})

-----------------------------------------------------------------------------
\* Printing.  Whether there is a printer, and whether it is enabled, is a choice.

docmd_prsigma(c) ==
    LET regs == recall_var(c, "REGS")
    IN  IF regs = None THEN Ends(c, "NONEXISTENT")
        ELSE IF regs.type # "realmatrix" THEN Ends(c, "INVALID_TYPE")
        ELSE Fails(c, {"SIZE_ERROR", "NONE", "PRINTING_IS_DISABLED"})

\* A matrix is printed by prv_worker(), which holds a pointer to it until its end.
Prints(c, s) ==
    IF IsMatrix(c.slot[s]) THEN Starts(c, "print", "none", [kind |-> "print"])
    ELSE Done(c)

docmd_prv(c, arg) ==
    WithArg(c, arg,
        LAMBDA d, a :
            IF a[1] # "str" THEN Ends(d, "INVALID_TYPE")
            ELSE IF recall_var(d, a[2]) = None THEN Ends(d, "NONEXISTENT")
            ELSE Fails(d, {"NONE", "PRINTING_IS_DISABLED"}) \cup Prints(d, a[2]))

docmd_prx(c) == Fails(c, {"NONE", "PRINTING_IS_DISABLED"}) \cup Prints(c, "x")

\* The values of all variables, then the labels, one in a slice.
docmd_prusr(c) ==
    Fails(c, {"NONE", "PRINTING_IS_DISABLED"})
    \cup Starts(c, "print", "none", [kind |-> "print"])

docmd_prstk(c) == Fails(c, {"NONE", "PRINTING_IS_DISABLED"})

-----------------------------------------------------------------------------
\* The rest.

\* A number in a program, or typed in.
docmd_number(c) == Recalls(new_real(c))

docmd_newmat(c) ==
    IF x(c).type # "real" THEN Rejects(c, x(c))
    ELSE IF y(c).type # "real" THEN Rejects(c, y(c))
    ELSE Ends(c, "DIMENSION_ERROR") \cup Binary(new_matrix(c, "realmatrix"))

docmd_rup(c) ==
    Done([c EXCEPT !.slot = [@ EXCEPT !["x"] = c.slot["t"], !["t"] = c.slot["z"],
                                      !["z"] = y(c), !["y"] = x(c)]])

\* REAL?, CPX?, STR?, MAT?.
is_type_t(c, types) == Ends(c, IF x(c).type \in types THEN "YES" ELSE "NO")

docmd_dim_t(c) ==
    IF ~IsMatrix(x(c)) THEN Rejects(c, x(c))
    ELSE Then(two_reals(c), LAMBDA d, v : Done(split_result(d, v)))

\* STO from a menu of variables; the new value is shown.
docmd_vmsto(c, arg) == Then(docmd_sto(c, arg), LAMBDA d, v : view_helper(d, arg))

docmd_vmsto2(c, arg) ==
    IF arg[1] # "str" THEN Ends(c, "INVALID_TYPE") ELSE docmd_vmsto(c, arg)

docmd_sigma_reg_t(c) == Recalls(new_real(c))

=============================================================================
