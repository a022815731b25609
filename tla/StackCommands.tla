---------------------------- MODULE StackCommands ----------------------------
(***************************************************************************)
(* The commands of common/core_commands1.cc that move, make or free        *)
(* values.  What they do to flags and to the display is left out, as is    *)
(* the line that trace mode prints.                                        *)
(***************************************************************************)
EXTENDS StoreRecall

x(c) == c.slot["x"]
y(c) == c.slot["y"]

docmd_clx(c) ==
    Done([Zeroes(Clear(c, {"x"}), {"x"}) EXCEPT !.disable = TRUE])

docmd_enter(c) ==
    Then(dup_vartype(c, x(c)),
         LAMBDA d, v :
             Done([free_vartype(d, d.slot["t"]) EXCEPT
                      !.disable = TRUE,
                      !.slot = [@ EXCEPT !["t"] = d.slot["z"], !["z"] = y(d), !["y"] = v]]))

docmd_swap(c) == Done([c EXCEPT !.slot = [@ EXCEPT !["x"] = y(c), !["y"] = x(c)]])

docmd_rdn(c) ==
    Done([c EXCEPT !.slot = [@ EXCEPT !["x"] = y(c), !["y"] = c.slot["z"],
                                      !["z"] = c.slot["t"], !["t"] = x(c)]])

\* In place.
docmd_chs(c) ==
    CASE x(c).type \in {"real", "complex"} -> Done(c)
      [] IsMatrix(x(c)) ->
             IF ContainsStrings(c, x(c)) THEN Ends(c, "ALPHA_DATA_IS_INVALID")
             ELSE Then(disentangle(c, "x"), LAMBDA d, v : Writes(d, "x", Numbers))
      [] IsString(x(c)) -> Ends(c, "ALPHA_DATA_IS_INVALID")

docmd_lastx(c) == Recalls(dup_vartype(c, c.slot["l"]))

\* Joins two reals or real matrices, or takes a complex one apart.
docmd_complex(c) ==
    CASE x(c).type = "real" ->
             IF y(c).type # "real" THEN Rejects(c, y(c)) ELSE Binary(new_complex(c))
      [] x(c).type = "complex" ->
             Then(two_reals(c), LAMBDA d, v : Done(split_result(d, v)))
             \cup Ends(c, "OUT_OF_RANGE")
      [] x(c).type = "realmatrix" ->
             IF y(c).type # "realmatrix" THEN Rejects(c, y(c))
             ELSE Ends(c, "DIMENSION_ERROR")
                  \cup IF ContainsStrings(c, x(c)) \/ ContainsStrings(c, y(c))
                       THEN Ends(c, "ALPHA_DATA_IS_INVALID")
                       ELSE Binary(new_matrix(c, "complexmatrix"))
      [] x(c).type = "complexmatrix" ->
             Then(two_matrices(c, "realmatrix"), LAMBDA d, v : Done(split_result(d, v)))
             \cup Ends(c, "OUT_OF_RANGE")
      [] IsString(x(c)) -> Ends(c, "ALPHA_DATA_IS_INVALID")

StoresString_LosesX(c, s, arg) ==
    LET saved_x == x(c)
        during == [c EXCEPT !.slot["x"] = s]
    IN  {IF o.err = "NONE" THEN Outcome([free_vartype(o.calc, s) EXCEPT !.slot["x"] = saved_x], o.err, None)
         ELSE Outcome(free_vartype(o.calc, saved_x), o.err, None) :
            o \in docmd_sto(during, arg)}

\* A string is in X for the time of an STO; X is saved, and put back also after an error.
StoresString(c, s, arg) ==
    LET saved_x == x(c)
        during == [c EXCEPT !.slot["x"] = s]
    IN  {Outcome([free_vartype(o.calc, s) EXCEPT !.slot["x"] = saved_x], o.err, None) :
            o \in docmd_sto(during, arg)}

docmd_asto(c, arg) ==
    Then(new_string(c),
         LAMBDA d, s :
             CASE arg = <<"stk", "x">> -> Done(WithSlot(d, "x", s))
               [] arg = <<"ind", "stk", "x">> ->
                      LET r == resolve_ind_arg(d, arg)
                      IN  Fails(free_vartype(d, s), r.errors)
                          \cup UNION {StoresString(d, s, a) : a \in r.args}
               [] OTHER -> StoresString(d, s, arg))

\* RCL with the stack lift disabled, and X put back.
docmd_arcl(c, arg) ==
    Then(dup_vartype(c, x(c)),
         LAMBDA d, saved_x :
             {LET e == [o.calc EXCEPT !.lift = c.lift]
              IN  IF o.err # "NONE" THEN Outcome(free_vartype(e, saved_x), o.err, None)
                  ELSE Outcome(WithSlot(e, "x", saved_x), "NONE", None) :
              o \in docmd_rcl([d EXCEPT !.lift = TRUE], arg)})

docmd_size(c, empty) == dimension_array(c, "REGS", empty)

\* The registers of the statistics are cleared where they are.
docmd_clsigma(c) ==
    LET regs == recall_var(c, "REGS")
    IN  IF regs = None THEN Ends(c, "SIZE_ERROR")
        ELSE IF regs.type # "realmatrix" THEN Ends(c, "INVALID_TYPE")
        ELSE Ends(c, "SIZE_ERROR")
             \cup WritesBy("statistics", c, "REGS", NumbersIn(c, "REGS"))

\* The matrix that EDITN works on, which may not be deleted, is in MatrixEditor.
docmd_clv(c, arg) ==
    WithArg(c, arg, LAMBDA d, a : IF a[1] = "str" THEN Done(purge_var(d, a[2]))
                                  ELSE Ends(d, "INVALID_TYPE"))

docmd_clst(c) == Done(Zeroes(Clear(c, Stack \ {"l"}), Stack \ {"l"}))

docmd_clrg(c) ==
    LET regs == recall_var(c, "REGS")
    IN  IF regs = None THEN Ends(c, "NONEXISTENT")
        ELSE IF IsMatrix(regs)
             THEN Then(disentangle(c, "REGS"), LAMBDA d, v : Writes(d, "REGS", Numbers))
             ELSE Ends(c, "INTERNAL_ERROR")

\* The values only; the programs are in ProgramMemory, the editor in MatrixEditor.
docmd_clall(c) ==
    Then(Unchecked(new_matrix(Zeroes(Clear(c, Slots), Stack), "realmatrix")),
         LAMBDA d, v : Done(store_var(d, "REGS", v)))

docmd_percent(c) ==
    IF IsString(x(c)) \/ IsString(y(c)) THEN Ends(c, "ALPHA_DATA_IS_INVALID")
    ELSE IF x(c).type # "real" \/ y(c).type # "real" THEN Ends(c, "INVALID_TYPE")
    ELSE Unary(new_real(c)) \cup Ends(c, "OUT_OF_RANGE")

docmd_pi(c) == Recalls(new_real(c))

\* A function of the numbers in X.
MapsX(c, types, errors) ==
    IF x(c).type \notin types THEN Rejects(c, x(c)) ELSE Unary(map_unary(c, x(c), errors))

RealTypes == {"real", "realmatrix"}
NumberTypes == RealTypes \cup {"complex", "complexmatrix"}

docmd_to_deg(c) == MapsX(c, RealTypes, {"OUT_OF_RANGE"})
docmd_to_rad(c) == MapsX(c, RealTypes, {})
docmd_to_hr(c) == MapsX(c, RealTypes, {})
docmd_to_hms(c) == MapsX(c, RealTypes, {})
docmd_ip(c) == MapsX(c, RealTypes, {})
docmd_fp(c) == MapsX(c, RealTypes, {})
docmd_rnd(c) == MapsX(c, NumberTypes, {"OUT_OF_RANGE"})

\* X and Y, or the parts of a complex X, are turned from polar to rectangular form or
\* back; of a complex Y only the real part counts, as on the HP-42S.
Turns(c, errors) ==
    CASE x(c).type = "real" ->
             IF y(c).type \in {"real", "complex"}
             THEN Then(two_reals(c), LAMBDA d, v : Done(replace_two(d, v))) \cup Fails(c, errors)
             ELSE Rejects(c, y(c))
      [] x(c).type = "complex" -> Unary(new_complex(c)) \cup Fails(c, errors)
      [] OTHER -> Rejects(c, x(c))

docmd_to_rec(c) == Turns(c, {})
docmd_to_pol(c) == Turns(c, {"OUT_OF_RANGE"})

docmd_abs(c) ==
    CASE x(c).type \in RealTypes -> MapsX(c, RealTypes, {})
      [] x(c).type = "complex" -> Unary(new_real(c)) \cup Ends(c, "OUT_OF_RANGE")
      [] OTHER -> Rejects(c, x(c))

\* A string, or a string in a real matrix, has the sign 0.  That the result of
\* map_unary() is there is taken for granted.
docmd_sign(c) ==
    CASE x(c).type \in {"real", "string"} -> Unary(new_real(c))
      [] x(c).type = "realmatrix" -> Unary(new_matrix(c, "realmatrix"))
      [] OTHER -> Unary(Unchecked(map_unary(c, x(c), {})))

\* A function of two reals.
OfTwoReals(c, errors) ==
    IF x(c).type # "real" THEN Rejects(c, x(c))
    ELSE IF y(c).type # "real" THEN Rejects(c, y(c))
    ELSE Binary(new_real(c)) \cup Fails(c, errors)

docmd_mod(c) == OfTwoReals(c, {})

=============================================================================
