-------------------------- MODULE StatisticsCommands --------------------------
(***************************************************************************)
(* Statistics, arithmetic in other bases, sensors and the time             *)
(* (common/core_commands5.cc, core_commands7.cc).  The sums are in the     *)
(* numbered registers: a part of the matrix REGS.                          *)
(***************************************************************************)
EXTENDS MathCommands

\* The errors with which the sums cannot be used; {} where they can.
get_summation(c) ==
    LET regs == recall_var(c, "REGS")
    IN  IF regs = None THEN {"SIZE_ERROR"}
        ELSE IF regs.type # "realmatrix" THEN {"INVALID_TYPE"}
        ELSE {"SIZE_ERROR"}
             \cup IF ContainsStrings(c, regs) THEN {"ALPHA_DATA_IS_INVALID"} ELSE {}

\* Strings outside of the sums do no harm.
SumsUsable(c) ==
    LET regs == recall_var(c, "REGS")
    IN  regs # None /\ regs.type = "realmatrix"

get_model_summation(c) == get_summation(c) \cup {"INVALID_FORECAST_MODEL"}

\* The outcomes of F where the sums can be used.
WithSums(c, errors, F(_)) ==
    Fails(c, errors) \cup IF SumsUsable(c) THEN F(c) ELSE {}

StatErrors(c) == get_model_summation(c) \cup {"STAT_MATH_ERROR"}

docmd_best(c) == WithSums(c, StatErrors(c), Done)
docmd_corr(c) == WithSums(c, StatErrors(c), LAMBDA d : Recalls(new_real(d)))
docmd_slope(c) == WithSums(c, StatErrors(c), LAMBDA d : Recalls(new_real(d)))
docmd_yint(c) == WithSums(c, StatErrors(c), LAMBDA d : Recalls(new_real(d)))
docmd_wmean(c) == WithSums(c, StatErrors(c), LAMBDA d : Recalls(new_real(d)))

Forecast(c) ==
    MapsX(c, RealTypes, {"INVALID_FORECAST_MODEL", "STAT_MATH_ERROR"})

docmd_fcstx(c) == WithSums(c, StatErrors(c), Forecast)
docmd_fcsty(c) == WithSums(c, StatErrors(c), Forecast)

\* Two results replace X and Y.
Replaces(c) == Then(two_reals(c), LAMBDA d, v : Done(replace_two(d, v)))

docmd_mean(c) == WithSums(c, StatErrors(c), Replaces)
docmd_sum(c) == WithSums(c, get_summation(c), Replaces)

\* A negative variance is found for y when the result for x has been made, and that is
\* left behind.
docmd_sdev(c) ==
    WithSums(c, StatErrors(c),
        LAMBDA d :
            Replaces(d)
            \cup Then(new_real(d),
                      LAMBDA e, v : Ends([e EXCEPT !.lost = @ + 1], "STAT_MATH_ERROR")))

\* X and Y, or the rows of X, are added to the sums or subtracted, where they are.
Accumulate(c) ==
    UNION {{Outcome([o.calc EXCEPT !.disable = TRUE], o.err, None) :
               o \in Then(Unary(new_real(w.calc)), LAMBDA d, v : Done(d))} :
           w \in WritesBy("statistics", c, "REGS", {c.data[c.slot["REGS"].array]})}

\* Nothing is written before the new X is there.
sigma_helper_1(c) ==
    WithSums(c, get_summation(c),
        LAMBDA d :
            CASE x(d).type = "real" ->
                     IF y(d).type # "real" THEN Rejects(d, y(d))
                     ELSE Unchecked(Accumulate(d)) \cup Ends(d, "INSUFFICIENT_MEMORY")
              [] x(d).type = "realmatrix" ->
                     Ends(d, "DIMENSION_ERROR")
                     \cup IF ContainsStrings(d, x(d)) THEN Ends(d, "ALPHA_DATA_IS_INVALID")
                          ELSE Unchecked(Accumulate(d)) \cup Ends(d, "INSUFFICIENT_MEMORY")
              [] OTHER -> Rejects(d, x(d)))

docmd_sigmaadd(c) == sigma_helper_1(c)
docmd_sigmasub(c) == sigma_helper_1(c)

-----------------------------------------------------------------------------
\* Whole numbers of 36 bits.

get_base_param(v) ==
    CASE v.type = "real" -> {"NONE", "INVALID_DATA"}
      [] IsString(v) -> {"ALPHA_DATA_IS_INVALID"}
      [] OTHER -> {"INVALID_TYPE"}

\* F if both X and Y can be such numbers.
WithBaseParams(c, errors, F(_)) ==
    IF get_base_param(x(c)) \cap {"NONE"} = {} THEN Fails(c, get_base_param(x(c)))
    ELSE IF get_base_param(y(c)) \cap {"NONE"} = {} THEN Fails(c, get_base_param(y(c)))
    ELSE Fails(c, {"INVALID_DATA"} \cup errors) \cup F(c)

OfBaseParams(c, errors) ==
    WithBaseParams(c, errors, LAMBDA d : Binary(new_real(d)))

docmd_and(c) == OfBaseParams(c, {})
docmd_or(c) == OfBaseParams(c, {})
docmd_xor(c) == OfBaseParams(c, {})
docmd_baseadd(c) == OfBaseParams(c, {"OUT_OF_RANGE"})
docmd_basesub(c) == OfBaseParams(c, {"OUT_OF_RANGE"})
docmd_basemul(c) == OfBaseParams(c, {"OUT_OF_RANGE"})
docmd_basediv(c) == OfBaseParams(c, {"OUT_OF_RANGE", "DIVIDE_BY_0"})
docmd_rotxy(c) == OfBaseParams(c, {})
docmd_bit_t(c) == WithBaseParams(c, {}, LAMBDA d : Fails(d, {"YES", "NO"}))

\* In place.
docmd_basechs(c) == Fails(c, get_base_param(x(c)) \cup {"OUT_OF_RANGE"})

docmd_not(c) ==
    IF x(c).type # "real" THEN Rejects(c, x(c))
    ELSE Unary(new_real(c)) \cup Ends(c, "INVALID_DATA")

docmd_to_dec(c) ==
    IF x(c).type # "real" THEN Rejects(c, x(c))
    ELSE Unary(new_real(c)) \cup Ends(c, "INVALID_DATA")

docmd_to_oct(c) ==
    IF x(c).type # "real" THEN Rejects(c, x(c))
    ELSE Unary(new_real(c)) \cup Ends(c, "INVALID_DATA")

-----------------------------------------------------------------------------
\* Sensors and the time.

\* Three values, and perhaps a matrix: all of them are made, or none.
three_reals(c) ==
    Then(two_reals(c),
         LAMBDA d, v : UNION {IF o.err = "NONE" THEN {o}
                              ELSE Ends(free_vartype(free_vartype(o.calc, v[1]), v[2]), o.err) :
                              o \in new_real(d)})

\* Three results move the stack up by three, or by two where X is to be overwritten.
docmd_accel(c) ==
    Ends(c, "NONEXISTENT")
    \cup Then(three_reals(c),
              LAMBDA d, v :
                  LET gone == {"t", "z"} \cup IF d.lift THEN {"x"} ELSE {"y"}
                      kept == IF d.lift THEN y(d) ELSE x(d)
                  IN  Done([Clear(d, gone) EXCEPT !.slot =
                               [@ EXCEPT !["t"] = kept, !["z"] = Scalar("real"),
                                         !["y"] = Scalar("real"), !["x"] = Scalar("real")]]))

new_value(c, type) ==
    IF type \in MatrixTypes THEN new_matrix(c, type) ELSE new_scalar(c, type)

\* The whole stack is replaced by three numbers, with a value of a type in T; LASTX stays
\* as it is.
WholeStack(c, type) ==
    Then(three_reals(c),
         LAMBDA d, v :
             UNION {IF o.err # "NONE" THEN Ends([d EXCEPT !.live = @ - 3], o.err)
                    ELSE Done([Clear(o.calc, Stack \ {"l"}) EXCEPT !.slot =
                             [@ EXCEPT !["t"] = o.v, !["z"] = Scalar("real"),
                                       !["y"] = Scalar("real"), !["x"] = Scalar("real")]]) :
                    o \in new_value(d, type)})

docmd_locat(c) == Ends(c, "NONEXISTENT") \cup WholeStack(c, "realmatrix")
docmd_heading(c) == Ends(c, "NONEXISTENT") \cup WholeStack(c, "realmatrix")

docmd_adate(c) == Looks(c, x(c), {"real"}, {"NONE", "INVALID_DATA"})
docmd_atime(c) == Looks(c, x(c), {"real"}, {"NONE", "INVALID_DATA"})
docmd_date(c) == Recalls(new_real(c))
docmd_time(c) == Recalls(new_real(c))
docmd_date_plus(c) == OfTwoReals(c, {"INVALID_DATA", "OUT_OF_RANGE"})
docmd_ddays(c) == OfTwoReals(c, {"INVALID_DATA"})

docmd_dow(c) ==
    IF x(c).type # "real" THEN Rejects(c, x(c))
    ELSE Unary(new_real(c)) \cup Ends(c, "INVALID_DATA")

=============================================================================
