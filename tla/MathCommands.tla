---------------------------- MODULE MathCommands ----------------------------
(***************************************************************************)
(* The functions of numbers and matrices (common/core_commands3.cc,        *)
(* core_commands4.cc, core_commands6.cc): which values they take, which    *)
(* they make, and where those go.                                          *)
(***************************************************************************)
EXTENDS RegisterCommands

\* What a computation can fail with.
NumericErrors == {"INVALID_DATA", "OUT_OF_RANGE"}

\* A function of numbers of all types.
OfNumbers(c) == MapsX(c, NumberTypes, NumericErrors)
OfReals(c) == MapsX(c, RealTypes, NumericErrors)

\* A function whose value is complex for some real numbers; for a real matrix it fails
\* there.
OfReal(c) ==
    IF x(c).type = "real"
    THEN Unary(new_real(c) \cup new_complex(c)) \cup Fails(c, NumericErrors)
    ELSE OfNumbers(c)

docmd_acosh(c) == OfReal(c)
docmd_atanh(c) == OfReal(c)
docmd_asinh(c) == OfNumbers(c)
docmd_cosh(c) == OfNumbers(c)
docmd_sinh(c) == OfNumbers(c)
docmd_tanh(c) == OfNumbers(c)
docmd_e_pow_x_1(c) == OfReals(c)
docmd_ln_1_x(c) == OfReals(c)
docmd_sin(c) == OfNumbers(c)
docmd_cos(c) == OfNumbers(c)
docmd_tan(c) == OfNumbers(c)
docmd_asin(c) == OfReal(c)
docmd_acos(c) == OfReal(c)
docmd_atan(c) == OfNumbers(c)
docmd_log(c) == OfReal(c)
docmd_10_pow_x(c) == OfNumbers(c)
docmd_ln(c) == OfReal(c)
docmd_e_pow_x(c) == OfNumbers(c)
docmd_sqrt(c) == OfReal(c)
docmd_square(c) == OfNumbers(c)
docmd_inv(c) == OfNumbers(c)

\* A real to a power that is not a whole number can have a complex result.
docmd_y_pow_x(c) ==
    IF IsString(x(c)) \/ IsString(y(c)) THEN Ends(c, "ALPHA_DATA_IS_INVALID")
    ELSE IF IsMatrix(x(c)) \/ IsMatrix(y(c)) THEN Ends(c, "INVALID_TYPE")
    ELSE Fails(c, NumericErrors)
         \cup Binary(IF x(c).type = "real" /\ y(c).type = "real"
                     THEN new_real(c) \cup new_complex(c)
                     ELSE new_complex(c))

hms_add_or_sub(c) == OfTwoReals(c, {"OUT_OF_RANGE"})

docmd_hmsadd(c) == hms_add_or_sub(c)
docmd_hmssub(c) == hms_add_or_sub(c)

\* The arguments of a binary function, and a result that leaves Y alone.
docmd_percent_ch(c) ==
    IF x(c).type # "real" THEN Rejects(c, x(c))
    ELSE IF y(c).type # "real" THEN Rejects(c, y(c))
    ELSE Unary(new_real(c)) \cup Fails(c, {"DIVIDE_BY_0", "OUT_OF_RANGE"})

-----------------------------------------------------------------------------
\* ALPHA, where a value comes of it.

docmd_aleng(c) == Recalls(new_real(c))
docmd_arot(c) == Looks(c, x(c), {"real"}, {"NONE"})
docmd_atox(c) == Recalls(new_real(c))

docmd_posa(c) ==
    CASE x(c).type = "real" -> Unary(new_real(c)) \cup Ends(c, "INVALID_DATA")
      [] IsString(x(c)) -> Unary(new_real(c))
      [] OTHER -> Ends(c, "INVALID_TYPE")

-----------------------------------------------------------------------------
\* Matrices.

Texty(c, v, w) == ContainsStrings(c, v) \/ ContainsStrings(c, w)

docmd_cross(c) ==
    IF IsString(x(c)) \/ IsString(y(c)) THEN Ends(c, "ALPHA_DATA_IS_INVALID")
    ELSE IF x(c).type = "complex" /\ y(c).type = "complex"
    THEN Binary(new_real(c)) \cup Ends(c, "OUT_OF_RANGE")
    ELSE IF x(c).type = "realmatrix" /\ y(c).type = "realmatrix"
    THEN Ends(c, "DIMENSION_ERROR")
         \cup IF Texty(c, x(c), y(c)) THEN Ends(c, "ALPHA_DATA_IS_INVALID")
              ELSE Binary(new_matrix(c, "realmatrix")) \cup Ends(c, "OUT_OF_RANGE")
    ELSE Ends(c, "INVALID_TYPE")

docmd_dot(c) ==
    IF IsString(x(c)) \/ IsString(y(c)) THEN Ends(c, "ALPHA_DATA_IS_INVALID")
    ELSE IF IsMatrix(x(c)) /\ IsMatrix(y(c))
    THEN Ends(c, "DIMENSION_ERROR")
         \cup IF Texty(c, x(c), y(c)) THEN Ends(c, "ALPHA_DATA_IS_INVALID")
              ELSE Binary(IF BinaryType(x(c), y(c)) = "realmatrix"
                          THEN new_real(c) ELSE new_complex(c))
                   \cup Ends(c, "OUT_OF_RANGE")
    ELSE IF x(c).type = "complex" /\ y(c).type = "complex"
    THEN Binary(new_real(c)) \cup Ends(c, "OUT_OF_RANGE")
    ELSE Ends(c, "INVALID_TYPE")

\* A norm: of a matrix without strings.
Norm(c) ==
    IF ~IsMatrix(x(c)) THEN Rejects(c, x(c))
    ELSE IF ContainsStrings(c, x(c)) THEN Ends(c, "ALPHA_DATA_IS_INVALID")
    ELSE Unary(new_real(c)) \cup Ends(c, "OUT_OF_RANGE")

docmd_fnrm(c) == Norm(c)
docmd_rnrm(c) == Norm(c)

docmd_rsum(c) ==
    IF ~IsMatrix(x(c)) THEN Rejects(c, x(c))
    ELSE IF ContainsStrings(c, x(c)) THEN Ends(c, "ALPHA_DATA_IS_INVALID")
    ELSE Unary(new_matrix(c, x(c).type)) \cup Ends(c, "OUT_OF_RANGE")

docmd_uvec(c) ==
    CASE x(c).type = "complexmatrix" -> Ends(c, "INVALID_TYPE")
      [] x(c).type = "complex" -> docmd_sign(c) \cup Ends(c, "INVALID_DATA")
      [] x(c).type = "realmatrix" ->
             IF ContainsStrings(c, x(c)) THEN Ends(c, "ALPHA_DATA_IS_INVALID")
             ELSE Unary(new_matrix(c, "realmatrix"))
                  \cup Fails(c, {"OUT_OF_RANGE", "INVALID_DATA"})
      [] OTHER -> Rejects(c, x(c))

\* The only function that takes strings along.
docmd_trans(c) ==
    IF ~IsMatrix(x(c)) THEN Rejects(c, x(c))
    ELSE Then(new_matrix(c, x(c).type),
              LAMBDA d, v : Done([unary_result(d, v) EXCEPT !.data[v.array] = c.data[x(c).array]]))

\* The index, the extremes of a column and a search; the index itself is MatrixEditor's.
docmd_rclij(c) ==
    Ends(c, "NONEXISTENT")
    \cup Then(two_reals(c), LAMBDA d, v : Done(recall_two_results(d, v[2], v[1])))

max_min_helper(c) ==
    Fails(c, {"NONEXISTENT", "INVALID_TYPE", "ALPHA_DATA_IS_INVALID"})
    \cup Then(two_reals(c), LAMBDA d, v : Done(recall_two_results(d, v[1], v[2])))

docmd_find(c) ==
    IF IsMatrix(x(c)) THEN Ends(c, "INVALID_TYPE") ELSE Fails(c, {"NONEXISTENT", "NO", "YES"})

\* X<>: a RCL, a STO, and what was recalled becomes X.
docmd_x_swap(c, arg) ==
    WithArg(c, arg,
        LAMBDA d, a :
            Then(RclDirect(d, a),
                 LAMBDA e, v :
                     {IF o.err # "NONE" THEN Outcome(free_vartype(o.calc, v), o.err, None)
                      ELSE Outcome(WithSlot(o.calc, "x", v), "NONE", None) :
                      o \in StoDirect(e, a, "none")}))

\* Determinant and inverse go on in slices.  linalg_inv() rejects other than square
\* matrices, and complex ones if there is no memory, without its completion; here that
\* makes no difference.
docmd_det(c) ==
    IF ~IsMatrix(x(c)) THEN Rejects(c, x(c))
    ELSE LET how == [kind |-> "unary"]
         IN  Completes(Fails(c, {"DIMENSION_ERROR", "INSUFFICIENT_MEMORY"}), how)
             \cup IF ContainsStrings(c, x(c))
                  THEN Completes(Ends(c, "ALPHA_DATA_IS_INVALID"), how)
                  ELSE Starts(c, "det", IF x(c).type = "realmatrix" THEN "real" ELSE "complex", how)

docmd_invrt(c) ==
    IF ~IsMatrix(x(c)) THEN Rejects(c, x(c))
    ELSE LET how == [kind |-> "unary"]
         IN  Completes(Fails(c, {"DIMENSION_ERROR", "INSUFFICIENT_MEMORY"}), how)
             \cup IF ContainsStrings(c, x(c))
                  THEN Completes(Ends(c, "ALPHA_DATA_IS_INVALID"), how)
                  ELSE Starts(c, "inv", x(c).type, how)

=============================================================================
