----------------------------- MODULE StoreRecall -----------------------------
(***************************************************************************)
(* STO and RCL, their arithmetic, and division and multiplication, which   *)
(* for two matrices are operations in slices (common/core_sto_rcl.cc,      *)
(* core_commands1.cc, core_helpers.cc).                                    *)
(*                                                                         *)
(* An argument is <<"num">> (a register number), <<"stk", slot>>,          *)
(* <<"str", name>>, or an indirect one: "ind" in front of these.           *)
(***************************************************************************)
EXTENDS ValueStack, Sequences

DirectArgs ==
    {<<"num">>} \cup {<<"stk", s>> : s \in Stack} \cup {<<"str", v>> : v \in Variables}
Args == DirectArgs \cup {<<"ind">> \o arg : arg \in DirectArgs}

IsIndirect(arg) == arg[1] = "ind"

\* What an indirect argument stands for: a number where there is a real number,
\* a name where there is a string.
Resolved(type) ==
    CASE type = "real" -> {<<"num">>}
      [] type = "string" -> {<<"str", v>> : v \in Variables}
      [] OTHER -> {}

resolve_ind_arg(c, arg) ==
    LET regs == recall_var(c, "REGS")
        from == IF arg[2] = "num"
                THEN IF regs.type # "realmatrix" THEN {}
                     ELSE {"real"} \cup (IF ContainsStrings(c, regs) THEN {"string"} ELSE {})
                ELSE {c.slot[arg[3]].type}
        error == IF arg[2] = "num"
                 THEN IF regs = None THEN {"SIZE_ERROR"}
                      ELSE IF regs.type # "realmatrix" THEN {"INVALID_TYPE"}
                      ELSE {"SIZE_ERROR"}
                 ELSE IF from = {"none"} THEN {"NONEXISTENT"}
                 ELSE IF from \subseteq {"real", "string"} THEN {}
                 ELSE {"INVALID_TYPE"}
    IN  [args |-> UNION {Resolved(t) : t \in from}, errors |-> error]

\* F for the argument, resolved where it is indirect.
WithArg(c, arg, F(_, _)) ==
    IF IsIndirect(arg)
    THEN LET r == resolve_ind_arg(c, arg)
         IN  Fails(c, r.errors) \cup UNION {F(c, a) : a \in r.args}
    ELSE F(c, arg)

-----------------------------------------------------------------------------
\* RCL.

\* An element of REGS, as a value of its own.
Element(c, regs) ==
    IF regs.type = "complexmatrix" THEN new_complex(c)
    ELSE new_real(c) \cup (IF ContainsStrings(c, regs) THEN new_string(c) ELSE {})

RclDirect(c, arg) ==
    CASE arg[1] = "num" ->
             LET regs == recall_var(c, "REGS")
             IN  IF regs = None THEN Ends(c, "SIZE_ERROR")
                 ELSE IF ~IsMatrix(regs) THEN Ends(c, "INTERNAL_ERROR")
                 ELSE Ends(c, "SIZE_ERROR") \cup Element(c, regs)
      [] arg[1] = "stk" -> dup_vartype(c, c.slot[arg[2]])
      [] arg[1] = "str" ->
             IF c.slot[arg[2]] = None THEN Ends(c, "NONEXISTENT")
             ELSE dup_vartype(c, c.slot[arg[2]])

generic_rcl(c, arg) == WithArg(c, arg, RclDirect)

docmd_rcl(c, arg) == Recalls(generic_rcl(c, arg))

-----------------------------------------------------------------------------
\* What happens when a division or multiplication is over, at once or after its
\* slices.  how: what to do with the result.

completion_KeepsOperand(c, how, err, v) ==
    IF err # "NONE" THEN Ends(c, err)
    ELSE Done(CASE how.kind = "binary" -> binary_result(c, v)
                [] how.kind \in {"unary", "rcl"} -> unary_result(c, v)
                [] how.kind = "sto" -> WithSlot(c, how.slot, v))

\* docmd_div_completion(), docmd_rcl_div_completion(), det_completion(),
\* generic_sto_completion(): in all of them an error leaves the stack alone.
completion(c, how, err, v) ==
    LET d == IF how.kind = "rcl" THEN free_vartype(c, how.temp) ELSE c
    IN  IF err # "NONE" THEN Ends(d, err)
        ELSE Done(CASE how.kind = "binary" -> binary_result(d, v)
                    [] how.kind \in {"unary", "rcl"} -> unary_result(d, v)
                    [] how.kind = "sto" -> WithSlot(d, how.slot, v))

Completes(outs, how) == UNION {completion(o.calc, how, o.err, o.v) : o \in outs}

\* An operation in slices has begun.
Starts(c, op, type, how) ==
    {Outcome([c EXCEPT !.pending =
                 [type |-> type, op |-> op, how |-> how]], "INTERRUPTIBLE", None)}

linalg_mul_start(c, v, w, how) ==
    Completes(Fails(c, {"DIMENSION_ERROR", "INSUFFICIENT_MEMORY"}), how)
    \cup IF ContainsStrings(c, v) \/ ContainsStrings(c, w)
         THEN Completes(Ends(c, "ALPHA_DATA_IS_INVALID"), how)
         ELSE Starts(c, "mul", BinaryType(v, w), how)

linalg_div_start(c, v, w, how) ==
    Completes(Fails(c, {"DIMENSION_ERROR", "INSUFFICIENT_MEMORY"}), how)
    \cup Starts(c, "div", BinaryType(v, w), how)

generic_div(c, v, w, how) ==
    IF IsString(v) \/ IsString(w) THEN Completes(Ends(c, "ALPHA_DATA_IS_INVALID"), how)
    ELSE IF IsMatrix(v) /\ IsMatrix(w) THEN linalg_div_start(c, v, w, how)
    ELSE Completes(map_binary(c, v, w, DivErrors), how)

generic_mul(c, v, w, how) ==
    IF IsString(v) \/ IsString(w) THEN Completes(Ends(c, "ALPHA_DATA_IS_INVALID"), how)
    ELSE IF IsMatrix(v) /\ IsMatrix(w) THEN linalg_mul_start(c, v, w, how)
    ELSE Completes(map_binary(c, v, w, MulErrors), how)

BinaryHow == [kind |-> "binary"]

docmd_div(c) == generic_div(c, c.slot["x"], c.slot["y"], BinaryHow)
docmd_mul(c) == generic_mul(c, c.slot["x"], c.slot["y"], BinaryHow)
docmd_sub(c) == Binary(generic_sub(c, c.slot["x"], c.slot["y"]))
docmd_add(c) == Binary(generic_add(c, c.slot["x"], c.slot["y"]))

\* The recalled value is temp_v until the completion frees it.
RclHow(v) == [kind |-> "rcl", temp |-> v]

docmd_rcl_div(c, arg) ==
    Then(generic_rcl(c, arg),
         LAMBDA d, v : generic_div(d, v, d.slot["x"], RclHow(v)))

docmd_rcl_mul(c, arg) ==
    Then(generic_rcl(c, arg),
         LAMBDA d, v : generic_mul(d, v, d.slot["x"], RclHow(v)))

docmd_rcl_sub(c, arg) ==
    Then(generic_rcl(c, arg),
         LAMBDA d, v : Completes(generic_sub(d, v, d.slot["x"]), RclHow(v)))

docmd_rcl_add(c, arg) ==
    Then(generic_rcl(c, arg),
         LAMBDA d, v : Completes(generic_add(d, v, d.slot["x"]), RclHow(v)))

-----------------------------------------------------------------------------
\* STO.

\* A string into an element of the real matrix REGS.  It is written to where the element was
\* before REGS got an array of its own: if the array is shared, to the one that the other
\* matrices keep.
StoText(c) ==
    LET left == IF c.refs[recall_var(c, "REGS").array] > 1 THEN {"text"} ELSE {}
    IN  Then(disentangle(c, "REGS"),
             LAMBDA d, v : Writes([d EXCEPT !.shared = @ \cup left], "REGS", Texts))

\* X into an element of REGS.  The array becomes REGS' own before the errors of the
\* arithmetic are found.
StoRegister(c, operation) ==
    LET regs == recall_var(c, "REGS")
        x == c.slot["x"].type
        errors == (IF operation = "none" THEN {} ELSE {"OUT_OF_RANGE"})
                  \cup (IF operation = "/" THEN {"DIVIDE_BY_0"} ELSE {})
                  \cup (IF operation # "none" /\ ContainsStrings(c, regs)
                        THEN {"ALPHA_DATA_IS_INVALID"} ELSE {})
    IN  IF regs = None THEN Ends(c, "SIZE_ERROR")
        ELSE Ends(c, "SIZE_ERROR") \cup
             CASE regs.type = "realmatrix" ->
                      IF x = "string" THEN StoText(c)
                      ELSE IF x = "real"
                      THEN Then(disentangle(c, "REGS"),
                                LAMBDA d, v : Fails(d, errors)
                                              \cup Writes(d, "REGS", NumbersIn(d, "REGS")))
                      ELSE Ends(c, "INVALID_TYPE")
               [] regs.type = "complexmatrix" ->
                      IF x = "string" THEN Ends(c, "ALPHA_DATA_IS_INVALID")
                      ELSE IF x \notin {"real", "complex"} THEN Ends(c, "INVALID_TYPE")
                      ELSE Then(disentangle(c, "REGS"),
                                LAMBDA d, v : Fails(d, errors) \cup Writes(d, "REGS", Numbers))
               [] OTHER -> Ends(c, "INTERNAL_ERROR")

apply_sto_operation(c, operation, s) ==
    LET x == c.slot["x"]
        how == [kind |-> "sto", slot |-> s]
    IN  CASE operation = "/" -> generic_div(c, x, c.slot[s], how)
          [] operation = "*" -> generic_mul(c, x, c.slot[s], how)
          [] operation = "-" -> Completes(generic_sub(c, x, c.slot[s]), how)
          [] operation = "+" -> Completes(generic_add(c, x, c.slot[s]), how)

\* X is copied to a slot; only a matrix may be stored in REGS.
StoCopy_AnyInRegs(c, s) ==
    IF s = "x" THEN Done(c)
    ELSE Then(dup_vartype(c, c.slot["x"]), LAMBDA d, v : Done(WithSlot(d, s, v)))

StoCopy(c, s) ==
    IF s = "x" THEN Done(c)
    ELSE IF s = "REGS" /\ ~IsMatrix(c.slot["x"]) THEN Ends(c, "RESTRICTED_OPERATION")
    ELSE Then(dup_vartype(c, c.slot["x"]), LAMBDA d, v : Done(WithSlot(d, s, v)))

StoDirect(c, arg, operation) ==
    IF operation # "none" /\ IsString(c.slot["x"]) THEN Ends(c, "ALPHA_DATA_IS_INVALID")
    ELSE IF arg[1] = "num" THEN StoRegister(c, operation)
    ELSE IF operation = "none" THEN StoCopy(c, arg[2])
    ELSE IF c.slot[arg[2]] = None THEN Ends(c, "NONEXISTENT")
    ELSE apply_sto_operation(c, operation, arg[2])

generic_sto(c, arg, operation) ==
    WithArg(c, arg, LAMBDA d, a : StoDirect(d, a, operation))

docmd_sto(c, arg) == generic_sto(c, arg, "none")
docmd_sto_div(c, arg) == generic_sto(c, arg, "/")
docmd_sto_mul(c, arg) == generic_sto(c, arg, "*")
docmd_sto_sub(c, arg) == generic_sto(c, arg, "-")
docmd_sto_add(c, arg) == generic_sto(c, arg, "+")

=============================================================================
