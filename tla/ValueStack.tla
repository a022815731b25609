----------------------------- MODULE ValueStack -----------------------------
(***************************************************************************)
(* The values on the stack, in LASTX and in variables, and who holds them  *)
(* (common/core_variables.cc, core_helpers.cc, core_sto_rcl.cc).           *)
(*                                                                         *)
(* The calculator c is a record:                                           *)
(*   slot        the value in each stack register, in LASTX, in each       *)
(*               variable                                                  *)
(*   refs, data  of each array of a matrix: its reference count and what   *)
(*               is in it                                                  *)
(*   live        how many values exist: made and not freed                 *)
(*   lost        how many of them a command has left without a holder      *)
(*   shared      who wrote to an array that other matrices have too, in    *)
(*               this command                                              *)
(*   lift        flags.f.stack_lift_disable                                *)
(*   disable     mode_disable_stack_lift, what a command asks lift to be   *)
(*   pending     the matrix operation that goes on in slices, or None      *)
(*                                                                         *)
(* A command is the set of its outcomes: the calculator it leaves, its     *)
(* error and, inside a command, a value made but not stored yet.  A number *)
(* is not more than its type; whether arithmetic overflows, an index is    *)
(* too large, dimensions agree or memory is found is a choice.             *)
(***************************************************************************)
EXTENDS Integers, FiniteSets

CONSTANTS
    Variables,      \* names of variables; REGS is one of them
    Arrays          \* bound: arrays there is memory for

ASSUME ValueStackAssumption ==
    /\ "REGS" \in Variables
    /\ Arrays # {}
    /\ {"x", "y", "z", "t", "l"} \cap Variables = {}

Stack == {"x", "y", "z", "t", "l"}
Slots == Stack \cup Variables

None == [type |-> "none"]
Scalar(type) == [type |-> type]
Matrix(type, array) == [type |-> type, array |-> array]

ScalarTypes == {"real", "complex", "string"}
MatrixTypes == {"realmatrix", "complexmatrix"}

IsMatrix(v) == v.type \in MatrixTypes
IsString(v) == v.type = "string"

\* What an array holds: numbers only, or strings among its elements.
Numbers == {"numbers"}
Texts == {"text"}

ContainsStrings(c, v) == v.type = "realmatrix" /\ c.data[v.array] \in Texts

Holders(c, a) == {s \in Slots : IsMatrix(c.slot[s]) /\ c.slot[s].array = a}
Held(c) == {s \in Slots : c.slot[s] # None}

\* The error codes a command can end with as if it succeeded (handle_error()).
Fine == {"NONE", "YES", "NO", "STOP", "RUN"}

-----------------------------------------------------------------------------
\* Outcomes.

Outcome(c, err, v) == [calc |-> c, err |-> err, v |-> v]
Ends(c, err) == {Outcome(c, err, None)}
Done(c) == Ends(c, "NONE")

\* The outcomes of going on with F where outs succeeded.
Then(outs, F(_, _)) ==
    UNION {IF o.err = "NONE" THEN F(o.calc, o.v) ELSE {o} : o \in outs}

\* The errors of a computation, none of which changes anything.
Fails(c, errors) == UNION {Ends(c, e) : e \in errors}

-----------------------------------------------------------------------------
\* Values (core_variables.cc).

Free(c) == {a \in Arrays : c.refs[a] = 0}

New(c, v) == {Outcome([c EXCEPT !.live = @ + 1], "NONE", v)}

new_scalar(c, type) == New(c, Scalar(type)) \cup Ends(c, "INSUFFICIENT_MEMORY")

new_real(c) == new_scalar(c, "real")
new_complex(c) == new_scalar(c, "complex")
new_string(c) == new_scalar(c, "string")

\* A new matrix of zeroes, to be filled with numbers.
new_matrix(c, type) ==
    IF Free(c) = {} THEN Ends(c, "INSUFFICIENT_MEMORY")
    ELSE LET a == CHOOSE a \in Free(c) : TRUE
         IN  UNION {New([c EXCEPT !.refs[a] = 1, !.data[a] = d], Matrix(type, a))
                    : d \in Numbers}

free_vartype(c, v) ==
    IF v = None THEN c
    ELSE IF IsMatrix(v)
         THEN [c EXCEPT !.live = @ - 1, !.refs[v.array] = @ - 1,
                        !.data[v.array] = IF c.refs[v.array] = 1 THEN "none" ELSE @]
         ELSE [c EXCEPT !.live = @ - 1]

\* A copy; the array of a matrix is shared.
Copy(c, v) ==
    IF IsMatrix(v) THEN [c EXCEPT !.live = @ + 1, !.refs[v.array] = @ + 1]
    ELSE [c EXCEPT !.live = @ + 1]

dup_vartype(c, v) ==
    {Outcome(Copy(c, v), "NONE", v)} \cup Ends(c, "INSUFFICIENT_MEMORY")

\* A value is made after another was; if it cannot be, the other is freed.
After(outs, v) ==
    UNION {IF o.err = "NONE" THEN {Outcome(o.calc, "NONE", <<v, o.v>>)}
           ELSE Ends(free_vartype(o.calc, v), o.err) : o \in outs}

\* Two values of a type: <<first, second>>.
two_reals(c) == Then(new_real(c), LAMBDA d, v : After(new_real(d), v))
two_matrices(c, type) ==
    Then(new_matrix(c, type), LAMBDA d, v : After(new_matrix(d, type), v))

\* A value that the code takes for granted that there is memory for.
Unchecked(outs) == {o \in outs : o.err = "NONE"}

disentangle_Shares(c, s) == Done(c)

\* Gives the matrix in a slot an array of its own.
disentangle(c, s) ==
    LET a == c.slot[s].array
    IN  IF c.refs[a] = 1 THEN Done(c)
        ELSE IF Free(c) = {} THEN Ends(c, "INSUFFICIENT_MEMORY")
        ELSE LET b == CHOOSE b \in Free(c) : TRUE
             IN  Done([c EXCEPT !.refs[a] = @ - 1, !.refs[b] = 1, !.data[b] = c.data[a],
                                !.slot[s].array = b])

\* The elements of the matrix in a slot change, where they are.
WritesBy(who, c, s, contents) ==
    LET a == c.slot[s].array
        noted == IF c.refs[a] > 1 THEN c.shared \cup {who} ELSE c.shared
    IN  UNION {Done([c EXCEPT !.data[a] = d, !.shared = noted]) : d \in contents}

Writes(c, s, contents) == WritesBy("command", c, s, contents)

\* Some of the elements become numbers, or one of them a string.
NumbersIn(c, s) == Numbers \cup (Texts \cap {c.data[c.slot[s].array]})

WithSlot(c, s, v) == [free_vartype(c, c.slot[s]) EXCEPT !.slot[s] = v]

recall_var(c, name) == c.slot[name]
store_var(c, name, v) == WithSlot(c, name, v)
purge_var(c, name) == WithSlot(c, name, None)

\* All that some slots hold is freed.
Clear(c, slots) ==
    LET refs == [a \in Arrays |-> c.refs[a] - Cardinality(slots \cap Holders(c, a))]
    IN  [c EXCEPT !.slot = [s \in Slots |-> IF s \in slots THEN None ELSE @[s]],
                  !.refs = refs,
                  !.data = [a \in Arrays |-> IF refs[a] = 0 THEN "none" ELSE @[a]],
                  !.live = @ - Cardinality(slots \cap Held(c))]

\* Zeroes in empty slots; there is memory for them, by all commands that do this.
Zeroes(c, slots) ==
    [c EXCEPT !.slot = [s \in Slots |-> IF s \in slots THEN Scalar("real") ELSE @[s]],
              !.live = @ + Cardinality(slots)]

\* A matrix gets other dimensions, or the same; its strings may be cut off.
dimension_array_ref(c, name) ==
    LET Resize(d) == Writes(d, name, NumbersIn(d, name))
    IN  Done(c) \cup IF c.refs[c.slot[name].array] = 1
                     THEN Resize(c) \cup Ends(c, "INSUFFICIENT_MEMORY")
                     ELSE Then(disentangle(c, name), LAMBDA d, v : Resize(d))

\* empty: the new size is 0.
dimension_array(c, name, empty) ==
    IF ~IsMatrix(recall_var(c, name))
    THEN IF empty THEN Done(c)
         ELSE Then(new_matrix(c, "realmatrix"),
                   LAMBDA d, v : Done(store_var(d, name, v)))
    ELSE IF empty THEN Done(purge_var(c, name))
    ELSE dimension_array_ref(c, name)

-----------------------------------------------------------------------------
\* Results (core_helpers.cc).

recall_result(c, v) ==
    IF c.lift THEN WithSlot(c, "x", v)
    ELSE [free_vartype(c, c.slot["t"]) EXCEPT !.slot =
             [@ EXCEPT !["t"] = c.slot["z"], !["z"] = c.slot["y"], !["y"] = c.slot["x"],
                       !["x"] = v]]

recall_two_results(c, x, y) ==
    IF c.lift
    THEN [free_vartype(free_vartype(c, c.slot["t"]), c.slot["x"]) EXCEPT !.slot =
             [@ EXCEPT !["t"] = c.slot["z"], !["z"] = c.slot["y"], !["y"] = y, !["x"] = x]]
    ELSE [free_vartype(free_vartype(c, c.slot["t"]), c.slot["z"]) EXCEPT !.slot =
             [@ EXCEPT !["t"] = c.slot["y"], !["z"] = c.slot["x"], !["y"] = y, !["x"] = x]]

unary_result(c, v) ==
    [free_vartype(c, c.slot["l"]) EXCEPT !.slot =
        [@ EXCEPT !["l"] = c.slot["x"], !["x"] = v]]

\* The copy of T is not checked; it is taken to find memory.
binary_result(c, v) ==
    LET d == Copy(free_vartype(free_vartype(c, c.slot["l"]), c.slot["y"]), c.slot["t"])
    IN  [d EXCEPT !.slot = [@ EXCEPT !["l"] = c.slot["x"], !["x"] = v,
                                     !["y"] = c.slot["z"], !["z"] = c.slot["t"]]]

\* The same for outcomes.
Recalls(outs) == Then(outs, LAMBDA c, v : Done(recall_result(c, v)))
Unary(outs) == Then(outs, LAMBDA c, v : Done(unary_result(c, v)))
Binary(outs) == Then(outs, LAMBDA c, v : Done(binary_result(c, v)))

\* X and Y are replaced; X becomes LASTX.  v: <<new Y, new X>>.
replace_two(c, v) == unary_result(WithSlot(c, "y", v[1]), v[2])

\* The stack moves up, X becomes LASTX and two values take the place of X and Y.
split_result(c, v) ==
    [free_vartype(free_vartype(c, c.slot["l"]), c.slot["t"]) EXCEPT !.slot =
        [@ EXCEPT !["l"] = c.slot["x"], !["t"] = c.slot["z"], !["z"] = c.slot["y"],
                  !["y"] = v[1], !["x"] = v[2]]]

\* A command that does not take such a value.
Rejects(c, v) == Ends(c, IF IsString(v) THEN "ALPHA_DATA_IS_INVALID" ELSE "INVALID_TYPE")

-----------------------------------------------------------------------------
\* Functions of values (core_sto_rcl.cc).  errors: what the computation on an
\* element can fail with.

MapsMatrix(c, type, errors) ==
    new_matrix(c, type) \cup Fails(c, errors)

map_unary(c, v, errors) ==
    CASE v.type \in {"real", "complex"} -> new_scalar(c, v.type) \cup Fails(c, errors)
      [] v.type = "complexmatrix" -> MapsMatrix(c, v.type, errors)
      [] v.type = "realmatrix" ->
             IF ContainsStrings(c, v) THEN Fails(c, {"ALPHA_DATA_IS_INVALID"})
             ELSE MapsMatrix(c, v.type, errors)
      [] OTHER -> Ends(c, "INTERNAL_ERROR")

BinaryType(v, w) ==
    LET matrix == IsMatrix(v) \/ IsMatrix(w)
        complex == {v.type, w.type} \cap {"complex", "complexmatrix"} # {}
    IN  IF matrix THEN IF complex THEN "complexmatrix" ELSE "realmatrix"
        ELSE IF complex THEN "complex" ELSE "real"

\* An element at a time, unless one of them is a string.
ElementWise(c, v, w, errors) ==
    IF ContainsStrings(c, v) \/ ContainsStrings(c, w) THEN Ends(c, "ALPHA_DATA_IS_INVALID")
    ELSE MapsMatrix(c, BinaryType(v, w), errors)

ScalarWith(c, v, w, errors) ==
    IF IsMatrix(w) THEN ElementWise(c, v, w, errors)
    ELSE new_scalar(c, BinaryType(v, w)) \cup Fails(c, errors)

\* Two matrices must have the same dimensions.
RealMatrixWith(c, v, w, errors) ==
    ElementWise(c, v, w, errors)
    \cup IF IsMatrix(w) THEN Ends(c, "DIMENSION_ERROR") ELSE {}

ComplexMatrixWith(c, v, w, errors) ==
    ElementWise(c, v, w, errors)
    \cup IF IsMatrix(w) THEN Ends(c, "DIMENSION_ERROR") ELSE {}

map_binary(c, v, w, errors) ==
    CASE IsString(v) \/ IsString(w) -> Ends(c, "INTERNAL_ERROR")
      [] v.type \in {"real", "complex"} /\ ~IsString(w) -> ScalarWith(c, v, w, errors)
      [] v.type = "realmatrix" /\ ~IsString(w) -> RealMatrixWith(c, v, w, errors)
      [] v.type = "complexmatrix" /\ ~IsString(w) -> ComplexMatrixWith(c, v, w, errors)

\* What the arithmetic of two numbers can fail with.
DivErrors == {"DIVIDE_BY_0", "OUT_OF_RANGE"}
MulErrors == {"OUT_OF_RANGE"}
SubErrors == {"OUT_OF_RANGE"}
AddErrors == {"OUT_OF_RANGE"}

generic_sub(c, v, w) ==
    IF IsString(v) \/ IsString(w) THEN Ends(c, "ALPHA_DATA_IS_INVALID")
    ELSE map_binary(c, v, w, SubErrors)

generic_add(c, v, w) ==
    IF IsString(v) \/ IsString(w) THEN Ends(c, "ALPHA_DATA_IS_INVALID")
    ELSE map_binary(c, v, w, AddErrors)

=============================================================================
