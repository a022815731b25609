----------------------------- MODULE MatrixStore -----------------------------
(***************************************************************************)
(* Variables and the matrices they hold (common/core_variables.cc,         *)
(* core_helpers.cc).  A copy of a matrix shares the array of its elements, *)
(* which has a reference count; a command that changes a matrix first has  *)
(* to make sure that the array is its own.                                 *)
(*                                                                         *)
(* The store m is a record:                                                *)
(*   slots        the variables, X and matedit_x, a value each             *)
(*   refs, data   of each array, its reference count and its elements      *)
(*   mode, name, i, j    matedit_mode, matedit_name, matedit_i, matedit_j  *)
(* and what MatrixEditor adds to it.                                       *)
(*                                                                         *)
(* Left out: the rest of the stack (what would be lifted out of X is       *)
(* dropped), complex matrices and strings (a matrix in X stands for every  *)
(* value that cannot be an element).                                       *)
(***************************************************************************)
EXTENDS Integers, Sequences, FiniteSets

CONSTANTS
    Names,          \* variables
    Elements,       \* values of an element, of a scalar
    Zero,           \* one of them
    NoName,         \* matedit_length is 0
    Arrays,         \* bound: arrays there is memory for
    NoArray         \* malloc() fails

ASSUME MatrixStoreAssumption ==
    /\ Zero \in Elements
    /\ NoArray \notin Arrays
    /\ {"x", "edited", NoName} \cap Names = {}

Slots == Names \cup {"x", "edited"}

None == [type |-> "none"]                 \* no such variable, a null pointer
Real(e) == [type |-> "real", x |-> e]
Matrix(rows, columns, array) ==
    [type |-> "matrix", rows |-> rows, columns |-> columns, array |-> array]

IsReal(v) == v.type = "real"
IsMatrix(v) == v.type = "matrix"
Size(v) == v.rows * v.columns

Free(m) == {a \in Arrays : m.refs[a] = 0}
Shared(m, slot) == m.refs[m.slots[slot].array] > 1
Contents(m, slot) == m.data[m.slots[slot].array]

-----------------------------------------------------------------------------
\* Values and arrays.

dup_vartype_NotCounted(m, v) == m
dup_vartype(m, v) == IF IsMatrix(v) THEN [m EXCEPT !.refs[v.array] = @ + 1] ELSE m

free_vartype(m, v) ==
    IF IsMatrix(v)
    THEN [m EXCEPT !.refs[v.array] = @ - 1,
                   !.data[v.array] = IF m.refs[v.array] = 1 THEN << >> ELSE @]
    ELSE m

\* The slot's matrix, given this size and an array of its own: its old array
\* where nothing else refers to it, a new one if not.
WithArray(m, slot, rows, columns, elements, new) ==
    LET v == m.slots[slot]
    IN  IF Shared(m, slot)
        THEN [m EXCEPT !.refs[v.array] = @ - 1, !.refs[new] = 1, !.data[new] = elements,
                       !.slots[slot] = Matrix(rows, columns, new)]
        ELSE [m EXCEPT !.data[v.array] = elements,
                       !.slots[slot] = Matrix(rows, columns, v.array)]

\* Whether there is memory for that.
CanOwn(m, slot, new) == Shared(m, slot) => new # NoArray

disentangle_KeepsShared(m, slot, new) == m

disentangle(m, slot, new) ==
    LET v == m.slots[slot] IN WithArray(m, slot, v.rows, v.columns, Contents(m, slot), new)

\* The elements keep their place in the array, not in the matrix.
dimension_array_ref(m, slot, rows, columns, new) ==
    LET v == m.slots[slot]
        kept == Contents(m, slot)
        size == rows * columns
    IN  IF v.rows = rows /\ v.columns = columns THEN m
        ELSE WithArray(m, slot, rows, columns,
                 [k \in 1 .. size |-> IF k <= Len(kept) THEN kept[k] ELSE Zero], new)

-----------------------------------------------------------------------------
\* Variables.

\* X is replaced by a value that nothing else holds.
WithX(m, v) == [free_vartype(m, m.slots["x"]) EXCEPT !.slots["x"] = v]

\* Replacing the indexed matrix resets the index.  matedit_name is looked at in
\* mode 2 too, where it is whatever INDEX or EDITN left in it.
store_var(m, name, v) ==
    LET indexed == m.slots[name] # None /\ m.mode # 0 /\ m.name = name
        d == free_vartype(m, m.slots[name])
        e == [d EXCEPT !.slots[name] = v]
    IN  IF ~indexed THEN e
        ELSE IF IsMatrix(v) THEN [e EXCEPT !.i = 0, !.j = 0]
        ELSE [e EXCEPT !.mode = 0]

purge_var(m, name) == [free_vartype(m, m.slots[name]) EXCEPT !.slots[name] = None]

purge_all_vars(m) ==
    LET holders(a) == {name \in Names : IsMatrix(m.slots[name]) /\ m.slots[name].array = a}
        left == [a \in Arrays |-> m.refs[a] - Cardinality(holders(a))]
    IN  [m EXCEPT !.refs = left,
                  !.data = [a \in Arrays |-> IF left[a] = 0 THEN << >> ELSE @[a]],
                  !.slots = [slot \in Slots |-> IF slot \in Names THEN None ELSE @[slot]]]

=============================================================================
