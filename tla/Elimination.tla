------------------------------ MODULE Elimination ------------------------------
(***************************************************************************)
(* The workers of core_linalg1.cc and core_linalg2.cc: matrix product, LU   *)
(* decomposition and back-substitution, each done in slices.  A worker's    *)
(* registers are the record w; pc names the loop it is in and point the     *)
(* STATE(n) at which a slice may end (0 inside an iteration).  One step is  *)
(* one iteration of an inner loop.                                          *)
(*                                                                         *)
(* The size of a number is abstracted: of two nonzero candidates for the    *)
(* pivot either may be the larger.  A quotient or an inner sum may          *)
(* overflow.  A worker that is through has pc = "decomposed", "solved",     *)
(* "multiplied" or "abandoned" and its error in w.err.                      *)
(***************************************************************************)
EXTENDS FieldMatrices

Errors == {"none", "singular", "range", "interrupted", "memory", "dimension", "alpha"}

Size(w) == Rows(w.a)
Last(w) == Size(w) - 1

(***************************************************************************)
(* The real worker has the index of the pivot's row begin at the diagonal   *)
(* of each column; the complex one keeps whatever was there.                *)
(***************************************************************************)
BeginDecomposition(w, row) ==
    [w EXCEPT !.pc = "scale", !.i = 0, !.j = 0, !.seen = FALSE, !.imax = row, !.det = 1, !.point = 0,
              !.scale = [r \in 0 .. Last(w) |-> FALSE], !.perm = [r \in 0 .. Last(w) |-> 0]]

\* scale[i] is 0 exactly when row i has only zeroes: TRUE stands for any other value.
MeasureRow(w) ==
    IF w.j <= Last(w)
    THEN [w EXCEPT !.seen = @ \/ w.a[w.i][w.j] # 0, !.j = @ + 1, !.point = 1]
    ELSE LET next == [w EXCEPT !.scale[w.i] = w.seen, !.i = @ + 1, !.j = 0, !.seen = FALSE, !.point = 0]
         IN  IF w.i = Last(w) THEN [next EXCEPT !.pc = "upper", !.i = 0, !.k = 0] ELSE next

\* The sum a worker accumulates starts from the element it will replace.
SumOf(w) == IF w.k = 0 THEN w.a[w.i][w.j] ELSE w.sum
Eliminate(w, state) ==
    [w EXCEPT !.sum = (SumOf(w) - w.a[w.i][w.k] * w.a[w.k][w.j]) % Prime, !.k = @ + 1, !.point = state]

UpperPart(w) ==
    IF w.i = w.j
    THEN [w EXCEPT !.pc = "lower", !.k = 0, !.seen = FALSE, !.point = 0, !.imax = IF w.complex THEN @ ELSE w.j]
    ELSE IF w.k < w.i
         THEN Eliminate(w, 2)
         ELSE [w EXCEPT !.a = Put(@, w.i, w.j, SumOf(w)), !.i = @ + 1, !.k = 0, !.point = 0]

BeginSwap(w) == [w EXCEPT !.pc = "swap", !.k = 0, !.point = 0]

LowerPart(w) ==
    IF w.i > Last(w)
    THEN {BeginSwap(w)}
    ELSE IF w.k < w.j
         THEN {Eliminate(w, 3)}
         ELSE LET sum == SumOf(w)
                  put == [w EXCEPT !.a = Put(@, w.i, w.j, sum), !.k = 0, !.point = 0]
                  next == [put EXCEPT !.i = @ + 1]
                  larger == [next EXCEPT !.imax = w.i, !.seen = TRUE]
              IN  IF ~ w.scale[w.i] THEN {BeginSwap([put EXCEPT !.imax = w.i])}
                  ELSE IF sum = 0 THEN {next}
                  ELSE IF ~ w.seen THEN {larger}
                  ELSE {larger, next}

SwapRows(w) ==
    IF w.j # w.imax /\ w.k <= Last(w)
    THEN [w EXCEPT !.a = Put(Put(@, w.imax, w.k, w.a[w.j][w.k]), w.j, w.k, w.a[w.imax][w.k]),
                   !.k = @ + 1, !.point = 4]
    ELSE [w EXCEPT !.pc = "pivot", !.point = 0,
                   !.det = IF w.j # w.imax THEN (0 - @) % Prime ELSE @,
                   !.scale[w.imax] = IF w.j # w.imax THEN w.scale[w.j] ELSE @]

(***************************************************************************)
(* A zero pivot is an error when singular matrices are reported; the        *)
(* complex worker ends without an error and with a determinant of 0.        *)
(* Otherwise a small number, any but 0 here, takes its place.               *)
(***************************************************************************)
Decomposed(w, error, det) == [w EXCEPT !.pc = "decomposed", !.err = error, !.det = det, !.point = 0]

TakePivot(w, reported) ==
    LET there == [w EXCEPT !.perm[w.j] = w.imax]
        pivot == w.a[w.j][w.j]
        With(u, p) ==
            LET next == [u EXCEPT !.det = (@ * p) % Prime]
            IN  IF w.j = Last(w)
                THEN Decomposed(next, "none", next.det)
                ELSE [next EXCEPT !.pc = "divide", !.s = Reciprocal(p), !.i = w.j + 1, !.point = 0]
    IN  IF pivot # 0 THEN With(there, pivot)
        ELSE IF reported THEN Decomposed(there, IF w.complex THEN "none" ELSE "singular", 0)
        ELSE With([there EXCEPT !.a = Put(@, w.j, w.j, 1), !.exact = FALSE], 1)

DivideColumn(w) ==
    IF w.i <= Last(w)
    THEN [w EXCEPT !.a = Put(@, w.i, w.j, w.a[w.i][w.j] * w.s), !.i = @ + 1, !.point = 5]
    ELSE [w EXCEPT !.pc = "upper", !.j = @ + 1, !.i = 0, !.k = 0, !.point = 0]

--------------------------------------------------------------------------------
(***************************************************************************)
(* Back-substitution: the columns c of b, first down, then up.              *)
(***************************************************************************)
BeginSubstitution(w) ==
    [w EXCEPT !.pc = "exchange", !.c = 0, !.i = 0, !.ii = -1, !.point = 0]

\* The mutant of Exchange: the element the pivot's row gives up is lost.
Exchange_Loses(w) ==
    IF w.i > Last(w)
    THEN [w EXCEPT !.pc = "back", !.i = Last(w), !.j = Last(w) + 1, !.sum = w.b[Last(w)][w.c], !.point = 0]
    ELSE [w EXCEPT !.pc = "forward", !.sum = w.b[w.perm[w.i]][w.c],
                   !.j = IF w.ii # -1 THEN w.ii ELSE w.i,
                   !.ii = IF w.ii = -1 /\ w.b[w.perm[w.i]][w.c] # 0 THEN w.i ELSE @, !.point = 0]

Exchange(w) ==
    IF w.i > Last(w)
    THEN [w EXCEPT !.pc = "back", !.i = Last(w), !.j = Last(w) + 1, !.sum = w.b[Last(w)][w.c], !.point = 0]
    ELSE LET row == w.perm[w.i]
             sum == w.b[row][w.c]
         IN  [w EXCEPT !.pc = "forward", !.sum = sum, !.b = Put(@, row, w.c, w.b[w.i][w.c]),
                       !.j = IF w.ii # -1 THEN w.ii ELSE w.i,
                       !.ii = IF w.ii = -1 /\ sum # 0 THEN w.i ELSE @, !.point = 0]

Forward(w) ==
    IF w.j < w.i
    THEN [w EXCEPT !.sum = (@ - w.a[w.i][w.j] * w.b[w.j][w.c]) % Prime, !.j = @ + 1, !.point = 1]
    ELSE [w EXCEPT !.pc = "exchange", !.b = Put(@, w.i, w.c, w.sum), !.i = @ + 1, !.point = 0]

\* An overflow that is reported leaves the worker at once, without its completion.
Back(w, reported) ==
    IF w.j <= Last(w)
    THEN {[w EXCEPT !.sum = (@ - w.a[w.i][w.j] * w.b[w.j][w.c]) % Prime, !.j = @ + 1, !.point = 2]}
    ELSE LET Quotient(x) == Put(w.b, w.i, w.c, x)
             Next(b) ==
                IF w.i > 0
                THEN [w EXCEPT !.b = b, !.i = @ - 1, !.j = w.i, !.sum = b[w.i - 1][w.c], !.point = 0]
                ELSE IF w.c < Columns(w.b) - 1
                THEN [w EXCEPT !.b = b, !.pc = "exchange", !.c = @ + 1, !.i = 0, !.ii = -1, !.point = 0]
                ELSE [w EXCEPT !.b = b, !.pc = "solved", !.err = "none", !.point = 0]
             Overflow == IF reported
                         THEN [w EXCEPT !.pc = "abandoned", !.err = "range", !.point = 0]
                         ELSE [Next(Quotient(1)) EXCEPT !.exact = FALSE]
             pivot == w.a[w.i][w.i]
         IN  {Overflow} \cup (IF pivot = 0 THEN {} ELSE {Next(Quotient(w.sum * Reciprocal(pivot)))})

--------------------------------------------------------------------------------
BeginProduct(w) == [w EXCEPT !.pc = "multiply", !.i = 0, !.j = 0, !.k = 0, !.sum = 0, !.point = 0]

\* The mutant of Multiply: the sum is not cleared after an element.
Multiply_GoesOn(w, left, right, reported) ==
    LET sum == (w.sum + left[w.i][w.k] * right[w.k][w.j]) % Prime
        b == Put(w.b, w.i, w.j, sum)
    IN  IF w.k < Columns(left) - 1 THEN {[w EXCEPT !.sum = sum, !.k = @ + 1, !.point = 1]}
        ELSE IF w.j < Columns(right) - 1
        THEN {[w EXCEPT !.b = b, !.j = @ + 1, !.k = 0, !.sum = sum, !.point = 1]}
        ELSE IF w.i < Rows(left) - 1
        THEN {[w EXCEPT !.b = b, !.i = @ + 1, !.j = 0, !.k = 0, !.sum = sum, !.point = 1]}
        ELSE {[w EXCEPT !.b = b, !.pc = "multiplied", !.err = "none", !.point = 0]}

Multiply(w, left, right, reported) ==
    LET sum == (w.sum + left[w.i][w.k] * right[w.k][w.j]) % Prime
        Next(b) ==
            IF w.j < Columns(right) - 1
            THEN [w EXCEPT !.b = b, !.j = @ + 1, !.k = 0, !.sum = 0, !.point = 1]
            ELSE IF w.i < Rows(left) - 1
            THEN [w EXCEPT !.b = b, !.i = @ + 1, !.j = 0, !.k = 0, !.sum = 0, !.point = 1]
            ELSE [w EXCEPT !.b = b, !.pc = "multiplied", !.err = "none", !.point = 0]
        Overflow == IF reported
                    THEN [w EXCEPT !.pc = "multiplied", !.err = "range", !.point = 0]
                    ELSE [Next(Put(w.b, w.i, w.j, 1)) EXCEPT !.exact = FALSE]
    IN  IF w.k < Columns(left) - 1
        THEN {[w EXCEPT !.sum = sum, !.k = @ + 1, !.point = 1]}
        ELSE {Next(Put(w.b, w.i, w.j, sum)), Overflow}
================================================================================
