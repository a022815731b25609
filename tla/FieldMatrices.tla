----------------------------- MODULE FieldMatrices -----------------------------
(***************************************************************************)
(* The numbers and the matrices the linear algebra of Free42 works on.  A   *)
(* phloat, and a pair of them that makes up a complex number, is abstracted *)
(* to an element of the field of Prime elements, so that sums, products and *)
(* quotients are exact and what the algorithms compute can be compared with *)
(* its definition.  Rounding is not modelled.                               *)
(* Rows and columns are numbered from 0, as in vartype_realmatrix.          *)
(***************************************************************************)
EXTENDS Integers, FiniteSets, FiniteSetsExt, Functions

CONSTANT Prime
ASSUME PrimeAssumption ==
    Prime \in Nat /\ Prime > 1
        /\ \A d \in 2 .. (Prime - 1) : Prime % d # 0

Field == 0 .. (Prime - 1)
Reciprocal(x) == CHOOSE y \in Field : (x * y) % Prime = 1

Matrix(m, n) == [0 .. (m - 1) -> [0 .. (n - 1) -> Field]]
Rows(a) == Cardinality(DOMAIN a)
Columns(a) == Cardinality(DOMAIN a[0])
IsSquare(a) == Rows(a) = Columns(a)
Zero(m, n) == [i \in 0 .. (m - 1) |-> [j \in 0 .. (n - 1) |-> 0]]
Identity(n) == [i \in 0 .. (n - 1) |-> [j \in 0 .. (n - 1) |-> IF i = j THEN 1 ELSE 0]]
Put(a, i, j, x) == [a EXCEPT ![i][j] = x % Prime]

(***************************************************************************)
(* The definitions the algorithms are compared with: the sum over the inner *)
(* index, and the sum over the permutations of the rows (Leibniz).          *)
(***************************************************************************)
Product(a, b) ==
    [i \in DOMAIN a |-> [j \in DOMAIN b[0] |->
        MapThenSumSet(LAMBDA k : a[i][k] * b[k][j], DOMAIN b) % Prime]]

Orders(n) == Injection(0 .. (n - 1), 0 .. (n - 1))
Swaps(f) == Cardinality({p \in (DOMAIN f) \X (DOMAIN f) : p[1] < p[2] /\ f[p[1]] > f[p[2]]})
Diagonal(a, f) == FoldFunction(LAMBDA x, y : (x * y) % Prime, 1, [i \in DOMAIN a |-> a[i][f[i]]])
Determinant(a) ==
    LET Signed(f) == IF Swaps(f) % 2 = 0 THEN Diagonal(a, f) ELSE Prime - Diagonal(a, f)
    IN  MapThenSumSet(Signed, Orders(Rows(a))) % Prime
================================================================================
