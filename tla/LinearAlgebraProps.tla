--------------------------- MODULE LinearAlgebraProps ---------------------------
(***************************************************************************)
(* What the operations on matrices promise.                                *)
(***************************************************************************)
EXTENDS LinearAlgebra, TLC

Succeeded == w.pc = "over" /\ w.calls > 0 /\ w.told = "none"

\* A division or an inversion by a real matrix that succeeds, with no pivot replaced and no overflow
\* replaced by the largest number, was by a nonsingular matrix, and its result multiplied by that
\* matrix gives back what was divided, wherever the slices ended (core_linalg1.cc, core_linalg2.cc).
QuotientSolves ==
    (Succeeded /\ w.op \in {"div", "inv"} /\ w.exact /\ ~ w.complex)
        => /\ Determinant(w.right) # 0
           /\ Product(w.right, w.b) = IF w.op = "div" THEN w.left ELSE Identity(Rows(w.right))

\* A product that succeeds without an overflow is the product of the two factors.
ProductIsRight ==
    (Succeeded /\ w.op = "mul" /\ w.exact) => w.b = Product(w.left, w.right)

\* DET of a real matrix gives the matrix's determinant: the sign follows the rows that were
\* exchanged, and singular matrices give 0 whatever the setting for singular matrices is.
RealDetIsDeterminant ==
    (Succeeded /\ w.op = "det" /\ w.exact /\ ~ w.complex) => w.det = Determinant(w.right)

\* The same of complex matrices: "Both of those bugs applied to both the real and complex cases;
\* they're all fixed now" (HISTORY).
DetIsDeterminant ==
    (Succeeded /\ w.op = "det" /\ w.exact) => w.det = Determinant(w.right)

\* The command hears of its operation once at most, and of a success exactly once: only then does it
\* take the result, and it is told of a success only when the operation returns one.
AnsweredOnce ==
    /\ w.calls <= 1
    /\ Running => w.calls = 0
    /\ w.pc = "over" => \/ w.calls = 1 /\ w.told = w.returned
                        \/ w.calls = 0 /\ w.returned # "none"

\* No block is freed twice, and once an operation is over every block it allocated is freed or in the
\* hands of the command.  Two ways out are known not to: a range error in the back-substitution
\* keeps everything, and a division that could not decompose does not free what the command holds.
BlocksFreed ==
    /\ ~ w.badFree
    /\ w.pc = "over" =>
         \/ w.heap = {}
         \/ w.op \in {"div", "inv"} /\ w.returned = "range"
         \/ w.op = "div" /\ w.calls = 0 /\ w.heap = {"held"}

\* DET borrows the setting for singular matrices and gives it back on every way out; unless the
\* preferences were opened or confirmed in the meantime, the setting is what the user chose.
SettingIsKept == (Idle(w) /\ ~ overlap) => setting = wanted

---------------------------------------------------------------------------------
\* The instance that TLC checks: these are values of its constants.

Row3(x, y, z) == 0 :> x @@ 1 :> y @@ 2 :> z
Small == Matrix(2, 2)
\* Rows to be exchanged twice, a zero row, a singular matrix without one, a row added to another.
Large == {Row3(Row3(0, 1, 2), Row3(1, 0, 1), Row3(2, 2, 0)), Row3(Row3(1, 2, 0), Row3(0, 0, 0), Row3(1, 0, 1)),
          Row3(Row3(1, 2, 1), Row3(2, 1, 2), Row3(0, 1, 1)), Row3(Row3(0, 0, 1), Row3(0, 1, 2), Row3(1, 1, 1))}
Squares == Small \cup Large \cup Matrix(1, 2)
Columns2 == {0 :> (0 :> 1) @@ 1 :> (0 :> 2), 0 :> (0 :> 0 @@ 1 :> 1) @@ 1 :> (0 :> 1 @@ 1 :> 1)}
Columns3 == {Row3(0 :> 2, 0 :> 0, 0 :> 1)}
Divided == Columns2 \cup Columns3

=================================================================================
