-------------------------- MODULE LinearAlgebraProofs --------------------------
(***************************************************************************)
(* Every operation in slices answers its command once, frees what it has    *)
(* allocated and gives back the setting it borrows: for matrices of any     *)
(* size over any field, wherever the slices end, whatever interrupts it.    *)
(***************************************************************************)
EXTENDS LinearAlgebraProps, TLAPS

Registers ==
    {"op", "left", "right", "complex", "exact", "pc", "point", "suspended", "i", "j", "k", "c",
     "ii", "imax", "seen", "sum", "s", "det", "scale", "perm", "a", "b", "err", "previous",
     "heap", "badFree", "calls", "told", "returned"}

\* What a worker leaves alone in y, while it goes on from x.
Keeps(x, y) ==
    /\ DOMAIN y = Registers
    /\ y.op = x.op /\ y.previous = x.previous /\ y.complex = x.complex
    /\ y.heap = x.heap /\ y.badFree = x.badFree /\ y.calls = x.calls

Decomposition == {"scale", "upper", "lower", "swap", "pivot", "divide"}
Substitution == {"exchange", "forward", "back"}

LEMMA MeasureKeeps ==
    ASSUME NEW x, DOMAIN x = Registers
    PROVE  /\ Keeps(x, MeasureRow(x))
           /\ x.pc = "scale" => MeasureRow(x).pc \in Decomposition
BY DEF Keeps, MeasureRow, Registers, Decomposition

LEMMA UpperKeeps ==
    ASSUME NEW x, DOMAIN x = Registers
    PROVE  /\ Keeps(x, UpperPart(x))
           /\ x.pc = "upper" => UpperPart(x).pc \in Decomposition
BY DEF Keeps, UpperPart, Eliminate, Registers, Decomposition

LEMMA LowerKeeps ==
    ASSUME NEW x, DOMAIN x = Registers, NEW y \in LowerPart(x)
    PROVE  /\ Keeps(x, y)
           /\ x.pc = "lower" => y.pc \in Decomposition
BY DEF Keeps, LowerPart, Eliminate, BeginSwap, Registers, Decomposition

LEMMA SwapKeeps ==
    ASSUME NEW x, DOMAIN x = Registers
    PROVE  /\ Keeps(x, SwapRows(x))
           /\ x.pc = "swap" => SwapRows(x).pc \in Decomposition
BY DEF Keeps, SwapRows, Registers, Decomposition

LEMMA PivotKeeps ==
    ASSUME NEW x, DOMAIN x = Registers, NEW reported
    PROVE  /\ Keeps(x, TakePivot(x, reported))
           /\ x.pc = "pivot" => TakePivot(x, reported).pc \in Decomposition \cup {"decomposed"}
BY DEF Keeps, TakePivot, Decomposed, Registers, Decomposition

LEMMA DivideKeeps ==
    ASSUME NEW x, DOMAIN x = Registers
    PROVE  /\ Keeps(x, DivideColumn(x))
           /\ x.pc = "divide" => DivideColumn(x).pc \in Decomposition
BY DEF Keeps, DivideColumn, Registers, Decomposition

LEMMA ExchangeKeeps ==
    ASSUME NEW x, DOMAIN x = Registers
    PROVE  /\ Keeps(x, Exchange(x))
           /\ x.pc = "exchange" => Exchange(x).pc \in Substitution
BY DEF Keeps, Exchange, Registers, Substitution

LEMMA ForwardKeeps ==
    ASSUME NEW x, DOMAIN x = Registers
    PROVE  /\ Keeps(x, Forward(x))
           /\ x.pc = "forward" => Forward(x).pc \in Substitution
BY DEF Keeps, Forward, Registers, Substitution

LEMMA BackKeeps ==
    ASSUME NEW x, DOMAIN x = Registers, NEW reported, NEW y \in Back(x, reported)
    PROVE  /\ Keeps(x, y)
           /\ x.pc = "back" => \/ y.pc \in Substitution \cup {"solved"}
                               \/ y.pc = "abandoned" /\ y.err = "range"
<1>. DEFINE Quotient(z) == Put(x.b, x.i, x.c, z)
            Advanced(b) ==
               IF x.i > 0
               THEN [x EXCEPT !.b = b, !.i = @ - 1, !.j = x.i, !.sum = b[x.i - 1][x.c], !.point = 0]
               ELSE IF x.c < Columns(x.b) - 1
               THEN [x EXCEPT !.b = b, !.pc = "exchange", !.c = @ + 1, !.i = 0, !.ii = -1, !.point = 0]
               ELSE [x EXCEPT !.b = b, !.pc = "solved", !.err = "none", !.point = 0]
            Good(z) == /\ Keeps(x, z)
                       /\ x.pc = "back" => \/ z.pc \in Substitution \cup {"solved"}
                                           \/ z.pc = "abandoned" /\ z.err = "range"
<1>1. \A b : Good(Advanced(b))  BY DEF Keeps, Registers, Substitution
<1>2. \A b : Good([Advanced(b) EXCEPT !.exact = FALSE])
  <2>. SUFFICES ASSUME NEW b PROVE Good([Advanced(b) EXCEPT !.exact = FALSE])
    OBVIOUS
  <2>1. Good(Advanced(b))  BY <1>1
  <2>. HIDE DEF Advanced
  <2>. QED  BY <2>1 DEF Keeps, Registers
<1>3. Good([x EXCEPT !.pc = "abandoned", !.err = "range", !.point = 0])
  BY DEF Keeps, Registers
<1>4. Good([x EXCEPT !.sum = (@ - x.a[x.i][x.j] * x.b[x.j][x.c]) % Prime, !.j = @ + 1, !.point = 2])
  BY DEF Keeps, Registers, Substitution
<1>5. \/ y = [x EXCEPT !.sum = (@ - x.a[x.i][x.j] * x.b[x.j][x.c]) % Prime, !.j = @ + 1, !.point = 2]
      \/ y = [x EXCEPT !.pc = "abandoned", !.err = "range", !.point = 0]
      \/ \E b : y = Advanced(b) \/ y = [Advanced(b) EXCEPT !.exact = FALSE]
  BY Zenon DEF Back
<1>. HIDE DEF Advanced, Good
<1>6. Good(y)  BY <1>1, <1>2, <1>3, <1>4, <1>5
<1>. QED  BY <1>6 DEF Good

LEMMA MultiplyKeeps ==
    ASSUME NEW x, DOMAIN x = Registers, NEW left, NEW right, NEW reported,
           NEW y \in Multiply(x, left, right, reported)
    PROVE  /\ Keeps(x, y)
           /\ x.pc = "multiply" => y.pc \in {"multiply", "multiplied"}
<1>. DEFINE sum == (x.sum + left[x.i][x.k] * right[x.k][x.j]) % Prime
            Advanced(b) ==
               IF x.j < Columns(right) - 1
               THEN [x EXCEPT !.b = b, !.j = @ + 1, !.k = 0, !.sum = 0, !.point = 1]
               ELSE IF x.i < Rows(left) - 1
               THEN [x EXCEPT !.b = b, !.i = @ + 1, !.j = 0, !.k = 0, !.sum = 0, !.point = 1]
               ELSE [x EXCEPT !.b = b, !.pc = "multiplied", !.err = "none", !.point = 0]
            Good(z) == /\ Keeps(x, z)
                       /\ x.pc = "multiply" => z.pc \in {"multiply", "multiplied"}
<1>1. \A b : Good(Advanced(b))  BY DEF Keeps, Registers
<1>2. \A b : Good([Advanced(b) EXCEPT !.exact = FALSE])
  <2>. SUFFICES ASSUME NEW b PROVE Good([Advanced(b) EXCEPT !.exact = FALSE])
    OBVIOUS
  <2>1. Good(Advanced(b))  BY <1>1
  <2>. HIDE DEF Advanced
  <2>. QED  BY <2>1 DEF Keeps, Registers
<1>3. Good([x EXCEPT !.pc = "multiplied", !.err = "range", !.point = 0])
  BY DEF Keeps, Registers
<1>4. \A z : Good([x EXCEPT !.sum = z, !.k = @ + 1, !.point = 1])
  BY DEF Keeps, Registers
<1>5. \/ y = [x EXCEPT !.sum = sum, !.k = @ + 1, !.point = 1]
      \/ y = [x EXCEPT !.pc = "multiplied", !.err = "range", !.point = 0]
      \/ \E b : y = Advanced(b) \/ y = [Advanced(b) EXCEPT !.exact = FALSE]
  BY Zenon DEF Multiply
<1>. HIDE DEF Advanced, Good, sum
<1>6. Good(y)  BY <1>1, <1>2, <1>3, <1>4, <1>5
<1>. QED  BY <1>6 DEF Good

-----------------------------------------------------------------------------
\* Completions.

LEMMA FreeRecord ==
    ASSUME NEW x, DOMAIN x = Registers, NEW blocks
    PROVE  LET y == Free(x, blocks)
           IN  /\ DOMAIN y = Registers /\ y.op = x.op /\ y.previous = x.previous /\ y.pc = x.pc
               /\ y.calls = x.calls /\ y.told = x.told /\ y.returned = x.returned /\ y.err = x.err
               /\ y.heap = x.heap \ blocks
               /\ ~ x.badFree /\ blocks \subseteq x.heap => ~ y.badFree
BY DEF Free, Registers

LEMMA ReturnRecord ==
    ASSUME NEW x, DOMAIN x = Registers, NEW error
    PROVE  LET y == Return(x, error)
           IN  /\ DOMAIN y = Registers /\ y.op = x.op /\ y.previous = x.previous
               /\ y.calls = x.calls /\ y.told = x.told /\ y.heap = x.heap /\ (~ x.badFree => ~ y.badFree)
               /\ y.pc = "over" /\ y.returned = error
BY DEF Return, Registers

LEMMA CompleteRecord ==
    ASSUME NEW x, DOMAIN x = Registers, NEW error
    PROVE  LET y == Complete(x, error)
           IN  /\ DOMAIN y = Registers /\ y.op = x.op /\ y.previous = x.previous
               /\ (~ x.badFree => ~ y.badFree) /\ y.calls = x.calls + 1 /\ y.told = error
               /\ (error = "none" => y.heap = x.heap \ {"held", "result"})
               /\ (error # "none" => y.heap = x.heap \ {"held"})
BY DEF Complete, Registers

\* The three ways on from x when a decomposition is through, or has failed: a
\* back-substitution, the command's completion, or an end without it.
Outcome(x, y) ==
    /\ DOMAIN y = Registers
    /\ y.op = x.op /\ y.previous = x.previous /\ ~ y.badFree
    /\ \/ /\ y.pc = "exchange" /\ y.op \in {"div", "inv"}
          /\ y.calls = 0 /\ y.heap = x.heap \cup {"substitution"}
       \/ /\ y.pc = "over" /\ y.calls = 1 /\ y.told = y.returned
          /\ y.heap = x.heap \ {"a", "perm", "result", "held"}
       \/ /\ y.pc = "over" /\ y.op = "div" /\ y.calls = 0 /\ y.returned # "none"
          /\ y.heap = x.heap \ {"a", "perm", "result"}

ResultOf(x) == IF x.op = "det" THEN {} ELSE {"result"}

LEMMA SubstitutedRecord ==
    ASSUME NEW x, DOMAIN x = Registers, ~ x.badFree, x.calls = 0, NEW error,
           {"a", "perm", "result"} \subseteq x.heap
    PROVE  LET y == Substituted(x, error)
           IN  /\ DOMAIN y = Registers /\ y.op = x.op /\ y.previous = x.previous /\ ~ y.badFree
               /\ y.pc = "over" /\ y.calls = 1 /\ y.told = error /\ y.returned = error
               /\ y.heap = x.heap \ {"a", "perm", "result", "held"}
<1>. DEFINE blocks == {"a", "perm"} \cup (IF error = "none" THEN {} ELSE {"result"})
            f == Free(x, blocks)
            c == Complete(f, error)
            y == Return(c, error)
<1>1. Substituted(x, error) = y  BY DEF Substituted
<1>2. blocks \subseteq x.heap  OBVIOUS
<1>. HIDE DEF blocks
<1>3. /\ DOMAIN f = Registers /\ f.op = x.op /\ f.previous = x.previous /\ ~ f.badFree
      /\ f.calls = 0 /\ f.heap = x.heap \ blocks
  BY <1>2, FreeRecord
<1>. HIDE DEF f
<1>4. /\ DOMAIN c = Registers /\ c.op = x.op /\ c.previous = x.previous /\ ~ c.badFree
      /\ c.calls = 1 /\ c.told = error
      /\ error = "none" => c.heap = f.heap \ {"held", "result"}
      /\ error # "none" => c.heap = f.heap \ {"held"}
  BY <1>3, CompleteRecord
<1>5. c.heap = x.heap \ {"a", "perm", "result", "held"}
  BY <1>3, <1>4 DEF blocks
<1>. HIDE DEF c
<1>. QED  BY <1>1, <1>4, <1>5, ReturnRecord

LEMMA SubstitutionOutcome ==
    ASSUME NEW x, DOMAIN x = Registers, ~ x.badFree, x.calls = 0, x.op \in {"div", "inv"},
           {"a", "perm", "result"} \subseteq x.heap, NEW y \in lu_backsubst(x)
    PROVE  Outcome(x, y)
<1>. DEFINE u == BeginSubstitution([x EXCEPT !.heap = @ \cup {"substitution"}])
            v == Substituted(x, "memory")
<1>1. y = u \/ y = v  BY DEF lu_backsubst
<1>2. Outcome(x, u)  BY DEF Outcome, Registers, BeginSubstitution
<1>3. Outcome(x, v)  BY SubstitutedRecord DEF Outcome
<1>. QED  BY <1>1, <1>2, <1>3

LEMMA CompletionOutcome ==
    ASSUME NEW x, DOMAIN x = Registers, ~ x.badFree, x.calls = 0, x.op \in {"div", "inv", "det"},
           {"a", "perm"} \cup ResultOf(x) \subseteq x.heap, x.op = "det" => "result" \notin x.heap,
           NEW y \in lu_completion(x)
    PROVE  Outcome(x, y)
<1>1. CASE x.op = "div"
  <2>1. CASE x.err # "none"
    <3>. DEFINE f == Free(x, {"a", "perm", "result"})
    <3>1. y = Return(f, x.err)  BY <1>1, <2>1 DEF lu_completion, div_completion1
    <3>2. /\ DOMAIN f = Registers /\ f.op = x.op /\ f.previous = x.previous /\ ~ f.badFree
          /\ f.calls = 0 /\ f.heap = x.heap \ {"a", "perm", "result"}
      BY <1>1, FreeRecord DEF ResultOf
    <3>. HIDE DEF f
    <3>. QED  BY <1>1, <2>1, <3>1, <3>2, ReturnRecord DEF Outcome
  <2>2. CASE x.err = "none"
    <3>. DEFINE u == [x EXCEPT !.b = x.left]
    <3>1. y \in lu_backsubst(u)  BY <1>1, <2>2 DEF lu_completion, div_completion1
    <3>2. Keeps(x, u)  BY DEF Keeps, Registers
    <3>. HIDE DEF u
    <3>3. Outcome(u, y)  BY <1>1, <3>1, <3>2, SubstitutionOutcome DEF Keeps, ResultOf
    <3>. QED  BY <3>2, <3>3 DEF Outcome, Keeps
  <2>. QED  BY <2>1, <2>2
<1>2. CASE x.op = "inv"
  <2>1. CASE x.err # "none"
    <3>. DEFINE f == Free(x, {"a", "perm", "result"})
                c == Complete(f, x.err)
    <3>1. y = Return(c, x.err)  BY <1>2, <2>1 DEF lu_completion, inv_completion1
    <3>2. /\ DOMAIN f = Registers /\ f.op = x.op /\ f.previous = x.previous /\ ~ f.badFree
          /\ f.calls = 0 /\ f.heap = x.heap \ {"a", "perm", "result"}
      BY <1>2, FreeRecord DEF ResultOf
    <3>. HIDE DEF f
    <3>3. /\ DOMAIN c = Registers /\ c.op = x.op /\ c.previous = x.previous /\ ~ c.badFree
          /\ c.calls = 1 /\ c.told = x.err /\ c.heap = x.heap \ {"a", "perm", "result", "held"}
      BY <2>1, <3>2, CompleteRecord
    <3>. HIDE DEF c
    <3>. QED  BY <3>1, <3>3, ReturnRecord DEF Outcome
  <2>2. CASE x.err = "none"
    <3>. DEFINE u == [x EXCEPT !.b = Identity(Size(x))]
    <3>1. y \in lu_backsubst(u)  BY <1>2, <2>2 DEF lu_completion, inv_completion1
    <3>2. Keeps(x, u)  BY DEF Keeps, Registers
    <3>. HIDE DEF u
    <3>3. Outcome(u, y)  BY <1>2, <3>1, <3>2, SubstitutionOutcome DEF Keeps, ResultOf
    <3>. QED  BY <3>2, <3>3 DEF Outcome, Keeps
  <2>. QED  BY <2>1, <2>2
<1>3. CASE x.op = "det"
  <2>. DEFINE f == Free(x, {"a", "perm"})
              c(error) == Complete(f, error)
  <2>1. PICK error : y = Return(c(error), error)
    BY <1>3 DEF lu_completion, det_completion
  <2>2. /\ DOMAIN f = Registers /\ f.op = x.op /\ f.previous = x.previous /\ ~ f.badFree
        /\ f.calls = 0 /\ f.heap = x.heap \ {"a", "perm"}
    BY <1>3, FreeRecord
  <2>. HIDE DEF f
  <2>3. /\ DOMAIN c(error) = Registers /\ c(error).op = x.op /\ c(error).previous = x.previous
        /\ ~ c(error).badFree /\ c(error).calls = 1 /\ c(error).told = error
        /\ error = "none" => c(error).heap = f.heap \ {"held", "result"}
        /\ error # "none" => c(error).heap = f.heap \ {"held"}
    BY <2>2, CompleteRecord
  <2>4. c(error).heap = x.heap \ {"a", "perm", "result", "held"}
    BY <1>3, <2>2, <2>3
  <2>. HIDE DEF c
  <2>. QED  BY <2>1, <2>3, <2>4, ReturnRecord DEF Outcome
<1>. QED  BY <1>1, <1>2, <1>3

-----------------------------------------------------------------------------
\* The invariant of an operation: what it holds in each phase, until it is over.

Holding(x, blocks) == x.calls = 0 /\ x.heap \ {"held"} = blocks

Working(x) ==
    \/ /\ x.pc \in Decomposition \cup {"decomposed"} /\ x.op \in {"div", "inv", "det"}
       /\ Holding(x, {"decomposition", "scale", "a", "perm"} \cup ResultOf(x))
    \/ /\ \/ x.pc \in Substitution \cup {"solved"}
          \/ x.pc = "abandoned" /\ x.err = "range"
       /\ x.op \in {"div", "inv"}
       /\ Holding(x, {"substitution", "a", "perm", "result"})
    \/ /\ x.pc \in {"multiply", "multiplied"} /\ x.op = "mul"
       /\ Holding(x, {"product", "result"})

OverOK(x) ==
    /\ \/ x.calls = 1 /\ x.told = x.returned
       \/ x.calls = 0 /\ x.returned # "none"
    /\ \/ x.heap = {}
       \/ x.op \in {"div", "inv"} /\ x.returned = "range"
       \/ x.op = "div" /\ x.calls = 0 /\ x.heap = {"held"}

Sound(x) ==
    /\ DOMAIN x = Registers
    /\ ~ x.badFree
    /\ "held" \in x.heap => x.op \in {"div", "mul"}

\* Between two steps; a worker that is through is ended in the same step.
Through == {"decomposed", "solved", "multiplied", "abandoned"}
OperationInv(x) ==
    /\ Sound(x)
    /\ \/ x.pc = "idle" /\ x.calls = 0 /\ x.heap = {}
       \/ x.pc = "over" /\ OverOK(x)
       \/ x.pc \notin Through /\ Working(x)

LEMMA KeepsWorking ==
    ASSUME NEW x, NEW y, Sound(x), Keeps(x, y)
    PROVE  /\ Sound(y)
           /\ (\A blocks : Holding(x, blocks) => Holding(y, blocks))
           /\ ResultOf(y) = ResultOf(x)
BY DEF Sound, Keeps, Holding, ResultOf

\* The end of a decomposition, which frees what it had before and after its completion.
LEMMA DecompositionEnds ==
    ASSUME NEW x, Sound(x), x.op \in {"div", "inv", "det"},
           Holding(x, {"decomposition", "scale", "a", "perm"} \cup ResultOf(x)),
           NEW y \in EndDecomposition(x)
    PROVE  OperationInv(y) /\ y.op = x.op /\ y.previous = x.previous
<1>. DEFINE f == Free(x, {"scale"})
<1>1. PICK u \in lu_completion(f) : y = Free(u, {"decomposition"})
  BY DEF EndDecomposition
<1>2. /\ DOMAIN f = Registers /\ f.op = x.op /\ f.previous = x.previous /\ ~ f.badFree
      /\ f.calls = 0 /\ f.heap = x.heap \ {"scale"}
  BY FreeRecord DEF Sound, Holding
<1>. HIDE DEF f
<1>3. Outcome(f, u)
  BY <1>2, CompletionOutcome DEF ResultOf, Holding
<1>4. /\ DOMAIN y = Registers /\ y.op = u.op /\ y.previous = u.previous /\ y.pc = u.pc
      /\ y.calls = u.calls /\ y.told = u.told /\ y.returned = u.returned
      /\ y.heap = u.heap \ {"decomposition"}
      /\ "decomposition" \in u.heap => ~ y.badFree
  BY <1>1, <1>3, FreeRecord DEF Outcome
<1>5. "decomposition" \in u.heap  BY <1>2, <1>3 DEF Outcome, Holding
<1>6. y.op = x.op /\ y.previous = x.previous  BY <1>2, <1>3, <1>4 DEF Outcome
<1>7. CASE u.pc = "exchange"
  <2>1. Sound(y)  BY <1>2, <1>3, <1>4, <1>5, <1>7 DEF Outcome, Sound
  <2>2. /\ y.pc = "exchange" /\ y.op \in {"div", "inv"}
        /\ Holding(y, {"substitution", "a", "perm", "result"})
    BY <1>2, <1>3, <1>4, <1>7 DEF Outcome, Holding, ResultOf
  <2>. QED  BY <1>6, <2>1, <2>2 DEF OperationInv, Working, Substitution, Through
<1>8. CASE u.pc = "over"
  <2>1. Sound(y)  BY <1>2, <1>3, <1>4, <1>5, <1>8 DEF Outcome, Sound
  <2>2. OverOK(y)
    BY <1>2, <1>3, <1>4, <1>6, <1>8 DEF Outcome, OverOK, Holding, ResultOf, Sound
  <2>. QED  BY <1>4, <1>6, <1>8, <2>1, <2>2 DEF OperationInv
<1>. QED  BY <1>3, <1>7, <1>8 DEF Outcome

LEMMA SubstitutionEnds ==
    ASSUME NEW x, Sound(x), x.op \in {"div", "inv"},
           Holding(x, {"substitution", "a", "perm", "result"})
    PROVE  LET y == EndSubstitution(x)
           IN  OperationInv(y) /\ y.pc = "over" /\ y.op = x.op /\ y.previous = x.previous
<1>. DEFINE s == Substituted(x, x.err)
            y == Free(s, {"substitution"})
<1>1. EndSubstitution(x) = y  BY DEF EndSubstitution
<1>2. /\ DOMAIN s = Registers /\ s.op = x.op /\ s.previous = x.previous /\ ~ s.badFree
      /\ s.pc = "over" /\ s.calls = 1 /\ s.told = x.err /\ s.returned = x.err
      /\ s.heap = x.heap \ {"a", "perm", "result", "held"}
  BY SubstitutedRecord DEF Sound, Holding
<1>. HIDE DEF s
<1>3. /\ DOMAIN y = Registers /\ y.op = x.op /\ y.previous = x.previous /\ y.pc = "over"
      /\ y.calls = 1 /\ y.told = x.err /\ y.returned = x.err
      /\ y.heap = s.heap \ {"substitution"} /\ ~ y.badFree
  BY <1>2, FreeRecord DEF Holding
<1>4. y.heap = {}  BY <1>2, <1>3 DEF Holding
<1>. HIDE DEF y
<1>5. OperationInv(y)  BY <1>3, <1>4 DEF OperationInv, Sound, OverOK
<1>. QED  BY <1>1, <1>3, <1>5

LEMMA ProductEnds ==
    ASSUME NEW x, Sound(x), x.op = "mul", Holding(x, {"product", "result"})
    PROVE  LET y == EndProduct(x)
           IN  OperationInv(y) /\ y.pc = "over" /\ y.op = x.op /\ y.previous = x.previous
<1>. DEFINE blocks == {"product"} \cup (IF x.err = "none" THEN {} ELSE {"result"})
            c == Complete(x, x.err)
            f == Free(c, blocks)
            y == Return(f, x.err)
<1>1. EndProduct(x) = y  BY DEF EndProduct
<1>2. /\ DOMAIN c = Registers /\ c.op = x.op /\ c.previous = x.previous /\ ~ c.badFree
      /\ c.calls = 1 /\ c.told = x.err
      /\ x.err = "none" => c.heap = x.heap \ {"held", "result"}
      /\ x.err # "none" => c.heap = x.heap \ {"held"}
  BY CompleteRecord DEF Sound, Holding
<1>3. c.heap = blocks  BY <1>2 DEF Holding
<1>. HIDE DEF c, blocks
<1>4. /\ DOMAIN f = Registers /\ f.op = x.op /\ f.previous = x.previous /\ ~ f.badFree
      /\ f.calls = 1 /\ f.told = x.err /\ f.heap = {}
  BY <1>2, <1>3, FreeRecord
<1>. HIDE DEF f
<1>5. /\ DOMAIN y = Registers /\ y.op = x.op /\ y.previous = x.previous /\ y.pc = "over"
      /\ y.calls = 1 /\ y.told = x.err /\ y.returned = x.err /\ y.heap = {} /\ ~ y.badFree
  BY <1>4, ReturnRecord
<1>. HIDE DEF y
<1>6. OperationInv(y)  BY <1>5 DEF OperationInv, Sound, OverOK
<1>. QED  BY <1>1, <1>5, <1>6

\* An iteration: the worker goes on, or is through and is ended.
LEMMA IterationKeeps ==
    ASSUME NEW x, Sound(x), Working(x), NEW y \in Ended(x)
    PROVE  OperationInv(y) /\ y.op = x.op /\ y.previous = x.previous
<1>1. CASE x.pc = "decomposed"
  <2>1. y \in EndDecomposition(x)  BY <1>1 DEF Ended
  <2>2. /\ x.op \in {"div", "inv", "det"}
        /\ Holding(x, {"decomposition", "scale", "a", "perm"} \cup ResultOf(x))
    BY <1>1 DEF Working, Substitution
  <2>. QED  BY <2>1, <2>2, DecompositionEnds
<1>2. CASE x.pc = "solved"
  <2>1. y = EndSubstitution(x)  BY <1>2 DEF Ended
  <2>2. x.op \in {"div", "inv"} /\ Holding(x, {"substitution", "a", "perm", "result"})
    BY <1>2 DEF Working, Decomposition
  <2>. QED  BY <2>1, <2>2, SubstitutionEnds
<1>3. CASE x.pc = "multiplied"
  <2>1. y = EndProduct(x)  BY <1>3 DEF Ended
  <2>2. x.op = "mul" /\ Holding(x, {"product", "result"})
    BY <1>3 DEF Working, Decomposition, Substitution
  <2>. QED  BY <2>1, <2>2, ProductEnds
<1>4. CASE x.pc = "abandoned"
  <2>1. y = Return(x, x.err)  BY <1>4 DEF Ended
  <2>2. x.op \in {"div", "inv"} /\ x.calls = 0 /\ x.err = "range"
    BY <1>4 DEF Working, Decomposition, Substitution, Holding
  <2>3. /\ DOMAIN y = Registers /\ y.op = x.op /\ y.previous = x.previous /\ y.heap = x.heap
        /\ y.calls = 0 /\ y.pc = "over" /\ y.returned = "range" /\ ~ y.badFree
    BY <2>1, <2>2, ReturnRecord DEF Sound
  <2>. QED  BY <2>2, <2>3 DEF OperationInv, Sound, OverOK
<1>5. CASE x.pc \notin Through
  <2>1. y = x  BY <1>5 DEF Ended, Through
  <2>. QED  BY <1>5, <2>1 DEF OperationInv
<1>. QED  BY <1>1, <1>2, <1>3, <1>4, <1>5 DEF Through

-----------------------------------------------------------------------------
\* The beginning of an operation.

Begun(x) == Sound(x) /\ x.calls = 0 /\ x.heap \subseteq {"held"}

Follows(x, y) == OperationInv(y) /\ y.op = x.op /\ y.previous = x.previous

LEMMA FreshBegins ==
    ASSUME NEW op, NEW left, NEW right, NEW complex, NEW held \in BOOLEAN,
           held => op \in {"div", "mul"}
    PROVE  LET x == Fresh(op, left, right, complex, held)
           IN  Begun(x) /\ x.op = op
BY DEF Fresh, Begun, Sound, Registers

LEMMA ReturnFollows ==
    ASSUME NEW x, Begun(x), x.heap = {}, NEW error, error # "none"
    PROVE  Follows(x, Return(x, error))
<1>. DEFINE y == Return(x, error)
<1>1. /\ DOMAIN y = Registers /\ y.op = x.op /\ y.previous = x.previous /\ y.heap = {}
      /\ y.calls = 0 /\ y.pc = "over" /\ y.returned = error /\ ~ y.badFree
  BY ReturnRecord DEF Begun, Sound
<1>. HIDE DEF y
<1>2. Follows(x, y)  BY <1>1 DEF Follows, OperationInv, Sound, OverOK
<1>. QED  BY <1>2 DEF y

LEMMA RefuseFollows ==
    ASSUME NEW x, Begun(x), NEW error, error # "none"
    PROVE  Follows(x, Refuse(x, error))
<1>. DEFINE c == Complete(x, error)
            y == Return(c, error)
<1>1. /\ DOMAIN c = Registers /\ c.op = x.op /\ c.previous = x.previous /\ ~ c.badFree
      /\ c.calls = 1 /\ c.told = error /\ c.heap = x.heap \ {"held"}
  BY CompleteRecord DEF Begun, Sound
<1>. HIDE DEF c
<1>2. /\ DOMAIN y = Registers /\ y.op = x.op /\ y.previous = x.previous /\ y.heap = {}
      /\ y.calls = 1 /\ y.pc = "over" /\ y.told = error /\ y.returned = error /\ ~ y.badFree
  BY <1>1, ReturnRecord DEF Begun
<1>. HIDE DEF y
<1>3. Follows(x, y)  BY <1>2 DEF Follows, OperationInv, Sound, OverOK
<1>. QED  BY <1>3 DEF y, c, Refuse

LEMMA DecompositionFollows ==
    ASSUME NEW x, Sound(x), x.op \in {"div", "inv", "det"},
           Holding(x, {"a", "perm"} \cup ResultOf(x)), NEW y \in lu_decomp(x)
    PROVE  Follows(x, y)
<1>1. CASE \E row : y = BeginDecomposition(Decomposing(x), row)
  <2>1. PICK row : y = BeginDecomposition(Decomposing(x), row)  BY <1>1
  <2>. DEFINE d == Decomposing(x)
  <2>2. /\ DOMAIN d = Registers /\ d.op = x.op /\ d.previous = x.previous
        /\ (~ x.badFree => ~ d.badFree) /\ d.calls = x.calls
        /\ d.heap = x.heap \cup {"decomposition", "scale"}
    BY DEF Sound, Decomposing, Registers
  <2>. HIDE DEF d
  <2>3. /\ DOMAIN y = Registers /\ y.op = x.op /\ y.previous = x.previous
        /\ (~ d.badFree => ~ y.badFree) /\ y.calls = x.calls /\ y.heap = d.heap
        /\ y.pc = "scale"
    BY <2>1, <2>2 DEF BeginDecomposition, Registers, d
  <2>4. Sound(y)  BY <2>2, <2>3 DEF Sound
  <2>5. Holding(y, {"decomposition", "scale", "a", "perm"} \cup ResultOf(y))
    BY <2>2, <2>3 DEF Holding, ResultOf
  <2>. QED
    BY <2>3, <2>4, <2>5 DEF Follows, OperationInv, Working, Decomposition, Through
<1>2. CASE y \in lu_completion([x EXCEPT !.err = "memory"])
  <2>. DEFINE u == [x EXCEPT !.err = "memory"]
  <2>1. Keeps(x, u) /\ ~ u.badFree  BY DEF Keeps, Registers, Sound
  <2>2. y \in lu_completion(u)  BY <1>2
  <2>. HIDE DEF u
  <2>3. Outcome(u, y)
    BY <2>1, <2>2, CompletionOutcome DEF Keeps, ResultOf, Holding
  <2>4. Sound(y)  BY <2>1, <2>3 DEF Outcome, Sound, Keeps
  <2>5. CASE y.pc = "exchange"
    <3>1. y.op \in {"div", "inv"} /\ Holding(y, {"substitution", "a", "perm", "result"})
      BY <2>1, <2>3, <2>5 DEF Outcome, Keeps, Holding, ResultOf
    <3>. QED
      BY <2>1, <2>3, <2>4, <2>5, <3>1
         DEF Outcome, Keeps, Follows, OperationInv, Working, Substitution, Through
  <2>6. CASE y.pc = "over"
    <3>1. OverOK(y)
      BY <2>1, <2>3, <2>6 DEF Outcome, Keeps, Holding, ResultOf, OverOK, Sound
    <3>. QED
      BY <2>1, <2>3, <2>4, <2>6, <3>1 DEF Outcome, Keeps, Follows, OperationInv
  <2>. QED  BY <2>3, <2>5, <2>6 DEF Outcome
<1>. QED  BY <1>1, <1>2 DEF lu_decomp, lu_decomp_r, lu_decomp_c

\* With its blocks allocated.
Allocated(x, a, blocks) == [x EXCEPT !.a = a, !.heap = @ \cup blocks]

LEMMA AllocationHolds ==
    ASSUME NEW x, Begun(x), NEW a, NEW blocks, "held" \notin blocks
    PROVE  LET u == Allocated(x, a, blocks)
           IN  Sound(u) /\ Holding(u, blocks) /\ u.op = x.op /\ u.previous = x.previous
<1>. DEFINE u == Allocated(x, a, blocks)
<1>1. /\ DOMAIN u = Registers /\ u.op = x.op /\ u.previous = x.previous
      /\ (~ x.badFree => ~ u.badFree) /\ u.calls = x.calls /\ u.heap = x.heap \cup blocks
  BY DEF Begun, Sound, Registers, Allocated
<1>. HIDE DEF u
<1>2. Sound(u) /\ Holding(u, blocks) /\ u.op = x.op /\ u.previous = x.previous
  BY <1>1 DEF Begun, Sound, Holding
<1>. QED  BY <1>2 DEF u

LEMMA DivFollows ==
    ASSUME NEW x, Begun(x), x.op = "div", NEW y \in linalg_div(x) PROVE Follows(x, y)
<1>. DEFINE u == Allocated(x, x.right, {"perm", "a", "result"})
<1>1. Sound(u) /\ Holding(u, {"perm", "a", "result"}) /\ u.op = x.op /\ u.previous = x.previous
  BY AllocationHolds
<1>2. y \in lu_decomp(u) \/ \E error : error # "none" /\ y = Refuse(x, error)
  BY DEF linalg_div, Allocated
<1>. HIDE DEF u
<1>3. y \in lu_decomp(u) => Follows(u, y)
  BY <1>1, DecompositionFollows DEF ResultOf, Holding
<1>. QED  BY <1>1, <1>2, <1>3, RefuseFollows DEF Follows

LEMMA MulFollows ==
    ASSUME NEW x, Begun(x), x.op = "mul", NEW y \in linalg_mul(x) PROVE Follows(x, y)
<1>. DEFINE b == Zero(Rows(x.left), Columns(x.right))
            u == [x EXCEPT !.b = b, !.heap = @ \cup {"product", "result"}]
            p == BeginProduct(u)
<1>1. y = p \/ \E error : error # "none" /\ y = Refuse(x, error)
  BY DEF linalg_mul
<1>. HIDE DEF b
<1>2. /\ DOMAIN p = Registers /\ p.op = x.op /\ p.previous = x.previous
      /\ (~ x.badFree => ~ p.badFree) /\ p.calls = x.calls
      /\ p.heap = x.heap \cup {"product", "result"} /\ p.pc = "multiply"
  BY DEF Begun, Sound, Registers, BeginProduct
<1>. HIDE DEF p
<1>3. Follows(x, p)
  BY <1>2 DEF Begun, Sound, Follows, OperationInv, Working, Holding, Through
<1>. QED  BY <1>1, <1>3, RefuseFollows

LEMMA InvFollows ==
    ASSUME NEW x, Begun(x), x.op = "inv", NEW y \in linalg_inv(x) PROVE Follows(x, y)
<1>. DEFINE u == Allocated(x, x.right, {"perm", "a", "result"})
<1>1. Sound(u) /\ Holding(u, {"perm", "a", "result"}) /\ u.op = x.op /\ u.previous = x.previous
  BY AllocationHolds
<1>2. y \in lu_decomp(u) \/ \E error : error # "none" /\ y = Return(x, error)
  BY DEF linalg_inv, Allocated
<1>. HIDE DEF u
<1>3. y \in lu_decomp(u) => Follows(u, y)
  BY <1>1, DecompositionFollows DEF ResultOf, Holding
<1>4. x.heap = {}  BY DEF Begun, Sound
<1>. QED  BY <1>1, <1>2, <1>3, <1>4, ReturnFollows DEF Follows

\* DET also notes the setting it will give back.
LEMMA DetFollows ==
    ASSUME NEW x, Begun(x), x.op = "det", NEW y \in linalg_det(x)
    PROVE  /\ OperationInv(y) /\ y.op = x.op
           /\ y.pc = "over" \/ y.previous = setting
<1>. DEFINE u == [x EXCEPT !.a = x.right, !.previous = setting, !.heap = @ \cup {"perm", "a"}]
<1>1. y \in lu_decomp(u) \/ \E error : error # "none" /\ (y = Refuse(x, error) \/ y = Return(x, error))
  BY DEF linalg_det, det_refuse
<1>2. /\ DOMAIN u = Registers /\ u.op = x.op /\ u.previous = setting
      /\ (~ x.badFree => ~ u.badFree) /\ u.calls = x.calls /\ u.heap = x.heap \cup {"perm", "a"}
  BY DEF Begun, Sound, Registers
<1>. HIDE DEF u
<1>3. x.heap = {}  BY DEF Begun, Sound
<1>4. Sound(u) /\ Holding(u, {"a", "perm"} \cup ResultOf(u))
  BY <1>2, <1>3 DEF Begun, Sound, Holding, ResultOf
<1>5. y \in lu_decomp(u) => Follows(u, y)  BY <1>2, <1>4, DecompositionFollows
<1>6. CASE y \in lu_decomp(u)  BY <1>2, <1>5, <1>6 DEF Follows
<1>7. ASSUME NEW error, error # "none", y = Refuse(x, error) \/ y = Return(x, error)
      PROVE  OperationInv(y) /\ y.op = x.op /\ y.pc = "over"
  <2>1. Follows(x, y)  BY <1>3, <1>7, ReturnFollows, RefuseFollows
  <2>2. y.pc = "over"
    BY <1>7, ReturnRecord, CompleteRecord DEF Begun, Sound, Refuse
  <2>. QED  BY <2>1, <2>2 DEF Follows
<1>. QED  BY <1>1, <1>6, <1>7

-----------------------------------------------------------------------------
\* The setting.

\* Unless the preferences met a determinant, it is the user's, or DET keeps that one; and
\* so is what the preferences show.
SettingInv ==
    /\ DOMAIN dialog = {"up", "checked", "opened"}
    /\ ~ overlap => /\ Deciding(w) => w.previous = wanted
                    /\ ~ Deciding(w) => setting = wanted
                    /\ dialog.up => dialog.checked = wanted

Inv == OperationInv(w) /\ SettingInv

LEMMA UpdateKeepsSetting ==
    ASSUME SettingInv, NEW x, Update(x), UNCHANGED <<wanted, dialog, overlap>>,
           Idle(w) => (Deciding(x) => x.previous = setting),
           ~ Idle(w) => x.op = w.op /\ x.previous = w.previous
    PROVE  SettingInv'
<1>1. w' = x /\ wanted' = wanted /\ dialog' = dialog /\ overlap' = overlap
  BY DEF Update
<1>2. CASE Idle(w) /\ Deciding(x)
  <2>1. ~ overlap => w'.previous = wanted  BY <1>1, <1>2 DEF SettingInv, Deciding
  <2>. QED  BY <1>1, <1>2, <2>1 DEF SettingInv, Deciding, Idle
<1>3. CASE Deciding(w) /\ Idle(x)
  <2>1. setting' = w.previous  BY <1>3 DEF Update, Deciding
  <2>. QED  BY <1>1, <1>3, <2>1 DEF SettingInv, Deciding, Idle
<1>4. CASE Deciding(w) /\ ~ Idle(x)
  BY <1>1, <1>4 DEF SettingInv, Deciding, Idle
<1>5. CASE ~ Deciding(w) /\ ~ (Idle(w) /\ Deciding(x))
  <2>1. setting' = setting  BY <1>5 DEF Update
  <2>2. ~ Deciding(x)  BY <1>5 DEF Deciding
  <2>. QED  BY <1>1, <1>5, <2>1, <2>2 DEF SettingInv, Deciding, Idle
<1>. QED  BY <1>2, <1>3, <1>4, <1>5 DEF Deciding

\* A worker's step, an interruption.
LEMMA UpdateKeepsInv ==
    ASSUME Inv, ~ Idle(w), NEW x, Update(x), UNCHANGED <<wanted, dialog, overlap>>,
           OperationInv(x), x.op = w.op, x.previous = w.previous
    PROVE  Inv'
<1>1. SettingInv'  BY UpdateKeepsSetting DEF Inv
<1>2. w' = x  BY DEF Update
<1>3. OperationInv(w')  BY <1>2
<1>. QED  BY <1>1, <1>3 DEF Inv, OperationInv, Sound, OverOK, Working, Holding, ResultOf

LEMMA InitInv == Init => Inv
BY DEF Init, Inv, SettingInv, Deciding, Idle, Forgotten, Fresh, OperationInv, Sound, Registers

LEMMA BeginInv == ASSUME Inv, Begin PROVE Inv'
<1>1. w.pc = "idle" /\ UNCHANGED <<wanted, dialog, overlap>>  BY DEF Begin
<1>2. ASSUME NEW x, Update(x), OperationInv(x), Deciding(x) => x.previous = setting
      PROVE  Inv'
  <2>1. SettingInv'  BY <1>1, <1>2, UpdateKeepsSetting DEF Inv, Idle
  <2>2. w' = x  BY <1>2 DEF Update
  <2>. QED
    BY <1>2, <2>1, <2>2 DEF Inv, OperationInv, Sound, OverOK, Working, Holding, ResultOf
<1>3. ASSUME NEW right, NEW complex, NEW y \in linalg_inv(Fresh("inv", NoMatrix, right, complex, FALSE)),
             Update(y)
      PROVE  Inv'
  <2>. DEFINE x == Fresh("inv", NoMatrix, right, complex, FALSE)
  <2>1. Begun(x) /\ x.op = "inv"  BY FreshBegins
  <2>2. y \in linalg_inv(x)  BY <1>3
  <2>. HIDE DEF x
  <2>3. Follows(x, y)  BY <2>1, <2>2, InvFollows
  <2>. QED  BY <1>2, <1>3, <2>1, <2>3 DEF Follows, Deciding
<1>4. ASSUME NEW right, NEW complex, NEW y \in linalg_det(Fresh("det", NoMatrix, right, complex, FALSE)),
             Update(y)
      PROVE  Inv'
  BY <1>2, <1>4, FreshBegins, DetFollows DEF Deciding, Idle
<1>5. ASSUME NEW left, NEW right, NEW complex, NEW held \in BOOLEAN,
             NEW y \in linalg_div(Fresh("div", left, right, complex, held)), Update(y)
      PROVE  Inv'
  BY <1>2, <1>5, FreshBegins, DivFollows DEF Follows, Deciding
<1>6. ASSUME NEW left, NEW right, NEW held \in BOOLEAN,
             NEW y \in linalg_mul(Fresh("mul", right, left, FALSE, held)), Update(y)
      PROVE  Inv'
  <2>. DEFINE x == Fresh("mul", right, left, FALSE, held)
  <2>1. Begun(x) /\ x.op = "mul"  BY FreshBegins
  <2>2. y \in linalg_mul(x)  BY <1>6
  <2>. HIDE DEF x
  <2>3. Follows(x, y)  BY <2>1, <2>2, MulFollows
  <2>. QED  BY <1>2, <1>6, <2>1, <2>3 DEF Follows, Deciding
<1>7. \/ \E right, complex :
           \/ \E y \in linalg_inv(Fresh("inv", NoMatrix, right, complex, FALSE)) : Update(y)
           \/ \E y \in linalg_det(Fresh("det", NoMatrix, right, complex, FALSE)) : Update(y)
      \/ \E left, right, complex : \E held \in BOOLEAN :
           \/ \E y \in linalg_div(Fresh("div", left, right, complex, held)) : Update(y)
           \/ \E y \in linalg_mul(Fresh("mul", right, left, FALSE, held)) : Update(y)
  <2>1. PICK op, right, complex :
            \/ /\ op \in {"inv", "det"}
               /\ LET x == Fresh(op, NoMatrix, right, complex, FALSE)
                  IN  \E y \in IF op = "inv" THEN linalg_inv(x) ELSE linalg_det(x) : Update(y)
            \/ /\ op \in {"div", "mul"}
               /\ \E left : \E held \in BOOLEAN :
                    LET x == IF op = "div" THEN Fresh(op, left, right, complex, held)
                                           ELSE Fresh(op, right, left, FALSE, held)
                    IN  \E y \in IF op = "div" THEN linalg_div(x) ELSE linalg_mul(x) : Update(y)
    BY Zenon DEF Begin
  <2>2. CASE op = "inv"  BY <2>1, <2>2
  <2>3. CASE op = "det"  BY <2>1, <2>3
  <2>4. CASE op = "div"  BY <2>1, <2>4
  <2>5. CASE op = "mul"  BY <2>1, <2>5
  <2>. QED  BY <2>1, <2>2, <2>3, <2>4, <2>5
<1>. QED  BY <1>3, <1>4, <1>5, <1>6, <1>7

\* Whatever the worker does, it goes on or is ended.
LEMMA StepInv == ASSUME Inv, Step PROVE Inv'
<1>. DEFINE Iterated(x) == /\ Sound(x) /\ Working(x) /\ x.op = w.op /\ x.previous = w.previous
<1>1. ~ Idle(w) /\ UNCHANGED <<wanted, dialog, overlap>>
  BY DEF Step, InSlice, Running
<1>2. Sound(w) /\ Working(w) /\ DOMAIN w = Registers
  BY <1>1 DEF Inv, OperationInv, Idle, Sound
<1>3. ASSUME NEW x, Iterate(x), Iterated(x) PROVE Inv'
  <2>1. PICK y \in Ended(x) : Update(y)  BY <1>3 DEF Iterate
  <2>2. OperationInv(y) /\ y.op = w.op /\ y.previous = w.previous
    BY <1>3, <2>1, IterationKeeps
  <2>. QED  BY <1>1, <2>1, <2>2, UpdateKeepsInv
<1>4. ASSUME NEW x, Keeps(w, x), w.pc \in Decomposition, x.pc \in Decomposition \cup {"decomposed"}
      PROVE  Iterated(x)
  BY <1>2, <1>4, KeepsWorking DEF Working, Keeps, Decomposition, Substitution
<1>5. ASSUME NEW x, Keeps(w, x), w.pc \in Substitution,
             \/ x.pc \in Substitution \cup {"solved"}
             \/ x.pc = "abandoned" /\ x.err = "range"
      PROVE  Iterated(x)
  BY <1>2, <1>5, KeepsWorking DEF Working, Keeps, Decomposition, Substitution
<1>6. ASSUME NEW x, Keeps(w, x), w.pc = "multiply", x.pc \in {"multiply", "multiplied"}
      PROVE  Iterated(x)
  BY <1>2, <1>6, KeepsWorking DEF Working, Keeps, Decomposition, Substitution
<1>. HIDE DEF Iterated
<1>7. /\ {"scale", "upper", "lower", "swap", "pivot", "divide"} \subseteq Decomposition
      /\ {"exchange", "forward", "back"} \subseteq Substitution
  BY DEF Decomposition, Substitution
<1>11. CASE w.pc = "scale" /\ Iterate(MeasureRow(w))
  BY <1>2, <1>3, <1>4, <1>7, <1>11, MeasureKeeps
<1>12. CASE w.pc = "upper" /\ Iterate(UpperPart(w))
  BY <1>2, <1>3, <1>4, <1>7, <1>12, UpperKeeps
<1>13. CASE w.pc = "lower" /\ \E y \in LowerPart(w) : Iterate(y)
  BY <1>2, <1>3, <1>4, <1>7, <1>13, LowerKeeps
<1>14. CASE w.pc = "swap" /\ Iterate(SwapRows(w))
  BY <1>2, <1>3, <1>4, <1>7, <1>14, SwapKeeps
<1>15. CASE w.pc = "pivot" /\ Iterate(TakePivot(w, setting))
  BY <1>2, <1>3, <1>4, <1>7, <1>15, PivotKeeps
<1>16. CASE w.pc = "divide" /\ Iterate(DivideColumn(w))
  BY <1>2, <1>3, <1>4, <1>7, <1>16, DivideKeeps
<1>17. CASE w.pc = "exchange" /\ Iterate(Exchange(w))
  BY <1>2, <1>3, <1>5, <1>7, <1>17, ExchangeKeeps
<1>18. CASE w.pc = "forward" /\ Iterate(Forward(w))
  BY <1>2, <1>3, <1>5, <1>7, <1>18, ForwardKeeps
<1>19. CASE w.pc = "back" /\ \E reported \in BOOLEAN : \E y \in Back(w, reported) : Iterate(y)
  BY <1>2, <1>3, <1>5, <1>7, <1>19, BackKeeps
<1>20. CASE /\ w.pc = "multiply"
            /\ \E reported \in BOOLEAN : \E y \in Multiply(w, w.left, w.right, reported) : Iterate(y)
  BY <1>2, <1>3, <1>6, <1>20, MultiplyKeeps
<1>. QED
  BY <1>11, <1>12, <1>13, <1>14, <1>15, <1>16, <1>17, <1>18, <1>19, <1>20 DEF Step

\* The end of a slice and the beginning of the next one change the registers only.
LEMMA SliceKeepsInv ==
    ASSUME Inv, ~ Idle(w), Keeps(w, w'), w'.pc = w.pc,
           UNCHANGED <<setting, wanted, dialog, overlap>>
    PROVE  Inv'
<1>1. Sound(w) /\ Working(w) /\ w.pc \notin Through
  BY DEF Inv, OperationInv, Idle
<1>2. Sound(w') /\ Working(w')
  BY <1>1, KeepsWorking DEF Working, Keeps, Through
<1>3. OperationInv(w')  BY <1>1, <1>2 DEF OperationInv
<1>4. SettingInv'  BY DEF Inv, SettingInv, Deciding, Idle, Keeps
<1>. QED  BY <1>3, <1>4 DEF Inv, OperationInv, Sound, OverOK, Working, Holding, ResultOf

LEMMA SuspendInv == ASSUME Inv, Suspend PROVE Inv'
<1>1. Keeps(w, w') /\ w'.pc = w.pc
  BY DEF Suspend, Inv, OperationInv, Sound, Keeps, Registers
<1>. QED  BY <1>1, SliceKeepsInv DEF Suspend, InSlice, Running

LEMMA ResumeInv == ASSUME Inv, Resume PROVE Inv'
<1>1. PICK s : w' = [w EXCEPT !.suspended = FALSE, !.point = 0, !.s = s]
  BY DEF Resume
<1>2. Keeps(w, w') /\ w'.pc = w.pc
  BY <1>1 DEF Inv, OperationInv, Sound, Keeps, Registers
<1>. QED  BY <1>2, SliceKeepsInv DEF Resume, Running

\* Which worker is interrupted shows in what it holds.
LEMMA StopInv == ASSUME Inv, stop_interruptible PROVE Inv'
<1>. DEFINE x == [w EXCEPT !.err = "interrupted", !.exact = FALSE]
<1>1. ~ Idle(w) /\ UNCHANGED <<wanted, dialog, overlap>>
  BY DEF stop_interruptible, Running
<1>2. Sound(w) /\ Working(w) /\ w.pc \notin Through
  BY <1>1 DEF Inv, OperationInv, Idle
<1>3. Keeps(w, x)  BY <1>2 DEF Sound, Keeps, Registers
<1>one. /\ "product" \in w.heap \/ "substitution" \in w.heap \/ "decomposition" \in w.heap
        /\ ~ ("product" \in w.heap /\ "substitution" \in w.heap)
        /\ ~ ("product" \in w.heap /\ "decomposition" \in w.heap)
        /\ ~ ("substitution" \in w.heap /\ "decomposition" \in w.heap)
  BY <1>2 DEF Working, Holding, ResultOf
<1>4. \/ "product" \in w.heap /\ Update(EndProduct(x))
      \/ "product" \notin w.heap /\ "substitution" \in w.heap /\ Update(EndSubstitution(x))
      \/ /\ "product" \notin w.heap /\ "substitution" \notin w.heap
         /\ \E y \in EndDecomposition(x) : Update(y)
  BY <1>one DEF stop_interruptible
<1>. HIDE DEF x
<1>5. Sound(x)  BY <1>2, <1>3, KeepsWorking
<1>6. CASE "product" \in w.heap /\ Update(EndProduct(x))
  <2>1. x.op = "mul" /\ Holding(x, {"product", "result"})
    BY <1>2, <1>3, <1>6, KeepsWorking DEF Working, Holding, ResultOf, Keeps
  <2>2. OperationInv(EndProduct(x)) /\ EndProduct(x).op = w.op /\ EndProduct(x).previous = w.previous
    BY <1>3, <1>5, <2>1, ProductEnds DEF Keeps
  <2>. QED  BY <1>1, <1>6, <2>2, UpdateKeepsInv
<1>7. CASE "product" \notin w.heap /\ "substitution" \in w.heap /\ Update(EndSubstitution(x))
  <2>1. x.op \in {"div", "inv"} /\ Holding(x, {"substitution", "a", "perm", "result"})
    BY <1>2, <1>3, <1>7, KeepsWorking DEF Working, Holding, ResultOf, Keeps
  <2>2. /\ OperationInv(EndSubstitution(x))
        /\ EndSubstitution(x).op = w.op /\ EndSubstitution(x).previous = w.previous
    BY <1>3, <1>5, <2>1, SubstitutionEnds DEF Keeps
  <2>. QED  BY <1>1, <1>7, <2>2, UpdateKeepsInv
<1>8. ASSUME "product" \notin w.heap, "substitution" \notin w.heap,
             NEW y \in EndDecomposition(x), Update(y)
      PROVE  Inv'
  <2>1. /\ x.op \in {"div", "inv", "det"}
        /\ Holding(x, {"decomposition", "scale", "a", "perm"} \cup ResultOf(x))
    BY <1>2, <1>3, <1>8, KeepsWorking DEF Working, Holding, ResultOf, Keeps
  <2>2. OperationInv(y) /\ y.op = w.op /\ y.previous = w.previous
    BY <1>3, <1>5, <1>8, <2>1, DecompositionEnds DEF Keeps
  <2>. QED  BY <1>1, <1>8, <2>2, UpdateKeepsInv
<1>. QED  BY <1>4, <1>6, <1>7, <1>8

LEMMA HandleErrorInv == ASSUME Inv, handle_error PROVE Inv'
<1>1. w.pc = "over" /\ w' = Forgotten /\ UNCHANGED <<setting, wanted, dialog, overlap>>
  BY DEF handle_error
<1>2. OperationInv(Forgotten) /\ Forgotten.pc = "idle"
  BY DEF Forgotten, Fresh, OperationInv, Sound, Registers
<1>3. SettingInv'  BY <1>1, <1>2 DEF Inv, SettingInv, Deciding, Idle
<1>4. OperationInv(w')  BY <1>1, <1>2
<1>. QED  BY <1>3, <1>4 DEF Inv, OperationInv, Sound, OverOK, Working, Holding, ResultOf

LEMMA PreferencesInv ==
    ASSUME Inv, OpenPreferences \/ ConfirmPreferences PROVE Inv'
<1>1. w' = w  BY DEF OpenPreferences, ConfirmPreferences
<1>2. OperationInv(w)'
  BY <1>1 DEF Inv, OperationInv, Sound, OverOK, Working, Holding, ResultOf
<1>3. CASE OpenPreferences
  <2>1. SettingInv'
    BY <1>1, <1>3 DEF OpenPreferences, Inv, SettingInv, Deciding, Idle, Running
  <2>. QED  BY <1>2, <2>1 DEF Inv
<1>4. CASE ConfirmPreferences
  <2>1. /\ DOMAIN dialog' = {"up", "checked", "opened"} /\ ~ dialog'.up
        /\ overlap' = (overlap \/ (Running /\ w.op = "det"))
    BY <1>4 DEF ConfirmPreferences, Inv, SettingInv
  <2>2. ASSUME ~ overlap' PROVE setting' = wanted' /\ ~ Deciding(w')
    <3>1. ~ overlap /\ ~ Deciding(w)  BY <2>1, <2>2 DEF Deciding, Running
    <3>2. dialog.checked = wanted
      BY <1>4, <3>1 DEF ConfirmPreferences, Inv, SettingInv
    <3>. QED  BY <1>1, <1>4, <3>1, <3>2 DEF ConfirmPreferences
  <2>3. SettingInv'  BY <1>1, <2>1, <2>2 DEF SettingInv
  <2>. QED  BY <1>2, <2>3 DEF Inv
<1>. QED  BY <1>3, <1>4

LEMMA NextInv == Inv /\ [Next]_vars => Inv'
<1>. SUFFICES ASSUME Inv, [Next]_vars PROVE Inv'
  OBVIOUS
<1>1. CASE UNCHANGED vars
  BY <1>1 DEF vars, Inv, SettingInv, Deciding, Idle,
              OperationInv, Sound, OverOK, Working, Holding, ResultOf
<1>. QED
  BY <1>1, BeginInv, StepInv, SuspendInv, ResumeInv, StopInv, HandleErrorInv, PreferencesInv
     DEF Next

-----------------------------------------------------------------------------
\* Every operation in slices answers the command that began it, whichever of its many ways
\* out it takes: the completion is called once at most, with the error that the operation
\* returns, and it is called for a success (core_linalg1.cc, the completions).
THEOREM CommandIsAnsweredOnce == Spec => []AnsweredOnce
<1>1. Inv => AnsweredOnce
  BY DEF Inv, OperationInv, Working, Decomposition, Substitution, Through, Holding, OverOK,
            AnsweredOnce, Running, Idle
<1>. QED  BY <1>1, InitInv, NextInv, PTL DEF Spec

\* No block is freed twice, and none is left when an operation is over but for the two ways
\* out that are named: the frees are spread over workers, completions and
\* stop_interruptible() (core_linalg1.cc:361, 586).
THEOREM AllocationsAreFreed == Spec => []BlocksFreed
<1>1. Inv => BlocksFreed
  BY DEF Inv, OperationInv, Sound, Working, Decomposition, Substitution, Through, OverOK, BlocksFreed
<1>. QED  BY <1>1, InitInv, NextInv, PTL DEF Spec

\* The setting for singular matrices that DET borrows is the user's again when DET is over,
\* unless the preferences were opened or confirmed in between (core_linalg1.cc:890).
THEOREM SettingComesBack == Spec => []SettingIsKept
<1>1. Inv => SettingIsKept
  BY DEF Inv, SettingInv, SettingIsKept, Deciding
<1>. QED  BY <1>1, InitInv, NextInv, PTL DEF Spec

================================================================================
