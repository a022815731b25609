----------------------------- MODULE MatrixProofs -----------------------------
(***************************************************************************)
(* The index of a matrix under edit stays on one of its elements, matrices *)
(* share arrays and are changed one at a time: for any variables,          *)
(* elements, shapes and memory.                                            *)
(***************************************************************************)
EXTENDS MatrixProps, FiniteSetTheorems, SequenceTheorems, TLAPS

Fields == {"slots", "refs", "data", "mode", "name", "i", "j", "callback", "grow"}

HasShape(v) == IsMatrix(v) => v.rows \in Nat \ {0} /\ v.columns \in Nat \ {0}

Store(m) ==
    /\ DOMAIN m = Fields /\ DOMAIN m.slots = Slots
    /\ \A slot \in Slots : HasShape(m.slots[slot])

IndexOK(m) ==
    /\ m.mode \in 0 .. 3 /\ (m.mode \in {1, 3} => m.name \in Names)
    /\ m.i \in Nat /\ m.j \in Nat
    /\ Interactive(m) => m.callback
    /\ m.mode = 2 => IsMatrix(m.slots["edited"]) /\ m.i < m.slots["edited"].rows
                                                 /\ m.j < m.slots["edited"].columns

Good(m) == Store(m) /\ IndexOK(m)

\* The mode and the index are the same.
SameIndex(m, d) ==
    /\ d.mode = m.mode /\ d.name = m.name /\ d.i = m.i /\ d.j = m.j
    /\ d.callback = m.callback

\* d has the same slots as m, but for a value in one of them.
Differs(m, d, slot, v) ==
    /\ DOMAIN d = Fields /\ DOMAIN d.slots = Slots
    /\ d.slots[slot] = v /\ \A other \in Slots \ {slot} : d.slots[other] = m.slots[other]

\* d has the same slots as m, but for the arrays that matrices refer to.
Alike(m, d) ==
    /\ DOMAIN d = Fields /\ DOMAIN d.slots = Slots /\ SameIndex(m, d)
    /\ \A slot \in Slots :
          /\ IsMatrix(d.slots[slot]) <=> IsMatrix(m.slots[slot])
          /\ IsMatrix(m.slots[slot]) => /\ d.slots[slot].rows = m.slots[slot].rows
                                        /\ d.slots[slot].columns = m.slots[slot].columns

LEMMA NamesAreSlots == Names \subseteq Slots /\ "x" \in Slots /\ "edited" \in Slots
                       /\ "x" \notin Names /\ "edited" \notin Names /\ "x" # "edited"
BY MatrixStoreAssumption DEF Slots

LEMMA AlikeGood == ASSUME NEW m, NEW d, Good(m), Alike(m, d) PROVE Good(d)
BY NamesAreSlots DEF Good, Store, IndexOK, Alike, SameIndex, HasShape, Interactive

LEMMA AlikeSelf == ASSUME NEW m, Good(m) PROVE Alike(m, m)
BY DEF Good, Store, Alike, SameIndex

LEMMA AlikeTransitive ==
    ASSUME NEW m, NEW d, NEW e, Good(m), Alike(m, d), Alike(d, e)
    PROVE  Alike(m, e)
BY DEF Alike, SameIndex

\* A slot but the matrix under edit takes any value of a shape.
LEMMA DiffersGood ==
    ASSUME NEW m, NEW d, Good(m), NEW slot \in Slots \ {"edited"}, NEW v, HasShape(v),
           Differs(m, d, slot, v), SameIndex(m, d)
    PROVE  Good(d)
BY NamesAreSlots DEF Good, Store, IndexOK, Differs, SameIndex, Interactive

-----------------------------------------------------------------------------
\* Reference counts and elements.

LEMMA DupAlike == ASSUME NEW m, Good(m), NEW v PROVE Alike(m, dup_vartype(m, v))
BY DEF Good, Store, Alike, SameIndex, dup_vartype, Fields

LEMMA FreeAlike == ASSUME NEW m, Good(m), NEW v PROVE Alike(m, free_vartype(m, v))
BY DEF Good, Store, Alike, SameIndex, free_vartype, Fields

\* They change no slot.
LEMMA CountsKeepSlots ==
    ASSUME NEW m, Good(m), NEW v
    PROVE  /\ dup_vartype(m, v).slots = m.slots
           /\ free_vartype(m, v).slots = m.slots
BY DEF Good, Store, dup_vartype, free_vartype, Fields

LEMMA DataAlike ==
    ASSUME NEW m, Good(m), NEW data PROVE Alike(m, [m EXCEPT !.data = data])
BY DEF Good, Store, Alike, SameIndex, Fields

LEMMA WithElementAlike ==
    ASSUME NEW m, Good(m), NEW i, NEW j, NEW e PROVE Alike(m, WithElement(m, i, j, e))
BY DEF Good, Store, Alike, SameIndex, WithElement, Fields

LEMMA WithArraySizes ==
    ASSUME NEW m, Good(m), NEW slot \in Slots, NEW rows, NEW columns, NEW elements, NEW new,
           NEW d, d = WithArray(m, slot, rows, columns, elements, new)
    PROVE  SameIndex(m, d) /\ \E array : Differs(m, d, slot, Matrix(rows, columns, array))
<1>1. CASE Shared(m, slot)
  BY <1>1 DEF Good, Store, SameIndex, Differs, WithArray, Fields
<1>2. CASE ~Shared(m, slot)
  BY <1>2 DEF Good, Store, SameIndex, Differs, WithArray, Fields
<1>. QED  BY <1>1, <1>2

LEMMA DisentangleAlike ==
    ASSUME NEW m, Good(m), NEW slot \in Slots, IsMatrix(m.slots[slot]), NEW new
    PROVE  Alike(m, disentangle(m, slot, new))
<1>. DEFINE v == m.slots[slot]
            d == disentangle(m, slot, new)
<1>1. d = WithArray(m, slot, v.rows, v.columns, Contents(m, slot), new)
  BY DEF disentangle
<1>. HIDE DEF d
<1>2. PICK array : Differs(m, d, slot, Matrix(v.rows, v.columns, array))
  BY <1>1, WithArraySizes
<1>3. SameIndex(m, d)  BY <1>1, WithArraySizes
<1>. QED  BY <1>2, <1>3 DEF Alike, Differs, Matrix, IsMatrix, d

\* Any size, for any matrix but one under edit that would lose the element the index is on.
LEMMA WithArrayGood ==
    ASSUME NEW m, Good(m), NEW slot \in Slots,
           NEW rows \in Nat \ {0}, NEW columns \in Nat \ {0}, NEW elements, NEW new,
           m.mode = 2 /\ slot = "edited" => m.i < rows /\ m.j < columns
    PROVE  Good(WithArray(m, slot, rows, columns, elements, new))
<1>. DEFINE d == WithArray(m, slot, rows, columns, elements, new)
<1>1. SameIndex(m, d) /\ \E array : Differs(m, d, slot, Matrix(rows, columns, array))
  BY WithArraySizes
<1>2. PICK array : Differs(m, d, slot, Matrix(rows, columns, array))
  BY <1>1
<1>. DEFINE v == Matrix(rows, columns, array)
<1>3. HasShape(v) /\ IsMatrix(v) /\ v.rows = rows /\ v.columns = columns
  BY DEF HasShape, Matrix, IsMatrix
<1>. HIDE DEF d, v
<1>4. Good(d)
  BY <1>1, <1>2, <1>3, NamesAreSlots DEF Good, Store, IndexOK, Differs, SameIndex, Interactive, v
<1>. QED  BY <1>4 DEF d

LEMMA WithXGood ==
    ASSUME NEW m, Good(m), NEW v, HasShape(v) PROVE Good(WithX(m, v)) /\ SameIndex(m, WithX(m, v))
                                                    /\ Differs(m, WithX(m, v), "x", v)
<1>. DEFINE f == free_vartype(m, m.slots["x"])
            d == [f EXCEPT !.slots["x"] = v]
<1>1. Alike(m, f) /\ f.slots = m.slots  BY FreeAlike, CountsKeepSlots
<1>. HIDE DEF f
<1>2. Differs(m, d, "x", v) /\ SameIndex(m, d)
  BY <1>1, NamesAreSlots DEF Alike, SameIndex, Differs, Fields
<1>3. d = WithX(m, v)  BY DEF WithX, f
<1>. QED  BY <1>2, <1>3, DiffersGood, NamesAreSlots

LEMMA DimensionIsWithArray ==
    ASSUME NEW m, NEW slot, NEW rows, NEW columns, NEW new
    PROVE  \E elements :
              dimension_array_ref(m, slot, rows, columns, new)
                = IF m.slots[slot].rows = rows /\ m.slots[slot].columns = columns THEN m
                  ELSE WithArray(m, slot, rows, columns, elements, new)
<1>. DEFINE kept == Contents(m, slot)
            elements == [k \in 1 .. rows * columns |-> IF k <= Len(kept) THEN kept[k] ELSE Zero]
<1>1. dimension_array_ref(m, slot, rows, columns, new)
        = IF m.slots[slot].rows = rows /\ m.slots[slot].columns = columns THEN m
          ELSE WithArray(m, slot, rows, columns, elements, new)
  BY Zenon DEF dimension_array_ref
<1>. HIDE DEF elements
<1>. QED  BY Zenon, <1>1

-----------------------------------------------------------------------------
\* Commands on elements.

LEMMA TargetIsMatrix ==
    ASSUME NEW m, Good(m), HasMatrix(m)
    PROVE  /\ Target(m) \in Slots /\ IsMatrix(m.slots[Target(m)])
           /\ It(m).rows \in Nat \ {0} /\ It(m).columns \in Nat \ {0}
           /\ It(m) = m.slots[Target(m)]
           /\ m.mode # 2 => Target(m) \in Names
           /\ m.mode = 2 => Target(m) = "edited" /\ m.i < It(m).rows /\ m.j < It(m).columns
BY NamesAreSlots DEF Good, Store, IndexOK, HasMatrix, Target, It, HasShape

\* The index goes to an element.
At(m, i, j) == [m EXCEPT !.i = i, !.j = j]

LEMMA NewIndexGood ==
    ASSUME NEW m, Good(m), NEW i \in Nat, NEW j \in Nat,
           m.mode = 2 => i < It(m).rows /\ j < It(m).columns
    PROVE  Good(At(m, i, j))
BY NamesAreSlots DEF Good, Store, IndexOK, Interactive, It, Target, Fields, At

LEMMA NoMatrixGood == ASSUME NEW m, Good(m) PROVE Good(NoMatrix(m).m)
BY DEF NoMatrix, Error

LEMMA StoelAlike == ASSUME NEW m, Good(m), NEW new PROVE Alike(m, stoel(m, new).m)
<1>. DEFINE d == disentangle(m, Target(m), new)
            e == WithElement(d, m.i, m.j, m.slots["x"].x)
<1>1. CASE ~HasMatrix(m) \/ ~CanOwn(m, Target(m), new)
  BY <1>1, AlikeSelf DEF stoel, NoMatrix, Error
<1>2. CASE HasMatrix(m) /\ CanOwn(m, Target(m), new)
  <2>1. Alike(m, d)  BY <1>2, TargetIsMatrix, DisentangleAlike
  <2>2. stoel(m, new).m = e \/ stoel(m, new).m = d
    BY <1>2 DEF stoel, Error, Done
  <2>. HIDE DEF d
  <2>3. Alike(m, e)  BY <2>1, AlikeGood, WithElementAlike, AlikeTransitive
  <2>. QED  BY <2>1, <2>2, <2>3
<1>. QED  BY <1>1, <1>2

LEMMA StoelGood == ASSUME NEW m, Good(m), NEW new PROVE Good(stoel(m, new).m)
BY StoelAlike, AlikeGood

LEMMA RclelGood == ASSUME NEW m, Good(m) PROVE Good(rclel(m).m)
<1>1. \A e : HasShape(Real(e))  BY DEF HasShape, Real, IsMatrix
<1>. QED  BY <1>1, WithXGood, NoMatrixGood DEF rclel, Done

LEMMA GoneToGood ==
    ASSUME NEW m, Good(m), NEW row \in Nat \ {0}, NEW column \in Nat \ {0}
    PROVE  Good(GoneTo(m, row, column).m)
<1>1. CASE ~HasMatrix(m) \/ row > It(m).rows \/ column > It(m).columns
  BY <1>1, NoMatrixGood DEF GoneTo, Error
<1>2. CASE HasMatrix(m) /\ ~(row > It(m).rows) /\ ~(column > It(m).columns)
  <2>1. /\ row - 1 \in Nat /\ column - 1 \in Nat
        /\ row - 1 < It(m).rows /\ column - 1 < It(m).columns
    BY <1>2, TargetIsMatrix
  <2>2. Good(At(m, row - 1, column - 1))  BY <2>1, NewIndexGood
  <2>. QED  BY <1>2, <2>2 DEF GoneTo, Done, At
<1>. QED  BY <1>1, <1>2

LEMMA StoijGood ==
    ASSUME NEW m, Good(m), NEW row \in Nat \ {0}, NEW column \in Nat \ {0}
    PROVE  Good(stoij(m, row, column).m)
BY GoneToGood DEF stoij, Error

LEMMA GotoGood ==
    ASSUME NEW m, Good(m), NEW row \in Nat \ {0}, NEW column \in Nat \ {0}, NEW new
    PROVE  Good(goto(m, row, column, new).m)
<1>. DEFINE r == stoel(m, new)
            s == GoneTo(r.m, row, column)
<1>1. Good(r.m)  BY StoelGood
<1>2. goto(m, row, column, new) \in {r, s, rclel(s.m)}  BY DEF goto
<1>. HIDE DEF r
<1>3. Good(s.m)  BY <1>1, GoneToGood
<1>. HIDE DEF s
<1>4. Good(rclel(s.m).m)  BY <1>3, RclelGood
<1>. QED  BY <1>1, <1>2, <1>3, <1>4

-----------------------------------------------------------------------------
\* The index moves.

\* Where it goes to lies within the matrix, or in the row that it grows by.
LEMMA PositionInBounds ==
    ASSUME NEW m, Good(m), HasMatrix(m), NEW direction \in Directions
    PROVE  LET p == Position(m, direction)
               rows == It(m).rows + (IF Grows(m, direction) THEN 1 ELSE 0)
           IN  /\ p[1] \in Nat /\ p[2] \in Nat
               /\ m.mode = 2 => p[1] < rows /\ p[2] < It(m).columns
<1>. DEFINE rows == It(m).rows
            columns == It(m).columns
            i == m.i
            j == m.j
<1>1. rows \in Nat \ {0} /\ columns \in Nat \ {0} /\ i \in Nat /\ j \in Nat
  BY TargetIsMatrix DEF Good, IndexOK
<1>2. m.mode = 2 => i < rows /\ j < columns  BY TargetIsMatrix
<1>3. \A k \in Nat, size \in Nat \ {0} :
         /\ Back(k, size) \in Nat /\ Forward(k, size) \in Nat
         /\ k < size => Back(k, size) < size
         /\ Forward(k, size) < size
  BY DEF Back, Forward
<1>4. Grows(m, direction) => direction = "RIGHT"  BY DEF Grows
<1>5. CASE direction = "LEFT"
  BY <1>1, <1>2, <1>3, <1>4, <1>5 DEF Position
<1>6. CASE direction = "RIGHT"
  BY <1>1, <1>2, <1>3, <1>6 DEF Position
<1>7. CASE direction = "UP"
  BY <1>1, <1>2, <1>3, <1>4, <1>7 DEF Position
<1>8. CASE direction = "DOWN"
  BY <1>1, <1>2, <1>3, <1>4, <1>8 DEF Position
<1>. QED  BY <1>5, <1>6, <1>7, <1>8 DEF Directions

\* The matrix has that row once it has grown.
LEMMA GrownAndMoved ==
    ASSUME NEW m, Good(m), HasMatrix(m), NEW direction \in Directions, NEW new
    PROVE  LET p == Position(m, direction)
               d == Grown(m, direction, new)
           IN  Good(d) /\ Good(At(d, p[1], p[2])) /\ SameIndex(m, d)
<1>. DEFINE p == Position(m, direction)
            d == Grown(m, direction, new)
            v == It(m)
<1>. SUFFICES Good(d) /\ Good(At(d, p[1], p[2])) /\ SameIndex(m, d)
  OBVIOUS
<1>1. p[1] \in Nat /\ p[2] \in Nat  BY PositionInBounds
<1>2. CASE ~Grows(m, direction)
  <2>1. d = m  BY <1>2 DEF Grown
  <2>2. m.mode = 2 => p[1] < v.rows /\ p[2] < v.columns
    BY <1>2, PositionInBounds, TargetIsMatrix
  <2>. HIDE DEF p, d
  <2>. QED  BY <1>1, <2>1, <2>2, NewIndexGood DEF SameIndex
<1>3. CASE Grows(m, direction)
  <2>1. PICK elements : d = WithArray(m, Target(m), v.rows + 1, v.columns, elements, new)
    <3>1. d = dimension_array_ref(m, Target(m), v.rows + 1, v.columns, new)
      BY <1>3 DEF Grown
    <3>2. m.slots[Target(m)].rows # v.rows + 1  BY TargetIsMatrix
    <3>3. PICK elements :
             dimension_array_ref(m, Target(m), v.rows + 1, v.columns, new)
               = IF m.slots[Target(m)].rows = v.rows + 1 /\ m.slots[Target(m)].columns = v.columns
                 THEN m ELSE WithArray(m, Target(m), v.rows + 1, v.columns, elements, new)
      BY DimensionIsWithArray
    <3>. HIDE DEF d, v
    <3>. QED  BY Zenon, <3>1, <3>2, <3>3
  <2>2. Good(d)
    BY <2>1, TargetIsMatrix, WithArrayGood DEF Good, IndexOK
  <2>3. PICK array : Differs(m, d, Target(m), Matrix(v.rows + 1, v.columns, array))
    BY <2>1, TargetIsMatrix, WithArraySizes
  <2>4. SameIndex(m, d)  BY <2>1, TargetIsMatrix, WithArraySizes
  <2>5. It(d).rows = v.rows + 1 /\ It(d).columns = v.columns
    BY <2>3, <2>4 DEF It, Target, SameIndex, Differs, Matrix
  <2>6. m.mode = 2 => p[1] < v.rows + 1 /\ p[2] < v.columns
    BY <1>3, PositionInBounds, TargetIsMatrix
  <2>. HIDE DEF p, d
  <2>. QED  BY <1>1, <2>2, <2>4, <2>5, <2>6, NewIndexGood DEF SameIndex
<1>. QED  BY <1>2, <1>3

LEMMA StepGood ==
    ASSUME NEW m, Good(m), NEW direction \in Directions, NEW new
    PROVE  Good(step(m, direction, new).m)
BY NoMatrixGood, GrownAndMoved DEF step, Error, Done, At

\* An arrow stores X in one element and recalls another, on the way.
LEMMA MoveGood ==
    ASSUME NEW m, Good(m), NEW direction \in Directions, NEW new
    PROVE  Good(matedit_move(m, direction, new).m)
<1>. DEFINE p == Position(m, direction)
            u == disentangle(m, Target(m), new)
            d == Grown(u, direction, new)
            w == WithElement(d, m.i, m.j, m.slots["x"].x)
            moved == At(w, p[1], p[2])
            shown == IF Place(It(m), p[1], p[2]) = Place(It(m), m.i, m.j)
                     THEN moved.slots["x"] ELSE Real(Element(d, p[1], p[2]))
            e == [moved EXCEPT !.slots["x"] = shown]
<1>1. CASE ~HasMatrix(m) \/ ~CanOwn(m, Target(m), new)
  BY <1>1, NoMatrixGood DEF matedit_move, Error
<1>2. CASE HasMatrix(m) /\ CanOwn(m, Target(m), new)
  <2>1. matedit_move(m, direction, new).m \in {d, e}
    BY <1>2, Zenon DEF matedit_move, Error, Done, At
  <2>2. Alike(m, u) /\ Good(u)  BY <1>2, TargetIsMatrix, DisentangleAlike, AlikeGood
  <2>3. /\ Target(u) = Target(m) /\ HasMatrix(u)
        /\ It(u).rows = It(m).rows /\ It(u).columns = It(m).columns
    BY <1>2, <2>2, TargetIsMatrix DEF Alike, SameIndex, Target, HasMatrix, It
  <2>4. u.grow = m.grow
    BY DEF Good, Store, disentangle, WithArray, Fields
  <2>. HIDE DEF u
  <2>5. Position(u, direction) = p
    BY <2>2, <2>3, <2>4 DEF Alike, SameIndex, Position, Grows, AtEnd
  <2>. HIDE DEF p
  <2>6. Good(d) /\ Good(At(d, p[1], p[2])) /\ SameIndex(u, d)
    BY <1>2, <2>2, <2>3, <2>5, GrownAndMoved
  <2>. HIDE DEF d
  <2>7. Alike(d, w)  BY <2>6, WithElementAlike
  <2>. HIDE DEF w
  <2>8. Alike(At(d, p[1], p[2]), moved)
    BY <2>6, <2>7 DEF Good, Store, Alike, SameIndex, At, Fields
  <2>9. Good(moved)  BY <2>6, <2>8, AlikeGood
  <2>. HIDE DEF moved
  <2>10. HasShape(shown)
    BY <2>9, NamesAreSlots DEF Good, Store, HasShape, Real, IsMatrix
  <2>. HIDE DEF shown
  <2>11. Differs(moved, e, "x", shown) /\ SameIndex(moved, e)
    BY <2>9, NamesAreSlots DEF Good, Store, Differs, SameIndex, Fields
  <2>. HIDE DEF e
  <2>12. Good(e)  BY <2>9, <2>10, <2>11, DiffersGood, NamesAreSlots
  <2>. QED  BY <2>1, <2>6, <2>12
<1>. QED  BY <1>1, <1>2

-----------------------------------------------------------------------------
\* Rows and parts.

LEMMA RealHasShape == \A e : HasShape(Real(e))
BY DEF HasShape, Real, IsMatrix

LEMMA ElementsAlike ==
    ASSUME NEW m, Good(m), NEW a, NEW elements PROVE Alike(m, [m EXCEPT !.data[a] = elements])
BY DEF Good, Store, Alike, SameIndex, Fields

LEMMA NewArrayAlike ==
    ASSUME NEW m, Good(m), NEW a, NEW elements
    PROVE  Alike(m, [m EXCEPT !.refs[a] = 1, !.data[a] = elements])
BY DEF Good, Store, Alike, SameIndex, Fields

LEMMA ClampedGood ==
    ASSUME NEW m, Good(m), HasMatrix(m)
    PROVE  LET c == Clamped(m)
           IN  /\ Good(c) /\ HasMatrix(c) /\ Target(c) = Target(m) /\ It(c) = It(m)
               /\ c.mode = m.mode
               /\ c.i < It(m).rows /\ c.j < It(m).columns
<1>. DEFINE c == Clamped(m)
            i == IF m.i >= It(m).rows THEN It(m).rows - 1 ELSE m.i
            j == IF m.j >= It(m).columns THEN It(m).columns - 1 ELSE m.j
<1>1. It(m).rows \in Nat \ {0} /\ It(m).columns \in Nat \ {0} /\ m.i \in Nat /\ m.j \in Nat
  BY TargetIsMatrix DEF Good, IndexOK
<1>2. i \in Nat /\ j \in Nat /\ i < It(m).rows /\ j < It(m).columns
  BY <1>1
<1>3. c = At(m, i, j)  BY DEF Good, Store, Clamped, At, Fields
<1>. HIDE DEF i, j, c
<1>4. Good(c)  BY <1>2, <1>3, NewIndexGood
<1>5. /\ c.mode = m.mode /\ c.name = m.name /\ c.slots = m.slots /\ c.i = i /\ c.j = j
  BY <1>3 DEF Good, Store, Fields, At
<1>. QED  BY <1>2, <1>4, <1>5 DEF HasMatrix, Target, It, c

LEMMA InsrGood == ASSUME NEW m, Good(m), NEW new PROVE Good(insr(m, new).m)
<1>. DEFINE r == IF Interactive(m) THEN stoel(m, new) ELSE Done(m)
            c == Clamped(r.m)
            v == It(c)
            longer == Rows(c, 0, c.i - 1) \o [k \in 1 .. v.columns |-> Zero]
                        \o Rows(c, c.i, v.rows - 1)
            d == WithArray(c, Target(c), v.rows + 1, v.columns, longer, new)
            x == WithX(d, Real(Zero))
<1>1. CASE ~HasMatrix(m)
  BY <1>1, NoMatrixGood DEF insr
<1>2. CASE HasMatrix(m)
  <2>1. insr(m, new).m \in {r.m, c, d, x}  BY <1>2, Zenon DEF insr, Error, Done
  <2>. HIDE DEF longer
  <2>2. Alike(m, r.m)  BY StoelAlike, AlikeSelf DEF Done
  <2>. HIDE DEF r
  <2>3. Good(r.m)  BY <2>2, AlikeGood
  <2>4. HasMatrix(r.m)  BY <1>2, <2>2, TargetIsMatrix DEF Alike, SameIndex, HasMatrix, Target
  <2>5. Good(c) /\ HasMatrix(c)  BY <2>3, <2>4, ClampedGood
  <2>. HIDE DEF c
  <2>6. Good(d)
    BY <2>5, TargetIsMatrix, WithArrayGood DEF Good, IndexOK
  <2>. HIDE DEF d
  <2>7. Good(x)  BY <2>6, WithXGood, RealHasShape
  <2>. QED  BY <2>1, <2>3, <2>5, <2>6, <2>7
<1>. QED  BY <1>1, <1>2

LEMMA DelrGood == ASSUME NEW m, Good(m), NEW new PROVE Good(delr(m, new).m)
<1>. DEFINE c == Clamped(m)
            v == It(c)
            last == c.i = v.rows - 1
            shorter == Rows(c, 0, c.i - 1) \o Rows(c, c.i + 1, v.rows - 1)
            w == WithArray(c, Target(c), v.rows - 1, v.columns, shorter, new)
            d == [w EXCEPT !.i = IF last THEN @ - 1 ELSE @]
            x == WithX(d, Real(Element(c, IF last THEN c.i - 1 ELSE c.i + 1, c.j)))
<1>1. CASE ~HasMatrix(m) \/ v.rows = 1
  BY <1>1, NoMatrixGood DEF delr, Error
<1>2. CASE HasMatrix(m) /\ v.rows # 1
  <2>1. delr(m, new).m \in {c, d, x}  BY <1>2, Zenon DEF delr, Error, Done
  <2>. HIDE DEF shorter
  <2>2. Good(c) /\ HasMatrix(c) /\ c.i < v.rows /\ c.j < v.columns
    BY <1>2, ClampedGood
  <2>. HIDE DEF c
  <2>3. /\ v.rows \in Nat \ {0, 1} /\ v.columns \in Nat \ {0} /\ c.i \in Nat /\ c.j \in Nat
        /\ Target(c) \in Slots /\ IsMatrix(c.slots[Target(c)]) /\ v = c.slots[Target(c)]
    BY <1>2, <2>2, TargetIsMatrix DEF Good, IndexOK
  <2>4. SameIndex(c, w) /\ \E array : Differs(c, w, Target(c), Matrix(v.rows - 1, v.columns, array))
    BY <2>2, <2>3, WithArraySizes
  <2>5. PICK array : Differs(c, w, Target(c), Matrix(v.rows - 1, v.columns, array))
    BY <2>4
  <2>. DEFINE new_v == Matrix(v.rows - 1, v.columns, array)
  <2>6. IsMatrix(new_v) /\ HasShape(new_v) /\ new_v.rows = v.rows - 1 /\ new_v.columns = v.columns
    BY <2>3 DEF IsMatrix, HasShape, Matrix
  <2>. HIDE DEF new_v, w
  <2>7. /\ DOMAIN d = Fields /\ d.slots = w.slots /\ d.j = c.j
        /\ d.i = IF last THEN c.i - 1 ELSE c.i
        /\ d.mode = c.mode /\ d.name = c.name /\ d.callback = c.callback
    BY <2>4, <2>5 DEF Differs, SameIndex, Fields
  <2>8. Differs(c, d, Target(c), new_v)
    BY <2>5, <2>7 DEF Differs, new_v
  <2>9. d.i \in Nat /\ d.i < v.rows - 1
    BY <2>2, <2>3, <2>7
  <2>. HIDE DEF d
  <2>10. Store(d)  BY <2>2, <2>3, <2>6, <2>8 DEF Good, Store, Differs
  <2>11. c.mode = 2 => d.slots["edited"] = new_v
    BY <2>8 DEF Differs, Target
  <2>12. IndexOK(d)
    BY <2>2, <2>3, <2>6, <2>7, <2>9, <2>11 DEF Good, IndexOK, Interactive
  <2>13. Good(x)  BY <2>10, <2>12, WithXGood, RealHasShape DEF Good
  <2>. QED  BY <2>1, <2>2, <2>10, <2>12, <2>13 DEF Good
<1>. QED  BY <1>1, <1>2

LEMMA GetmGood ==
    ASSUME NEW m, Good(m), NEW rows \in Nat \ {0}, NEW columns \in Nat \ {0}, NEW new
    PROVE  Good(getm(m, rows, columns, new).m)
<1>. DEFINE part == [k \in 1 .. rows * columns |->
                        Element(m, m.i + ((k - 1) \div columns), m.j + ((k - 1) % columns))]
            w == WithX(m, Matrix(rows, columns, new))
            d == [w EXCEPT !.refs[new] = 1, !.data[new] = part]
<1>1. getm(m, rows, columns, new).m \in {NoMatrix(m).m, m, d}
  BY Zenon DEF getm, Error, Done
<1>. HIDE DEF part
<1>2. HasShape(Matrix(rows, columns, new))  BY DEF HasShape, Matrix
<1>3. Good(w)  BY <1>2, WithXGood
<1>. HIDE DEF w
<1>4. Good(d)  BY <1>3, NewArrayAlike, AlikeGood
<1>. QED  BY <1>1, <1>4, NoMatrixGood

\* The elements are changed in the array, once it is the matrix's own.
LEMMA PutGood ==
    ASSUME NEW m, Good(m), HasMatrix(m), NEW new, NEW elements
    PROVE  LET d == disentangle(m, Target(m), new)
           IN  Good([d EXCEPT !.data[It(d).array] = elements])
<1>. DEFINE d == disentangle(m, Target(m), new)
<1>1. Good(d)  BY TargetIsMatrix, DisentangleAlike, AlikeGood
<1>. HIDE DEF d
<1>2. Good([d EXCEPT !.data[It(d).array] = elements])  BY <1>1, ElementsAlike, AlikeGood
<1>. QED  BY <1>2 DEF d

LEMMA PutmGood == ASSUME NEW m, Good(m), NEW new PROVE Good(putm(m, new).m)
<1>. DEFINE v == It(m)
            x == m.slots["x"]
            d == disentangle(m, Target(m), new)
            Put(k) ==
                LET i == ((k - 1) \div v.columns) - m.i
                    j == ((k - 1) % v.columns) - m.j
                IN  IF i \in 0 .. x.rows - 1 /\ j \in 0 .. x.columns - 1
                    THEN Contents(m, "x")[Place(x, i, j)] ELSE Contents(m, Target(m))[k]
            elements == [k \in 1 .. Size(v) |-> Put(k)]
            e == [d EXCEPT !.data[It(d).array] = elements]
<1>1. IF HasMatrix(m) THEN putm(m, new).m \in {m, e} ELSE putm(m, new).m = NoMatrix(m).m
  BY Zenon DEF putm, Error, Done
<1>. HIDE DEF elements
<1>2. HasMatrix(m) => Good(e)  BY PutGood
<1>. HIDE DEF e
<1>. QED  BY <1>1, <1>2, NoMatrixGood

LEMMA SwapGood ==
    ASSUME NEW m, Good(m), NEW r1, NEW r2, NEW new PROVE Good(swap_r(m, r1, r2, new).m)
<1>. DEFINE v == It(m)
            d == disentangle(m, Target(m), new)
            From(row) == IF row = r1 THEN r2 ELSE IF row = r2 THEN r1 ELSE row
            Swapped(k) == Element(m, From((k - 1) \div v.columns), (k - 1) % v.columns)
            elements == [k \in 1 .. Size(v) |-> Swapped(k)]
            e == [d EXCEPT !.data[It(d).array] = elements]
<1>1. IF HasMatrix(m) THEN swap_r(m, r1, r2, new).m \in {m, e}
      ELSE swap_r(m, r1, r2, new).m = NoMatrix(m).m
  BY Zenon DEF swap_r, Error, Done
<1>. HIDE DEF elements
<1>2. HasMatrix(m) => Good(e)  BY PutGood
<1>. HIDE DEF e
<1>. QED  BY <1>1, <1>2, NoMatrixGood

-----------------------------------------------------------------------------
\* Into the editor and out of it.

Left(m) == [m EXCEPT !.mode = 0, !.grow = FALSE, !.callback = FALSE]

\* Out of the editor any store will do.
LEMMA LeftGood ==
    ASSUME NEW m, Store(m), m.i \in Nat, m.j \in Nat PROVE Good(Left(m))
BY DEF Good, Store, IndexOK, Interactive, Left, Fields

LEMMA LeaveGood == ASSUME NEW m, Good(m), NEW new PROVE Good(leave(m, new).m)
<1>. DEFINE r == stoel(m, new)
            f == free_vartype(r.m, r.m.slots["x"])
            back == [f EXCEPT !.slots["x"] = r.m.slots["edited"], !.slots["edited"] = None]
<1>1. leave(m, new).m \in {m, r.m, Left(back), Left(r.m)}
  BY Zenon DEF leave, Done, Left
<1>2. Good(r.m)  BY StoelGood
<1>. HIDE DEF r
<1>3. Good(f)  BY <1>2, FreeAlike, AlikeGood
<1>. HIDE DEF f
<1>4. Store(back) /\ back.i = f.i /\ back.j = f.j
  BY <1>2, <1>3, NamesAreSlots DEF Good, Store, HasShape, None, IsMatrix, Fields
<1>. HIDE DEF back
<1>5. Good(Left(back)) /\ Good(Left(r.m))
  BY <1>2, <1>3, <1>4, LeftGood DEF Good, IndexOK
<1>. QED  BY <1>1, <1>2, <1>5

LEMMA FinishGood == ASSUME NEW m, Good(m), NEW new PROVE Good(finish_edit(m, new).m)
BY LeaveGood DEF finish_edit, Done

LEMMA EditGood == ASSUME NEW m, Good(m), NEW new PROVE Good(edit(m, new).m)
<1>. DEFINE r == finish_edit(m, new)
            x == r.m.slots["x"]
            d == [Opened(r.m, 2, x) EXCEPT !.slots["edited"] = x]
<1>1. edit(m, new).m = r.m \/ (IsMatrix(x) /\ edit(m, new).m = d)
  BY Zenon DEF edit, Error, Done
<1>2. Good(r.m)  BY FinishGood
<1>. HIDE DEF r
<1>3. CASE IsMatrix(x)
  <2>1. HasShape(x) /\ x.rows > 0 /\ x.columns > 0
    BY <1>2, <1>3, NamesAreSlots DEF Good, Store, HasShape
  <2>. DEFINE e == Real(r.m.data[x.array][1])
  <2>2. d = [r.m EXCEPT !.mode = 2, !.grow = FALSE, !.i = 0, !.j = 0, !.callback = TRUE,
                        !.slots["x"] = e, !.slots["edited"] = x]
    BY <1>2 DEF Opened, Good, Store, Fields
  <2>3. HasShape(e)  BY RealHasShape
  <2>. HIDE DEF e, d
  <2>4. /\ DOMAIN d = Fields /\ DOMAIN d.slots = Slots
        /\ d.slots["x"] = e /\ d.slots["edited"] = x
        /\ \A slot \in Slots \ {"x", "edited"} : d.slots[slot] = r.m.slots[slot]
        /\ d.mode = 2 /\ d.i = 0 /\ d.j = 0 /\ d.callback = TRUE
    BY <1>2, <2>2, NamesAreSlots DEF Good, Store, Fields
  <2>. HIDE DEF x
  <2>5. Good(d)  BY <1>2, <1>3, <2>1, <2>3, <2>4 DEF Good, Store, IndexOK
  <2>. QED  BY <1>1, <1>2, <2>5
<1>. QED  BY <1>1, <1>2, <1>3

LEMMA EditnGood ==
    ASSUME NEW m, Good(m), NEW name \in Names, NEW new PROVE Good(editn(m, name, new).m)
<1>. DEFINE r == finish_edit(m, new)
            v == r.m.slots[name]
            f == free_vartype(r.m, r.m.slots["x"])
            e == Real(f.data[v.array][1])
            d == [Opened(f, 3, v) EXCEPT !.name = name]
<1>1. editn(m, name, new).m = r.m \/ editn(m, name, new).m = d
  BY Zenon DEF editn, Error, Done
<1>2. Good(r.m)  BY FinishGood
<1>. HIDE DEF r
<1>3. Good(f)  BY <1>2, FreeAlike, AlikeGood
<1>. HIDE DEF f, v
<1>4. /\ Differs(f, d, "x", e)
      /\ d.mode = 3 /\ d.name = name /\ d.i = 0 /\ d.j = 0 /\ d.callback = TRUE
  BY <1>3, NamesAreSlots DEF Good, Store, Opened, Differs, Fields
<1>5. HasShape(e)  BY RealHasShape
<1>. HIDE DEF d, e
<1>6. Good(d)
  BY <1>3, <1>4, <1>5, NamesAreSlots DEF Good, Store, IndexOK, Differs
<1>. QED  BY <1>1, <1>2, <1>6

LEMMA IndexGood == ASSUME NEW m, Good(m), NEW name \in Names PROVE Good(index(m, name).m)
<1>. DEFINE d == [m EXCEPT !.mode = 1, !.i = 0, !.j = 0, !.name = name]
<1>1. index(m, name).m \in {m, d}  BY Zenon DEF index, Error, Done
<1>2. Good(d)  BY DEF Good, Store, IndexOK, Interactive, Fields
<1>. QED  BY <1>1, <1>2

-----------------------------------------------------------------------------
\* Variables.

\* A store resets an index, of the wrong matrix perhaps; that leaves it on the first
\* element of the matrix under edit, or leaves the editor.
LEMMA StoreVarGood ==
    ASSUME NEW m, Good(m), NEW name \in Names, NEW v, HasShape(v)
    PROVE  Good(store_var(m, name, v))
<1>. DEFINE f == free_vartype(m, m.slots[name])
            e == [f EXCEPT !.slots[name] = v]
            reset == At(e, 0, 0)
            off == [e EXCEPT !.mode = 0]
<1>1. store_var(m, name, v) \in {e, reset, off}  BY Zenon DEF store_var, At
<1>2. Good(f)  BY FreeAlike, AlikeGood
<1>. HIDE DEF f
<1>3. Differs(f, e, name, v) /\ SameIndex(f, e)
  BY <1>2, NamesAreSlots DEF Good, Store, Differs, SameIndex, Fields
<1>. HIDE DEF e
<1>4. Good(e)  BY <1>2, <1>3, NamesAreSlots, DiffersGood
<1>5. e.mode = 2 => 0 < It(e).rows /\ 0 < It(e).columns
  BY <1>4, NamesAreSlots DEF Good, Store, IndexOK, HasShape, It, Target
<1>6. Good(reset)  BY <1>4, <1>5, NewIndexGood
<1>7. Good(off)  BY <1>4 DEF Good, Store, IndexOK, Interactive, Fields
<1>. QED  BY <1>1, <1>4, <1>6, <1>7

LEMMA StoGood == ASSUME NEW m, Good(m), NEW name \in Names PROVE Good(sto(m, name).m)
<1>. DEFINE x == m.slots["x"]
            d == dup_vartype(m, x)
<1>1. sto(m, name).m \in {m, store_var(d, name, x)}  BY Zenon DEF sto, Error, Done
<1>2. Good(d) /\ HasShape(x)
  BY DupAlike, AlikeGood, NamesAreSlots DEF Good, Store
<1>. HIDE DEF d, x
<1>. QED  BY <1>1, <1>2, StoreVarGood

LEMMA RclGood == ASSUME NEW m, Good(m), NEW name \in Names PROVE Good(rcl(m, name).m)
<1>. DEFINE v == m.slots[name]
            d == dup_vartype(m, v)
<1>1. rcl(m, name).m \in {m, WithX(d, v)}  BY Zenon DEF rcl, Error, Done
<1>2. Good(d) /\ HasShape(v)
  BY DupAlike, AlikeGood, NamesAreSlots DEF Good, Store
<1>. HIDE DEF d, v
<1>. QED  BY <1>1, <1>2, WithXGood

LEMMA ClvGood == ASSUME NEW m, Good(m), NEW name \in Names PROVE Good(clv(m, name).m)
<1>. DEFINE f == free_vartype(m, m.slots[name])
            d == [f EXCEPT !.slots[name] = None]
<1>1. clv(m, name).m \in {m, d}  BY Zenon DEF clv, purge_var, Error, Done
<1>2. Good(f)  BY FreeAlike, AlikeGood
<1>. HIDE DEF f
<1>3. Differs(f, d, name, None) /\ SameIndex(f, d) /\ HasShape(None)
  BY <1>2, NamesAreSlots DEF Good, Store, Differs, SameIndex, Fields, HasShape, None, IsMatrix
<1>. HIDE DEF d
<1>4. Good(d)  BY <1>2, <1>3, NamesAreSlots, DiffersGood
<1>. QED  BY <1>1, <1>4

LEMMA DimGood ==
    ASSUME NEW m, Good(m), NEW name \in Names,
           NEW rows \in Nat \ {0}, NEW columns \in Nat \ {0}, NEW new
    PROVE  Good(dim(m, name, rows, columns, new).m)
<1>. DEFINE zeros == [k \in 1 .. rows * columns |-> Zero]
            a == [m EXCEPT !.refs[new] = 1, !.data[new] = zeros]
            v == Matrix(rows, columns, new)
            d == dimension_array_ref(m, name, rows, columns, new)
<1>1. dim(m, name, rows, columns, new).m \in {m, store_var(a, name, v), d}
  BY Zenon DEF dim, Error, Done
<1>. HIDE DEF zeros
<1>2. Good(a)  BY NewArrayAlike, AlikeGood
<1>3. HasShape(v)  BY DEF HasShape, Matrix
<1>. HIDE DEF a, v
<1>4. Good(store_var(a, name, v))  BY <1>2, <1>3, StoreVarGood
<1>5. PICK elements :
         d = IF m.slots[name].rows = rows /\ m.slots[name].columns = columns THEN m
             ELSE WithArray(m, name, rows, columns, elements, new)
  BY DimensionIsWithArray
<1>6. Good(WithArray(m, name, rows, columns, elements, new))
  BY WithArrayGood, NamesAreSlots
<1>7. Good(d)  BY <1>5, <1>6
<1>. QED  BY <1>1, <1>4, <1>7

LEMMA CallFnGood ==
    ASSUME NEW m, Good(m), NEW name \in Names, NEW e PROVE Good(call_fn(m, name, e))
<1>. DEFINE d == [m EXCEPT !.slots[name] = Real(e)]
<1>1. call_fn(m, name, e) \in {d, store_var(m, name, Real(e))}  BY Zenon DEF call_fn
<1>2. HasShape(Real(e))  BY RealHasShape
<1>3. Differs(m, d, name, Real(e)) /\ SameIndex(m, d)
  BY NamesAreSlots DEF Good, Store, Differs, SameIndex, Fields
<1>. HIDE DEF d
<1>4. Good(d)  BY <1>2, <1>3, NamesAreSlots, DiffersGood
<1>. QED  BY <1>1, <1>2, <1>4, StoreVarGood

LEMMA ClallGood == ASSUME NEW m, Good(m), NEW new PROVE Good(clall(m, new).m)
<1>. DEFINE x == WithX(m, Real(Zero))
            l == leave(x, new).m
            d == purge_all_vars(l)
<1>1. clall(m, new).m = d  BY DEF clall, Done
<1>2. Good(x)  BY WithXGood, RealHasShape
<1>. HIDE DEF x
<1>3. Good(l)  BY <1>2, LeaveGood
<1>. HIDE DEF l
<1>4. /\ DOMAIN d = Fields /\ SameIndex(l, d)
      /\ d.slots = [slot \in Slots |-> IF slot \in Names THEN None ELSE l.slots[slot]]
  BY <1>3 DEF Good, Store, purge_all_vars, SameIndex, Fields
<1>5. HasShape(None)  BY DEF HasShape, None, IsMatrix
<1>. HIDE DEF d
<1>6. Good(d)
  BY <1>3, <1>4, <1>5, NamesAreSlots DEF Good, Store, IndexOK, SameIndex, Interactive
<1>. QED  BY <1>1, <1>6

-----------------------------------------------------------------------------
\* The invariant.

LEMMA InitGood == ASSUME Init PROVE Good(store)
BY NamesAreSlots, RealHasShape
   DEF Init, Good, Store, IndexOK, Interactive, Fields, HasShape, None, IsMatrix

LEMMA StepKeepsGood == ASSUME Good(store), [Next]_vars PROVE Good(store)'
<1>. SUFFICES Good(store')
  BY DEF Good, Store, IndexOK, HasShape, IsMatrix, Interactive
<1>0. \A s \in Shapes : s[1] \in Nat \ {0} /\ s[2] \in Nat \ {0}
  BY MatrixEditorAssumption
<1>1. CASE StoreElement  BY <1>1, StoelGood DEF StoreElement, Command
<1>2. CASE RecallElement  BY <1>2, RclelGood DEF RecallElement, Command
<1>3. CASE StoreIJ  BY <1>0, <1>3, StoijGood DEF StoreIJ, Command
<1>4. CASE GoTo  BY <1>0, <1>4, GotoGood DEF GoTo, Command
<1>5. CASE Step  BY <1>5, StepGood DEF Step, Command
<1>6. CASE Move  BY <1>6, MoveGood DEF Move, Command
<1>7. CASE InsertRow  BY <1>7, InsrGood DEF InsertRow, Command
<1>8. CASE DeleteRow  BY <1>8, DelrGood DEF DeleteRow, Command
<1>9. CASE GetMatrix  BY <1>0, <1>9, GetmGood DEF GetMatrix, Command
<1>10. CASE PutMatrix  BY <1>10, PutmGood DEF PutMatrix, Command
<1>11. CASE SwapRows  BY <1>11, SwapGood DEF SwapRows, Command
<1>12. CASE Edit  BY <1>12, EditGood DEF Edit, Command
<1>13. CASE EditNamed  BY <1>13, EditnGood DEF EditNamed, Command
<1>14. CASE Index  BY <1>14, IndexGood DEF Index, Command
<1>15. CASE Leave  BY <1>15, LeaveGood DEF Leave, Command
<1>16. CASE Grow
  BY <1>16 DEF Grow, Good, Store, IndexOK, Interactive, Fields
<1>17. CASE Sto  BY <1>17, StoGood DEF Sto, Command
<1>18. CASE Rcl  BY <1>18, RclGood DEF Rcl, Command
<1>19. CASE Clv  BY <1>19, ClvGood DEF Clv, Command
<1>20. CASE Dim  BY <1>0, <1>20, DimGood DEF Dim, Command
<1>21. CASE CallFn  BY <1>21, CallFnGood DEF CallFn
<1>22. CASE Type  BY <1>22, WithXGood, RealHasShape DEF Type
<1>23. CASE ClearAll  BY <1>23, ClallGood DEF ClearAll, Command
<1>24. CASE UNCHANGED vars  BY <1>24 DEF vars
<1>. QED
  BY <1>1, <1>2, <1>3, <1>4, <1>5, <1>6, <1>7, <1>8, <1>9, <1>10, <1>11, <1>12, <1>13,
     <1>14, <1>15, <1>16, <1>17, <1>18, <1>19, <1>20, <1>21, <1>22, <1>23, <1>24 DEF Next

\* The matrix under edit always has the exit callback that puts it back, and its
\* index is on one of its elements, whatever is stored, resized, deleted or copied
\* and whether or not there was memory for it: every command uses the index
\* without looking (core_commands3.cc:858, core_commands4.cc:752).
THEOREM EditedIndexStaysInBounds == Spec => []EditedIndexInBounds
<1>1. Init => Good(store)  BY InitGood
<1>2. Good(store) /\ [Next]_vars => Good(store)'  BY StepKeepsGood
<1>3. Good(store) => EditedIndexInBounds
  BY DEF Good, IndexOK, EditedIndexInBounds, Indexed, It, Target
<1>. QED  BY <1>1, <1>2, <1>3, PTL DEF Spec

-----------------------------------------------------------------------------
\* Matrices share arrays.

Holds(v, a) == IsMatrix(v) /\ v.array = a
HoldersIn(m, a) == {slot \in Slots : Holds(m.slots[slot], a)}
Held(v, a) == IF Holds(v, a) THEN 1 ELSE 0

\* s has n elements.
ArrayOf(s, n) == n \in Nat /\ DOMAIN s = 1 .. n /\ s = [k \in 1 .. n |-> s[k]]

\* Each matrix has an array of its size, and each array a reference for every matrix that
\* shares it, of which there are finitely many even where there are infinitely many names.
Counted(m) ==
    /\ DOMAIN m = Fields /\ DOMAIN m.slots = Slots
    /\ DOMAIN m.refs = Arrays /\ DOMAIN m.data = Arrays
    /\ \A slot \in Slots : LET v == m.slots[slot] IN
          IsMatrix(v) => v.array \in Arrays /\ ArrayOf(m.data[v.array], Size(v))
    /\ \A a \in Arrays : /\ m.refs[a] \in Nat
                         /\ IsFiniteSet(HoldersIn(m, a))
                         /\ Cardinality(HoldersIn(m, a)) <= m.refs[a]

\* What a slot shows.
Shown(m, slot) ==
    LET v == m.slots[slot]
    IN  IF IsMatrix(v) THEN <<v.rows, v.columns, m.data[v.array]>> ELSE <<v>>
Same(m, d, slot) == Shown(d, slot) = Shown(m, slot)
Only(m, d, S) == \A slot \in Slots \ S : Same(m, d, slot)

\* There is a reference to the array of v that nothing has yet.
Spare(m, v) ==
    IsMatrix(v) => /\ v.array \in Arrays /\ ArrayOf(m.data[v.array], Size(v))
                   /\ Cardinality(HoldersIn(m, v.array)) < m.refs[v.array]

LEMMA ArrayLength == ASSUME NEW s, NEW n, ArrayOf(s, n) PROVE Len(s) = n
<1>. DEFINE V == {s[k] : k \in 1 .. n}
<1>1. s \in [1 .. n -> V] /\ n \in Nat  BY DEF ArrayOf
<1>. HIDE DEF V
<1>2. s \in Seq(V)  BY <1>1, SeqDef
<1>3. Len(s) \in Nat /\ DOMAIN s = 1 .. Len(s)  BY <1>2, LenProperties
<1>4. 1 .. n = 1 .. Len(s)  BY <1>3 DEF ArrayOf
<1>. QED  BY <1>1, <1>3, <1>4

LEMMA ExceptIsArray ==
    ASSUME NEW s, NEW n, ArrayOf(s, n), NEW k, NEW e PROVE ArrayOf([s EXCEPT ![k] = e], n)
BY DEF ArrayOf

-----------------------------------------------------------------------------
\* Holders.

LEMMA HoldersAfter ==
    ASSUME NEW m, NEW d, NEW slot \in Slots, NEW v, NEW a, DOMAIN m.slots = Slots,
           d.slots = [m.slots EXCEPT ![slot] = v], IsFiniteSet(HoldersIn(m, a))
    PROVE  /\ IsFiniteSet(HoldersIn(d, a))
           /\ Cardinality(HoldersIn(d, a))
                = Cardinality(HoldersIn(m, a)) - Held(m.slots[slot], a) + Held(v, a)
<1>. DEFINE H == HoldersIn(m, a)
            G == H \ {slot}
<1>1. Cardinality(H) \in Nat  BY FS_CardinalityType
<1>2. slot \in H <=> Holds(m.slots[slot], a)  BY DEF HoldersIn
<1>3. HoldersIn(d, a) = IF Holds(v, a) THEN G \cup {slot} ELSE G
  BY DEF HoldersIn
<1>. HIDE DEF H
<1>4. /\ IsFiniteSet(G)
      /\ Cardinality(G) = IF slot \in H THEN Cardinality(H) - 1 ELSE Cardinality(H)
  BY FS_RemoveElement DEF H
<1>5. IsFiniteSet(G \cup {slot}) /\ Cardinality(G \cup {slot}) = Cardinality(G) + 1
  BY <1>4, FS_AddElement
<1>6. IsFiniteSet(HoldersIn(d, a))  BY <1>3, <1>4, <1>5
<1>7. Cardinality(HoldersIn(d, a)) = Cardinality(G) + Held(v, a)
  BY <1>1, <1>3, <1>4, <1>5 DEF Held
<1>8. Cardinality(G) = Cardinality(H) - Held(m.slots[slot], a)
  BY <1>1, <1>2, <1>4 DEF Held
<1>. QED  BY <1>6, <1>7, <1>8 DEF H

LEMMA HoldersCounted ==
    ASSUME NEW m, Counted(m), NEW a \in Arrays
    PROVE  /\ Cardinality(HoldersIn(m, a)) \in Nat
           /\ \A slot \in Slots : Held(m.slots[slot], a) <= Cardinality(HoldersIn(m, a))
           /\ Cardinality(HoldersIn(m, a)) = 0 => HoldersIn(m, a) = {}
           /\ HoldersIn(m, a) = {} => Cardinality(HoldersIn(m, a)) = 0
<1>1. IsFiniteSet(HoldersIn(m, a))  BY DEF Counted
<1>2. Cardinality(HoldersIn(m, a)) \in Nat  BY <1>1, FS_CardinalityType
<1>3. Cardinality(HoldersIn(m, a)) = 0 <=> HoldersIn(m, a) = {}  BY <1>1, FS_EmptySet
<1>4. ASSUME NEW slot \in Slots PROVE Held(m.slots[slot], a) <= Cardinality(HoldersIn(m, a))
  <2>1. Holds(m.slots[slot], a) => HoldersIn(m, a) # {}  BY DEF HoldersIn
  <2>. QED  BY <1>2, <1>3, <2>1 DEF Held
<1>. QED  BY <1>2, <1>3, <1>4

LEMMA NothingHoldsFree ==
    ASSUME NEW m, Counted(m), NEW a \in Free(m)
    PROVE  /\ a \in Arrays /\ m.refs[a] = 0 /\ Cardinality(HoldersIn(m, a)) = 0
           /\ \A slot \in Slots : ~ Holds(m.slots[slot], a)
<1>1. a \in Arrays /\ m.refs[a] = 0  BY DEF Free
<1>2. Cardinality(HoldersIn(m, a)) = 0  BY <1>1, HoldersCounted DEF Counted
<1>3. HoldersIn(m, a) = {}  BY <1>1, <1>2, HoldersCounted
<1>. QED  BY <1>1, <1>2, <1>3 DEF HoldersIn

LEMMA ItHasAReference ==
    ASSUME NEW m, Counted(m), NEW slot \in Slots, IsMatrix(m.slots[slot])
    PROVE  LET a == m.slots[slot].array
           IN  /\ a \in Arrays /\ m.refs[a] \in Nat \ {0} /\ ArrayOf(m.data[a], Size(m.slots[slot]))
               /\ m.refs[a] = 1 => \A other \in Slots \ {slot} : ~ Holds(m.slots[other], a)
<1>. DEFINE a == m.slots[slot].array
            H == HoldersIn(m, a)
<1>1. /\ a \in Arrays /\ m.refs[a] \in Nat /\ ArrayOf(m.data[a], Size(m.slots[slot]))
      /\ IsFiniteSet(H) /\ Cardinality(H) <= m.refs[a]
  BY DEF Counted
<1>2. slot \in H  BY DEF HoldersIn, Holds
<1>3. \A other \in Slots \ {slot} : Holds(m.slots[other], a) => other \in H
  BY DEF HoldersIn
<1>. HIDE DEF a, H
<1>4. Cardinality(H) \in Nat \ {0}
  BY <1>1, <1>2, FS_EmptySet, FS_CardinalityType
<1>5. Cardinality(H) = 1 => \A other : other \in H => other = slot
  BY <1>1, <1>2, FS_Singleton
<1>6. m.refs[a] = 1 => Cardinality(H) = 1  BY <1>1, <1>4
<1>. QED  BY <1>1, <1>3, <1>4, <1>5, <1>6 DEF a

-----------------------------------------------------------------------------
\* One slot gets another value, with what that takes of references and elements.
LEMMA SlotChanges ==
    ASSUME NEW m, Counted(m), NEW slot \in Slots, NEW v, NEW d,
           DOMAIN d = Fields, d.slots = [m.slots EXCEPT ![slot] = v],
           DOMAIN d.refs = Arrays, DOMAIN d.data = Arrays,
           \A a \in Arrays :
              /\ d.refs[a] \in Nat
              /\ Cardinality(HoldersIn(m, a)) - Held(m.slots[slot], a) + Held(v, a) <= d.refs[a]
              /\ (\E other \in Slots \ {slot} : Holds(m.slots[other], a))
                   => d.data[a] = m.data[a],
           IsMatrix(v) => v.array \in Arrays /\ ArrayOf(d.data[v.array], Size(v))
    PROVE  Counted(d) /\ Only(m, d, {slot})
<1>1. DOMAIN d.slots = Slots /\ d.slots[slot] = v
      /\ \A other \in Slots \ {slot} : d.slots[other] = m.slots[other]
  BY DEF Counted
<1>2. ASSUME NEW a \in Arrays
      PROVE  /\ IsFiniteSet(HoldersIn(d, a))
             /\ Cardinality(HoldersIn(d, a)) <= d.refs[a]
  <2>1. DOMAIN m.slots = Slots /\ IsFiniteSet(HoldersIn(m, a))  BY DEF Counted
  <2>2. /\ IsFiniteSet(HoldersIn(d, a))
        /\ Cardinality(HoldersIn(d, a))
             = Cardinality(HoldersIn(m, a)) - Held(m.slots[slot], a) + Held(v, a)
    BY <2>1, HoldersAfter
  <2>. QED  BY <2>2
<1>3. ASSUME NEW other \in Slots \ {slot}, IsMatrix(m.slots[other])
      PROVE  d.data[m.slots[other].array] = m.data[m.slots[other].array]
  BY <1>3 DEF Holds, Counted
<1>4. \A other \in Slots : LET u == d.slots[other] IN
          IsMatrix(u) => u.array \in Arrays /\ ArrayOf(d.data[u.array], Size(u))
  BY <1>1, <1>3 DEF Counted
<1>5. Only(m, d, {slot})  BY <1>1, <1>3 DEF Only, Same, Shown
<1>. QED  BY <1>1, <1>2, <1>4, <1>5 DEF Counted

\* Nothing but the index and the like changes.
LEMMA IndexChanges ==
    ASSUME NEW m, Counted(m), NEW d, DOMAIN d = Fields,
           d.slots = m.slots, d.refs = m.refs, d.data = m.data
    PROVE  Counted(d) /\ Only(m, d, {}) /\ \A a : HoldersIn(d, a) = HoldersIn(m, a)
<1>1. \A a : HoldersIn(d, a) = HoldersIn(m, a)  BY DEF HoldersIn
<1>. QED  BY <1>1 DEF Counted, Only, Same, Shown

LEMMA OnlyGrows ==
    ASSUME NEW m, NEW d, NEW S, NEW T, S \subseteq T, Only(m, d, S) PROVE Only(m, d, T)
BY DEF Only

LEMMA OnlyThen ==
    ASSUME NEW m, NEW d, NEW e, NEW S, NEW T, Only(m, d, S), Only(d, e, T)
    PROVE  Only(m, e, S \cup T)
BY DEF Only, Same

-----------------------------------------------------------------------------
\* References come and go.

LEMMA FreeFields ==
    ASSUME NEW m, Counted(m), NEW slot \in Slots
    PROVE  LET v == m.slots[slot]
               f == free_vartype(m, v)
           IN  /\ DOMAIN f = Fields /\ f.slots = m.slots
               /\ DOMAIN f.refs = Arrays /\ DOMAIN f.data = Arrays
               /\ \A a \in Arrays :
                     /\ f.refs[a] = m.refs[a] - Held(v, a)
                     /\ f.data[a] = IF Holds(v, a) /\ m.refs[a] = 1 THEN << >> ELSE m.data[a]
               /\ SameIndex(m, f) /\ f.grow = m.grow
<1>. DEFINE v == m.slots[slot]
            f == free_vartype(m, v)
<1>1. CASE ~ IsMatrix(v)
  <2>1. f = m  BY <1>1 DEF free_vartype
  <2>2. \A a : ~ Holds(v, a) /\ Held(v, a) = 0  BY <1>1 DEF Holds, Held
  <2>3. \A a \in Arrays : m.refs[a] \in Nat  BY DEF Counted
  <2>. HIDE DEF f, v
  <2>4. SameIndex(m, f) /\ f.grow = m.grow  BY <2>1 DEF SameIndex
  <2>. QED  BY <2>1, <2>2, <2>3, <2>4 DEF Counted, f, v
<1>2. CASE IsMatrix(v)
  <2>1. v.array \in Arrays /\ \A a \in Arrays : m.refs[a] \in Nat
    BY <1>2 DEF Counted
  <2>2. f = [m EXCEPT !.refs[v.array] = @ - 1,
                      !.data[v.array] = IF m.refs[v.array] = 1 THEN << >> ELSE @]
    BY <1>2 DEF free_vartype
  <2>. HIDE DEF f, v
  <2>3. /\ DOMAIN f = Fields /\ f.slots = m.slots /\ SameIndex(m, f) /\ f.grow = m.grow
        /\ f.refs = [m.refs EXCEPT ![v.array] = @ - 1]
        /\ f.data = [m.data EXCEPT ![v.array] = IF m.refs[v.array] = 1 THEN << >> ELSE @]
    BY <2>2 DEF Counted, Fields, SameIndex
  <2>4. \A a \in Arrays : /\ f.refs[a] = m.refs[a] - Held(v, a)
                         /\ f.data[a] = IF Holds(v, a) /\ m.refs[a] = 1 THEN << >> ELSE m.data[a]
    BY <1>2, <2>1, <2>3 DEF Counted, Holds, Held
  <2>. QED  BY <2>3, <2>4 DEF Counted, f, v
<1>. QED  BY <1>1, <1>2

\* The old value of a slot is freed, and a new one put there.
Replaces(m, d, slot, v) ==
    /\ DOMAIN d = Fields /\ d.slots = [m.slots EXCEPT ![slot] = v]
    /\ DOMAIN d.refs = Arrays /\ DOMAIN d.data = Arrays
    /\ \A a \in Arrays :
          /\ d.refs[a] = m.refs[a] - Held(m.slots[slot], a)
          /\ d.data[a] = IF Holds(m.slots[slot], a) /\ m.refs[a] = 1 THEN << >> ELSE m.data[a]

LEMMA FreedAndSet ==
    ASSUME NEW m, Counted(m), NEW slot \in Slots, NEW v
    PROVE  LET d == [free_vartype(m, m.slots[slot]) EXCEPT !.slots[slot] = v]
           IN  Replaces(m, d, slot, v) /\ SameIndex(m, d) /\ d.grow = m.grow
<1>. DEFINE f == free_vartype(m, m.slots[slot])
            d == [f EXCEPT !.slots[slot] = v]
<1>1. /\ DOMAIN f = Fields /\ f.slots = m.slots
      /\ DOMAIN f.refs = Arrays /\ DOMAIN f.data = Arrays
      /\ \A a \in Arrays :
            /\ f.refs[a] = m.refs[a] - Held(m.slots[slot], a)
            /\ f.data[a] = IF Holds(m.slots[slot], a) /\ m.refs[a] = 1 THEN << >> ELSE m.data[a]
      /\ SameIndex(m, f) /\ f.grow = m.grow
  BY FreeFields
<1>. HIDE DEF f
<1>2. /\ DOMAIN d = Fields /\ d.slots = [m.slots EXCEPT ![slot] = v]
      /\ d.refs = f.refs /\ d.data = f.data /\ SameIndex(m, d) /\ d.grow = m.grow
  BY <1>1 DEF Fields, SameIndex
<1>. QED  BY <1>1, <1>2 DEF Replaces, f

\* One that has a reference to spare.
LEMMA Replaced ==
    ASSUME NEW m, Counted(m), NEW slot \in Slots, NEW v, Spare(m, v),
           NEW d, Replaces(m, d, slot, v)
    PROVE  /\ Counted(d) /\ Only(m, d, {slot})
           /\ \A a \in Arrays :
                 /\ Cardinality(HoldersIn(m, a)) < m.refs[a]
                 /\ ~ Holds(m.slots[slot], a) /\ ~ Holds(v, a)
                 => Cardinality(HoldersIn(d, a)) < d.refs[a] /\ d.data[a] = m.data[a]
<1>. DEFINE u == m.slots[slot]
<1>1. /\ DOMAIN d = Fields /\ d.slots = [m.slots EXCEPT ![slot] = v]
      /\ DOMAIN d.refs = Arrays /\ DOMAIN d.data = Arrays
      /\ \A a \in Arrays :
            /\ d.refs[a] = m.refs[a] - Held(u, a)
            /\ d.data[a] = IF Holds(u, a) /\ m.refs[a] = 1 THEN << >> ELSE m.data[a]
  BY DEF Replaces
<1>4. ASSUME NEW a \in Arrays
      PROVE  /\ Cardinality(HoldersIn(m, a)) \in Nat /\ m.refs[a] \in Nat
             /\ Cardinality(HoldersIn(m, a)) <= m.refs[a]
             /\ Held(u, a) \in {0, 1} /\ Held(v, a) \in {0, 1}
             /\ Held(u, a) <= Cardinality(HoldersIn(m, a))
             /\ Held(v, a) = 1 => Cardinality(HoldersIn(m, a)) < m.refs[a]
  <2>1. Held(v, a) = 1 => Cardinality(HoldersIn(m, a)) < m.refs[a]
    BY DEF Held, Holds, Spare
  <2>. QED  BY <2>1, HoldersCounted DEF Counted, Held
<1>5. ASSUME NEW a \in Arrays, NEW other \in Slots \ {slot}, Holds(m.slots[other], a)
      PROVE  d.data[a] = m.data[a]
  <2>1. ~ (Holds(u, a) /\ m.refs[a] = 1)  BY <1>5, ItHasAReference DEF Holds
  <2>. QED  BY <1>1, <2>1
<1>6. IsMatrix(v) => v.array \in Arrays /\ ArrayOf(d.data[v.array], Size(v))
  <2>. SUFFICES ASSUME IsMatrix(v)
                PROVE  v.array \in Arrays /\ ArrayOf(d.data[v.array], Size(v))
    OBVIOUS
  <2>1. v.array \in Arrays /\ ArrayOf(m.data[v.array], Size(v)) /\ Holds(v, v.array)
    BY DEF Spare, Holds
  <2>2. ~ (Holds(u, v.array) /\ m.refs[v.array] = 1)
    BY <1>4, <2>1 DEF Held
  <2>. QED  BY <1>1, <2>1, <2>2
<1>. HIDE DEF u
<1>7. Counted(d) /\ Only(m, d, {slot})
  <2>1. ASSUME NEW a \in Arrays
        PROVE  /\ d.refs[a] \in Nat
               /\ Cardinality(HoldersIn(m, a)) - Held(u, a) + Held(v, a) <= d.refs[a]
    <3>1. d.refs[a] = m.refs[a] - Held(u, a)  BY <1>1
    <3>. QED  BY <1>4, <3>1
  <2>2. \A a \in Arrays : (\E other \in Slots \ {slot} : Holds(m.slots[other], a))
                           => d.data[a] = m.data[a]
    BY <1>5
  <2>3. DOMAIN d.refs = Arrays /\ DOMAIN d.data = Arrays  BY <1>1
  <2>4. IsMatrix(v) => v.array \in Arrays /\ ArrayOf(d.data[v.array], Size(v))
    BY <1>6
  <2>5. \A a \in Arrays :
           /\ d.refs[a] \in Nat
           /\ Cardinality(HoldersIn(m, a)) - Held(m.slots[slot], a) + Held(v, a) <= d.refs[a]
           /\ (\E other \in Slots \ {slot} : Holds(m.slots[other], a)) => d.data[a] = m.data[a]
    BY <2>1, <2>2 DEF u
  <2>6. DOMAIN d = Fields /\ d.slots = [m.slots EXCEPT ![slot] = v]  BY <1>1
  <2>. QED  BY <2>3, <2>4, <2>5, <2>6, SlotChanges
<1>8. ASSUME NEW a \in Arrays, Cardinality(HoldersIn(m, a)) < m.refs[a], ~ Holds(u, a), ~ Holds(v, a)
      PROVE  Cardinality(HoldersIn(d, a)) < d.refs[a] /\ d.data[a] = m.data[a]
  <2>1. Cardinality(HoldersIn(d, a)) = Cardinality(HoldersIn(m, a))
    <3>1. DOMAIN m.slots = Slots /\ IsFiniteSet(HoldersIn(m, a))  BY DEF Counted
    <3>2. d.slots = [m.slots EXCEPT ![slot] = v]  BY <1>1
    <3>3. Cardinality(HoldersIn(d, a))
            = Cardinality(HoldersIn(m, a)) - Held(m.slots[slot], a) + Held(v, a)
      BY <3>1, <3>2, HoldersAfter
    <3>. QED  BY <1>4, <1>8, <3>3 DEF Held, u
  <2>. QED  BY <1>1, <1>4, <1>8, <2>1 DEF Held
<1>. QED  BY <1>7, <1>8 DEF u

\* A slot is overwritten, and what it held is not freed.
LEMMA Overwritten ==
    ASSUME NEW m, Counted(m), NEW slot \in Slots, NEW v, Spare(m, v),
           NEW d, DOMAIN d = Fields, d.slots = [m.slots EXCEPT ![slot] = v],
           d.refs = m.refs, d.data = m.data
    PROVE  /\ Counted(d) /\ Only(m, d, {slot})
           /\ ~ IsMatrix(v) => Spare(d, m.slots[slot])
<1>1. ASSUME NEW a \in Arrays
      PROVE  /\ Cardinality(HoldersIn(m, a)) \in Nat /\ m.refs[a] \in Nat
             /\ Cardinality(HoldersIn(m, a)) <= m.refs[a]
             /\ Held(m.slots[slot], a) \in {0, 1} /\ Held(v, a) \in {0, 1}
             /\ Held(v, a) = 1 => Cardinality(HoldersIn(m, a)) < m.refs[a]
  <2>1. Held(v, a) = 1 => Cardinality(HoldersIn(m, a)) < m.refs[a]
    BY DEF Held, Holds, Spare
  <2>. QED  BY <2>1, HoldersCounted DEF Counted, Held
<1>2. IsMatrix(v) => v.array \in Arrays /\ ArrayOf(d.data[v.array], Size(v))
  BY DEF Spare
<1>3. \A a \in Arrays :
         /\ d.refs[a] \in Nat
         /\ Cardinality(HoldersIn(m, a)) - Held(m.slots[slot], a) + Held(v, a) <= d.refs[a]
  BY <1>1
<1>4. Counted(d) /\ Only(m, d, {slot})
  BY <1>2, <1>3, SlotChanges DEF Counted
<1>5. ASSUME ~ IsMatrix(v), IsMatrix(m.slots[slot]) PROVE Spare(d, m.slots[slot])
  <2>. DEFINE u == m.slots[slot]
  <2>1. u.array \in Arrays /\ ArrayOf(m.data[u.array], Size(u)) /\ Held(u, u.array) = 1
        /\ Held(v, u.array) = 0
    BY <1>5 DEF Counted, Held, Holds
  <2>2. Cardinality(HoldersIn(d, u.array)) = Cardinality(HoldersIn(m, u.array)) - 1
    <3>1. Cardinality(HoldersIn(d, u.array))
            = Cardinality(HoldersIn(m, u.array)) - Held(u, u.array) + Held(v, u.array)
      <4>1. DOMAIN m.slots = Slots /\ IsFiniteSet(HoldersIn(m, u.array))
        BY <2>1 DEF Counted
      <4>. QED  BY <4>1, HoldersAfter
    <3>. QED  BY <1>1, <2>1, <3>1
  <2>. QED  BY <1>1, <2>1, <2>2 DEF Spare
<1>. QED  BY <1>4, <1>5 DEF Spare

-----------------------------------------------------------------------------
\* Arrays of a matrix's own.

LEMMA MatrixFields ==
    ASSUME NEW rows, NEW columns, NEW array
    PROVE  LET v == Matrix(rows, columns, array)
           IN  /\ IsMatrix(v) /\ v.rows = rows /\ v.columns = columns /\ v.array = array
               /\ Size(v) = rows * columns
               /\ \A a : Held(v, a) = IF a = array THEN 1 ELSE 0
BY DEF Matrix, IsMatrix, Size, Held, Holds

\* A matrix that does not share its array is the only one that has it.
LEMMA Alone ==
    ASSUME NEW m, Counted(m), NEW slot \in Slots, IsMatrix(m.slots[slot]), ~ Shared(m, slot)
    PROVE  LET a == m.slots[slot].array
           IN  m.refs[a] = 1 /\ \A other \in Slots \ {slot} : ~ Holds(m.slots[other], a)
BY ItHasAReference DEF Shared

\* The slot leaves its array for the new one that v has.
TakesArray(m, d, slot, v, elements) ==
    /\ DOMAIN d = Fields /\ d.slots = [m.slots EXCEPT ![slot] = v]
    /\ d.refs = [[m.refs EXCEPT ![m.slots[slot].array] = @ - 1] EXCEPT ![v.array] = 1]
    /\ d.data = [m.data EXCEPT ![v.array] = elements]

LEMMA NewArray ==
    ASSUME NEW m, Counted(m), NEW slot \in Slots, IsMatrix(m.slots[slot]), Shared(m, slot),
           NEW new \in Free(m), NEW rows, NEW columns, NEW elements,
           ArrayOf(elements, rows * columns),
           NEW d, TakesArray(m, d, slot, Matrix(rows, columns, new), elements)
    PROVE  Counted(d) /\ Only(m, d, {slot}) /\ ~ Shared(d, slot) /\ Contents(d, slot) = elements
<1>. DEFINE u == m.slots[slot]
            v == Matrix(rows, columns, new)
<1>2. /\ DOMAIN d = Fields /\ d.slots = [m.slots EXCEPT ![slot] = v]
      /\ d.refs = [[m.refs EXCEPT ![u.array] = @ - 1] EXCEPT ![new] = 1]
      /\ d.data = [m.data EXCEPT ![new] = elements]
  BY MatrixFields DEF TakesArray
<1>3. /\ DOMAIN m.slots = Slots /\ DOMAIN m.refs = Arrays /\ DOMAIN m.data = Arrays
      /\ u.array \in Arrays /\ m.refs[u.array] \in Nat /\ m.refs[u.array] > 1
  BY ItHasAReference DEF Counted, Shared
<1>4. /\ new \in Arrays /\ m.refs[new] = 0 /\ Cardinality(HoldersIn(m, new)) = 0
      /\ \A other \in Slots : ~ Holds(m.slots[other], new)
  BY NothingHoldsFree
<1>5. new # u.array  BY <1>2, <1>3, <1>4
<1>6. ASSUME NEW a \in Arrays
      PROVE  /\ d.refs[a] \in Nat
             /\ Cardinality(HoldersIn(m, a)) - Held(u, a) + Held(v, a) <= d.refs[a]
  <2>1. /\ Cardinality(HoldersIn(m, a)) \in Nat /\ m.refs[a] \in Nat
        /\ Cardinality(HoldersIn(m, a)) <= m.refs[a]
    BY HoldersCounted DEF Counted
  <2>2. Held(v, a) = IF a = new THEN 1 ELSE 0  BY MatrixFields
  <2>3. Held(u, a) = IF a = u.array THEN 1 ELSE 0  BY DEF Held, Holds
  <2>4. d.refs[a] = IF a = new THEN 1 ELSE IF a = u.array THEN m.refs[a] - 1 ELSE m.refs[a]
    BY <1>2, <1>3, <1>4
  <2>. QED  BY <1>2, <1>3, <1>4, <1>5, <2>1, <2>2, <2>3, <2>4
<1>7. \A a \in Arrays : (\E other \in Slots \ {slot} : Holds(m.slots[other], a))
                         => d.data[a] = m.data[a]
  BY <1>2, <1>3, <1>4
<1>8. v.array = new /\ Size(v) = rows * columns  BY MatrixFields
<1>9. d.data[new] = elements /\ d.refs[new] = 1 /\ d.slots[slot] = v
  BY <1>2, <1>3, <1>4
<1>10. DOMAIN d.refs = Arrays /\ DOMAIN d.data = Arrays  BY <1>2, <1>3
<1>. HIDE DEF v
<1>11. Counted(d) /\ Only(m, d, {slot})
  BY <1>2, <1>3, <1>4, <1>6, <1>7, <1>8, <1>9, <1>10, SlotChanges DEF v
<1>. QED  BY <1>2, <1>8, <1>9, <1>11 DEF Shared, Contents, v

\* Its own array takes other elements.
LEMMA OwnArray ==
    ASSUME NEW m, Counted(m), NEW slot \in Slots, IsMatrix(m.slots[slot]), ~ Shared(m, slot),
           NEW rows, NEW columns, NEW elements, ArrayOf(elements, rows * columns),
           NEW d, DOMAIN d = Fields, d.refs = m.refs,
           d.slots = [m.slots EXCEPT ![slot] = Matrix(rows, columns, m.slots[slot].array)],
           d.data = [m.data EXCEPT ![m.slots[slot].array] = elements]
    PROVE  Counted(d) /\ Only(m, d, {slot}) /\ ~ Shared(d, slot) /\ Contents(d, slot) = elements
<1>. DEFINE u == m.slots[slot]
            v == Matrix(rows, columns, u.array)
<1>1. /\ DOMAIN m.slots = Slots /\ DOMAIN m.refs = Arrays /\ DOMAIN m.data = Arrays
      /\ u.array \in Arrays
  BY DEF Counted
<1>2. m.refs[u.array] = 1 /\ \A other \in Slots \ {slot} : ~ Holds(m.slots[other], u.array)
  BY Alone
<1>3. ASSUME NEW a \in Arrays
      PROVE  /\ d.refs[a] \in Nat
             /\ Cardinality(HoldersIn(m, a)) - Held(u, a) + Held(v, a) <= d.refs[a]
  <2>1. /\ Cardinality(HoldersIn(m, a)) \in Nat /\ m.refs[a] \in Nat
        /\ Cardinality(HoldersIn(m, a)) <= m.refs[a]
    BY HoldersCounted DEF Counted
  <2>2. Held(v, a) = IF a = u.array THEN 1 ELSE 0  BY MatrixFields
  <2>3. Held(u, a) = IF a = u.array THEN 1 ELSE 0  BY DEF Held, Holds
  <2>. QED  BY <2>1, <2>2, <2>3
<1>4. \A a \in Arrays : (\E other \in Slots \ {slot} : Holds(m.slots[other], a))
                         => d.data[a] = m.data[a]
  BY <1>1, <1>2
<1>5. v.array = u.array /\ Size(v) = rows * columns  BY MatrixFields
<1>6. d.data[u.array] = elements /\ d.refs[u.array] = 1 /\ d.slots[slot] = v
  BY <1>1, <1>2
<1>. HIDE DEF v
<1>7. Counted(d) /\ Only(m, d, {slot})
  BY <1>1, <1>3, <1>4, <1>5, <1>6, SlotChanges DEF v
<1>. QED  BY <1>5, <1>6, <1>7 DEF Shared, Contents

\* The matrix in the slot has got this size and these elements, in an array of its own.
Owns(m, d, slot, rows, columns, elements) ==
    /\ Counted(d) /\ Only(m, d, {slot}) /\ ~ Shared(d, slot)
    /\ \E array : d.slots = [m.slots EXCEPT ![slot] = Matrix(rows, columns, array)]
    /\ Contents(d, slot) = elements

LEMMA WithArrayCounted ==
    ASSUME NEW m, Counted(m), NEW slot \in Slots, IsMatrix(m.slots[slot]), NEW new,
           Shared(m, slot) => new \in Free(m), NEW rows, NEW columns, NEW elements,
           ArrayOf(elements, rows * columns)
    PROVE  Owns(m, WithArray(m, slot, rows, columns, elements, new), slot, rows, columns, elements)
<1>. DEFINE d == WithArray(m, slot, rows, columns, elements, new)
<1>. SUFFICES /\ Counted(d) /\ Only(m, d, {slot}) /\ ~ Shared(d, slot)
              /\ \E array : d.slots = [m.slots EXCEPT ![slot] = Matrix(rows, columns, array)]
              /\ Contents(d, slot) = elements
  BY DEF Owns
<1>1. CASE Shared(m, slot)
  <2>1. TakesArray(m, d, slot, Matrix(rows, columns, new), elements)
    BY <1>1, MatrixFields DEF TakesArray, WithArray, Counted, Fields
  <2>. HIDE DEF d
  <2>2. Counted(d) /\ Only(m, d, {slot}) /\ ~ Shared(d, slot) /\ Contents(d, slot) = elements
    BY <1>1, <2>1, NewArray
  <2>. QED  BY <2>1, <2>2 DEF TakesArray
<1>2. CASE ~ Shared(m, slot)
  <2>1. /\ DOMAIN d = Fields /\ d.refs = m.refs
        /\ d.slots = [m.slots EXCEPT ![slot] = Matrix(rows, columns, m.slots[slot].array)]
        /\ d.data = [m.data EXCEPT ![m.slots[slot].array] = elements]
    BY <1>2 DEF WithArray, Counted, Fields
  <2>. HIDE DEF d
  <2>. QED  BY <1>2, <2>1, OwnArray
<1>. QED  BY <1>1, <1>2

-----------------------------------------------------------------------------
\* Values come and go.

Usable(m, new) == new \in Free(m) \cup {NoArray}

LEMMA RealIsSpare == ASSUME NEW m, NEW e PROVE Spare(m, Real(e)) /\ ~ IsMatrix(Real(e))
BY DEF Spare, Real, IsMatrix

LEMMA NoneIsSpare == ASSUME NEW m PROVE Spare(m, None) /\ ~ IsMatrix(None)
BY DEF Spare, None, IsMatrix

XBecomes(m, d, v) ==
    /\ Counted(d) /\ Only(m, d, {"x"})
    /\ d.slots = [m.slots EXCEPT !["x"] = v] /\ d.slots["x"] = v
    /\ SameIndex(m, d) /\ d.grow = m.grow

LEMMA WithXCounted ==
    ASSUME NEW m, Counted(m), NEW v, Spare(m, v) PROVE XBecomes(m, WithX(m, v), v)
<1>. DEFINE d == WithX(m, v)
<1>1. Replaces(m, d, "x", v) /\ SameIndex(m, d) /\ d.grow = m.grow
  BY FreedAndSet, NamesAreSlots DEF WithX
<1>. HIDE DEF d
<1>2. Counted(d) /\ Only(m, d, {"x"})  BY <1>1, Replaced, NamesAreSlots
<1>3. DOMAIN m.slots = Slots  BY DEF Counted
<1>4. d.slots["x"] = v  BY <1>1, <1>3, NamesAreSlots DEF Replaces
<1>. QED  BY <1>1, <1>2, <1>4 DEF XBecomes, Replaces, d

\* There is a reference for v now, and nothing has changed that shows.
Reserves(m, d, v) ==
    Counted(d) /\ Only(m, d, {}) /\ Spare(d, v) /\ d.slots = m.slots /\ SameIndex(m, d)

\* A copy has a reference of its own before it has a place.
LEMMA DupCounted ==
    ASSUME NEW m, Counted(m), NEW slot \in Slots
    PROVE  Reserves(m, dup_vartype(m, m.slots[slot]), m.slots[slot])
<1>. DEFINE v == m.slots[slot]
            d == dup_vartype(m, v)
<1>1. CASE ~ IsMatrix(v)
  <2>1. d = m  BY <1>1 DEF dup_vartype
  <2>2. Spare(d, v)  BY <1>1 DEF Spare
  <2>. HIDE DEF d, v
  <2>. QED  BY <2>1, <2>2 DEF Reserves, Only, Same, SameIndex, d, v
<1>2. CASE IsMatrix(v)
  <2>1. d = [m EXCEPT !.refs[v.array] = @ + 1]  BY <1>2 DEF dup_vartype
  <2>2. /\ v.array \in Arrays /\ ArrayOf(m.data[v.array], Size(v))
        /\ DOMAIN m.refs = Arrays
        /\ \A a \in Arrays : /\ m.refs[a] \in Nat
                             /\ Cardinality(HoldersIn(m, a)) \in Nat
                             /\ Cardinality(HoldersIn(m, a)) <= m.refs[a]
    BY <1>2, HoldersCounted DEF Counted
  <2>. HIDE DEF d
  <2>3. /\ DOMAIN d = Fields /\ d.slots = m.slots /\ d.data = m.data /\ SameIndex(m, d)
        /\ d.refs = [m.refs EXCEPT ![v.array] = @ + 1]
    BY <2>1 DEF Counted, Fields, SameIndex
  <2>4. \A a : HoldersIn(d, a) = HoldersIn(m, a)  BY <2>3 DEF HoldersIn
  <2>5. \A a \in Arrays : /\ d.refs[a] \in Nat /\ m.refs[a] <= d.refs[a]
                         /\ IsFiniteSet(HoldersIn(d, a))
                         /\ Cardinality(HoldersIn(d, a)) <= d.refs[a]
    BY <2>2, <2>3, <2>4 DEF Counted
  <2>6. Counted(d)  BY <2>2, <2>3, <2>5 DEF Counted
  <2>7. Only(m, d, {})  BY <2>3 DEF Only, Same, Shown
  <2>8. Spare(d, v)
    <3>1. d.refs[v.array] = m.refs[v.array] + 1  BY <2>2, <2>3
    <3>. QED  BY <2>2, <2>3, <2>4, <3>1 DEF Spare
  <2>. QED  BY <2>3, <2>6, <2>7, <2>8 DEF Reserves, d
<1>. QED  BY <1>1, <1>2

\* A new array has a reference before its matrix has a place.
LEMMA AllocatedCounted ==
    ASSUME NEW m, Counted(m), NEW new \in Free(m), NEW rows, NEW columns, NEW elements,
           ArrayOf(elements, rows * columns)
    PROVE  Reserves(m, [m EXCEPT !.refs[new] = 1, !.data[new] = elements],
                    Matrix(rows, columns, new))
<1>. DEFINE d == [m EXCEPT !.refs[new] = 1, !.data[new] = elements]
            v == Matrix(rows, columns, new)
<1>1. /\ DOMAIN d = Fields /\ d.slots = m.slots /\ SameIndex(m, d)
      /\ d.refs = [m.refs EXCEPT ![new] = 1]
      /\ d.data = [m.data EXCEPT ![new] = elements]
  BY DEF Counted, Fields, SameIndex
<1>2. /\ new \in Arrays /\ m.refs[new] = 0 /\ Cardinality(HoldersIn(m, new)) = 0
      /\ \A slot \in Slots : ~ Holds(m.slots[slot], new)
  BY NothingHoldsFree
<1>. HIDE DEF d
<1>3. \A a : HoldersIn(d, a) = HoldersIn(m, a)  BY <1>1 DEF HoldersIn
<1>4. /\ d.data[new] = elements /\ d.refs[new] = 1
      /\ \A a \in Arrays \ {new} : d.refs[a] = m.refs[a] /\ d.data[a] = m.data[a]
  BY <1>1, <1>2 DEF Counted
<1>5. \A slot \in Slots : IsMatrix(m.slots[slot]) =>
         m.slots[slot].array \in Arrays \ {new}
  BY <1>2 DEF Counted, Holds
<1>6. Counted(d)  BY <1>1, <1>2, <1>3, <1>4, <1>5 DEF Counted
<1>7. Only(m, d, {})  BY <1>1, <1>4, <1>5 DEF Only, Same, Shown
<1>8. Spare(d, v)
  <2>1. v.array = new /\ Size(v) = rows * columns  BY MatrixFields
  <2>. HIDE DEF v
  <2>. QED  BY <1>2, <1>3, <1>4, <2>1 DEF Spare
<1>. QED  BY <1>1, <1>6, <1>7, <1>8 DEF Reserves, d

-----------------------------------------------------------------------------
\* Commands on elements.

\* A matrix's own array takes other elements, as many.
LEMMA OwnElements ==
    ASSUME NEW m, Counted(m), NEW slot \in Slots, IsMatrix(m.slots[slot]), ~ Shared(m, slot),
           NEW elements, ArrayOf(elements, Size(m.slots[slot]))
    PROVE  LET d == [m EXCEPT !.data[m.slots[slot].array] = elements]
           IN  /\ Counted(d) /\ Only(m, d, {slot}) /\ ~ Shared(d, slot)
               /\ d.slots = m.slots /\ SameIndex(m, d) /\ Contents(d, slot) = elements
<1>. DEFINE u == m.slots[slot]
            d == [m EXCEPT !.data[u.array] = elements]
<1>1. /\ DOMAIN d = Fields /\ d.slots = m.slots /\ d.refs = m.refs /\ SameIndex(m, d)
      /\ d.data = [m.data EXCEPT ![u.array] = elements]
  BY DEF Counted, Fields, SameIndex
<1>2. u.array \in Arrays /\ DOMAIN m.data = Arrays  BY DEF Counted
<1>3. \A other \in Slots \ {slot} : ~ Holds(m.slots[other], u.array)  BY Alone
<1>. HIDE DEF d
<1>4. \A a : HoldersIn(d, a) = HoldersIn(m, a)  BY <1>1 DEF HoldersIn
<1>5. /\ d.data[u.array] = elements
      /\ \A a \in Arrays \ {u.array} : d.data[a] = m.data[a]
  BY <1>1, <1>2
<1>6. \A other \in Slots \ {slot} : IsMatrix(m.slots[other]) =>
         m.slots[other].array \in Arrays \ {u.array}
  BY <1>3 DEF Counted, Holds
<1>7. Counted(d)
  <2>1. \A other \in Slots : LET v == d.slots[other] IN
           IsMatrix(v) => v.array \in Arrays /\ ArrayOf(d.data[v.array], Size(v))
    BY <1>1, <1>2, <1>5, <1>6 DEF Counted
  <2>. QED  BY <1>1, <1>4, <2>1 DEF Counted
<1>8. Only(m, d, {slot})  BY <1>1, <1>5, <1>6 DEF Only, Same, Shown
<1>. QED  BY <1>1, <1>5, <1>7, <1>8 DEF Shared, Contents, d

LEMMA DisentangleCounted ==
    ASSUME NEW m, Counted(m), NEW slot \in Slots, IsMatrix(m.slots[slot]), NEW new,
           Usable(m, new), CanOwn(m, slot, new)
    PROVE  LET d == disentangle(m, slot, new)
           IN  /\ Counted(d) /\ Only(m, d, {}) /\ ~ Shared(d, slot)
               /\ \E array : d.slots = [m.slots EXCEPT ![slot] =
                                          Matrix(m.slots[slot].rows, m.slots[slot].columns, array)]
               /\ Contents(d, slot) = Contents(m, slot)
<1>. DEFINE v == m.slots[slot]
            d == disentangle(m, slot, new)
<1>1. d = WithArray(m, slot, v.rows, v.columns, Contents(m, slot), new)  BY DEF disentangle
<1>2. ArrayOf(Contents(m, slot), v.rows * v.columns)  BY DEF Counted, Contents, Size
<1>3. Shared(m, slot) => new \in Free(m)  BY DEF Usable, CanOwn
<1>. HIDE DEF d
<1>4. /\ Counted(d) /\ Only(m, d, {slot}) /\ ~ Shared(d, slot)
      /\ \E array : d.slots = [m.slots EXCEPT ![slot] = Matrix(v.rows, v.columns, array)]
      /\ Contents(d, slot) = Contents(m, slot)
  <2>1. Owns(m, WithArray(m, slot, v.rows, v.columns, Contents(m, slot), new),
             slot, v.rows, v.columns, Contents(m, slot))
    BY <1>2, <1>3, WithArrayCounted
  <2>. QED  BY <1>1, <2>1 DEF Owns
<1>5. IsMatrix(d.slots[slot]) /\ d.slots[slot].rows = v.rows /\ d.slots[slot].columns = v.columns
  BY <1>4, MatrixFields DEF Counted
<1>6. Same(m, d, slot)  BY <1>4, <1>5 DEF Same, Shown, Contents
<1>. QED  BY <1>4, <1>6 DEF Only, d

\* STOEL makes the matrix independent first, if only to find that X is no element.
Stored(m, r) ==
    /\ Counted(r.m) /\ r.m.slots["x"] = m.slots["x"]
    /\ Only(m, r.m, {Target(m)})
    /\ Only(m, r.m, {}) \/ IsReal(m.slots["x"])
    /\ ~ HasMatrix(m) => r.m = m /\ r.err \in {"NONEXISTENT", "INVALID_TYPE"}
    /\ r.err = "NONE" => HasMatrix(m) /\ ~ Shared(r.m, Target(m)) /\ IsReal(m.slots["x"])
    /\ r.err = "NONEXISTENT" => ~ HasMatrix(m)
    /\ HasMatrix(m) =>
          \A k : k # Place(It(m), m.i, m.j)
            => Contents(r.m, Target(m))[k] = Contents(m, Target(m))[k]

LEMMA StoelCounted ==
    ASSUME NEW m, Good(m), Counted(m), NEW new, Usable(m, new) PROVE Stored(m, stoel(m, new))
<1>. DEFINE t == Target(m)
            d == disentangle(m, t, new)
            e == WithElement(d, m.i, m.j, m.slots["x"].x)
            r == stoel(m, new)
<1>0. Only(m, m, {}) /\ Only(m, m, {t})  BY DEF Only, Same
<1>1. CASE ~ HasMatrix(m)
  <2>1. r.m = m /\ r.err \in {"NONEXISTENT", "INVALID_TYPE"}
    BY <1>1 DEF stoel, NoMatrix, Error
  <2>. HIDE DEF Stored, r
  <2>. QED  BY <1>0, <1>1, <2>1 DEF Stored, r
<1>2. CASE HasMatrix(m) /\ ~ CanOwn(m, t, new)
  <2>1. r.m = m /\ r.err = "MEMORY"  BY <1>2 DEF stoel, Error
  <2>. HIDE DEF Stored, r
  <2>. QED  BY <1>0, <1>2, <2>1 DEF Stored, r
<1>3. CASE HasMatrix(m) /\ CanOwn(m, t, new)
  <2>1. r.m = (IF IsReal(m.slots["x"]) THEN e ELSE d)
        /\ r.err = (IF IsReal(m.slots["x"]) THEN "NONE" ELSE "INVALID_TYPE")
    BY <1>3, Zenon DEF stoel, Error, Done
  <2>2. t \in Slots /\ t # "x" /\ IsMatrix(m.slots[t]) /\ It(m) = m.slots[t]
    BY <1>3, TargetIsMatrix, NamesAreSlots
  <2>3. Alike(m, d) /\ Good(d)  BY <2>2, DisentangleAlike, AlikeGood
  <2>4. /\ Counted(d) /\ Only(m, d, {}) /\ ~ Shared(d, t) /\ Contents(d, t) = Contents(m, t)
        /\ d.slots["x"] = m.slots["x"]
    <3>1. /\ Counted(d) /\ Only(m, d, {}) /\ ~ Shared(d, t) /\ Contents(d, t) = Contents(m, t)
          /\ \E array : d.slots = [m.slots EXCEPT ![t] =
                                     Matrix(m.slots[t].rows, m.slots[t].columns, array)]
      BY <1>3, <2>2, DisentangleCounted
    <3>. HIDE DEF d
    <3>. QED  BY <2>2, <3>1, NamesAreSlots DEF Counted
  <2>. HIDE DEF d
  <2>5. Target(d) = t /\ It(d) = d.slots[t] /\ IsMatrix(d.slots[t])
        /\ Place(It(d), m.i, m.j) = Place(It(m), m.i, m.j)
    BY <2>2, <2>3 DEF Alike, SameIndex, Target, It, Place
  <2>. DEFINE p == Place(It(m), m.i, m.j)
              elements == [Contents(d, t) EXCEPT ![p] = m.slots["x"].x]
  <2>6. e = [d EXCEPT !.data[d.slots[t].array] = elements]
    BY <2>5 DEF WithElement, Contents
  <2>7. ArrayOf(Contents(d, t), Size(d.slots[t]))  BY <2>2, <2>4, <2>5 DEF Counted, Contents
  <2>8. /\ ArrayOf(elements, Size(d.slots[t]))
        /\ \A k : k # p => elements[k] = Contents(m, t)[k]
    BY <2>4, <2>7, ExceptIsArray DEF ArrayOf
  <2>. HIDE DEF elements, e, p
  <2>9. /\ Counted(e) /\ Only(d, e, {t}) /\ ~ Shared(e, t)
        /\ e.slots = d.slots /\ Contents(e, t) = elements
    BY <2>2, <2>4, <2>5, <2>6, <2>8, OwnElements
  <2>10. Only(m, e, {t})  BY <2>4, <2>9 DEF Only, Same
  <2>11. Only(m, d, {t})  BY <2>4 DEF Only
  <2>. HIDE DEF Stored, r
  <2>12. CASE IsReal(m.slots["x"])
    BY <1>3, <2>1, <2>4, <2>8, <2>9, <2>10, <2>12 DEF Stored, r, p
  <2>13. CASE ~ IsReal(m.slots["x"])
    BY <1>3, <2>1, <2>4, <2>11, <2>13 DEF Stored, r
  <2>. QED  BY <2>12, <2>13
<1>. QED  BY <1>1, <1>2, <1>3

\* What a command may change: one of the variables and the matrix under edit, and X; not
\* both a matrix in X and a variable.
Independent(m, d) ==
    \/ \A name \in Names : d.slots[name] = None
    \/ /\ \E t \in Slots \ {"x"} : Only(m, d, {"x", t})
       /\ IsMatrix(m.slots["x"]) /\ IsMatrix(d.slots["x"])
            => Same(m, d, "x") \/ \A name \in Names : Same(m, d, name)

Kept(m, d) == Counted(d) /\ Independent(m, d)

\* The three ways in which commands keep to that.
LEMMA OneOther ==
    ASSUME NEW m, NEW d, Counted(d), NEW t \in Slots \ {"x"}, Only(m, d, {t})
    PROVE  Kept(m, d)
BY NamesAreSlots DEF Kept, Independent, Only

LEMMA OnlyX == ASSUME NEW m, NEW d, Counted(d), Only(m, d, {"x"}) PROVE Kept(m, d)
<1>1. "edited" \in Slots \ {"x"} /\ Names \subseteq Slots \ {"x"}  BY NamesAreSlots
<1>2. Only(m, d, {"x", "edited"}) /\ \A name \in Names : Same(m, d, name)  BY <1>1 DEF Only
<1>. QED  BY <1>1, <1>2 DEF Kept, Independent

LEMMA XAndOther ==
    ASSUME NEW m, NEW d, Counted(d), NEW t \in Slots \ {"x"}, Only(m, d, {"x", t}),
           ~ IsMatrix(m.slots["x"]) \/ ~ IsMatrix(d.slots["x"]) \/ t = "edited"
    PROVE  Kept(m, d)
<1>1. Names \subseteq Slots \ {"x", "edited"}  BY NamesAreSlots
<1>2. t = "edited" => \A name \in Names : Same(m, d, name)  BY <1>1 DEF Only
<1>. QED  BY <1>2 DEF Kept, Independent

LEMMA NothingChanges == ASSUME NEW m, Counted(m) PROVE Kept(m, m)
<1>1. Only(m, m, {"x"})  BY DEF Only, Same
<1>. QED  BY <1>1, OnlyX

LEMMA OnlyIndex ==
    ASSUME NEW m, Counted(m), NEW d, DOMAIN d = Fields,
           d.slots = m.slots, d.refs = m.refs, d.data = m.data
    PROVE  Kept(m, d)
<1>1. Counted(d) /\ Only(m, d, {"x"})  BY IndexChanges DEF Only
<1>. QED  BY <1>1, OnlyX

LEMMA NoMatrixKept == ASSUME NEW m, Counted(m) PROVE Kept(m, NoMatrix(m).m)
BY NothingChanges DEF NoMatrix, Error

LEMMA TargetIsOther ==
    ASSUME NEW m, Good(m), HasMatrix(m)
    PROVE  Target(m) \in Slots \ {"x"} /\ IsMatrix(m.slots[Target(m)]) /\ It(m) = m.slots[Target(m)]
BY TargetIsMatrix, NamesAreSlots

LEMMA StoelKept ==
    ASSUME NEW m, Good(m), Counted(m), NEW new, Usable(m, new) PROVE Kept(m, stoel(m, new).m)
<1>1. CASE ~ HasMatrix(m)  BY <1>1, NoMatrixKept DEF stoel
<1>2. CASE HasMatrix(m)  BY <1>2, StoelCounted, TargetIsOther, OneOther DEF Stored
<1>. QED  BY <1>1, <1>2

LEMMA RclelCounted ==
    ASSUME NEW m, Counted(m)
    PROVE  LET d == rclel(m).m
           IN  Counted(d) /\ Only(m, d, {"x"}) /\ (~ IsMatrix(d.slots["x"]) \/ d = m)
<1>1. CASE ~ HasMatrix(m)
  <2>1. rclel(m).m = m  BY <1>1 DEF rclel, NoMatrix, Error
  <2>. QED  BY <2>1 DEF Only, Same
<1>2. CASE HasMatrix(m)
  <2>. DEFINE v == Real(Element(m, m.i, m.j))
  <2>1. rclel(m).m = WithX(m, v)  BY <1>2 DEF rclel, Done
  <2>2. Spare(m, v) /\ ~ IsMatrix(v)  BY RealIsSpare
  <2>. HIDE DEF v
  <2>3. XBecomes(m, WithX(m, v), v)  BY <2>2, WithXCounted
  <2>. QED  BY <2>1, <2>2, <2>3 DEF XBecomes
<1>. QED  BY <1>1, <1>2

LEMMA GoneToCounted ==
    ASSUME NEW m, Counted(m), NEW row, NEW column
    PROVE  LET d == GoneTo(m, row, column).m
           IN  Counted(d) /\ Only(m, d, {}) /\ d.slots = m.slots /\ Kept(m, d)
<1>. DEFINE d == GoneTo(m, row, column).m
<1>1. d = m \/ d = [m EXCEPT !.i = row - 1, !.j = column - 1]
  BY Zenon DEF GoneTo, NoMatrix, Error, Done
<1>2. DOMAIN d = Fields /\ d.slots = m.slots /\ d.refs = m.refs /\ d.data = m.data
  BY <1>1 DEF Counted, Fields
<1>. HIDE DEF d
<1>. QED  BY <1>2, IndexChanges, OnlyIndex DEF d

LEMMA StoijKept ==
    ASSUME NEW m, Counted(m), NEW row, NEW column PROVE Kept(m, stoij(m, row, column).m)
BY GoneToCounted, NothingChanges DEF stoij, Error

LEMMA GotoKept ==
    ASSUME NEW m, Good(m), Counted(m), NEW row, NEW column, NEW new, Usable(m, new)
    PROVE  Kept(m, goto(m, row, column, new).m)
<1>. DEFINE r == stoel(m, new)
            s == GoneTo(r.m, row, column)
            e == rclel(s.m).m
<1>1. \/ goto(m, row, column, new).m = r.m
      \/ r.err = "NONE" /\ goto(m, row, column, new).m \in {s.m, e}
  BY DEF goto
<1>2. Kept(m, r.m)  BY StoelKept
<1>3. CASE r.err = "NONE"
  <2>1. /\ Counted(r.m) /\ r.m.slots["x"] = m.slots["x"] /\ Only(m, r.m, {Target(m)})
        /\ HasMatrix(m) /\ IsReal(m.slots["x"])
    <3>1. Stored(m, r)  BY StoelCounted
    <3>. HIDE DEF r
    <3>. QED  BY <1>3, <3>1 DEF Stored
  <2>2. Target(m) \in Slots \ {"x"} /\ ~ IsMatrix(m.slots["x"])
    BY <2>1, TargetIsOther DEF IsReal, IsMatrix
  <2>. HIDE DEF r
  <2>3. Counted(s.m) /\ Only(r.m, s.m, {})  BY <2>1, GoneToCounted
  <2>. HIDE DEF s
  <2>4. Counted(e) /\ Only(s.m, e, {"x"})  BY <2>3, RclelCounted
  <2>. HIDE DEF e
  <2>5. Only(m, s.m, {Target(m)}) /\ Only(m, e, {"x", Target(m)})
    BY <2>1, <2>3, <2>4 DEF Only, Same
  <2>6. Kept(m, s.m)  BY <2>2, <2>3, <2>5, OneOther
  <2>7. Kept(m, e)  BY <2>2, <2>4, <2>5, XAndOther
  <2>. QED  BY <1>1, <1>2, <2>6, <2>7
<1>. QED  BY <1>1, <1>2, <1>3

-----------------------------------------------------------------------------
\* The index moves, and the matrix grows.

MayOwn(m, slot, new) == Shared(m, slot) => new \in Free(m)

\* The slot gets another size, or other elements; the rest of the store does not show it.
Changes(m, d, slot) ==
    /\ Counted(d) /\ Only(m, d, {slot})
    /\ \A other \in Slots \ {slot} : d.slots[other] = m.slots[other]
    /\ ~ Shared(m, slot) => ~ Shared(d, slot)
    /\ IsMatrix(m.slots[slot]) => IsMatrix(d.slots[slot])

LEMMA OwnsChanges ==
    ASSUME NEW m, Counted(m), NEW slot \in Slots, NEW d, NEW rows, NEW columns, NEW elements,
           Owns(m, d, slot, rows, columns, elements)
    PROVE  Changes(m, d, slot)
BY MatrixFields DEF Owns, Changes, Counted

LEMMA DimensionCounted ==
    ASSUME NEW m, Counted(m), NEW slot \in Slots, IsMatrix(m.slots[slot]), NEW new,
           NEW rows \in Nat, NEW columns \in Nat,
           \/ m.slots[slot].rows = rows /\ m.slots[slot].columns = columns
           \/ MayOwn(m, slot, new)
    PROVE  Changes(m, dimension_array_ref(m, slot, rows, columns, new), slot)
<1>. DEFINE d == dimension_array_ref(m, slot, rows, columns, new)
            kept == Contents(m, slot)
            elements == [k \in 1 .. rows * columns |-> IF k <= Len(kept) THEN kept[k] ELSE Zero]
            w == WithArray(m, slot, rows, columns, elements, new)
<1>1. d = IF m.slots[slot].rows = rows /\ m.slots[slot].columns = columns THEN m ELSE w
  BY Zenon DEF dimension_array_ref
<1>2. rows * columns \in Nat  OBVIOUS
<1>3. ArrayOf(elements, rows * columns)  BY <1>2 DEF ArrayOf
<1>4. Changes(m, m, slot)  BY DEF Changes, Only, Same
<1>. HIDE DEF elements
<1>5. MayOwn(m, slot, new) => Owns(m, w, slot, rows, columns, elements)
  BY <1>3, WithArrayCounted DEF MayOwn
<1>. HIDE DEF w, d
<1>6. MayOwn(m, slot, new) => Changes(m, w, slot)  BY <1>5, OwnsChanges
<1>. QED  BY <1>1, <1>4, <1>6 DEF d

LEMMA GrownCounted ==
    ASSUME NEW m, Good(m), Counted(m), HasMatrix(m), NEW direction, NEW new,
           Grows(m, direction) => MayOwn(m, Target(m), new)
    PROVE  Changes(m, Grown(m, direction, new), Target(m))
<1>1. /\ Target(m) \in Slots /\ IsMatrix(m.slots[Target(m)])
      /\ It(m).rows \in Nat \ {0} /\ It(m).columns \in Nat \ {0}
  BY TargetIsMatrix
<1>2. CASE ~ Grows(m, direction)
  BY <1>2 DEF Grown, Changes, Only, Same
<1>3. CASE Grows(m, direction)
  <2>1. Grown(m, direction, new)
          = dimension_array_ref(m, Target(m), It(m).rows + 1, It(m).columns, new)
    BY <1>3 DEF Grown
  <2>2. It(m).rows + 1 \in Nat /\ It(m).columns \in Nat  BY <1>1
  <2>3. MayOwn(m, Target(m), new)  BY <1>3
  <2>. QED  BY <1>1, <2>1, <2>2, <2>3, DimensionCounted
<1>. QED  BY <1>2, <1>3

LEMMA MayOwnIt ==
    ASSUME NEW m, NEW slot, NEW new, Usable(m, new), CanOwn(m, slot, new)
    PROVE  MayOwn(m, slot, new)
BY DEF Usable, CanOwn, MayOwn

LEMMA StepKept ==
    ASSUME NEW m, Good(m), Counted(m), NEW direction \in Directions, NEW new, Usable(m, new)
    PROVE  Kept(m, step(m, direction, new).m)
<1>1. CASE ~ HasMatrix(m)  BY <1>1, NoMatrixKept DEF step
<1>2. CASE HasMatrix(m) /\ Grows(m, direction) /\ ~ CanOwn(m, Target(m), new)
  BY <1>2, NothingChanges DEF step, Error
<1>3. CASE HasMatrix(m) /\ ~ (Grows(m, direction) /\ ~ CanOwn(m, Target(m), new))
  <2>. DEFINE g == Grown(m, direction, new)
              p == Position(m, direction)
              d == [g EXCEPT !.i = p[1], !.j = p[2]]
  <2>1. step(m, direction, new).m = d  BY <1>3 DEF step, Done
  <2>2. Changes(m, g, Target(m))  BY <1>3, MayOwnIt, GrownCounted
  <2>. HIDE DEF g, p
  <2>3. /\ DOMAIN d = Fields /\ d.slots = g.slots /\ d.refs = g.refs /\ d.data = g.data
    BY <2>2 DEF Changes, Counted, Fields
  <2>. HIDE DEF d
  <2>4. Counted(d) /\ Only(g, d, {})  BY <2>2, <2>3, IndexChanges DEF Changes
  <2>5. Only(m, d, {Target(m)})  BY <2>2, <2>4 DEF Changes, Only, Same
  <2>. QED  BY <1>3, <2>1, <2>4, <2>5, TargetIsOther, OneOther
<1>. QED  BY <1>1, <1>2, <1>3

LEMMA MoveKept ==
    ASSUME NEW m, Good(m), Counted(m), NEW direction \in Directions, NEW new, Usable(m, new)
    PROVE  Kept(m, matedit_move(m, direction, new).m)
<1>. DEFINE t == Target(m)
            p == Position(m, direction)
            u == disentangle(m, t, new)
            d == Grown(u, direction, new)
            w == WithElement(d, m.i, m.j, m.slots["x"].x)
            shown == IF Place(It(m), p[1], p[2]) = Place(It(m), m.i, m.j)
                     THEN w.slots["x"] ELSE Real(Element(d, p[1], p[2]))
            e == [w EXCEPT !.i = p[1], !.j = p[2], !.slots["x"] = shown]
<1>1. CASE ~ HasMatrix(m)  BY <1>1, NoMatrixKept DEF matedit_move
<1>2. CASE HasMatrix(m) /\ ~ CanOwn(m, t, new)
  BY <1>2, NothingChanges DEF matedit_move, Error
<1>3. CASE HasMatrix(m) /\ CanOwn(m, t, new)
  <2>1. matedit_move(m, direction, new).m = IF ~ IsReal(m.slots["x"]) THEN d ELSE e
    BY <1>3, Zenon DEF matedit_move, Error, Done
  <2>2. t \in Slots \ {"x"} /\ IsMatrix(m.slots[t]) /\ It(m) = m.slots[t]
    BY <1>3, TargetIsOther
  <2>3. Alike(m, u) /\ Good(u)  BY <2>2, DisentangleAlike, AlikeGood
  <2>4. /\ Counted(u) /\ Only(m, u, {}) /\ ~ Shared(u, t)
        /\ u.slots["x"] = m.slots["x"]
    <3>1. /\ Counted(u) /\ Only(m, u, {}) /\ ~ Shared(u, t)
          /\ \E array : u.slots = [m.slots EXCEPT ![t] =
                                     Matrix(m.slots[t].rows, m.slots[t].columns, array)]
      BY <1>3, <2>2, DisentangleCounted
    <3>. HIDE DEF u
    <3>. QED  BY <2>2, <3>1, NamesAreSlots DEF Counted
  <2>. HIDE DEF u
  <2>5. Target(u) = t /\ HasMatrix(u)
    BY <1>3, <2>2, <2>3 DEF Alike, SameIndex, Target, HasMatrix
  <2>6. Changes(u, d, t) /\ Good(d) /\ SameIndex(u, d)
    BY <2>3, <2>4, <2>5, GrownCounted, GrownAndMoved DEF MayOwn
  <2>. HIDE DEF d, p
  <2>7. Target(d) = t /\ It(d) = d.slots[t] /\ d.slots["x"] = m.slots["x"] /\ ~ Shared(d, t)
        /\ Counted(d) /\ Only(m, d, {t})
    BY <2>2, <2>4, <2>5, <2>6, NamesAreSlots DEF Changes, SameIndex, Target, It, Only, Same
  <2>8. CASE ~ IsReal(m.slots["x"])  BY <2>1, <2>2, <2>7, <2>8, OneOther
  <2>9. CASE IsReal(m.slots["x"])
    <3>. DEFINE q == Place(It(d), m.i, m.j)
                elements == [Contents(d, t) EXCEPT ![q] = m.slots["x"].x]
    <3>1. IsMatrix(d.slots[t])  BY <2>5, <2>6 DEF HasMatrix, Changes
    <3>2. w = [d EXCEPT !.data[d.slots[t].array] = elements]
      BY <2>7 DEF WithElement, Contents
    <3>3. ArrayOf(Contents(d, t), Size(d.slots[t]))
      BY <2>2, <2>7, <3>1 DEF Counted, Contents
    <3>4. ArrayOf(elements, Size(d.slots[t]))  BY <3>3, ExceptIsArray
    <3>. HIDE DEF elements, w
    <3>5. Counted(w) /\ Only(d, w, {t}) /\ w.slots = d.slots
      BY <2>2, <2>7, <3>1, <3>2, <3>4, OwnElements
    <3>6. ~ IsMatrix(shown)
      BY <2>7, <2>9, <3>5, RealIsSpare DEF IsReal, IsMatrix
    <3>. HIDE DEF shown
    <3>7. /\ DOMAIN e = Fields /\ e.slots = [w.slots EXCEPT !["x"] = shown]
          /\ e.refs = w.refs /\ e.data = w.data
      BY <3>5 DEF Counted, Fields
    <3>. HIDE DEF e
    <3>8. Counted(e) /\ Only(w, e, {"x"})
      BY <3>5, <3>6, <3>7, NamesAreSlots, Overwritten DEF Spare
    <3>9. Only(m, e, {"x", t})  BY <2>7, <3>5, <3>8 DEF Only, Same
    <3>10. ~ IsMatrix(m.slots["x"])  BY <2>9 DEF IsReal, IsMatrix
    <3>. QED  BY <2>1, <2>2, <2>9, <3>8, <3>9, <3>10, XAndOther
  <2>. QED  BY <2>8, <2>9
<1>. QED  BY <1>1, <1>2, <1>3

-----------------------------------------------------------------------------
\* Rows and parts.

LEMMA ClampedCounted ==
    ASSUME NEW m, Good(m), Counted(m), HasMatrix(m)
    PROVE  LET c == Clamped(m)
           IN  /\ Good(c) /\ Counted(c) /\ Only(m, c, {}) /\ c.slots = m.slots /\ c.refs = m.refs
               /\ HasMatrix(c) /\ Target(c) = Target(m) /\ It(c) = It(m)
               /\ c.i < It(m).rows /\ Kept(m, c)
<1>. DEFINE c == Clamped(m)
<1>1. DOMAIN c = Fields /\ c.slots = m.slots /\ c.refs = m.refs /\ c.data = m.data
  BY DEF Clamped, Counted, Fields
<1>2. /\ Good(c) /\ HasMatrix(c) /\ Target(c) = Target(m) /\ It(c) = It(m)
      /\ c.i < It(m).rows
  BY ClampedGood
<1>. HIDE DEF c
<1>3. Counted(c) /\ Only(m, c, {}) /\ Kept(m, c)  BY <1>1, IndexChanges, OnlyIndex
<1>. QED  BY <1>1, <1>2, <1>3 DEF c

LEMMA TimesMonotonic ==
    ASSUME NEW i \in Nat, NEW n \in Nat, NEW columns \in Nat, i <= n
    PROVE  i * columns \in Nat /\ i * columns <= n * columns
<1>1. (n - i) * columns \in Nat /\ i * columns \in Nat  OBVIOUS
<1>2. n * columns = i * columns + (n - i) * columns  OBVIOUS
<1>. QED  BY <1>1, <1>2

\* The rows of a matrix, from first to last.
LEMMA RowsAreRows ==
    ASSUME NEW m, NEW V, Contents(m, Target(m)) \in Seq(V), NEW first \in Int, NEW last \in Int,
           NEW columns \in Nat, It(m).columns = columns,
           0 <= first * columns, (last + 1) * columns <= Len(Contents(m, Target(m))),
           first * columns <= (last + 1) * columns
    PROVE  Rows(m, first, last) \in Seq(V)
           /\ Len(Rows(m, first, last)) = (last + 1) * columns - first * columns
<1>. DEFINE s == Contents(m, Target(m))
            from == first * columns
            to == (last + 1) * columns
<1>1. from \in Int /\ to \in Int  OBVIOUS
<1>2. Rows(m, first, last) = SubSeq(s, from + 1, to)  BY DEF Rows
<1>3. s \in Seq(V) /\ 0 <= from /\ to <= Len(s) /\ from <= to  OBVIOUS
<1>. HIDE DEF s, from, to
<1>4. \A k \in from + 1 .. to : s[k] \in V
  BY <1>1, <1>3, ElementOfSeq, LenProperties
<1>5. /\ SubSeq(s, from + 1, to) \in Seq(V)
      /\ Len(SubSeq(s, from + 1, to)) = IF from + 1 <= to THEN to - (from + 1) + 1 ELSE 0
  BY <1>1, <1>4, SubSeqProperties
<1>6. Len(SubSeq(s, from + 1, to)) = to - from  BY <1>1, <1>3, <1>5
<1>. QED  BY <1>2, <1>5, <1>6 DEF from, to

LEMMA SeqIsArray == ASSUME NEW V, NEW s \in Seq(V) PROVE ArrayOf(s, Len(s))
BY LenProperties DEF ArrayOf

LEMMA ArrayIsSeq == ASSUME NEW s, NEW n, ArrayOf(s, n) PROVE \E V : s \in Seq(V)
<1>. DEFINE V == {s[k] : k \in 1 .. n}
<1>1. s \in [1 .. n -> V] /\ n \in Nat  BY DEF ArrayOf
<1>. HIDE DEF V
<1>. QED  BY <1>1, SeqDef

\* A matrix that gets a new row in the middle, or loses one, has as many elements as its size says.
LEMMA LongerIsArray ==
    ASSUME NEW c, Good(c), Counted(c), HasMatrix(c), c.i < It(c).rows
    PROVE  ArrayOf(Rows(c, 0, c.i - 1) \o [k \in 1 .. It(c).columns |-> Zero]
                     \o Rows(c, c.i, It(c).rows - 1),
                   (It(c).rows + 1) * It(c).columns)
<1>. DEFINE rows == It(c).rows
            columns == It(c).columns
            i == c.i
            s == Contents(c, Target(c))
            above == Rows(c, 0, i - 1)
            zeros == [k \in 1 .. columns |-> Zero]
            below == Rows(c, i, rows - 1)
<1>1. /\ rows \in Nat /\ columns \in Nat /\ i \in Nat /\ i < rows
      /\ ArrayOf(s, rows * columns)
  BY TargetIsMatrix DEF Good, IndexOK, Counted, Contents, Size
<1>2. PICK V : s \in Seq(V)  BY <1>1, ArrayIsSeq
<1>. DEFINE W == V \cup {Zero}
<1>3. s \in Seq(W)  BY <1>2, SeqMonotonic
<1>4. Len(s) = rows * columns  BY <1>1, ArrayLength
<1>5. zeros \in Seq(W) /\ Len(zeros) = columns
  <2>1. zeros \in [1 .. columns -> W]  OBVIOUS
  <2>2. zeros \in Seq(W)  BY <1>1, <2>1, SeqDef
  <2>3. ArrayOf(zeros, columns)  BY <1>1 DEF ArrayOf
  <2>. HIDE DEF zeros
  <2>. QED  BY <2>2, <2>3, ArrayLength
<1>6. i * columns \in Nat /\ 0 * columns = 0 /\ i * columns <= rows * columns
  BY <1>1, TimesMonotonic
<1>7. (i - 1 + 1) * columns = i * columns /\ (rows - 1 + 1) * columns = rows * columns
  BY <1>1
<1>. HIDE DEF rows, columns, i, s, zeros, W
<1>8. above \in Seq(W) /\ Len(above) = i * columns
  BY <1>1, <1>3, <1>4, <1>6, <1>7, RowsAreRows DEF s, columns
<1>9. below \in Seq(W) /\ Len(below) = rows * columns - i * columns
  BY <1>1, <1>3, <1>4, <1>6, <1>7, RowsAreRows DEF s, columns
<1>. HIDE DEF above, below
<1>10. above \o zeros \in Seq(W) /\ Len(above \o zeros) = i * columns + columns
  BY <1>5, <1>8, ConcatProperties
<1>11. /\ (above \o zeros) \o below \in Seq(W)
       /\ Len((above \o zeros) \o below) = (i * columns + columns) + (rows * columns - i * columns)
  <2>. DEFINE p == above \o zeros
  <2>1. p \in Seq(W) /\ below \in Seq(W)  BY <1>9, <1>10
  <2>. HIDE DEF p
  <2>2. p \o below \in Seq(W) /\ Len(p \o below) = Len(p) + Len(below)
    BY <2>1, ConcatProperties
  <2>. QED  BY <1>9, <1>10, <2>2 DEF p
<1>12. (rows + 1) * columns = (i * columns + columns) + (rows * columns - i * columns)
  <2>. DEFINE A == i * columns
              B == rows * columns
  <2>1. A \in Nat /\ B \in Nat /\ (rows + 1) * columns = B + columns  BY <1>1, <1>6
  <2>. HIDE DEF A, B
  <2>2. B + columns = (A + columns) + (B - A)  BY <1>1, <2>1
  <2>. QED  BY <2>1, <2>2 DEF A, B
<1>13. ArrayOf((above \o zeros) \o below, (rows + 1) * columns)
  BY <1>11, <1>12, SeqIsArray
<1>. QED  BY <1>13 DEF above, zeros, below, rows, columns, i

LEMMA ShorterIsArray ==
    ASSUME NEW c, Good(c), Counted(c), HasMatrix(c), c.i < It(c).rows
    PROVE  ArrayOf(Rows(c, 0, c.i - 1) \o Rows(c, c.i + 1, It(c).rows - 1),
                   (It(c).rows - 1) * It(c).columns)
<1>. DEFINE rows == It(c).rows
            columns == It(c).columns
            i == c.i
            s == Contents(c, Target(c))
            above == Rows(c, 0, i - 1)
            below == Rows(c, i + 1, rows - 1)
<1>1. /\ rows \in Nat /\ columns \in Nat /\ i \in Nat /\ i < rows
      /\ ArrayOf(s, rows * columns)
  BY TargetIsMatrix DEF Good, IndexOK, Counted, Contents, Size
<1>2. PICK V : s \in Seq(V)  BY <1>1, ArrayIsSeq
<1>3. Len(s) = rows * columns  BY <1>1, ArrayLength
<1>4. /\ i * columns \in Nat /\ 0 * columns = 0 /\ i * columns <= rows * columns
      /\ (i + 1) * columns \in Nat /\ (i + 1) * columns <= rows * columns
  BY <1>1, TimesMonotonic
<1>5. (i - 1 + 1) * columns = i * columns /\ (rows - 1 + 1) * columns = rows * columns
  BY <1>1
<1>. HIDE DEF rows, columns, i, s
<1>6. above \in Seq(V) /\ Len(above) = i * columns
  BY <1>1, <1>2, <1>3, <1>4, <1>5, RowsAreRows DEF s, columns
<1>7. below \in Seq(V) /\ Len(below) = rows * columns - (i + 1) * columns
  <2>. DEFINE first == i + 1
              last == rows - 1
  <2>1. /\ first \in Int /\ last \in Int /\ 0 <= first * columns
        /\ first * columns <= (last + 1) * columns /\ (last + 1) * columns <= Len(s)
    BY <1>1, <1>3, <1>4, <1>5
  <2>. HIDE DEF first, last
  <2>2. /\ Rows(c, first, last) \in Seq(V)
        /\ Len(Rows(c, first, last)) = (last + 1) * columns - first * columns
    BY <1>1, <1>2, <2>1, RowsAreRows DEF s, columns
  <2>. QED  BY <1>5, <2>2 DEF first, last
<1>. HIDE DEF above, below
<1>8. /\ above \o below \in Seq(V)
      /\ Len(above \o below) = i * columns + (rows * columns - (i + 1) * columns)
  BY <1>6, <1>7, ConcatProperties
<1>9. (rows - 1) * columns = i * columns + (rows * columns - (i + 1) * columns)
  <2>. DEFINE A == i * columns
              B == rows * columns
  <2>1. /\ A \in Nat /\ B \in Nat /\ (i + 1) * columns = A + columns
        /\ (rows - 1) * columns = B - columns
    BY <1>1, <1>4
  <2>. HIDE DEF A, B
  <2>2. B - columns = A + (B - (A + columns))  BY <1>1, <2>1
  <2>. QED  BY <2>1, <2>2 DEF A, B
<1>10. ArrayOf(above \o below, (rows - 1) * columns)  BY <1>8, <1>9, SeqIsArray
<1>. QED  BY <1>10 DEF above, below, rows, columns, i

LEMMA InsrKept ==
    ASSUME NEW m, Good(m), Counted(m), NEW new, Usable(m, new) PROVE Kept(m, insr(m, new).m)
<1>. DEFINE t == Target(m)
            r == IF Interactive(m) THEN stoel(m, new) ELSE Done(m)
            c == Clamped(r.m)
            v == It(c)
            longer == Rows(c, 0, c.i - 1) \o [k \in 1 .. v.columns |-> Zero]
                        \o Rows(c, c.i, v.rows - 1)
            d == WithArray(c, Target(c), v.rows + 1, v.columns, longer, new)
            x == WithX(d, Real(Zero))
<1>1. CASE ~ HasMatrix(m)  BY <1>1, NoMatrixKept DEF insr
<1>2. CASE HasMatrix(m)
  <2>1. insr(m, new).m = IF r.err # "NONE" THEN r.m
                         ELSE IF ~ CanOwn(c, Target(c), new) THEN c
                         ELSE IF Interactive(m) THEN x ELSE d
    BY <1>2, Zenon DEF insr, Error, Done
  <2>2. t \in Slots \ {"x"}  BY <1>2, TargetIsOther
  <2>3. /\ Stored(m, r) \/ (r.m = m /\ ~ Interactive(m))
        /\ Good(r.m) /\ Alike(m, r.m)
    BY StoelCounted, StoelAlike, StoelGood, AlikeSelf DEF Done
  <2>. HIDE DEF r
  <2>4. Counted(r.m) /\ Only(m, r.m, {t}) /\ r.m.slots["x"] = m.slots["x"]
    BY <2>3 DEF Stored, Only, Same
  <2>5. HasMatrix(r.m) /\ Target(r.m) = t
    BY <1>2, <2>2, <2>3 DEF Alike, SameIndex, HasMatrix, Target
  <2>6. /\ Good(c) /\ Counted(c) /\ Only(r.m, c, {}) /\ c.slots = r.m.slots /\ c.refs = r.m.refs
        /\ HasMatrix(c) /\ Target(c) = t /\ c.i < It(c).rows
    BY <2>3, <2>4, <2>5, ClampedCounted
  <2>7. r.err = "NONE" /\ CanOwn(c, t, new) => MayOwn(c, t, new)
    BY <2>3, <2>6 DEF Stored, Shared, MayOwn, Usable, CanOwn, Free
  <2>. HIDE DEF c
  <2>8. Kept(m, r.m)  BY <2>2, <2>4, OneOther
  <2>9. Only(m, c, {t})  BY <2>4, <2>6 DEF Only, Same
  <2>10. Kept(m, c)  BY <2>2, <2>6, <2>9, OneOther
  <2>11. CASE r.err = "NONE" /\ CanOwn(c, t, new)
    <3>1. ArrayOf(longer, (v.rows + 1) * v.columns)  BY <2>6, LongerIsArray
    <3>2. IsMatrix(c.slots[t])  BY <2>6 DEF HasMatrix
    <3>. HIDE DEF longer, v
    <3>3. Owns(c, d, t, v.rows + 1, v.columns, longer)
      BY <2>2, <2>6, <2>7, <2>11, <3>1, <3>2, WithArrayCounted DEF MayOwn
    <3>. HIDE DEF d
    <3>4. Changes(c, d, t)  BY <2>2, <2>6, <3>3, OwnsChanges
    <3>5. Counted(d) /\ Only(m, d, {t})  BY <2>9, <3>4 DEF Changes, Only, Same
    <3>6. Kept(m, d)  BY <2>2, <3>5, OneOther
    <3>7. XBecomes(d, x, Real(Zero))  BY <3>5, RealIsSpare, WithXCounted
    <3>. HIDE DEF x
    <3>8. Counted(x) /\ Only(m, x, {"x", t}) /\ ~ IsMatrix(x.slots["x"])
      BY <3>5, <3>7, RealIsSpare DEF XBecomes, Only, Same
    <3>9. Kept(m, x)  BY <2>2, <3>8, XAndOther
    <3>. QED  BY <2>1, <2>6, <2>11, <3>6, <3>9
  <2>. QED  BY <2>1, <2>6, <2>8, <2>10, <2>11
<1>. QED  BY <1>1, <1>2

LEMMA DelrKept ==
    ASSUME NEW m, Good(m), Counted(m), NEW new, Usable(m, new) PROVE Kept(m, delr(m, new).m)
<1>. DEFINE t == Target(m)
            c == Clamped(m)
            v == It(c)
            last == c.i = v.rows - 1
            shorter == Rows(c, 0, c.i - 1) \o Rows(c, c.i + 1, v.rows - 1)
            w == WithArray(c, Target(c), v.rows - 1, v.columns, shorter, new)
            d == [w EXCEPT !.i = IF last THEN @ - 1 ELSE @]
            e == Real(Element(c, IF last THEN c.i - 1 ELSE c.i + 1, c.j))
            x == WithX(d, e)
<1>1. CASE ~ HasMatrix(m)  BY <1>1, NoMatrixKept DEF delr
<1>2. CASE HasMatrix(m)
  <2>1. \/ delr(m, new).m \in {m, c}
        \/ CanOwn(c, Target(c), new) /\ delr(m, new).m \in {d, x}
    BY <1>2, Zenon DEF delr, Error, Done
  <2>2. t \in Slots \ {"x"}  BY <1>2, TargetIsOther
  <2>3. /\ Good(c) /\ Counted(c) /\ Only(m, c, {}) /\ c.refs = m.refs
        /\ HasMatrix(c) /\ Target(c) = t /\ c.i < It(c).rows /\ Kept(m, c)
    BY <1>2, ClampedCounted
  <2>4. Usable(c, new)  BY <2>3 DEF Usable, Free
  <2>5. IsMatrix(c.slots[t])  BY <2>3 DEF HasMatrix
  <2>. HIDE DEF c
  <2>6. CASE CanOwn(c, t, new)
    <3>1. ArrayOf(shorter, (v.rows - 1) * v.columns)  BY <2>3, ShorterIsArray
    <3>2. MayOwn(c, t, new)  BY <2>4, <2>6, MayOwnIt
    <3>. HIDE DEF shorter, v, last
    <3>3. Owns(c, w, t, v.rows - 1, v.columns, shorter)
      BY <2>2, <2>3, <2>5, <3>1, <3>2, WithArrayCounted DEF MayOwn
    <3>. HIDE DEF w
    <3>4. Changes(c, w, t)  BY <2>2, <2>3, <3>3, OwnsChanges
    <3>5. DOMAIN d = Fields /\ d.slots = w.slots /\ d.refs = w.refs /\ d.data = w.data
      BY <3>4 DEF Changes, Counted, Fields
    <3>. HIDE DEF d
    <3>6. Counted(d) /\ Only(w, d, {})  BY <3>4, <3>5, IndexChanges DEF Changes
    <3>7. Only(m, d, {t})  BY <2>3, <3>4, <3>6 DEF Changes, Only, Same
    <3>8. Kept(m, d)  BY <2>2, <3>6, <3>7, OneOther
    <3>9. Spare(d, e) /\ ~ IsMatrix(e)  BY RealIsSpare
    <3>. HIDE DEF e
    <3>10. XBecomes(d, x, e)  BY <3>6, <3>9, WithXCounted
    <3>. HIDE DEF x
    <3>11. Counted(x) /\ Only(m, x, {"x", t}) /\ ~ IsMatrix(x.slots["x"])
      BY <3>7, <3>9, <3>10 DEF XBecomes, Only, Same
    <3>12. Kept(m, x)  BY <2>2, <3>11, XAndOther
    <3>. QED  BY <2>1, <2>3, <2>6, <3>8, <3>12, NothingChanges
  <2>. QED  BY <2>1, <2>3, <2>6, NothingChanges
<1>. QED  BY <1>1, <1>2

LEMMA GetmKept ==
    ASSUME NEW m, Good(m), Counted(m), NEW rows \in Nat, NEW columns \in Nat,
           NEW new, Usable(m, new)
    PROVE  Kept(m, getm(m, rows, columns, new).m)
<1>. DEFINE part == [k \in 1 .. rows * columns |->
                        Element(m, m.i + ((k - 1) \div columns), m.j + ((k - 1) % columns))]
            v == Matrix(rows, columns, new)
            w == WithX(m, v)
            d == [w EXCEPT !.refs[new] = 1, !.data[new] = part]
            a == [m EXCEPT !.refs[new] = 1, !.data[new] = part]
<1>1. \/ getm(m, rows, columns, new).m \in {NoMatrix(m).m, m}
      \/ new # NoArray /\ getm(m, rows, columns, new).m = d
  BY Zenon DEF getm, Error, Done
<1>2. CASE new # NoArray
  <2>1. new \in Free(m)  BY <1>2 DEF Usable
  <2>2. rows * columns \in Nat  OBVIOUS
  <2>3. ArrayOf(part, rows * columns)  BY <2>2 DEF ArrayOf
  <2>. HIDE DEF part
  <2>4. Reserves(m, a, v)  BY <2>1, <2>3, AllocatedCounted
  <2>5. /\ DOMAIN m.refs = Arrays /\ DOMAIN m.data = Arrays
        /\ DOMAIN a = Fields /\ a.slots = m.slots
        /\ a.refs = [m.refs EXCEPT ![new] = 1] /\ a.data = [m.data EXCEPT ![new] = part]
    BY DEF Counted, Fields
  <2>6. Replaces(m, w, "x", v)  BY FreedAndSet, NamesAreSlots DEF WithX
  <2>. HIDE DEF a, w
  <2>7. /\ DOMAIN d = Fields /\ d.slots = w.slots
        /\ d.refs = [w.refs EXCEPT ![new] = 1] /\ d.data = [w.data EXCEPT ![new] = part]
    BY <2>6 DEF Replaces, Fields
  <2>8. new \in Arrays /\ ~ Holds(m.slots["x"], new)
    BY <2>1, NothingHoldsFree, NamesAreSlots
  <2>. HIDE DEF d
  <2>9. Replaces(a, d, "x", v)
    BY <2>5, <2>6, <2>7, <2>8 DEF Replaces, Held
  <2>10. Counted(d) /\ Only(a, d, {"x"})
    BY <2>4, <2>9, Replaced, NamesAreSlots DEF Reserves
  <2>11. Only(m, d, {"x"})  BY <2>4, <2>10 DEF Reserves, Only, Same
  <2>. QED  BY <1>1, <2>10, <2>11, OnlyX, NoMatrixKept, NothingChanges
<1>. QED  BY <1>1, <1>2, NoMatrixKept, NothingChanges

\* The matrix gets other elements, in an array of its own.
LEMMA PutKept ==
    ASSUME NEW m, Good(m), Counted(m), HasMatrix(m), NEW new, Usable(m, new),
           CanOwn(m, Target(m), new), NEW elements, ArrayOf(elements, Size(It(m)))
    PROVE  LET d == disentangle(m, Target(m), new)
           IN  Kept(m, [d EXCEPT !.data[It(d).array] = elements])
<1>. DEFINE t == Target(m)
            d == disentangle(m, t, new)
            e == [d EXCEPT !.data[d.slots[t].array] = elements]
<1>1. t \in Slots \ {"x"} /\ IsMatrix(m.slots[t]) /\ It(m) = m.slots[t]  BY TargetIsOther
<1>2. Alike(m, d)  BY <1>1, DisentangleAlike
<1>3. Counted(d) /\ Only(m, d, {}) /\ ~ Shared(d, t)  BY <1>1, DisentangleCounted
<1>. HIDE DEF d
<1>4. IsMatrix(d.slots[t]) /\ Size(d.slots[t]) = Size(m.slots[t]) /\ It(d) = d.slots[t]
  BY <1>1, <1>2 DEF Alike, Size, SameIndex, Target, It
<1>5. ArrayOf(elements, Size(d.slots[t]))  BY <1>1, <1>4
<1>6. Counted(e) /\ Only(d, e, {t})  BY <1>1, <1>3, <1>4, <1>5, OwnElements
<1>. HIDE DEF e
<1>7. Only(m, e, {t})  BY <1>3, <1>6 DEF Only, Same
<1>8. Kept(m, e)  BY <1>1, <1>6, <1>7, OneOther
<1>. QED  BY <1>4, <1>8 DEF d, e

LEMMA SizeIsNat == ASSUME NEW m, Good(m), HasMatrix(m) PROVE Size(It(m)) \in Nat
BY TargetIsMatrix DEF Size

LEMMA PutmKept ==
    ASSUME NEW m, Good(m), Counted(m), NEW new, Usable(m, new) PROVE Kept(m, putm(m, new).m)
<1>. DEFINE v == It(m)
            x == m.slots["x"]
            d == disentangle(m, Target(m), new)
            Put(k) ==
                LET i == ((k - 1) \div v.columns) - m.i
                    j == ((k - 1) % v.columns) - m.j
                IN  IF i \in 0 .. x.rows - 1 /\ j \in 0 .. x.columns - 1
                    THEN Contents(m, "x")[Place(x, i, j)] ELSE Contents(m, Target(m))[k]
            elements == [k \in 1 .. Size(v) |-> Put(k)]
            e == [d EXCEPT !.data[It(d).array] = elements]
<1>1. \/ putm(m, new).m \in {NoMatrix(m).m, m}
      \/ HasMatrix(m) /\ CanOwn(m, Target(m), new) /\ putm(m, new).m = e
  BY Zenon DEF putm, Error, Done
<1>2. HasMatrix(m) => ArrayOf(elements, Size(v))  BY SizeIsNat DEF ArrayOf
<1>. HIDE DEF elements, v
<1>3. HasMatrix(m) /\ CanOwn(m, Target(m), new) => Kept(m, e)  BY <1>2, PutKept DEF v
<1>. HIDE DEF e
<1>. QED  BY <1>1, <1>3, NoMatrixKept, NothingChanges

LEMMA SwapKept ==
    ASSUME NEW m, Good(m), Counted(m), NEW r1, NEW r2, NEW new, Usable(m, new)
    PROVE  Kept(m, swap_r(m, r1, r2, new).m)
<1>. DEFINE v == It(m)
            d == disentangle(m, Target(m), new)
            From(row) == IF row = r1 THEN r2 ELSE IF row = r2 THEN r1 ELSE row
            Swapped(k) == Element(m, From((k - 1) \div v.columns), (k - 1) % v.columns)
            elements == [k \in 1 .. Size(v) |-> Swapped(k)]
            e == [d EXCEPT !.data[It(d).array] = elements]
<1>1. \/ swap_r(m, r1, r2, new).m \in {NoMatrix(m).m, m}
      \/ HasMatrix(m) /\ CanOwn(m, Target(m), new) /\ swap_r(m, r1, r2, new).m = e
  BY Zenon DEF swap_r, Error, Done
<1>2. HasMatrix(m) => ArrayOf(elements, Size(v))  BY SizeIsNat DEF ArrayOf
<1>. HIDE DEF elements, v
<1>3. HasMatrix(m) /\ CanOwn(m, Target(m), new) => Kept(m, e)  BY <1>2, PutKept DEF v
<1>. HIDE DEF e
<1>. QED  BY <1>1, <1>3, NoMatrixKept, NothingChanges

-----------------------------------------------------------------------------
\* Into the editor and out of it.

LEMMA KeptThenIndex ==
    ASSUME NEW m, NEW d, Kept(m, d), NEW e, DOMAIN e = Fields,
           e.slots = d.slots, e.refs = d.refs, e.data = d.data
    PROVE  Kept(m, e)
<1>1. Counted(e) /\ Only(d, e, {})  BY IndexChanges DEF Kept
<1>2. \A slot \in Slots : Same(d, e, slot)  BY <1>1 DEF Only
<1>. QED  BY <1>1, <1>2, NamesAreSlots DEF Kept, Independent, Only, Same

\* The matrix under edit goes to X, and leaves its place empty.
PutBack(m, d) ==
    /\ Counted(d) /\ Only(m, d, {"x", "edited"})
    /\ d.slots["x"] = m.slots["edited"] /\ d.slots["edited"] = None
    /\ IsMatrix(m.slots["edited"]) => Contents(d, "x") = Contents(m, "edited")

LEMMA BackCounted ==
    ASSUME NEW m, Counted(m)
    PROVE  PutBack(m, [free_vartype(m, m.slots["x"])
                         EXCEPT !.slots["x"] = m.slots["edited"], !.slots["edited"] = None])
<1>. DEFINE u == m.slots["edited"]
            f == free_vartype(m, m.slots["x"])
            d == [m EXCEPT !.slots["edited"] = None]
            back == [f EXCEPT !.slots["x"] = u, !.slots["edited"] = None]
<1>0. DOMAIN m = Fields /\ DOMAIN m.slots = Slots  BY DEF Counted
<1>1. /\ DOMAIN d = Fields /\ d.slots = [m.slots EXCEPT !["edited"] = None]
      /\ d.refs = m.refs /\ d.data = m.data
  BY <1>0 DEF Fields
<1>2. d.slots["x"] = m.slots["x"]  BY <1>0, <1>1, NamesAreSlots
<1>. HIDE DEF d
<1>3. Spare(m, None) /\ ~ IsMatrix(None)  BY NoneIsSpare
<1>4. Counted(d) /\ Only(m, d, {"edited"}) /\ Spare(d, u)
  BY <1>1, <1>3, NamesAreSlots, Overwritten
<1>5. /\ DOMAIN f = Fields /\ f.slots = m.slots
      /\ DOMAIN f.refs = Arrays /\ DOMAIN f.data = Arrays
      /\ \A a \in Arrays :
            /\ f.refs[a] = m.refs[a] - Held(m.slots["x"], a)
            /\ f.data[a] = IF Holds(m.slots["x"], a) /\ m.refs[a] = 1 THEN << >> ELSE m.data[a]
  BY FreeFields, NamesAreSlots
<1>. HIDE DEF f
<1>6. /\ DOMAIN back = Fields /\ back.refs = f.refs /\ back.data = f.data
      /\ back.slots = [[m.slots EXCEPT !["x"] = u] EXCEPT !["edited"] = None]
  BY <1>5 DEF Fields
<1>. HIDE DEF back
<1>7. /\ back.slots = [d.slots EXCEPT !["x"] = u]
      /\ back.slots["x"] = u /\ back.slots["edited"] = None
  BY <1>0, <1>1, <1>6, NamesAreSlots
<1>8. Replaces(d, back, "x", u)  BY <1>1, <1>2, <1>5, <1>6, <1>7 DEF Replaces
<1>9. Counted(back) /\ Only(d, back, {"x"})  BY <1>4, <1>8, Replaced, NamesAreSlots
<1>10. Only(m, back, {"x", "edited"})  BY <1>4, <1>9 DEF Only, Same
<1>11. ASSUME IsMatrix(u) PROVE Contents(back, "x") = Contents(m, "edited")
  <2>1. u.array \in Arrays /\ ~ (Holds(m.slots["x"], u.array) /\ m.refs[u.array] = 1)
    BY <1>11, ItHasAReference, NamesAreSlots
  <2>. QED  BY <1>5, <1>6, <1>7, <2>1 DEF Contents
<1>. QED  BY <1>7, <1>9, <1>10, <1>11 DEF PutBack, back, f, u

\* What it leaves for EDIT and EDITN to open another one in.
Finished(m, d) ==
    Kept(m, d) /\ (~ IsMatrix(d.slots["x"]) \/ Only(m, d, {"x", "edited"}))

LEMMA FinishedThenIndex ==
    ASSUME NEW m, NEW d, Finished(m, d), NEW e, DOMAIN e = Fields,
           e.slots = d.slots, e.refs = d.refs, e.data = d.data
    PROVE  Finished(m, e)
<1>1. Kept(m, e)  BY KeptThenIndex DEF Finished
<1>2. Only(d, e, {})  BY IndexChanges DEF Finished, Kept
<1>. QED  BY <1>1, <1>2 DEF Finished, Only, Same

LEMMA LeaveCounted ==
    ASSUME NEW m, Good(m), Counted(m), NEW new, Usable(m, new)
    PROVE  Finished(m, leave(m, new).m)
<1>. DEFINE r == stoel(m, new)
            back == [free_vartype(r.m, r.m.slots["x"])
                       EXCEPT !.slots["x"] = r.m.slots["edited"], !.slots["edited"] = None]
<1>1. \/ leave(m, new).m \in {m, r.m}
      \/ leave(m, new).m = Left(IF m.mode = 2 THEN back ELSE r.m)
  BY Zenon DEF leave, Done, Left
<1>2. Stored(m, r) /\ Kept(m, r.m)  BY StoelCounted, StoelKept
<1>. HIDE DEF r
<1>3. Finished(m, m)  BY NothingChanges DEF Finished, Only, Same
<1>4. Finished(m, r.m)
  BY <1>2 DEF Finished, Stored, Only, IsReal, IsMatrix
<1>5. CASE m.mode = 2
  <2>1. HasMatrix(m) /\ Target(m) = "edited"
    BY <1>5 DEF Good, IndexOK, HasMatrix, Target
  <2>2. Counted(r.m) /\ Only(m, r.m, {"edited"})  BY <1>2, <2>1 DEF Stored
  <2>3. PutBack(r.m, back)  BY <2>2, BackCounted
  <2>. HIDE DEF back
  <2>4. Counted(back) /\ Only(m, back, {"x", "edited"})
    BY <2>2, <2>3 DEF PutBack, Only, Same
  <2>5. Finished(m, back)  BY <2>4, XAndOther, NamesAreSlots DEF Finished
  <2>6. /\ DOMAIN Left(back) = Fields /\ Left(back).slots = back.slots
        /\ Left(back).refs = back.refs /\ Left(back).data = back.data
    BY <2>4 DEF Left, Counted, Fields
  <2>7. Finished(m, Left(back))  BY <2>5, <2>6, FinishedThenIndex
  <2>. QED  BY <1>1, <1>3, <1>4, <1>5, <2>7
<1>6. CASE m.mode # 2
  <2>1. /\ DOMAIN Left(r.m) = Fields /\ Left(r.m).slots = r.m.slots
        /\ Left(r.m).refs = r.m.refs /\ Left(r.m).data = r.m.data
    BY <1>2 DEF Left, Kept, Counted, Fields
  <2>2. Finished(m, Left(r.m))  BY <1>4, <2>1, FinishedThenIndex
  <2>. QED  BY <1>1, <1>3, <1>4, <1>6, <2>2
<1>. QED  BY <1>5, <1>6

LEMMA FinishCounted ==
    ASSUME NEW m, Good(m), Counted(m), NEW new, Usable(m, new)
    PROVE  Finished(m, finish_edit(m, new).m)
<1>1. Finished(m, m)  BY NothingChanges DEF Finished, Only, Same
<1>. QED  BY <1>1, LeaveCounted DEF finish_edit, Done

\* EDIT moves the matrix from X to its place, and its reference with it.
LEMMA TakenOutCounted ==
    ASSUME NEW m, Counted(m), NEW e, NEW d, DOMAIN d = Fields,
           d.slots = [[m.slots EXCEPT !["x"] = Real(e)] EXCEPT !["edited"] = m.slots["x"]],
           d.refs = m.refs, d.data = m.data
    PROVE  Counted(d) /\ Only(m, d, {"x", "edited"})
<1>. DEFINE x == m.slots["x"]
            v == Real(e)
            w == [m EXCEPT !.slots["x"] = v]
<1>1. /\ DOMAIN w = Fields /\ w.slots = [m.slots EXCEPT !["x"] = v]
      /\ w.refs = m.refs /\ w.data = m.data
  BY DEF Counted, Fields
<1>2. Spare(m, v) /\ ~ IsMatrix(v)  BY RealIsSpare
<1>. HIDE DEF v, w
<1>3. Counted(w) /\ Only(m, w, {"x"}) /\ Spare(w, x)
  BY <1>1, <1>2, NamesAreSlots, Overwritten
<1>4. d.slots = [w.slots EXCEPT !["edited"] = x] /\ d.refs = w.refs /\ d.data = w.data
  BY <1>1 DEF v
<1>5. Counted(d) /\ Only(w, d, {"edited"})
  BY <1>3, <1>4, NamesAreSlots, Overwritten
<1>. QED  BY <1>3, <1>5 DEF Only, Same

LEMMA EditKept ==
    ASSUME NEW m, Good(m), Counted(m), NEW new, Usable(m, new) PROVE Kept(m, edit(m, new).m)
<1>. DEFINE r == finish_edit(m, new)
            x == r.m.slots["x"]
            d == [Opened(r.m, 2, x) EXCEPT !.slots["edited"] = x]
<1>1. edit(m, new).m = r.m \/ (IsMatrix(x) /\ edit(m, new).m = d)
  BY Zenon DEF edit, Error, Done
<1>2. Finished(m, r.m)  BY FinishCounted
<1>. HIDE DEF r
<1>3. CASE IsMatrix(x)
  <2>. DEFINE e == r.m.data[x.array][1]
  <2>1. /\ DOMAIN d = Fields /\ d.refs = r.m.refs /\ d.data = r.m.data
        /\ d.slots = [[r.m.slots EXCEPT !["x"] = Real(e)] EXCEPT !["edited"] = x]
    BY <1>2 DEF Opened, Finished, Kept, Counted, Fields
  <2>. HIDE DEF d, e
  <2>2. Counted(d) /\ Only(r.m, d, {"x", "edited"})
    BY <1>2, <2>1, TakenOutCounted DEF Finished, Kept
  <2>3. Only(m, d, {"x", "edited"})  BY <1>2, <1>3, <2>2 DEF Finished, Only, Same
  <2>. QED  BY <1>1, <1>2, <2>2, <2>3, XAndOther, NamesAreSlots DEF Finished
<1>. QED  BY <1>1, <1>2, <1>3 DEF Finished

LEMMA EditnKept ==
    ASSUME NEW m, Good(m), Counted(m), NEW name \in Names, NEW new, Usable(m, new)
    PROVE  Kept(m, editn(m, name, new).m)
<1>. DEFINE r == finish_edit(m, new)
            v == r.m.slots[name]
            f == free_vartype(r.m, r.m.slots["x"])
            e == Real(f.data[v.array][1])
            d == [Opened(f, 3, v) EXCEPT !.name = name]
            w == [f EXCEPT !.slots["x"] = e]
<1>1. editn(m, name, new).m = r.m \/ (IsMatrix(v) /\ editn(m, name, new).m = d)
  BY Zenon DEF editn, Error, Done
<1>2. Kept(m, r.m) /\ Counted(r.m)  BY FinishCounted DEF Finished, Kept
<1>. HIDE DEF r
<1>3. DOMAIN f = Fields  BY <1>2, FreeFields, NamesAreSlots
<1>4. WithX(r.m, e) = w  BY DEF WithX
<1>5. Spare(r.m, e) /\ ~ IsMatrix(e)  BY RealIsSpare
<1>. HIDE DEF f, v
<1>6. d.slots = w.slots /\ d.refs = w.refs /\ d.data = w.data /\ DOMAIN d = Fields
  BY <1>3 DEF Opened, Fields
<1>. HIDE DEF e, w, d
<1>7. XBecomes(r.m, w, e)  BY <1>2, <1>4, <1>5, WithXCounted
<1>8. Counted(w) /\ Only(r.m, w, {"x"}) /\ ~ IsMatrix(w.slots["x"])
      /\ \A other \in Slots \ {"x"} : w.slots[other] = r.m.slots[other]
  BY <1>2, <1>5, <1>7 DEF XBecomes, Counted
<1>9. ASSUME IsMatrix(v) PROVE Kept(m, d)
  <2>1. ~ \A other \in Names : r.m.slots[other] = None
    BY <1>9, NoneIsSpare DEF v
  <2>2. PICK t \in Slots \ {"x"} : Only(m, r.m, {"x", t})
    BY <1>2, <2>1 DEF Kept, Independent
  <2>3. Only(m, w, {"x", t})  BY <1>8, <2>2 DEF Only, Same
  <2>4. Kept(m, w)  BY <1>8, <2>2, <2>3, XAndOther
  <2>. QED  BY <1>6, <2>4, KeptThenIndex
<1>. QED  BY <1>1, <1>2, <1>9

LEMMA IndexKept == ASSUME NEW m, Counted(m), NEW name PROVE Kept(m, index(m, name).m)
<1>. DEFINE d == [m EXCEPT !.mode = 1, !.i = 0, !.j = 0, !.name = name]
<1>1. index(m, name).m \in {m, d}  BY Zenon DEF index, Error, Done
<1>2. DOMAIN d = Fields /\ d.slots = m.slots /\ d.refs = m.refs /\ d.data = m.data
  BY DEF Counted, Fields
<1>. HIDE DEF d
<1>. QED  BY <1>1, <1>2, OnlyIndex, NothingChanges

-----------------------------------------------------------------------------
\* Variables.

\* The new value has a reference already; the index may be reset.
LEMMA StoreVarCounted ==
    ASSUME NEW m, Counted(m), NEW name \in Names, NEW v, Spare(m, v)
    PROVE  Counted(store_var(m, name, v)) /\ Only(m, store_var(m, name, v), {name})
<1>. DEFINE e == [free_vartype(m, m.slots[name]) EXCEPT !.slots[name] = v]
            d == store_var(m, name, v)
<1>1. d \in {e, [e EXCEPT !.i = 0, !.j = 0], [e EXCEPT !.mode = 0]}
  BY Zenon DEF store_var
<1>2. Replaces(m, e, name, v)  BY FreedAndSet, NamesAreSlots
<1>. HIDE DEF e, d
<1>3. Counted(e) /\ Only(m, e, {name})  BY <1>2, Replaced, NamesAreSlots
<1>4. DOMAIN d = Fields /\ d.slots = e.slots /\ d.refs = e.refs /\ d.data = e.data
  BY <1>1, <1>3 DEF Counted, Fields
<1>5. Counted(d) /\ Only(e, d, {})  BY <1>3, <1>4, IndexChanges
<1>. QED  BY <1>3, <1>5 DEF Only, Same, d

LEMMA StoreVarKept ==
    ASSUME NEW m, NEW a, NEW name \in Names, NEW v, Reserves(m, a, v)
    PROVE  Kept(m, store_var(a, name, v))
<1>. DEFINE d == store_var(a, name, v)
<1>1. Counted(d) /\ Only(a, d, {name})  BY StoreVarCounted DEF Reserves
<1>2. Only(m, d, {name})  BY <1>1 DEF Reserves, Only, Same
<1>. QED  BY <1>1, <1>2, OneOther, NamesAreSlots

LEMMA StoKept ==
    ASSUME NEW m, Counted(m), NEW name \in Names PROVE Kept(m, sto(m, name).m)
<1>. DEFINE x == m.slots["x"]
            a == dup_vartype(m, x)
<1>1. sto(m, name).m \in {m, store_var(a, name, x)}  BY Zenon DEF sto, Error, Done
<1>2. Reserves(m, a, x)  BY DupCounted, NamesAreSlots
<1>. HIDE DEF a, x
<1>. QED  BY <1>1, <1>2, StoreVarKept, NothingChanges

LEMMA RclKept ==
    ASSUME NEW m, Counted(m), NEW name \in Names PROVE Kept(m, rcl(m, name).m)
<1>. DEFINE v == m.slots[name]
            a == dup_vartype(m, v)
            d == WithX(a, v)
<1>1. rcl(m, name).m \in {m, d}  BY Zenon DEF rcl, Error, Done
<1>2. Reserves(m, a, v)  BY DupCounted, NamesAreSlots
<1>. HIDE DEF a, v
<1>3. XBecomes(a, d, v)  BY <1>2, WithXCounted DEF Reserves
<1>. HIDE DEF d
<1>4. Counted(d) /\ Only(m, d, {"x"})  BY <1>2, <1>3 DEF Reserves, XBecomes, Only, Same
<1>. QED  BY <1>1, <1>4, OnlyX, NothingChanges

LEMMA ClvKept ==
    ASSUME NEW m, Counted(m), NEW name \in Names PROVE Kept(m, clv(m, name).m)
<1>. DEFINE d == [free_vartype(m, m.slots[name]) EXCEPT !.slots[name] = None]
<1>1. clv(m, name).m \in {m, d}  BY Zenon DEF clv, purge_var, Error, Done
<1>2. Replaces(m, d, name, None)  BY FreedAndSet, NamesAreSlots
<1>3. Spare(m, None)  BY NoneIsSpare
<1>. HIDE DEF d
<1>4. Counted(d) /\ Only(m, d, {name})  BY <1>2, <1>3, Replaced, NamesAreSlots
<1>. QED  BY <1>1, <1>4, OneOther, NothingChanges, NamesAreSlots

LEMMA DimKept ==
    ASSUME NEW m, Counted(m), NEW name \in Names, NEW rows \in Nat, NEW columns \in Nat,
           NEW new, Usable(m, new)
    PROVE  Kept(m, dim(m, name, rows, columns, new).m)
<1>. DEFINE zeros == [k \in 1 .. rows * columns |-> Zero]
            a == [m EXCEPT !.refs[new] = 1, !.data[new] = zeros]
            v == Matrix(rows, columns, new)
            d == dimension_array_ref(m, name, rows, columns, new)
            s == store_var(a, name, v)
            r == dim(m, name, rows, columns, new).m
<1>1. \/ r = m
      \/ new # NoArray /\ r = s
      \/ /\ IsMatrix(m.slots[name]) /\ r = d
         /\ \/ <<rows, columns>> = <<m.slots[name].rows, m.slots[name].columns>>
            \/ CanOwn(m, name, new)
  BY Zenon DEF dim, Error, Done
<1>2. CASE new # NoArray /\ r = s
  <2>1. new \in Free(m)  BY <1>2 DEF Usable
  <2>2. rows * columns \in Nat  OBVIOUS
  <2>3. ArrayOf(zeros, rows * columns)  BY <2>2 DEF ArrayOf
  <2>. HIDE DEF zeros
  <2>4. Reserves(m, a, v)  BY <2>1, <2>3, AllocatedCounted
  <2>. HIDE DEF a, v, r
  <2>. QED  BY <1>2, <2>4, StoreVarKept DEF r
<1>3. CASE /\ IsMatrix(m.slots[name]) /\ r = d
           /\ \/ <<rows, columns>> = <<m.slots[name].rows, m.slots[name].columns>>
              \/ CanOwn(m, name, new)
  <2>1. \/ m.slots[name].rows = rows /\ m.slots[name].columns = columns
        \/ MayOwn(m, name, new)
    BY <1>3, MayOwnIt
  <2>2. Changes(m, d, name)  BY <1>3, <2>1, DimensionCounted, NamesAreSlots
  <2>. HIDE DEF d, r
  <2>3. Kept(m, d)  BY <2>2, OneOther, NamesAreSlots DEF Changes
  <2>. QED  BY <1>3, <2>3 DEF r
<1>. QED  BY <1>1, <1>2, <1>3, NothingChanges

LEMMA CallFnKept ==
    ASSUME NEW m, Counted(m), NEW name \in Names, NEW e PROVE Kept(m, call_fn(m, name, e))
<1>. DEFINE v == Real(e)
            d == [m EXCEPT !.slots[name] = v]
            s == store_var(m, name, v)
<1>1. call_fn(m, name, e) \in {d, s}  BY Zenon DEF call_fn
<1>2. Spare(m, v)  BY RealIsSpare
<1>. HIDE DEF v
<1>3. /\ DOMAIN d = Fields /\ d.slots = [m.slots EXCEPT ![name] = v]
      /\ d.refs = m.refs /\ d.data = m.data
  BY DEF Counted, Fields
<1>4. Counted(s) /\ Only(m, s, {name})  BY <1>2, StoreVarCounted
<1>. HIDE DEF d, s
<1>5. Counted(d) /\ Only(m, d, {name})  BY <1>2, <1>3, Overwritten, NamesAreSlots
<1>. QED  BY <1>1, <1>4, <1>5, OneOther, NamesAreSlots

LEMMA TypeKept == ASSUME NEW m, Counted(m), NEW e PROVE Kept(m, WithX(m, Real(e)))
<1>. DEFINE v == Real(e)
<1>1. Spare(m, v)  BY RealIsSpare
<1>. HIDE DEF v
<1>2. XBecomes(m, WithX(m, v), v)  BY <1>1, WithXCounted
<1>3. Kept(m, WithX(m, v))  BY <1>2, OnlyX DEF XBecomes
<1>. QED  BY <1>3 DEF v

\* CLALL frees the variables in one sweep: those that share an array, all at once.
LEMMA PurgedCounted ==
    ASSUME NEW m, Counted(m)
    PROVE  LET d == purge_all_vars(m)
           IN  /\ Counted(d) /\ d.callback = m.callback
               /\ \A name \in Names : d.slots[name] = None
               /\ \A slot \in Slots \ Names : d.slots[slot] = m.slots[slot] /\ Same(m, d, slot)
<1>. DEFINE holders(a) == {name \in Names : IsMatrix(m.slots[name]) /\ m.slots[name].array = a}
            left == [a \in Arrays |-> m.refs[a] - Cardinality(holders(a))]
            d == purge_all_vars(m)
<1>1. /\ DOMAIN d = Fields /\ d.refs = left /\ d.callback = m.callback
      /\ d.data = [a \in Arrays |-> IF left[a] = 0 THEN << >> ELSE m.data[a]]
      /\ d.slots = [slot \in Slots |-> IF slot \in Names THEN None ELSE m.slots[slot]]
  BY DEF purge_all_vars, Counted, Fields
<1>2. ASSUME NEW a \in Arrays
      PROVE  /\ IsFiniteSet(HoldersIn(d, a)) /\ Cardinality(HoldersIn(d, a)) \in Nat
             /\ left[a] \in Nat /\ Cardinality(HoldersIn(d, a)) <= left[a]
  <2>. DEFINE H == HoldersIn(m, a)
              G == holders(a)
              K == HoldersIn(d, a)
  <2>1. IsFiniteSet(H) /\ m.refs[a] \in Nat /\ Cardinality(H) <= m.refs[a]  BY DEF Counted
  <2>2. ~ Holds(None, a)  BY NoneIsSpare DEF Holds
  <2>3. G \subseteq H /\ K = H \ G
    BY <1>1, <2>2, NamesAreSlots DEF HoldersIn, Holds
  <2>4. left[a] = m.refs[a] - Cardinality(G)  OBVIOUS
  <2>. HIDE DEF H, G, K, left
  <2>5. IsFiniteSet(G) /\ IsFiniteSet(K)  BY <2>1, <2>3, FS_Subset, FS_Difference
  <2>6. /\ Cardinality(G) \in Nat /\ Cardinality(K) \in Nat /\ Cardinality(H) \in Nat
        /\ Cardinality(G) <= Cardinality(H)
    BY <2>1, <2>3, <2>5, FS_CardinalityType, FS_Subset
  <2>7. Cardinality(K) = Cardinality(H) - Cardinality(G)
    <3>1. Cardinality(H \ G) = Cardinality(H) - Cardinality(H \cap G)  BY <2>1, FS_Difference
    <3>2. H \cap G = G  BY <2>3
    <3>3. Cardinality(K) = Cardinality(H \ G)  BY <2>3
    <3>. QED  BY Zenon, <3>1, <3>2, <3>3
  <2>. QED  BY <2>1, <2>4, <2>5, <2>6, <2>7 DEF K
<1>3. ASSUME NEW slot \in Slots, IsMatrix(d.slots[slot])
      PROVE  LET u == d.slots[slot]
             IN  /\ u.array \in Arrays /\ ArrayOf(d.data[u.array], Size(u))
                 /\ Same(m, d, slot)
  <2>1. d.slots[slot] = m.slots[slot]  BY <1>1, <1>3, NoneIsSpare
  <2>. DEFINE a == m.slots[slot].array
  <2>2. a \in Arrays /\ ArrayOf(m.data[a], Size(m.slots[slot]))  BY <1>3, <2>1 DEF Counted
  <2>3. slot \in HoldersIn(d, a)  BY <1>3, <2>1 DEF HoldersIn, Holds
  <2>. HIDE DEF d, left, a
  <2>4. Cardinality(HoldersIn(d, a)) # 0  BY <1>2, <2>2, <2>3, FS_EmptySet
  <2>5. left[a] # 0  BY <1>2, <2>2, <2>4
  <2>6. d.data[a] = m.data[a]  BY <1>1, <2>2, <2>5
  <2>. QED  BY <2>1, <2>2, <2>6 DEF a, Same, Shown
<1>. HIDE DEF d
<1>4. Counted(d)
  <2>1. DOMAIN d.slots = Slots /\ DOMAIN d.refs = Arrays /\ DOMAIN d.data = Arrays  BY <1>1
  <2>. HIDE DEF left
  <2>. QED  BY <1>1, <1>2, <1>3, <2>1 DEF Counted
<1>5. ASSUME NEW slot \in Slots \ Names PROVE d.slots[slot] = m.slots[slot] /\ Same(m, d, slot)
  BY <1>1, <1>3 DEF Same, Shown
<1>. QED  BY <1>1, <1>4, <1>5, NamesAreSlots DEF d

LEMMA ClallKept ==
    ASSUME NEW m, Good(m), Counted(m), NEW new, Usable(WithX(m, Real(Zero)), new)
    PROVE  Kept(m, clall(m, new).m)
<1>. DEFINE x == WithX(m, Real(Zero))
            l == leave(x, new).m
            d == purge_all_vars(l)
<1>1. clall(m, new).m = d  BY DEF clall, Done
<1>2. Good(x)  BY WithXGood, RealHasShape
<1>3. Counted(x)  BY TypeKept DEF Kept
<1>. HIDE DEF x
<1>4. Counted(l)  BY <1>2, <1>3, LeaveCounted DEF Finished, Kept, x
<1>. HIDE DEF l
<1>5. Counted(d) /\ \A name \in Names : d.slots[name] = None  BY <1>4, PurgedCounted
<1>. QED  BY <1>1, <1>5 DEF Kept, Independent

\* What freeing X leaves free.
LEMMA FreeStaysFree ==
    ASSUME NEW m, Counted(m), NEW v, Spare(m, v), NEW new, Usable(m, new)
    PROVE  Usable(WithX(m, v), new)
<1>1. Replaces(m, WithX(m, v), "x", v)  BY FreedAndSet, NamesAreSlots DEF WithX
<1>2. new \in Free(m) => new \in Arrays /\ ~ Holds(m.slots["x"], new)
  BY NothingHoldsFree, NamesAreSlots
<1>. QED  BY <1>1, <1>2 DEF Usable, Free, Replaces, Held

-----------------------------------------------------------------------------
\* The invariant.

LEMMA InitCounted == ASSUME Init PROVE Counted(store)
<1>. DEFINE m == store
<1>1. /\ DOMAIN m = Fields /\ DOMAIN m.slots = Slots
      /\ DOMAIN m.refs = Arrays /\ DOMAIN m.data = Arrays /\ \A a \in Arrays : m.refs[a] = 0
      /\ \A slot \in Slots : m.slots[slot] \in {Real(Zero), None}
  BY DEF Init, Fields
<1>. HIDE DEF m
<1>2. \A slot \in Slots : ~ IsMatrix(m.slots[slot])
  BY <1>1, RealIsSpare, NoneIsSpare
<1>3. \A a : HoldersIn(m, a) = {}  BY <1>2 DEF HoldersIn, Holds
<1>4. Counted(m)  BY <1>1, <1>2, <1>3, FS_EmptySet DEF Counted
<1>. QED  BY <1>4 DEF m

LEMMA MemoryIsUsable ==
    /\ \A new \in Memory : Usable(store, new)
    /\ \A new \in ForCopy : Usable(store, new)
BY DEF Memory, ForCopy, Usable

LEMMA StepKeepsCounted ==
    ASSUME Good(store), Counted(store), [Next]_vars PROVE Kept(store, store')
<1>0. \A s \in Shapes : s[1] \in Nat /\ s[2] \in Nat
  BY MatrixEditorAssumption
<1>1. CASE StoreElement  BY <1>1, MemoryIsUsable, StoelKept DEF StoreElement, Command
<1>2. CASE RecallElement
  BY <1>2, RclelCounted, OnlyX DEF RecallElement, Command
<1>3. CASE StoreIJ  BY <1>3, StoijKept DEF StoreIJ, Command
<1>4. CASE GoTo  BY <1>4, MemoryIsUsable, GotoKept DEF GoTo, Command
<1>5. CASE Step  BY <1>5, MemoryIsUsable, StepKept DEF Step, Command
<1>6. CASE Move  BY <1>6, MemoryIsUsable, MoveKept DEF Move, Command
<1>7. CASE InsertRow  BY <1>7, MemoryIsUsable, InsrKept DEF InsertRow, Command
<1>8. CASE DeleteRow  BY <1>8, MemoryIsUsable, DelrKept DEF DeleteRow, Command
<1>9. CASE GetMatrix  BY <1>0, <1>9, MemoryIsUsable, GetmKept DEF GetMatrix, Command
<1>10. CASE PutMatrix  BY <1>10, MemoryIsUsable, PutmKept DEF PutMatrix, Command
<1>11. CASE SwapRows  BY <1>11, MemoryIsUsable, SwapKept DEF SwapRows, Command
<1>12. CASE Edit  BY <1>12, MemoryIsUsable, EditKept DEF Edit, Command
<1>13. CASE EditNamed  BY <1>13, MemoryIsUsable, EditnKept DEF EditNamed, Command
<1>14. CASE Index  BY <1>14, IndexKept DEF Index, Command
<1>15. CASE Leave  BY <1>15, MemoryIsUsable, LeaveCounted DEF Leave, Command, Finished
<1>16. CASE Grow
  <2>1. /\ DOMAIN store' = Fields /\ store'.slots = store.slots
        /\ store'.refs = store.refs /\ store'.data = store.data
    BY <1>16 DEF Grow, Counted, Fields
  <2>. QED  BY <2>1, OnlyIndex
<1>17. CASE Sto  BY <1>17, StoKept DEF Sto, Command
<1>18. CASE Rcl  BY <1>18, RclKept DEF Rcl, Command
<1>19. CASE Clv  BY <1>19, ClvKept DEF Clv, Command
<1>20. CASE Dim  BY <1>0, <1>20, MemoryIsUsable, DimKept DEF Dim, Command
<1>21. CASE CallFn  BY <1>21, CallFnKept DEF CallFn
<1>22. CASE Type  BY <1>22, TypeKept DEF Type
<1>23. CASE ClearAll
  <2>1. PICK new \in ForCopy : store' = clall(store, new).m  BY <1>23 DEF ClearAll, Command
  <2>2. Usable(WithX(store, Real(Zero)), new)  BY MemoryIsUsable, RealIsSpare, FreeStaysFree
  <2>. QED  BY <2>1, <2>2, ClallKept
<1>24. CASE UNCHANGED vars  BY <1>24, NothingChanges DEF vars
<1>. QED
  BY <1>1, <1>2, <1>3, <1>4, <1>5, <1>6, <1>7, <1>8, <1>9, <1>10, <1>11, <1>12, <1>13,
     <1>14, <1>15, <1>16, <1>17, <1>18, <1>19, <1>20, <1>21, <1>22, <1>23, <1>24 DEF Next

LEMMA AlwaysCounted == Spec => [](Good(store) /\ Counted(store))
<1>1. Init => Good(store) /\ Counted(store)  BY InitGood, InitCounted
<1>2. Good(store) /\ Counted(store) /\ [Next]_vars => (Good(store) /\ Counted(store))'
  <2>. SUFFICES ASSUME Good(store), Counted(store), [Next]_vars
                PROVE  Good(store)' /\ Counted(store)'
    OBVIOUS
  <2>1. Good(store)'  BY StepKeepsGood
  <2>2. Counted(store')  BY StepKeepsCounted DEF Kept
  <2>. QED  BY <2>1, <2>2 DEF Counted, HoldersIn, Holds, IsMatrix, ArrayOf, Size
<1>. QED  BY <1>1, <1>2, PTL DEF Spec

\* Whatever is stored, copied, resized, edited or deleted, and whether or not there was
\* memory for a copy: an array never has fewer references than matrices that share it, so
\* it is not freed under one, nor written to as if it were its only one, and each of them
\* has its size (core_variables.cc:194, 303, core_helpers.cc:805).
THEOREM ReferencesAlwaysCounted == Spec => []ReferencesAreCounted
<1>1. ASSUME Counted(store) PROVE ReferencesAreCounted
  <2>. SUFFICES ASSUME NEW a \in Arrays
                PROVE  /\ store.refs[a] >= Cardinality(Holders(a))
                       /\ \A slot \in Holders(a) : Len(store.data[a]) = Size(store.slots[slot])
    BY DEF ReferencesAreCounted
  <2>1. Holders(a) = HoldersIn(store, a)  BY DEF Holders, HoldersIn, Holds
  <2>2. store.refs[a] >= Cardinality(HoldersIn(store, a))
    BY <1>1, HoldersCounted DEF Counted
  <2>3. ASSUME NEW slot \in Holders(a) PROVE Len(store.data[a]) = Size(store.slots[slot])
    <3>1. slot \in Slots /\ IsMatrix(store.slots[slot]) /\ store.slots[slot].array = a
      BY <2>3 DEF Holders
    <3>2. ArrayOf(store.data[a], Size(store.slots[slot]))  BY <1>1, <3>1 DEF Counted
    <3>. QED  BY <3>2, ArrayLength
  <2>. QED  BY <2>1, <2>2, <2>3
<1>. QED  BY <1>1, AlwaysCounted, PTL

\* A command changes one variable, or the matrix under edit, and X; the others that share an
\* array with it stay as they are.  A matrix in X, PUTM's say, is not changed together with
\* a variable (core_variables.cc:303, core_helpers.cc:805).
THEOREM CopiesStayIndependent == Spec => CopiesAreIndependent
<1>1. ASSUME Good(store), Counted(store), [Next]_vars
      PROVE  \/ \A name \in Names : store'.slots[name] = None
             \/ /\ Cardinality(Changed \ {"x"}) <= 1
                /\ IsMatrix(store.slots["x"]) /\ IsMatrix(store'.slots["x"])
                     => "x" \notin Changed \/ Changed \cap Names = {}
  <2>1. Independent(store, store')  BY <1>1, StepKeepsCounted DEF Kept
  <2>2. \A slot \in Slots : slot \in Changed <=> ~ Same(store, store', slot)
    BY DEF Changed, Value, Same, Shown, IsMatrix
  <2>3. Changed \subseteq Slots  BY DEF Changed
  <2>. HIDE DEF Changed
  <2>4. ASSUME NEW t \in Slots \ {"x"}, Only(store, store', {"x", t})
        PROVE  Cardinality(Changed \ {"x"}) <= 1
    <3>1. Changed \ {"x"} \in SUBSET {t}  BY <2>2, <2>3, <2>4 DEF Only
    <3>2. IsFiniteSet({t}) /\ Cardinality({t}) = 1  BY FS_Singleton
    <3>. QED  BY <3>1, <3>2, FS_Subset
  <2>. QED  BY <2>1, <2>2, <2>3, <2>4, NamesAreSlots DEF Independent
<1>2. Good(store) /\ Counted(store) /\ [Next]_vars
        => [\/ store'.slots = store.slots /\ store'.data = store.data
            \/ \A name \in Names : store'.slots[name] = None
            \/ /\ Cardinality(Changed \ {"x"}) <= 1
               /\ IsMatrix(store.slots["x"]) /\ IsMatrix(store'.slots["x"])
                    => "x" \notin Changed \/ Changed \cap Names = {}]_vars
  BY <1>1
<1>. QED  BY <1>2, AlwaysCounted, PTL DEF Spec, CopiesAreIndependent

-----------------------------------------------------------------------------
\* Only leaving the editor takes its menu away.

Stays(m, d) == DOMAIN d = Fields /\ d.callback = m.callback

LEMMA StaysOpen ==
    ASSUME NEW m, DOMAIN m = Fields, NEW slot, NEW v, NEW rows, NEW columns, NEW elements, NEW new
    PROVE  /\ Stays(m, dup_vartype(m, v)) /\ Stays(m, free_vartype(m, v))
           /\ Stays(m, WithX(m, v))
           /\ Stays(m, WithArray(m, slot, rows, columns, elements, new))
<1>1. Stays(m, dup_vartype(m, v))  BY DEF Stays, dup_vartype, Fields
<1>2. \A u : Stays(m, free_vartype(m, u))  BY DEF Stays, free_vartype, Fields
<1>3. Stays(m, WithX(m, v))
  <2>. DEFINE f == free_vartype(m, m.slots["x"])
  <2>1. Stays(m, f)  BY <1>2
  <2>. HIDE DEF f
  <2>2. Stays(m, [f EXCEPT !.slots["x"] = v])  BY <2>1 DEF Stays, Fields
  <2>. QED  BY <2>2 DEF WithX, f
<1>4. Stays(m, WithArray(m, slot, rows, columns, elements, new))
  BY DEF Stays, WithArray, Fields
<1>. QED  BY <1>1, <1>2, <1>3, <1>4

LEMMA DimensionStays ==
    ASSUME NEW m, DOMAIN m = Fields, NEW slot, NEW rows, NEW columns, NEW new
    PROVE  Stays(m, dimension_array_ref(m, slot, rows, columns, new))
<1>1. PICK elements :
         dimension_array_ref(m, slot, rows, columns, new)
           = IF m.slots[slot].rows = rows /\ m.slots[slot].columns = columns THEN m
             ELSE WithArray(m, slot, rows, columns, elements, new)
  BY DimensionIsWithArray
<1>2. Stays(m, WithArray(m, slot, rows, columns, elements, new))  BY StaysOpen
<1>3. Stays(m, m)  BY DEF Stays
<1>. QED  BY <1>1, <1>2, <1>3

LEMMA GrownStays ==
    ASSUME NEW m, DOMAIN m = Fields, NEW direction, NEW new
    PROVE  Stays(m, Grown(m, direction, new))
<1>1. Stays(m, m)  BY DEF Stays
<1>. QED  BY <1>1, DimensionStays DEF Grown

LEMMA StoreVarStays ==
    ASSUME NEW m, DOMAIN m = Fields, NEW name, NEW v PROVE Stays(m, store_var(m, name, v))
<1>. DEFINE f == free_vartype(m, m.slots[name])
            e == [f EXCEPT !.slots[name] = v]
            d == store_var(m, name, v)
<1>1. d \in {e, [e EXCEPT !.i = 0, !.j = 0], [e EXCEPT !.mode = 0]}
  BY Zenon DEF store_var
<1>2. Stays(m, f)  BY StaysOpen
<1>. HIDE DEF f
<1>3. Stays(m, e)  BY <1>2 DEF Stays, Fields
<1>. HIDE DEF d, e
<1>. QED  BY <1>1, <1>3 DEF Stays, Fields, d

LEMMA StoelStays == ASSUME NEW m, Good(m), NEW new PROVE Stays(m, stoel(m, new).m)
BY StoelAlike DEF Alike, SameIndex, Stays

LEMMA RclelStays == ASSUME NEW m, DOMAIN m = Fields PROVE Stays(m, rclel(m).m)
<1>1. Stays(m, m)  BY DEF Stays
<1>. QED  BY <1>1, StaysOpen DEF rclel, NoMatrix, Error, Done

LEMMA GoneToStays ==
    ASSUME NEW m, DOMAIN m = Fields, NEW row, NEW column
    PROVE  Stays(m, GoneTo(m, row, column).m)
<1>1. GoneTo(m, row, column).m \in {m, [m EXCEPT !.i = row - 1, !.j = column - 1]}
  BY Zenon DEF GoneTo, NoMatrix, Error, Done
<1>. QED  BY <1>1 DEF Stays, Fields

LEMMA GotoStays ==
    ASSUME NEW m, Good(m), NEW row, NEW column, NEW new
    PROVE  Stays(m, goto(m, row, column, new).m)
<1>. DEFINE r == stoel(m, new)
            s == GoneTo(r.m, row, column)
<1>1. goto(m, row, column, new) \in {r, s, rclel(s.m)}  BY DEF goto
<1>2. Stays(m, r.m)  BY StoelStays
<1>. HIDE DEF r
<1>3. Stays(m, s.m)  BY <1>2, GoneToStays DEF Stays
<1>. HIDE DEF s
<1>4. Stays(m, rclel(s.m).m)  BY <1>3, RclelStays DEF Stays
<1>. QED  BY <1>1, <1>2, <1>3, <1>4

LEMMA StepStays ==
    ASSUME NEW m, DOMAIN m = Fields, NEW direction, NEW new
    PROVE  Stays(m, step(m, direction, new).m)
<1>. DEFINE p == Position(m, direction)
            g == Grown(m, direction, new)
            d == [g EXCEPT !.i = p[1], !.j = p[2]]
<1>1. step(m, direction, new).m \in {m, d}  BY Zenon DEF step, NoMatrix, Error, Done
<1>2. Stays(m, g)  BY GrownStays
<1>. HIDE DEF g, p
<1>. QED  BY <1>1, <1>2 DEF Stays, Fields

LEMMA MoveStays ==
    ASSUME NEW m, Good(m), NEW direction, NEW new
    PROVE  Stays(m, matedit_move(m, direction, new).m)
<1>. DEFINE p == Position(m, direction)
            u == disentangle(m, Target(m), new)
            d == Grown(u, direction, new)
            w == WithElement(d, m.i, m.j, m.slots["x"].x)
            shown == IF Place(It(m), p[1], p[2]) = Place(It(m), m.i, m.j)
                     THEN w.slots["x"] ELSE Real(Element(d, p[1], p[2]))
            e == [w EXCEPT !.i = p[1], !.j = p[2], !.slots["x"] = shown]
<1>1. matedit_move(m, direction, new).m \in {m, d, e}
  BY Zenon DEF matedit_move, NoMatrix, Error, Done
<1>2. DOMAIN m = Fields  BY DEF Good, Store
<1>3. Stays(m, u)  BY <1>2, StaysOpen DEF disentangle
<1>. HIDE DEF u
<1>4. Stays(m, d)  BY <1>3, GrownStays DEF Stays
<1>. HIDE DEF d, p
<1>5. Stays(m, w)  BY <1>4 DEF Stays, WithElement, Fields
<1>. HIDE DEF w, shown
<1>6. Stays(m, e)  BY <1>5 DEF Stays, Fields
<1>. QED  BY <1>1, <1>2, <1>4, <1>6 DEF Stays

LEMMA ClampedStays == ASSUME NEW m, DOMAIN m = Fields PROVE Stays(m, Clamped(m))
BY DEF Stays, Clamped, Fields

LEMMA InsrStays == ASSUME NEW m, Good(m), NEW new PROVE Stays(m, insr(m, new).m)
<1>. DEFINE r == IF Interactive(m) THEN stoel(m, new) ELSE Done(m)
            c == Clamped(r.m)
            v == It(c)
            longer == Rows(c, 0, c.i - 1) \o [k \in 1 .. v.columns |-> Zero]
                        \o Rows(c, c.i, v.rows - 1)
            d == WithArray(c, Target(c), v.rows + 1, v.columns, longer, new)
            x == WithX(d, Real(Zero))
<1>1. insr(m, new).m \in {m, r.m, c, d, x}  BY Zenon DEF insr, NoMatrix, Error, Done
<1>. HIDE DEF longer
<1>2. Stays(m, m)  BY DEF Good, Store, Stays
<1>3. Stays(m, r.m)  BY <1>2, StoelStays DEF Done
<1>. HIDE DEF r
<1>4. Stays(m, c)  BY <1>3, ClampedStays DEF Stays
<1>. HIDE DEF c
<1>5. Stays(m, d)  BY <1>4, StaysOpen DEF Stays
<1>. HIDE DEF d
<1>6. Stays(m, x)  BY <1>5, StaysOpen DEF Stays
<1>. QED  BY <1>1, <1>2, <1>3, <1>4, <1>5, <1>6

LEMMA DelrStays == ASSUME NEW m, Good(m), NEW new PROVE Stays(m, delr(m, new).m)
<1>. DEFINE c == Clamped(m)
            v == It(c)
            last == c.i = v.rows - 1
            shorter == Rows(c, 0, c.i - 1) \o Rows(c, c.i + 1, v.rows - 1)
            w == WithArray(c, Target(c), v.rows - 1, v.columns, shorter, new)
            d == [w EXCEPT !.i = IF last THEN @ - 1 ELSE @]
            e == Real(Element(c, IF last THEN c.i - 1 ELSE c.i + 1, c.j))
            x == WithX(d, e)
<1>1. delr(m, new).m \in {m, c, d, x}  BY Zenon DEF delr, NoMatrix, Error, Done
<1>. HIDE DEF shorter, last, v
<1>2. Stays(m, m)  BY DEF Good, Store, Stays
<1>3. Stays(m, c)  BY <1>2, ClampedStays DEF Stays
<1>. HIDE DEF c
<1>4. Stays(m, w)  BY <1>3, StaysOpen DEF Stays
<1>. HIDE DEF w
<1>5. Stays(m, d)  BY <1>4 DEF Stays, Fields
<1>. HIDE DEF d, e
<1>6. Stays(m, x)  BY <1>5, StaysOpen DEF Stays
<1>. QED  BY <1>1, <1>2, <1>3, <1>5, <1>6

LEMMA GetmStays ==
    ASSUME NEW m, DOMAIN m = Fields, NEW rows, NEW columns, NEW new
    PROVE  Stays(m, getm(m, rows, columns, new).m)
<1>. DEFINE part == [k \in 1 .. rows * columns |->
                        Element(m, m.i + ((k - 1) \div columns), m.j + ((k - 1) % columns))]
            w == WithX(m, Matrix(rows, columns, new))
            d == [w EXCEPT !.refs[new] = 1, !.data[new] = part]
<1>1. getm(m, rows, columns, new).m \in {m, d}  BY Zenon DEF getm, NoMatrix, Error, Done
<1>. HIDE DEF part
<1>2. Stays(m, w)  BY StaysOpen
<1>. HIDE DEF w
<1>. QED  BY <1>1, <1>2 DEF Stays, Fields

LEMMA PutStays ==
    ASSUME NEW m, DOMAIN m = Fields, NEW new, NEW elements
    PROVE  LET d == disentangle(m, Target(m), new)
           IN  Stays(m, [d EXCEPT !.data[It(d).array] = elements])
<1>. DEFINE d == disentangle(m, Target(m), new)
<1>1. Stays(m, d)  BY StaysOpen DEF disentangle
<1>. HIDE DEF d
<1>2. Stays(m, [d EXCEPT !.data[It(d).array] = elements])  BY <1>1 DEF Stays, Fields
<1>. QED  BY <1>2 DEF d

LEMMA PutmStays == ASSUME NEW m, DOMAIN m = Fields, NEW new PROVE Stays(m, putm(m, new).m)
<1>. DEFINE v == It(m)
            x == m.slots["x"]
            d == disentangle(m, Target(m), new)
            Put(k) ==
                LET i == ((k - 1) \div v.columns) - m.i
                    j == ((k - 1) % v.columns) - m.j
                IN  IF i \in 0 .. x.rows - 1 /\ j \in 0 .. x.columns - 1
                    THEN Contents(m, "x")[Place(x, i, j)] ELSE Contents(m, Target(m))[k]
            elements == [k \in 1 .. Size(v) |-> Put(k)]
            e == [d EXCEPT !.data[It(d).array] = elements]
<1>1. putm(m, new).m \in {m, e}  BY Zenon DEF putm, NoMatrix, Error, Done
<1>. HIDE DEF elements
<1>2. Stays(m, e)  BY PutStays
<1>. HIDE DEF e
<1>. QED  BY <1>1, <1>2 DEF Stays

LEMMA SwapStays ==
    ASSUME NEW m, DOMAIN m = Fields, NEW r1, NEW r2, NEW new
    PROVE  Stays(m, swap_r(m, r1, r2, new).m)
<1>. DEFINE v == It(m)
            d == disentangle(m, Target(m), new)
            From(row) == IF row = r1 THEN r2 ELSE IF row = r2 THEN r1 ELSE row
            Swapped(k) == Element(m, From((k - 1) \div v.columns), (k - 1) % v.columns)
            elements == [k \in 1 .. Size(v) |-> Swapped(k)]
            e == [d EXCEPT !.data[It(d).array] = elements]
<1>1. swap_r(m, r1, r2, new).m \in {m, e}  BY Zenon DEF swap_r, NoMatrix, Error, Done
<1>. HIDE DEF elements
<1>2. Stays(m, e)  BY PutStays
<1>. HIDE DEF e
<1>. QED  BY <1>1, <1>2 DEF Stays

LEMMA VariablesStay ==
    ASSUME NEW m, DOMAIN m = Fields, NEW name, NEW rows, NEW columns, NEW new, NEW e
    PROVE  /\ Stays(m, sto(m, name).m) /\ Stays(m, rcl(m, name).m) /\ Stays(m, clv(m, name).m)
           /\ Stays(m, dim(m, name, rows, columns, new).m) /\ Stays(m, call_fn(m, name, e))
<1>1. Stays(m, sto(m, name).m)
  <2>. DEFINE a == dup_vartype(m, m.slots["x"])
  <2>1. sto(m, name).m \in {m, store_var(a, name, m.slots["x"])}  BY Zenon DEF sto, Error, Done
  <2>2. Stays(m, a)  BY StaysOpen
  <2>. HIDE DEF a
  <2>. QED  BY <2>1, <2>2, StoreVarStays DEF Stays
<1>2. Stays(m, rcl(m, name).m)
  <2>. DEFINE a == dup_vartype(m, m.slots[name])
  <2>1. rcl(m, name).m \in {m, WithX(a, m.slots[name])}  BY Zenon DEF rcl, Error, Done
  <2>2. Stays(m, a)  BY StaysOpen
  <2>. HIDE DEF a
  <2>. QED  BY <2>1, <2>2, StaysOpen DEF Stays
<1>3. Stays(m, clv(m, name).m)
  <2>. DEFINE f == free_vartype(m, m.slots[name])
  <2>1. clv(m, name).m \in {m, [f EXCEPT !.slots[name] = None]}
    BY Zenon DEF clv, purge_var, Error, Done
  <2>2. Stays(m, f)  BY StaysOpen
  <2>. HIDE DEF f
  <2>. QED  BY <2>1, <2>2 DEF Stays, Fields
<1>4. Stays(m, dim(m, name, rows, columns, new).m)
  <2>. DEFINE zeros == [k \in 1 .. rows * columns |-> Zero]
              a == [m EXCEPT !.refs[new] = 1, !.data[new] = zeros]
              s == store_var(a, name, Matrix(rows, columns, new))
              d == dimension_array_ref(m, name, rows, columns, new)
  <2>1. dim(m, name, rows, columns, new).m \in {m, s, d}  BY Zenon DEF dim, Error, Done
  <2>. HIDE DEF zeros
  <2>2. Stays(m, a)  BY DEF Stays, Fields
  <2>. HIDE DEF a
  <2>3. Stays(m, s)  BY <2>2, StoreVarStays DEF Stays
  <2>4. Stays(m, d)  BY DimensionStays
  <2>. HIDE DEF s, d
  <2>. QED  BY <2>1, <2>3, <2>4 DEF Stays
<1>5. Stays(m, call_fn(m, name, e))
  <2>1. call_fn(m, name, e)
          \in {[m EXCEPT !.slots[name] = Real(e)], store_var(m, name, Real(e))}
    BY Zenon DEF call_fn
  <2>2. Stays(m, [m EXCEPT !.slots[name] = Real(e)])  BY DEF Stays, Fields
  <2>. QED  BY <2>1, <2>2, StoreVarStays
<1>. QED  BY <1>1, <1>2, <1>3, <1>4, <1>5

-----------------------------------------------------------------------------
\* What the editor gives back.

\* The matrix under edit is in X, the same but for the element that the index was on.
CameBack(m, d) ==
    LET before == m.slots["edited"]
        after == d.slots["x"]
    IN  /\ IsMatrix(after) /\ d.slots["edited"] = None
        /\ after.rows = before.rows /\ after.columns = before.columns
        /\ \A k : k # Place(before, m.i, m.j)
                    => Contents(d, "x")[k] = Contents(m, "edited")[k]

LEMMA LeaveComesBack ==
    ASSUME NEW m, Good(m), Counted(m), m.mode = 2, NEW new, Usable(m, new)
    PROVE  leave(m, new).m.callback \/ CameBack(m, leave(m, new).m)
<1>. DEFINE r == stoel(m, new)
            back == [free_vartype(r.m, r.m.slots["x"])
                       EXCEPT !.slots["x"] = r.m.slots["edited"], !.slots["edited"] = None]
            d == Left(back)
<1>1. leave(m, new).m \in {m, r.m, d}
  BY Zenon DEF leave, Done, Left
<1>2. m.callback /\ HasMatrix(m) /\ Target(m) = "edited" /\ It(m) = m.slots["edited"]
  BY DEF Good, IndexOK, Interactive, HasMatrix, Target, It
<1>3. Stored(m, r) /\ Alike(m, r.m) /\ Stays(m, r.m)
  BY StoelCounted, StoelAlike, StoelStays
<1>. HIDE DEF r
<1>4. /\ Counted(r.m)
      /\ \A k : k # Place(m.slots["edited"], m.i, m.j)
                  => Contents(r.m, "edited")[k] = Contents(m, "edited")[k]
  BY <1>2, <1>3 DEF Stored
<1>5. /\ IsMatrix(r.m.slots["edited"])
      /\ r.m.slots["edited"].rows = m.slots["edited"].rows
      /\ r.m.slots["edited"].columns = m.slots["edited"].columns
  BY <1>2, <1>3, NamesAreSlots DEF Alike, HasMatrix
<1>6. PutBack(r.m, back)  BY <1>4, BackCounted
<1>. HIDE DEF back
<1>7. d.slots = back.slots /\ d.data = back.data
  BY <1>6 DEF PutBack, Counted, Left, Fields
<1>. HIDE DEF d
<1>8. CameBack(m, d)  BY <1>4, <1>5, <1>6, <1>7 DEF CameBack, PutBack, Contents
<1>. QED  BY <1>1, <1>2, <1>3, <1>8 DEF Stays

\* CLALL leaves the editor, and what was under edit in X.
LEMMA ClallComesBack ==
    ASSUME NEW m, Good(m), Counted(m), m.mode = 2,
           NEW new, Usable(WithX(m, Real(Zero)), new)
    PROVE  clall(m, new).m.callback \/ CameBack(m, clall(m, new).m)
<1>. DEFINE v == Real(Zero)
            x == WithX(m, v)
            l == leave(x, new).m
            d == purge_all_vars(l)
<1>1. clall(m, new).m = d  BY DEF clall, Done
<1>2. Good(x) /\ SameIndex(m, x)  BY WithXGood, RealHasShape
<1>3. Spare(m, v)  BY RealIsSpare
<1>. HIDE DEF v
<1>4. XBecomes(m, x, v)  BY <1>3, WithXCounted
<1>. HIDE DEF x
<1>5. /\ Counted(x) /\ x.mode = 2 /\ x.i = m.i /\ x.j = m.j
      /\ x.slots["edited"] = m.slots["edited"] /\ Same(m, x, "edited")
  BY <1>2, <1>4, NamesAreSlots DEF XBecomes, SameIndex, Counted, Only
<1>6. IsMatrix(m.slots["edited"]) /\ Contents(x, "edited") = Contents(m, "edited")
  BY <1>5 DEF Same, Shown, Contents, Good, IndexOK
<1>7. l.callback \/ CameBack(x, l)  BY <1>2, <1>5, LeaveComesBack DEF x, v
<1>8. Counted(l)  BY <1>2, <1>5, LeaveCounted DEF Finished, Kept, x, v
<1>. HIDE DEF l
<1>9. /\ Counted(d) /\ d.callback = l.callback
      /\ \A slot \in Slots \ Names : d.slots[slot] = l.slots[slot] /\ Same(l, d, slot)
  BY <1>8, PurgedCounted
<1>. HIDE DEF d
<1>10. /\ d.slots["x"] = l.slots["x"] /\ d.slots["edited"] = l.slots["edited"]
       /\ IsMatrix(l.slots["x"]) => Contents(d, "x") = Contents(l, "x")
  BY <1>9, NamesAreSlots DEF Same, Shown, Contents
<1>11. CameBack(x, l) => CameBack(m, d)  BY <1>5, <1>6, <1>10 DEF CameBack
<1>. QED  BY <1>1, <1>7, <1>9, <1>11

LEMMA EditComesBack ==
    ASSUME NEW m, Good(m), Counted(m), m.mode = 2, NEW new, Usable(m, new), NEW name
    PROVE  /\ edit(m, new).m.callback \/ CameBack(m, edit(m, new).m)
           /\ editn(m, name, new).m.callback \/ CameBack(m, editn(m, name, new).m)
<1>. DEFINE r == leave(m, new)
            x == r.m.slots["x"]
            d == [Opened(r.m, 2, x) EXCEPT !.slots["edited"] = x]
            v == r.m.slots[name]
            f == free_vartype(r.m, r.m.slots["x"])
            e == [Opened(f, 3, v) EXCEPT !.name = name]
<1>1. finish_edit(m, new) = r  BY DEF finish_edit, Interactive
<1>2. edit(m, new).m \in {r.m, d} /\ editn(m, name, new).m \in {r.m, e}
  BY <1>1, Zenon DEF edit, editn, Error, Done
<1>3. r.m.callback \/ CameBack(m, r.m)  BY LeaveComesBack
<1>4. Counted(r.m)  BY LeaveCounted DEF Finished, Kept
<1>. HIDE DEF r, x, v
<1>5. Stays(r.m, f)  BY <1>4, StaysOpen DEF Counted
<1>. HIDE DEF f
<1>6. d.callback = TRUE /\ e.callback = TRUE
  BY <1>4, <1>5 DEF Opened, Counted, Stays, Fields
<1>. HIDE DEF d, e
<1>. QED  BY <1>2, <1>3, <1>6

LEMMA StepComesBack ==
    ASSUME Good(store), Counted(store), [Next]_vars, store.mode = 2, ~ store'.callback
    PROVE  CameBack(store, store')
<1>0. DOMAIN store = Fields /\ store.callback /\ ~ Stays(store, store')
  BY DEF Good, Store, IndexOK, Interactive, Stays
<1>1. ~ StoreElement  BY <1>0, StoelStays DEF StoreElement, Command
<1>2. ~ RecallElement  BY <1>0, RclelStays DEF RecallElement, Command
<1>3. ~ StoreIJ
  <2>1. \A row, column : Stays(store, stoij(store, row, column).m)
    BY <1>0, GoneToStays DEF stoij, Error, Stays
  <2>. QED  BY <1>0, <2>1 DEF StoreIJ, Command
<1>4. ~ GoTo  BY <1>0, GotoStays DEF GoTo, Command
<1>5. ~ Step  BY <1>0, StepStays DEF Step, Command
<1>6. ~ Move  BY <1>0, MoveStays DEF Move, Command
<1>7. ~ InsertRow  BY <1>0, InsrStays DEF InsertRow, Command
<1>8. ~ DeleteRow  BY <1>0, DelrStays DEF DeleteRow, Command
<1>9. ~ GetMatrix  BY <1>0, GetmStays DEF GetMatrix, Command
<1>10. ~ PutMatrix  BY <1>0, PutmStays DEF PutMatrix, Command
<1>11. ~ SwapRows  BY <1>0, SwapStays DEF SwapRows, Command
<1>12. CASE Edit  BY <1>12, MemoryIsUsable, EditComesBack DEF Edit, Command
<1>13. CASE EditNamed  BY <1>13, MemoryIsUsable, EditComesBack DEF EditNamed, Command
<1>14. ~ Index  BY <1>0 DEF Index, Command, index, Interactive, Error, Stays
<1>15. CASE Leave  BY <1>15, MemoryIsUsable, LeaveComesBack DEF Leave, Command
<1>16. ~ Grow  BY <1>0 DEF Grow, Stays, Fields
<1>17. ~ (Sto \/ Rcl \/ Clv \/ Dim \/ CallFn)
  BY <1>0, VariablesStay DEF Sto, Rcl, Clv, Dim, CallFn, Command
<1>18. ~ Type  BY <1>0, StaysOpen DEF Type
<1>19. CASE ClearAll
  <2>1. PICK new \in ForCopy : store' = clall(store, new).m  BY <1>19 DEF ClearAll, Command
  <2>2. Usable(WithX(store, Real(Zero)), new)  BY MemoryIsUsable, RealIsSpare, FreeStaysFree
  <2>. QED  BY <2>1, <2>2, ClallComesBack
<1>20. ~ UNCHANGED vars  BY <1>0 DEF vars, Stays
<1>. QED
  BY <1>1, <1>2, <1>3, <1>4, <1>5, <1>6, <1>7, <1>8, <1>9, <1>10, <1>11, <1>12, <1>13,
     <1>14, <1>15, <1>16, <1>17, <1>18, <1>19, <1>20 DEF Next

\* Whatever takes the editor's menu away, the matrix that EDIT took out of X is in X again
\* and nowhere else, of the size that it had, and none of its elements has changed but the
\* one that the index was on, whether or not there was memory for a copy to store that one
\* in (core_commands3.cc:790).
THEOREM MatrixAlwaysComesBack == Spec => MatrixComesBack
<1>1. ASSUME CameBack(store, store')
      PROVE  LET before == store.slots["edited"]
                 after == store'.slots["x"]
             IN  /\ IsMatrix(after) /\ store'.slots["edited"] = None
                 /\ <<after.rows, after.columns>> = <<before.rows, before.columns>>
                 /\ \A k \in 1 .. Size(before) :
                     store'.data[after.array][k] # store.data[before.array][k]
                         => k = Place(before, store.i, store.j)
  BY <1>1 DEF CameBack, Contents
<1>2. Good(store) /\ Counted(store) /\ [Next]_vars
        => [store.mode = 2 /\ ~store'.callback =>
             LET before == store.slots["edited"]
                 after == store'.slots["x"]
             IN  /\ IsMatrix(after) /\ store'.slots["edited"] = None
                 /\ <<after.rows, after.columns>> = <<before.rows, before.columns>>
                 /\ \A k \in 1 .. Size(before) :
                     store'.data[after.array][k] # store.data[before.array][k]
                         => k = Place(before, store.i, store.j)]_vars
  BY <1>1, StepComesBack
<1>. QED  BY <1>2, AlwaysCounted, PTL DEF Spec, MatrixComesBack

=============================================================================
