----------------------------- MODULE MatrixEditor -----------------------------
(***************************************************************************)
(* The indexed matrix and the matrix editor (common/core_commands3.cc,     *)
(* core_commands4.cc).  matedit_mode says which matrix the commands act    *)
(* on: none (0), the one named by INDEX (1), the one EDIT took out of X    *)
(* (2), or the one named by EDITN (3).  Modes 2 and 3 are the editor: it   *)
(* has a menu, whose exit callback stores X and puts things back.          *)
(*                                                                         *)
(* To the store of MatrixStore this adds                                   *)
(*   callback    the editor's menu is up, and with it its exit callback    *)
(*   grow        flags.f.grow                                              *)
(*                                                                         *)
(* Each command is an operator on the store that returns the store it      *)
(* leaves and the error it returns; new is the array malloc() would find.  *)
(* The code does not check the index before it uses it: what it does       *)
(* outside the array is not followed.  Nor is a failing realloc(), where   *)
(* an array is resized in place.                                           *)
(***************************************************************************)
EXTENDS MatrixStore

CONSTANTS
    Shapes,             \* the dimensions the user gives, <<rows, columns>>
    MaxSize,            \* bound: elements a matrix grows to
    MaxLeaked           \* bound: references to an array that one is leaked of

ASSUME MatrixEditorAssumption ==
    /\ Shapes \subseteq (Nat \ {0}) \X (Nat \ {0})
    /\ MaxSize \in Nat /\ MaxLeaked \in Nat

VARIABLE store

vars == <<store>>

Init ==
    store = [slots |-> [slot \in Slots |-> IF slot = "x" THEN Real(Zero) ELSE None],
             refs |-> [a \in Arrays |-> 0], data |-> [a \in Arrays |-> << >>],
             mode |-> 0, name |-> NoName, i |-> 0, j |-> 0,
             callback |-> FALSE, grow |-> FALSE]

-----------------------------------------------------------------------------
\* The matrix the commands act on.

Interactive(m) == m.mode \in {2, 3}
Target(m) == IF m.mode = 2 THEN "edited" ELSE m.name
HasMatrix(m) == m.mode # 0 /\ IsMatrix(m.slots[Target(m)])
It(m) == m.slots[Target(m)]

\* The place of an element in the array, from 1.
Place(v, i, j) == i * v.columns + j + 1
InArray(v, i, j) == Place(v, i, j) <= Size(v)
OnElement(m) == HasMatrix(m) => InArray(It(m), m.i, m.j)

Done(m) == [m |-> m, err |-> "NONE"]
Error(m, err) == [m |-> m, err |-> err]
NoMatrix(m) ==
    Error(m, IF m.mode = 0 \/ It(m) = None THEN "NONEXISTENT" ELSE "INVALID_TYPE")

WithElement(m, i, j, e) == [m EXCEPT !.data[It(m).array][Place(It(m), i, j)] = e]
Element(m, i, j) == Contents(m, Target(m))[Place(It(m), i, j)]

-----------------------------------------------------------------------------
\* Elements.

stoel(m, new) ==
    IF ~HasMatrix(m) THEN NoMatrix(m)
    ELSE IF ~CanOwn(m, Target(m), new) THEN Error(m, "MEMORY")
    ELSE LET d == disentangle(m, Target(m), new) IN
         IF IsReal(m.slots["x"])
         THEN Done(WithElement(d, m.i, m.j, m.slots["x"].x))
         ELSE Error(d, "INVALID_TYPE")

rclel(m) ==
    IF ~HasMatrix(m) THEN NoMatrix(m)
    ELSE Done(WithX(m, Real(Element(m, m.i, m.j))))

GoneTo(m, row, column) ==
    IF ~HasMatrix(m) THEN NoMatrix(m)
    ELSE IF row > It(m).rows \/ column > It(m).columns THEN Error(m, "DIMENSION")
    ELSE Done([m EXCEPT !.i = row - 1, !.j = column - 1])

\* X and Y say where to.
stoij(m, row, column) ==
    IF IsReal(m.slots["x"]) THEN GoneTo(m, row, column) ELSE Error(m, "INVALID_TYPE")

\* GOTO stores X, and recalls the element it went to.
goto(m, row, column, new) ==
    LET r == stoel(m, new)
        s == GoneTo(r.m, row, column)
    IN  IF r.err # "NONE" THEN r ELSE IF s.err # "NONE" THEN s ELSE rclel(s.m)

-----------------------------------------------------------------------------
\* The index moves along a row or a column, and wraps around at its end to the
\* next one; in GROW mode, past the last element there will be a new row.

AtEnd(m) == m.i + 1 >= It(m).rows /\ m.j + 1 >= It(m).columns
Grows(m, direction) == direction = "RIGHT" /\ m.grow /\ AtEnd(m)

Back(k, size) == IF k = 0 THEN size - 1 ELSE k - 1
Forward(k, size) == IF k + 1 >= size THEN 0 ELSE k + 1

Position(m, direction) ==
    LET rows == It(m).rows
        columns == It(m).columns
    IN  CASE direction = "LEFT" ->
                 <<IF m.j = 0 THEN Back(m.i, rows) ELSE m.i, Back(m.j, columns)>>
          [] direction = "RIGHT" ->
                 <<IF Grows(m, direction) THEN rows
                   ELSE IF m.j + 1 >= columns THEN Forward(m.i, rows) ELSE m.i,
                   Forward(m.j, columns)>>
          [] direction = "UP" ->
                 <<Back(m.i, rows), IF m.i = 0 THEN Back(m.j, columns) ELSE m.j>>
          [] direction = "DOWN" ->
                 <<Forward(m.i, rows), IF m.i + 1 >= rows THEN Forward(m.j, columns) ELSE m.j>>

Directions == {"LEFT", "RIGHT", "UP", "DOWN"}

Grown(m, direction, new) ==
    IF Grows(m, direction)
    THEN dimension_array_ref(m, Target(m), It(m).rows + 1, It(m).columns, new) ELSE m

\* J-, J+, I- and I+.
step(m, direction, new) ==
    IF ~HasMatrix(m) THEN NoMatrix(m)
    ELSE IF Grows(m, direction) /\ ~CanOwn(m, Target(m), new) THEN Error(m, "MEMORY")
    ELSE LET p == Position(m, direction)
         IN  Done([Grown(m, direction, new) EXCEPT !.i = p[1], !.j = p[2]])

\* The arrows store X in the element they leave, and recall the one they go to.
\* A value that cannot be stored is found out after the matrix has grown.
matedit_move(m, direction, new) ==
    IF ~HasMatrix(m) THEN NoMatrix(m)
    ELSE IF ~CanOwn(m, Target(m), new) THEN Error(m, "MEMORY")
    ELSE LET d == Grown(disentangle(m, Target(m), new), direction, new)
             p == Position(m, direction)
         IN  IF ~IsReal(m.slots["x"]) THEN Error(d, "INVALID_TYPE")
             ELSE Done([WithElement(d, m.i, m.j, m.slots["x"].x)
                          EXCEPT !.i = p[1], !.j = p[2],
                                 !.slots["x"] = IF Place(It(m), p[1], p[2]) = Place(It(m), m.i, m.j)
                                                THEN @ ELSE Real(Element(d, p[1], p[2]))])

-----------------------------------------------------------------------------
\* Rows and parts.

Clamped(m) ==
    LET Within(k, size) == IF k >= size THEN size - 1 ELSE k
    IN  [m EXCEPT !.i = Within(@, It(m).rows), !.j = Within(@, It(m).columns)]

Rows(m, first, last) ==
    SubSeq(Contents(m, Target(m)), first * It(m).columns + 1, (last + 1) * It(m).columns)

insr(m, new) ==
    LET r == IF Interactive(m) THEN stoel(m, new) ELSE Done(m)
        c == Clamped(r.m)
        v == It(c)
        longer == Rows(c, 0, c.i - 1) \o [k \in 1 .. v.columns |-> Zero] \o Rows(c, c.i, v.rows - 1)
        d == WithArray(c, Target(c), v.rows + 1, v.columns, longer, new)
    IN  IF ~HasMatrix(m) THEN NoMatrix(m)
        ELSE IF r.err # "NONE" THEN r
        ELSE IF ~CanOwn(c, Target(c), new) THEN Error(c, "MEMORY")
        ELSE Done(IF Interactive(m) THEN WithX(d, Real(Zero)) ELSE d)

\* X shows the element below the one that was deleted, or above the last row.
delr(m, new) ==
    LET c == Clamped(m)
        v == It(c)
        last == c.i = v.rows - 1
        shorter == Rows(c, 0, c.i - 1) \o Rows(c, c.i + 1, v.rows - 1)
        d == [WithArray(c, Target(c), v.rows - 1, v.columns, shorter, new)
                EXCEPT !.i = IF last THEN @ - 1 ELSE @]
        shown == Element(c, IF last THEN c.i - 1 ELSE c.i + 1, c.j)
    IN  IF ~HasMatrix(m) THEN NoMatrix(m)
        ELSE IF v.rows = 1 THEN Error(m, "DIMENSION")
        ELSE IF ~CanOwn(c, Target(c), new) THEN Error(c, "MEMORY")
        ELSE Done(IF Interactive(m) THEN WithX(d, Real(shown)) ELSE d)

getm(m, rows, columns, new) ==
    LET v == It(m)
        part == [k \in 1 .. rows * columns |->
                    Element(m, m.i + ((k - 1) \div columns), m.j + ((k - 1) % columns))]
    IN  IF ~HasMatrix(m) THEN NoMatrix(m)
        ELSE IF ~IsReal(m.slots["x"]) THEN Error(m, "INVALID_TYPE")
        ELSE IF v.rows < m.i + rows \/ v.columns < m.j + columns THEN Error(m, "DIMENSION")
        ELSE IF new = NoArray THEN Error(m, "MEMORY")
        ELSE Done([WithX(m, Matrix(rows, columns, new))
                     EXCEPT !.refs[new] = 1, !.data[new] = part])

putm(m, new) ==
    LET v == It(m)
        x == m.slots["x"]
        d == disentangle(m, Target(m), new)
        Put(k) ==
            LET i == ((k - 1) \div v.columns) - m.i
                j == ((k - 1) % v.columns) - m.j
            IN  IF i \in 0 .. x.rows - 1 /\ j \in 0 .. x.columns - 1
                THEN Contents(m, "x")[Place(x, i, j)] ELSE Contents(m, Target(m))[k]
    IN  IF ~HasMatrix(m) THEN NoMatrix(m)
        ELSE IF ~IsMatrix(x) THEN Error(m, "INVALID_TYPE")
        ELSE IF v.rows < m.i + x.rows \/ v.columns < m.j + x.columns THEN Error(m, "DIMENSION")
        ELSE IF ~CanOwn(m, Target(m), new) THEN Error(m, "MEMORY")
        ELSE Done([d EXCEPT !.data[It(d).array] = [k \in 1 .. Size(v) |-> Put(k)]])

\* Rows are counted from 0; one row too many passes the check.
CanSwap(m, row) == row <= It(m).rows

swap_r(m, r1, r2, new) ==
    LET v == It(m)
        d == disentangle(m, Target(m), new)
        From(row) == IF row = r1 THEN r2 ELSE IF row = r2 THEN r1 ELSE row
        Swapped(k) == Element(m, From((k - 1) \div v.columns), (k - 1) % v.columns)
    IN  IF ~HasMatrix(m) THEN NoMatrix(m)
        ELSE IF ~IsReal(m.slots["x"]) THEN Error(m, "INVALID_TYPE")
        ELSE IF ~CanSwap(m, r1) \/ ~CanSwap(m, r2) THEN Error(m, "DIMENSION")
        ELSE IF r1 = r2 THEN Done(m)
        ELSE IF ~CanOwn(m, Target(m), new) THEN Error(m, "MEMORY")
        ELSE Done([d EXCEPT !.data[It(d).array] = [k \in 1 .. Size(v) |-> Swapped(k)]])

-----------------------------------------------------------------------------
\* Into the editor and out of it.

leave_KeepsX(m, new) ==
    IF ~m.callback THEN Done(m)
    ELSE Done([stoel(m, new).m EXCEPT !.mode = 0, !.grow = FALSE, !.callback = FALSE])

\* The exit callback.  X must fit, or the editor stays; but not having the
\* memory to store X, or the matrix to store it in, keeps nobody inside.
leave(m, new) ==
    LET r == stoel(m, new)
        back == [free_vartype(r.m, r.m.slots["x"])
                   EXCEPT !.slots["x"] = r.m.slots["edited"], !.slots["edited"] = None]
    IN  IF ~m.callback THEN Done(m)
        ELSE IF r.err \notin {"NONE", "MEMORY", "NONEXISTENT"} THEN r
        ELSE Done([(IF m.mode = 2 THEN back ELSE r.m)
                     EXCEPT !.mode = 0, !.grow = FALSE, !.callback = FALSE])

finish_edit(m, new) == IF Interactive(m) THEN leave(m, new) ELSE Done(m)

Opened_KeepsIndex(m, mode, v) ==
    [m EXCEPT !.mode = mode, !.grow = FALSE, !.callback = TRUE,
              !.slots["x"] = Real(m.data[v.array][1])]

\* The matrix v goes under edit; X shows its first element.
Opened(m, mode, v) ==
    [m EXCEPT !.mode = mode, !.grow = FALSE, !.i = 0, !.j = 0, !.callback = TRUE,
              !.slots["x"] = Real(m.data[v.array][1])]

edit(m, new) ==
    LET r == finish_edit(m, new)
        x == r.m.slots["x"]
    IN  IF r.err # "NONE" THEN r
        ELSE IF ~IsMatrix(x) THEN Error(r.m, "INVALID_TYPE")
        ELSE Done([Opened(r.m, 2, x) EXCEPT !.slots["edited"] = x])

editn(m, name, new) ==
    LET r == finish_edit(m, new)
        v == r.m.slots[name]
    IN  IF r.err # "NONE" THEN r
        ELSE IF v = None THEN Error(r.m, "NONEXISTENT")
        ELSE IF ~IsMatrix(v) THEN Error(r.m, "INVALID_TYPE")
        ELSE Done([Opened(free_vartype(r.m, r.m.slots["x"]), 3, v) EXCEPT !.name = name])

index(m, name) ==
    LET v == m.slots[name]
    IN  IF Interactive(m) THEN Error(m, "RESTRICTED")
        ELSE IF v = None THEN Error(m, "NONEXISTENT")
        ELSE IF ~IsMatrix(v) THEN Error(m, "INVALID_TYPE")
        ELSE Done([m EXCEPT !.mode = 1, !.i = 0, !.j = 0, !.name = name])

-----------------------------------------------------------------------------
\* Commands on variables.

Locked(m, name) == m.mode = 3 /\ m.name = name

sto(m, name) ==
    LET x == m.slots["x"]
    IN  IF Locked(m, name) /\ ~IsMatrix(x) THEN Error(m, "RESTRICTED")
        ELSE Done(store_var(dup_vartype(m, x), name, x))

rcl(m, name) ==
    LET v == m.slots[name]
    IN  IF v = None THEN Error(m, "NONEXISTENT") ELSE Done(WithX(dup_vartype(m, v), v))

clv(m, name) == IF Locked(m, name) THEN Error(m, "RESTRICTED") ELSE Done(purge_var(m, name))

dim(m, name, rows, columns, new) ==
    IF ~IsReal(m.slots["x"]) THEN Error(m, "INVALID_TYPE")
    ELSE IF ~IsMatrix(m.slots[name])
    THEN IF new = NoArray THEN Error(m, "MEMORY")
         ELSE Done(store_var([m EXCEPT !.refs[new] = 1,
                                       !.data[new] = [k \in 1 .. rows * columns |-> Zero]],
                             name, Matrix(rows, columns, new)))
    ELSE IF <<rows, columns>> # <<m.slots[name].rows, m.slots[name].columns>>
            /\ ~CanOwn(m, name, new) THEN Error(m, "MEMORY")
    ELSE Done(dimension_array_ref(m, name, rows, columns, new))

\* SOLVE and INTEG write to their variable; only a scalar is written in place.
call_fn(m, name, e) ==
    IF IsReal(m.slots[name]) THEN [m EXCEPT !.slots[name] = Real(e)]
    ELSE store_var(m, name, Real(e))

clall(m, new) == Done(purge_all_vars(leave(WithX(m, Real(Zero)), new).m))

-----------------------------------------------------------------------------
\* What malloc() may answer: one free array is as good as another.
Memory ==
    {NoArray} \cup (IF Free(store) = {} THEN {} ELSE {CHOOSE a \in Free(store) : TRUE})

\* Only a matrix that shares its array needs another to be changed.
ForCopy ==
    IF HasMatrix(store) /\ Shared(store, Target(store)) THEN Memory ELSE {NoArray}

Command(r) == store' = r.m

StoreElement == OnElement(store) /\ \E new \in ForCopy : Command(stoel(store, new))
RecallElement == OnElement(store) /\ Command(rclel(store))
StoreIJ == \E s \in Shapes : Command(stoij(store, s[1], s[2]))
GoTo ==
    /\ Interactive(store) /\ OnElement(store)
    /\ \E s \in Shapes, new \in ForCopy : Command(goto(store, s[1], s[2], new))

MayGrow == HasMatrix(store) => (It(store).rows + 1) * It(store).columns <= MaxSize
CanGrow(direction) == HasMatrix(store) /\ Grows(store, direction) => MayGrow

Step ==
    \E direction \in Directions, new \in ForCopy :
        CanGrow(direction) /\ Command(step(store, direction, new))

Move ==
    \E direction \in Directions, new \in ForCopy :
        /\ CanGrow(direction) /\ OnElement(store)
        /\ HasMatrix(store) =>
                LET p == Position(store, direction)
                IN  Grows(store, direction) \/ InArray(It(store), p[1], p[2])
        /\ Command(matedit_move(store, direction, new))

InsertRow ==
    /\ Interactive(store) => OnElement(store)
    /\ MayGrow
    /\ \E new \in ForCopy : Command(insr(store, new))
DeleteRow == \E new \in ForCopy : Command(delr(store, new))

GetMatrix ==
    \E s \in Shapes, new \in Memory : Command(getm(store, s[1], s[2], new))
PutMatrix == \E new \in ForCopy : Command(putm(store, new))
SwapRows ==
    \E r1, r2 \in 0 .. MaxSize - 1, new \in ForCopy :
        /\ HasMatrix(store) => r1 < It(store).rows /\ r2 < It(store).rows
        /\ Command(swap_r(store, r1, r2, new))

\* A matrix under edit whose mode was reset is lost when EDIT takes the next.
MayLose ==
    LET v == store.slots["edited"]
    IN  v # None /\ store.mode # 2 => store.refs[v.array] <= MaxLeaked

Edit == MayLose /\ OnElement(store) /\ \E new \in ForCopy : Command(edit(store, new))
EditNamed ==
    OnElement(store) /\ \E name \in Names, new \in ForCopy : Command(editn(store, name, new))
Index == \E name \in Names : Command(index(store, name))
Leave == OnElement(store) /\ \E new \in ForCopy : Command(leave(store, new))
Grow == \E on \in BOOLEAN : store' = [store EXCEPT !.grow = on]

Sto == \E name \in Names : Command(sto(store, name))
Rcl == \E name \in Names : Command(rcl(store, name))
Clv == \E name \in Names : Command(clv(store, name))
Dim ==
    \E name \in Names, s \in Shapes, new \in Memory :
        Command(dim(store, name, s[1], s[2], new))
CallFn == \E name \in Names, e \in Elements : store' = call_fn(store, name, e)
Type == \E e \in Elements : store' = WithX(store, Real(e))
ClearAll == OnElement(store) /\ \E new \in ForCopy : Command(clall(store, new))

Next ==
    \/ StoreElement \/ RecallElement \/ StoreIJ \/ GoTo \/ Step \/ Move
    \/ InsertRow \/ DeleteRow \/ GetMatrix \/ PutMatrix \/ SwapRows
    \/ Edit \/ EditNamed \/ Index \/ Leave \/ Grow
    \/ Sto \/ Rcl \/ Clv \/ Dim \/ CallFn \/ Type \/ ClearAll

Spec == Init /\ [][Next]_vars

=============================================================================
