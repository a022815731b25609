---------------------------- MODULE CommandsProofs ----------------------------
(***************************************************************************)
(* The commands keep account of the values they make, move and free:       *)
(* for any variables and any amount of memory.                             *)
(***************************************************************************)
EXTENDS CommandsProps, FiniteSetTheorems, TLAPS

Fields == {"slot", "refs", "data", "live", "lost", "shared", "lift", "disable", "pending"}

Value(v) ==
    \/ v = None
    \/ v.type \in ScalarTypes
    \/ v.type \in MatrixTypes /\ v.array \in Arrays /\ DOMAIN v = {"type", "array"}

\* What a value counts for: one value, and one reference to its array.
V(v) == IF v = None THEN 0 ELSE 1
M(v, a) == IF IsMatrix(v) /\ v.array = a THEN 1 ELSE 0

\* How many slots of f hold a value, and how many the array a.
HeldBy(f) == {s \in Slots : f[s] # None}
HoldersBy(f, a) == {s \in Slots : IsMatrix(f[s]) /\ f[s].array = a}
N(f) == Cardinality(HeldBy(f))
K(f, a) == Cardinality(HoldersBy(f, a))

LEMMA ValueFacts ==
    /\ None.type = "none" /\ ~IsMatrix(None) /\ Value(None) /\ V(None) = 0
    /\ \A a : M(None, a) = 0
    /\ \A v : V(v) \in 0 .. 1 /\ (v # None => V(v) = 1)
    /\ \A v, a : M(v, a) \in 0 .. 1
    /\ \A v : IsMatrix(v) => v # None /\ M(v, v.array) = 1
    /\ \A t \in ScalarTypes : /\ Value(Scalar(t)) /\ Scalar(t) # None /\ ~IsMatrix(Scalar(t))
                              /\ Scalar(t).type = t /\ \A a : M(Scalar(t), a) = 0
    /\ \A t \in MatrixTypes, a \in Arrays :
           /\ Value(Matrix(t, a)) /\ Matrix(t, a) # None /\ IsMatrix(Matrix(t, a))
           /\ Matrix(t, a).type = t /\ Matrix(t, a).array = a
BY DEF None, IsMatrix, Value, V, M, Scalar, Matrix, ScalarTypes, MatrixTypes

LEMMA SlotFacts ==
    /\ "x" \in Slots /\ "y" \in Slots /\ "z" \in Slots /\ "t" \in Slots /\ "l" \in Slots
    /\ "REGS" \in Slots /\ "REGS" \notin Stack
    /\ Stack \subseteq Slots /\ Variables \subseteq Slots
BY ValueStackAssumption DEF Slots, Stack

\* Of a slot, holding is counted.
LEMMA CountsAreNumbers ==
    ASSUME NEW f, IsFiniteSet(HeldBy(f))
    PROVE  N(f) \in Nat /\ \A a : IsFiniteSet(HoldersBy(f, a)) /\ K(f, a) \in Nat
<1>1. N(f) \in Nat  BY FS_CardinalityType DEF N
<1>2. \A a : HoldersBy(f, a) \subseteq HeldBy(f)  BY ValueFacts DEF HoldersBy, HeldBy
<1>3. \A a : IsFiniteSet(HoldersBy(f, a))  BY <1>2, FS_Subset
<1>4. \A a : K(f, a) \in Nat  BY <1>3, FS_CardinalityType DEF K
<1>. QED  BY <1>1, <1>3, <1>4

LEMMA AddedOrRemoved ==
    ASSUME NEW S, IsFiniteSet(S), NEW s
    PROVE  /\ IsFiniteSet(S \cup {s})
           /\ Cardinality(S \cup {s}) = IF s \in S THEN Cardinality(S) ELSE Cardinality(S) + 1
           /\ IsFiniteSet(S \ {s})
           /\ Cardinality(S \ {s}) = IF s \in S THEN Cardinality(S) - 1 ELSE Cardinality(S)
BY FS_AddElement, FS_RemoveElement

\* One slot gets another value.
LEMMA OneSlot ==
    ASSUME NEW f, IsFiniteSet(HeldBy(f)), NEW s \in Slots, NEW g,
           \A t \in Slots \ {s} : g[t] = f[t]
    PROVE  /\ IsFiniteSet(HeldBy(g))
           /\ N(g) = N(f) - V(f[s]) + V(g[s])
           /\ \A a : K(g, a) = K(f, a) - M(f[s], a) + M(g[s], a)
<1>1. IsFiniteSet(HeldBy(g)) /\ N(g) = N(f) - V(f[s]) + V(g[s])
  <2>. DEFINE H == HeldBy(f)
  <2>1. HeldBy(g) = IF g[s] = None THEN H \ {s} ELSE (H \ {s}) \cup {s}
    BY DEF HeldBy
  <2>2. s \in H <=> f[s] # None  BY DEF HeldBy
  <2>3. N(f) = Cardinality(H) /\ N(g) = Cardinality(HeldBy(g)) /\ N(f) \in Nat
    BY CountsAreNumbers DEF N
  <2>. HIDE DEF H
  <2>4. IsFiniteSet(H)  BY DEF H
  <2>5. /\ IsFiniteSet(H \ {s}) /\ IsFiniteSet((H \ {s}) \cup {s})
        /\ Cardinality(H \ {s}) = IF s \in H THEN Cardinality(H) - 1 ELSE Cardinality(H)
        /\ Cardinality((H \ {s}) \cup {s}) = Cardinality(H \ {s}) + 1
    BY <2>4, AddedOrRemoved
  <2>. QED  BY <2>1, <2>2, <2>3, <2>5 DEF V
<1>2. ASSUME NEW a PROVE K(g, a) = K(f, a) - M(f[s], a) + M(g[s], a)
  <2>. DEFINE H == HoldersBy(f, a)
  <2>1. HoldersBy(g, a) = IF IsMatrix(g[s]) /\ g[s].array = a THEN (H \ {s}) \cup {s} ELSE H \ {s}
    BY DEF HoldersBy
  <2>2. s \in H <=> IsMatrix(f[s]) /\ f[s].array = a  BY DEF HoldersBy
  <2>3. K(f, a) = Cardinality(H) /\ K(g, a) = Cardinality(HoldersBy(g, a)) /\ K(f, a) \in Nat
    BY CountsAreNumbers DEF K
  <2>4. IsFiniteSet(H)  BY CountsAreNumbers
  <2>. HIDE DEF H
  <2>5. /\ Cardinality(H \ {s}) = IF s \in H THEN Cardinality(H) - 1 ELSE Cardinality(H)
        /\ Cardinality((H \ {s}) \cup {s}) = Cardinality(H \ {s}) + 1
    BY <2>4, AddedOrRemoved
  <2>. QED  BY <2>1, <2>2, <2>3, <2>5 DEF M
<1>. QED  BY <1>1, <1>2

\* The stack moves: what its five registers had before and have now.
OnStack(f) == V(f["x"]) + V(f["y"]) + V(f["z"]) + V(f["t"]) + V(f["l"])
ArrayOnStack(f, a) == M(f["x"], a) + M(f["y"], a) + M(f["z"], a) + M(f["t"], a) + M(f["l"], a)

LEMMA FiveSlots ==
    ASSUME NEW f, IsFiniteSet(HeldBy(f)), DOMAIN f = Slots, NEW g,
           \A s \in Slots \ Stack : g[s] = f[s]
    PROVE  /\ IsFiniteSet(HeldBy(g))
           /\ N(g) = N(f) - OnStack(f) + OnStack(g)
           /\ \A a : K(g, a) = K(f, a) - ArrayOnStack(f, a) + ArrayOnStack(g, a)
<1>. DEFINE g1 == [f EXCEPT !["x"] = g["x"]]
            g2 == [g1 EXCEPT !["y"] = g["y"]]
            g3 == [g2 EXCEPT !["z"] = g["z"]]
            g4 == [g3 EXCEPT !["t"] = g["t"]]
<1>1. \A s \in Slots \ {"x"} : g1[s] = f[s]  OBVIOUS
<1>2. g1["x"] = g["x"] /\ DOMAIN g1 = Slots  BY SlotFacts
<1>. HIDE DEF g1
<1>3. \A s \in Slots \ {"y"} : g2[s] = g1[s]  BY <1>2
<1>4. g2["y"] = g["y"] /\ DOMAIN g2 = Slots  BY <1>2, SlotFacts
<1>. HIDE DEF g2
<1>5. \A s \in Slots \ {"z"} : g3[s] = g2[s]  BY <1>4
<1>6. g3["z"] = g["z"] /\ DOMAIN g3 = Slots  BY <1>4, SlotFacts
<1>. HIDE DEF g3
<1>7. \A s \in Slots \ {"t"} : g4[s] = g3[s]  BY <1>6
<1>8. g4["t"] = g["t"] /\ DOMAIN g4 = Slots  BY <1>6, SlotFacts
<1>. HIDE DEF g4
<1>9. \A s \in Slots \ {"l"} : g[s] = g4[s]
  BY <1>1, <1>2, <1>3, <1>4, <1>5, <1>6, <1>7, <1>8 DEF Stack
<1>10. /\ g1["y"] = f["y"] /\ g2["z"] = f["z"] /\ g3["t"] = f["t"] /\ g4["l"] = f["l"]
  <2>1. "y" # "x" /\ "z" \notin {"x", "y"} /\ "t" \notin {"x", "y", "z"} /\ "l" \notin {"x", "y", "z", "t"}
    OBVIOUS
  <2>. QED  BY <1>1, <1>3, <1>5, <1>7, <2>1, SlotFacts
<1>11. /\ IsFiniteSet(HeldBy(g1)) /\ N(g1) = N(f) - V(f["x"]) + V(g1["x"])
       /\ \A a : K(g1, a) = K(f, a) - M(f["x"], a) + M(g1["x"], a)
  BY <1>1, OneSlot, SlotFacts
<1>12. /\ IsFiniteSet(HeldBy(g2)) /\ N(g2) = N(g1) - V(g1["y"]) + V(g2["y"])
       /\ \A a : K(g2, a) = K(g1, a) - M(g1["y"], a) + M(g2["y"], a)
  BY <1>3, <1>11, OneSlot, SlotFacts
<1>13. /\ IsFiniteSet(HeldBy(g3)) /\ N(g3) = N(g2) - V(g2["z"]) + V(g3["z"])
       /\ \A a : K(g3, a) = K(g2, a) - M(g2["z"], a) + M(g3["z"], a)
  BY <1>5, <1>12, OneSlot, SlotFacts
<1>14. /\ IsFiniteSet(HeldBy(g4)) /\ N(g4) = N(g3) - V(g3["t"]) + V(g4["t"])
       /\ \A a : K(g4, a) = K(g3, a) - M(g3["t"], a) + M(g4["t"], a)
  BY <1>7, <1>13, OneSlot, SlotFacts
<1>15. /\ IsFiniteSet(HeldBy(g)) /\ N(g) = N(g4) - V(g4["l"]) + V(g["l"])
       /\ \A a : K(g, a) = K(g4, a) - M(g4["l"], a) + M(g["l"], a)
  BY <1>9, <1>14, OneSlot, SlotFacts
<1>16. N(f) \in Nat /\ \A a : K(f, a) \in Nat  BY CountsAreNumbers
<1>17. N(g) = N(f) - OnStack(f) + OnStack(g)
  BY <1>2, <1>4, <1>6, <1>8, <1>10, <1>11, <1>12, <1>13, <1>14, <1>15, <1>16, ValueFacts DEF OnStack
<1>18. \A a : K(g, a) = K(f, a) - ArrayOnStack(f, a) + ArrayOnStack(g, a)
  BY <1>2, <1>4, <1>6, <1>8, <1>10, <1>11, <1>12, <1>13, <1>14, <1>15, <1>16, ValueFacts DEF ArrayOnStack
<1>. QED  BY <1>15, <1>17, <1>18

-----------------------------------------------------------------------------
\* Calculators.

\* What a calculator is made of.
Form(c) ==
    /\ DOMAIN c = Fields /\ DOMAIN c.slot = Slots /\ DOMAIN c.refs = Arrays /\ DOMAIN c.data = Arrays
    /\ c.live \in Int /\ c.lost \in Nat /\ \A a \in Arrays : c.refs[a] \in Int
    /\ "command" \notin c.shared

\* Values are in its slots, on the stack everywhere; REGS is a matrix, unless a solver has
\* put a number there.
Proper(f) ==
    /\ \A s \in Slots : Value(f[s])
    /\ \A s \in Stack : f[s] # None
    /\ misplaced \/ f["REGS"] = None \/ IsMatrix(f["REGS"])

Calc(c) == Form(c) /\ Proper(c.slot) /\ IsFiniteSet(HeldBy(c.slot))

\* The values, and the references to an array, that no slot accounts for.
Extra(c) == c.live - N(c.slot) - c.lost
Spare(c, a) == c.refs[a] - K(c.slot, a)

Base(c) == Calc(c) /\ \A a \in Arrays : Spare(c, a) >= 0

\* From b on, u, v and w have been made or taken out of a slot, and wait in a hand.
Has(b, c, u, v, w) ==
    /\ Base(b) /\ Calc(c) /\ Value(u) /\ Value(v) /\ Value(w)
    /\ c.lost >= b.lost /\ c.pending = b.pending
    /\ Extra(c) = Extra(b) + V(u) + V(v) + V(w)
    /\ \A a \in Arrays : Spare(c, a) = Spare(b, a) + M(u, a) + M(v, a) + M(w, a)

\* What can be seen of b is the same in c, also of arrays that only a hand holds.
Seen(b, c) ==
    /\ \A s \in Slots : Visible(b, s) = Visible(c, s)
    /\ \A a \in Arrays : Spare(b, a) >= 1 => c.data[a] = b.data[a]

LEMMA Numbered ==
    ASSUME NEW c, Calc(c)
    PROVE  /\ Extra(c) \in Int /\ N(c.slot) \in Nat /\ c.live \in Int /\ c.lost \in Nat
           /\ \A a \in Arrays : Spare(c, a) \in Int /\ K(c.slot, a) \in Nat /\ c.refs[a] \in Int
BY CountsAreNumbers DEF Calc, Form, Extra, Spare

LEMMA HasIsBase ==
    ASSUME NEW b, NEW c, NEW u, NEW v, NEW w, Has(b, c, u, v, w)
    PROVE  Base(c)
<1>1. \A a \in Arrays : Spare(c, a) = Spare(b, a) + M(u, a) + M(v, a) + M(w, a)
  BY DEF Has
<1>2. \A a \in Arrays : Spare(b, a) >= 0 /\ Spare(b, a) \in Int
  BY Numbered DEF Has, Base
<1>. QED  BY <1>1, <1>2, ValueFacts DEF Has, Base

LEMMA HasNothing ==
    ASSUME NEW b, Base(b)
    PROVE  Has(b, b, None, None, None) /\ Seen(b, b)
BY Numbered, ValueFacts DEF Has, Seen, Base, Calc, Form

LEMMA Swapped ==
    ASSUME NEW b, NEW c, NEW u, NEW v, NEW w, Has(b, c, u, v, w)
    PROVE  Has(b, c, v, u, w) /\ Has(b, c, w, u, v)
<1>1. Extra(b) \in Int /\ \A a \in Arrays : Spare(b, a) \in Int  BY Numbered DEF Has, Base
<1>. QED  BY <1>1, ValueFacts DEF Has

\* One thing after another.
LEMMA HasMore ==
    ASSUME NEW b, NEW c, NEW d, NEW u, NEW v, NEW w,
           Has(b, c, u, None, None), Has(c, d, v, w, None)
    PROVE  Has(b, d, u, v, w)
<1>1. Extra(b) \in Int /\ \A a \in Arrays : Spare(b, a) \in Int  BY Numbered DEF Has, Base
<1>2. b.lost \in Nat /\ c.lost \in Nat /\ d.lost \in Nat  BY DEF Has, Base, Calc, Form
<1>3. d.lost >= b.lost /\ d.pending = b.pending  BY <1>2 DEF Has
<1>4. Extra(d) = Extra(b) + V(u) + V(v) + V(w)  BY <1>1, ValueFacts DEF Has
<1>5. \A a \in Arrays : Spare(d, a) = Spare(b, a) + M(u, a) + M(v, a) + M(w, a)
  BY <1>1, ValueFacts DEF Has
<1>. QED  BY <1>3, <1>4, <1>5 DEF Has

LEMMA TwoThenOne ==
    ASSUME NEW b, NEW c, NEW d, NEW u, NEW v, NEW w,
           Has(b, c, u, v, None), Has(c, d, w, None, None)
    PROVE  Has(b, d, u, v, w)
<1>1. Extra(b) \in Int /\ \A a \in Arrays : Spare(b, a) \in Int  BY Numbered DEF Has, Base
<1>2. b.lost \in Nat /\ c.lost \in Nat /\ d.lost \in Nat  BY DEF Has, Base, Calc, Form
<1>3. d.lost >= b.lost /\ d.pending = b.pending  BY <1>2 DEF Has
<1>4. Extra(d) = Extra(b) + V(u) + V(v) + V(w)  BY <1>1, ValueFacts DEF Has
<1>5. \A a \in Arrays : Spare(d, a) = Spare(b, a) + M(u, a) + M(v, a) + M(w, a)
  BY <1>1, ValueFacts DEF Has
<1>. QED  BY <1>3, <1>4, <1>5 DEF Has

LEMMA SeenThrough ==
    ASSUME NEW b, NEW c, NEW d, NEW u, NEW v, NEW w,
           Has(b, c, u, v, w), Seen(b, c), Seen(c, d)
    PROVE  Seen(b, d)
<1>1. \A a \in Arrays : Spare(b, a) >= 1 => Spare(c, a) >= 1
  BY Numbered, ValueFacts DEF Has, Base
<1>. QED  BY <1>1 DEF Seen

\* What a slot has is referred to; an array that is free is in no slot and no hand.
LEMMA SlotsRefer ==
    ASSUME NEW c, Base(c)
    PROVE  /\ \A s \in Slots, a \in Arrays : IsMatrix(c.slot[s]) /\ c.slot[s].array = a => K(c.slot, a) >= 1
           /\ \A s \in Slots : IsMatrix(c.slot[s]) => c.slot[s].array \in Arrays /\ c.refs[c.slot[s].array] >= 1
           /\ \A a \in Arrays : c.refs[a] >= K(c.slot, a) /\ K(c.slot, a) \in Nat
           /\ \A a \in Arrays : K(c.slot, a) = 0 => \A s \in Slots : ~(IsMatrix(c.slot[s]) /\ c.slot[s].array = a)
<1>1. \A a \in Arrays : c.refs[a] >= K(c.slot, a) /\ K(c.slot, a) \in Nat
  BY Numbered DEF Base, Spare
<1>2. ASSUME NEW s \in Slots, NEW a \in Arrays, IsMatrix(c.slot[s]), c.slot[s].array = a
      PROVE  K(c.slot, a) >= 1
  <2>1. s \in HoldersBy(c.slot, a)  BY <1>2 DEF HoldersBy
  <2>2. IsFiniteSet(HoldersBy(c.slot, a))  BY CountsAreNumbers DEF Base, Calc
  <2>3. K(c.slot, a) # 0  BY <2>1, <2>2, FS_EmptySet DEF K
  <2>. QED  BY <1>1, <2>3
<1>3. \A s \in Slots : IsMatrix(c.slot[s]) => c.slot[s].array \in Arrays
  BY ValueFacts DEF Base, Calc, Proper, Value, IsMatrix, None, ScalarTypes, MatrixTypes
<1>4. \A s \in Slots : IsMatrix(c.slot[s]) => c.refs[c.slot[s].array] >= 1
  BY <1>1, <1>2, <1>3 DEF Base, Calc, Form
<1>. QED  BY <1>1, <1>2, <1>3, <1>4

-----------------------------------------------------------------------------
\* Making, copying and freeing.

LEMMA FreeIs ==
    ASSUME NEW c, Form(c), NEW v, Value(v)
    PROVE  LET d == free_vartype(c, v)
           IN  /\ Form(d) /\ d.slot = c.slot /\ d.lost = c.lost /\ d.shared = c.shared
               /\ d.pending = c.pending /\ d.lift = c.lift
               /\ d.live = c.live - V(v)
               /\ \A a \in Arrays : d.refs[a] = c.refs[a] - M(v, a)
               /\ \A a \in Arrays : ~(M(v, a) = 1 /\ c.refs[a] = 1) => d.data[a] = c.data[a]
<1>1. CASE v = None  BY <1>1, ValueFacts DEF free_vartype, Form
<1>2. CASE v # None /\ ~IsMatrix(v)
  BY <1>2, ValueFacts DEF free_vartype, Form, Fields, V, M
<1>3. CASE IsMatrix(v)
  <2>1. v # None /\ v.array \in Arrays
    BY <1>3, ValueFacts DEF Value, IsMatrix, None, ScalarTypes, MatrixTypes
  <2>. QED  BY <1>3, <2>1, ValueFacts DEF free_vartype, Form, Fields, V, M
<1>. QED  BY <1>1, <1>2, <1>3

\* d is c after v was freed.
Freed(c, d, v) ==
    /\ Form(d) /\ d.slot = c.slot /\ d.lost = c.lost /\ d.pending = c.pending
    /\ d.live = c.live - V(v)
    /\ \A a \in Arrays : d.refs[a] = c.refs[a] - M(v, a)

LEMMA FreeingFrees ==
    ASSUME NEW c, Form(c), NEW v, Value(v)
    PROVE  Freed(c, free_vartype(c, v), v)
BY FreeIs DEF Freed

LEMMA CopyIs ==
    ASSUME NEW c, Form(c), NEW v, Value(v), v # None
    PROVE  LET d == Copy(c, v)
           IN  /\ Form(d) /\ d.slot = c.slot /\ d.lost = c.lost /\ d.shared = c.shared
               /\ d.pending = c.pending /\ d.data = c.data /\ d.lift = c.lift
               /\ d.live = c.live + 1
               /\ \A a \in Arrays : d.refs[a] = c.refs[a] + M(v, a)
<1>1. CASE ~IsMatrix(v)
  BY <1>1, ValueFacts DEF Copy, Form, Fields, V, M
<1>2. CASE IsMatrix(v)
  <2>1. v # None /\ v.array \in Arrays
    BY <1>2, ValueFacts DEF Value, IsMatrix, None, ScalarTypes, MatrixTypes
  <2>. QED  BY <1>2, <2>1, ValueFacts DEF Copy, Form, Fields, V, M
<1>. QED  BY <1>1, <1>2

\* What is in a hand is freed.
LEMMA HandFreed ==
    ASSUME NEW b, NEW c, NEW u, NEW v, NEW w, Has(b, c, u, v, w)
    PROVE  /\ Has(b, free_vartype(c, u), None, v, w)
           /\ Seen(b, c) => Seen(b, free_vartype(c, u))
           /\ free_vartype(c, u).slot = c.slot
<1>. DEFINE d == free_vartype(c, u)
<1>1. /\ Form(d) /\ d.slot = c.slot /\ d.lost = c.lost /\ d.pending = c.pending
      /\ d.live = c.live - V(u)
      /\ \A a \in Arrays : d.refs[a] = c.refs[a] - M(u, a)
      /\ \A a \in Arrays : ~(M(u, a) = 1 /\ c.refs[a] = 1) => d.data[a] = c.data[a]
  BY FreeIs DEF Has, Calc
<1>. HIDE DEF d
<1>2. Calc(d)  BY <1>1 DEF Has, Calc
<1>3. Extra(b) \in Int /\ \A a \in Arrays : Spare(b, a) \in Int  BY Numbered DEF Has, Base
<1>4. Extra(d) = Extra(c) - V(u) /\ \A a \in Arrays : Spare(d, a) = Spare(c, a) - M(u, a)
  BY <1>1, Numbered, ValueFacts DEF Has, Extra, Spare
<1>5. Has(b, d, None, v, w)
  BY <1>1, <1>2, <1>3, <1>4, ValueFacts DEF Has
<1>6. ASSUME Seen(b, c) PROVE Seen(b, d)
  <2>1. ASSUME NEW a \in Arrays, Spare(b, a) >= 1 \/ K(c.slot, a) >= 1
        PROVE  d.data[a] = c.data[a]
    <3>1. M(u, a) = 1 => c.refs[a] >= 2
      BY <1>3, <2>1, Numbered, ValueFacts DEF Has, Base, Spare
    <3>2. c.refs[a] \in Int  BY DEF Has, Calc, Form
    <3>. QED  BY <1>1, <3>1, <3>2
  <2>2. \A s \in Slots : IsMatrix(c.slot[s]) => c.slot[s].array \in Arrays /\ K(c.slot, c.slot[s].array) >= 1
    BY HasIsBase, SlotsRefer
  <2>3. \A s \in Slots : Visible(c, s) = Visible(d, s)
    BY <1>1, <2>1, <2>2 DEF Visible
  <2>. QED  BY <1>6, <2>1, <2>3 DEF Seen
<1>. QED  BY <1>1, <1>5, <1>6 DEF d

\* The stack has other values than before; u and v, in hands, are now in it.
LEMMA StackMoves ==
    ASSUME NEW b, NEW c, NEW u, NEW v, NEW w, Has(b, c, u, v, w), NEW e, Form(e),
           e.lost = c.lost, e.pending = c.pending,
           \A s \in Slots \ Stack : e.slot[s] = c.slot[s],
           \A s \in Stack : Value(e.slot[s]) /\ e.slot[s] # None,
           e.live - c.live = OnStack(e.slot) - OnStack(c.slot) - V(u) - V(v),
           \A a \in Arrays : e.refs[a] - c.refs[a] =
               ArrayOnStack(e.slot, a) - ArrayOnStack(c.slot, a) - M(u, a) - M(v, a)
    PROVE  Has(b, e, None, None, w)
<1>1. Calc(c) /\ IsFiniteSet(HeldBy(c.slot)) /\ DOMAIN c.slot = Slots  BY DEF Has, Calc, Form
<1>2. /\ IsFiniteSet(HeldBy(e.slot))
      /\ N(e.slot) = N(c.slot) - OnStack(c.slot) + OnStack(e.slot)
      /\ \A a : K(e.slot, a) = K(c.slot, a) - ArrayOnStack(c.slot, a) + ArrayOnStack(e.slot, a)
  BY <1>1, FiveSlots
<1>3. Proper(e.slot)
  BY <1>1, SlotFacts DEF Calc, Proper
<1>4. Calc(e)  BY <1>2, <1>3 DEF Calc
<1>5. /\ OnStack(c.slot) \in Int /\ OnStack(e.slot) \in Int
      /\ \A a \in Arrays : ArrayOnStack(c.slot, a) \in Int /\ ArrayOnStack(e.slot, a) \in Int
  BY ValueFacts DEF OnStack, ArrayOnStack
<1>6. Extra(e) = Extra(c) - V(u) - V(v)
  BY <1>1, <1>2, <1>4, <1>5, Numbered, ValueFacts DEF Extra
<1>7. \A a \in Arrays : Spare(e, a) = Spare(c, a) - M(u, a) - M(v, a)
  BY <1>1, <1>2, <1>4, <1>5, Numbered, ValueFacts DEF Spare
<1>8. Extra(b) \in Int /\ \A a \in Arrays : Spare(b, a) \in Int  BY Numbered DEF Has, Base
<1>9. Extra(e) = Extra(b) + V(w) /\ \A a \in Arrays : Spare(e, a) = Spare(b, a) + M(w, a)
  BY <1>6, <1>7, <1>8, ValueFacts DEF Has
<1>. QED  BY <1>4, <1>8, <1>9, ValueFacts DEF Has

\* A slot gets the value in a hand; what it had is freed.
Takes(s, v) ==
    /\ s \in Slots /\ Value(v)
    /\ s \in Stack => v # None
    /\ s = "REGS" => misplaced \/ v = None \/ IsMatrix(v)

LEMMA SlotTakes ==
    ASSUME NEW b, NEW c, NEW u, NEW v, NEW w, Has(b, c, u, v, w), NEW s, Takes(s, u)
    PROVE  Has(b, WithSlot(c, s, u), None, v, w)
<1>. DEFINE p == c.slot[s]
            d == free_vartype(c, p)
            e == WithSlot(c, s, u)
<1>1. Calc(c) /\ Value(p) /\ s \in Slots /\ Value(u)  BY DEF Has, Calc, Proper, Takes
<1>2. /\ Form(d) /\ d.slot = c.slot /\ d.lost = c.lost /\ d.pending = c.pending
      /\ d.live = c.live - V(p)
      /\ \A a \in Arrays : d.refs[a] = c.refs[a] - M(p, a)
  BY <1>1, FreeIs DEF Calc
<1>3. /\ Form(e) /\ e.slot = [c.slot EXCEPT ![s] = u] /\ e.lost = c.lost /\ e.pending = c.pending
      /\ e.live = c.live - V(p) /\ \A a \in Arrays : e.refs[a] = c.refs[a] - M(p, a)
  BY <1>1, <1>2 DEF WithSlot, Form, Fields
<1>. HIDE DEF d, e
<1>4. e.slot[s] = u /\ \A t \in Slots \ {s} : e.slot[t] = c.slot[t]
  BY <1>1, <1>3 DEF Calc, Form
<1>5. /\ IsFiniteSet(HeldBy(e.slot)) /\ N(e.slot) = N(c.slot) - V(p) + V(u)
      /\ \A a : K(e.slot, a) = K(c.slot, a) - M(p, a) + M(u, a)
  BY <1>1, <1>4, OneSlot DEF Calc
<1>6. Proper(e.slot)
  BY <1>1, <1>4, SlotFacts DEF Calc, Proper, Takes
<1>7. Calc(e)  BY <1>3, <1>5, <1>6 DEF Calc
<1>8. Extra(e) = Extra(c) - V(u) /\ \A a \in Arrays : Spare(e, a) = Spare(c, a) - M(u, a)
  BY <1>1, <1>3, <1>5, <1>7, Numbered, ValueFacts DEF Extra, Spare
<1>9. Extra(b) \in Int /\ \A a \in Arrays : Spare(b, a) \in Int  BY Numbered DEF Has, Base
<1>10. Has(b, e, None, v, w)
  BY <1>3, <1>7, <1>8, <1>9, ValueFacts DEF Has
<1>. QED  BY <1>10 DEF e

LEMMA SlotIs ==
    ASSUME NEW c, Calc(c), NEW s \in Slots, NEW v
    PROVE  /\ WithSlot(c, s, v).slot[s] = v
           /\ \A r \in Slots \ {s} : WithSlot(c, s, v).slot[r] = c.slot[r]
<1>1. Value(c.slot[s])  BY DEF Calc, Proper
<1>2. /\ free_vartype(c, c.slot[s]).slot = c.slot
      /\ DOMAIN free_vartype(c, c.slot[s]) = Fields
  BY <1>1, FreeIs DEF Calc, Form
<1>. QED  BY <1>2 DEF WithSlot, Fields, Calc, Form

-----------------------------------------------------------------------------
\* Outcomes.

\* A value was made, and waits in a hand; or there was an error.
Made(b, o) ==
    /\ Seen(b, o.calc)
    /\ IF o.err = "NONE" THEN o.v # None /\ Has(b, o.calc, o.v, None, None)
                         ELSE Has(b, o.calc, None, None, None)

\* All values are in slots; an error has changed nothing.
Settled(b, o) ==
    /\ Has(b, o.calc, None, None, None)
    /\ o.err \notin Fine => Seen(b, o.calc)

AllMade(b, outs) == \A o \in outs : Made(b, o)
AllSettled(b, outs) == \A o \in outs : Settled(b, o)

\* Values of a type.
OfTypes(outs, types) == \A o \in outs : o.err = "NONE" => o.v.type \in types

LEMMA OutcomeIs ==
    \A c, err, v : /\ Outcome(c, err, v).calc = c
                   /\ Outcome(c, err, v).err = err /\ Outcome(c, err, v).v = v
BY DEF Outcome

LEMMA Together ==
    ASSUME NEW b, NEW S, NEW T
    PROVE  /\ AllMade(b, S) /\ AllMade(b, T) => AllMade(b, S \cup T)
           /\ AllSettled(b, S) /\ AllSettled(b, T) => AllSettled(b, S \cup T)
           /\ AllMade(b, {}) /\ AllSettled(b, {})
BY DEF AllMade, AllSettled

LEMMA TogetherTyped ==
    ASSUME NEW S, NEW T, NEW types
    PROVE  OfTypes(S, types) /\ OfTypes(T, types) => OfTypes(S \cup T, types)
BY DEF OfTypes

LEMMA TogetherAll ==
    ASSUME NEW b, NEW S, \A T \in S : AllSettled(b, T)
    PROVE  AllSettled(b, UNION S)
BY DEF AllSettled

\* An error, where nothing has changed.
LEMMA EndsSettled ==
    ASSUME NEW b, Base(b)
    PROVE  /\ \A e : AllSettled(b, Ends(b, e)) /\ (e # "NONE" => AllMade(b, Ends(b, e)))
           /\ AllSettled(b, Done(b))
           /\ \A E : AllSettled(b, Fails(b, E)) /\ ("NONE" \notin E => AllMade(b, Fails(b, E)))
           /\ \A v : AllSettled(b, Rejects(b, v)) /\ AllMade(b, Rejects(b, v))
           /\ \A types, e : e # "NONE" => OfTypes(Ends(b, e), types)
           /\ \A types, E : "NONE" \notin E => OfTypes(Fails(b, E), types)
           /\ \A types, v : OfTypes(Rejects(b, v), types)
BY HasNothing, OutcomeIs
   DEF AllSettled, Settled, AllMade, Made, OfTypes, Ends, Done, Fails, Rejects

-----------------------------------------------------------------------------
\* Values that are made.

LEMMA NewIs ==
    ASSUME NEW c, NEW v
    PROVE  \A o \in New(c, v) : o.calc = [c EXCEPT !.live = @ + 1] /\ o.err = "NONE" /\ o.v = v
BY OutcomeIs DEF New

LEMMA ScalarMade ==
    ASSUME NEW b, Base(b), NEW type \in ScalarTypes
    PROVE  /\ AllMade(b, new_scalar(b, type)) /\ OfTypes(new_scalar(b, type), {type})
           /\ \A o \in new_scalar(b, type) : o.calc.slot = b.slot
<1>. DEFINE d == [b EXCEPT !.live = @ + 1]
            v == Scalar(type)
<1>1. Has(b, d, v, None, None) /\ Seen(b, d) /\ d.slot = b.slot
  <2>1. /\ Form(d) /\ d.slot = b.slot /\ d.refs = b.refs /\ d.data = b.data
        /\ d.live = b.live + 1 /\ d.lost = b.lost /\ d.pending = b.pending
    BY DEF Base, Calc, Form, Fields
  <2>. HIDE DEF d
  <2>2. Calc(d)  BY <2>1 DEF Base, Calc
  <2>3. Extra(d) = Extra(b) + 1 /\ \A a \in Arrays : Spare(d, a) = Spare(b, a)
    BY <2>1, Numbered DEF Base, Extra, Spare
  <2>4. V(v) = 1 /\ Value(v) /\ \A a : M(v, a) = 0  BY ValueFacts
  <2>5. Has(b, d, v, None, None)
    BY <2>1, <2>2, <2>3, <2>4, Numbered, ValueFacts DEF Base, Has
  <2>6. Seen(b, d)  BY <2>1 DEF Seen, Visible
  <2>. QED  BY <2>1, <2>5, <2>6
<1>2. v # None /\ v.type = type  BY ValueFacts
<1>. HIDE DEF d, v
<1>3. \A o \in New(b, v) : o.calc = d /\ o.err = "NONE" /\ o.v = v  BY NewIs DEF d
<1>4. AllMade(b, New(b, v)) /\ OfTypes(New(b, v), {type})
  BY <1>1, <1>2, <1>3 DEF AllMade, Made, OfTypes
<1>5. AllMade(b, Ends(b, "INSUFFICIENT_MEMORY")) /\ OfTypes(Ends(b, "INSUFFICIENT_MEMORY"), {type})
  BY EndsSettled
<1>6. \A o \in Ends(b, "INSUFFICIENT_MEMORY") : o.calc = b  BY OutcomeIs DEF Ends
<1>7. new_scalar(b, type) = New(b, v) \cup Ends(b, "INSUFFICIENT_MEMORY")  BY DEF new_scalar, v
<1>. QED  BY <1>1, <1>3, <1>4, <1>5, <1>6, <1>7, Together, TogetherTyped

LEMMA NumbersMade ==
    ASSUME NEW b, Base(b)
    PROVE  /\ AllMade(b, new_real(b)) /\ AllMade(b, new_complex(b)) /\ AllMade(b, new_string(b))
           /\ OfTypes(new_real(b), {"real"}) /\ OfTypes(new_string(b), {"string"})
           /\ \A o \in new_real(b) \cup new_complex(b) \cup new_string(b) : o.calc.slot = b.slot
BY ScalarMade DEF new_real, new_complex, new_string, ScalarTypes

LEMMA MatrixMade ==
    ASSUME NEW b, Base(b), NEW type \in MatrixTypes
    PROVE  AllMade(b, new_matrix(b, type)) /\ OfTypes(new_matrix(b, type), {type})
<1>1. CASE Free(b) = {}  BY <1>1, EndsSettled DEF new_matrix
<1>2. CASE Free(b) # {}
  <2>. DEFINE a == CHOOSE a \in Free(b) : TRUE
              c == [b EXCEPT !.refs[a] = 1, !.data[a] = "numbers"]
              d == [c EXCEPT !.live = @ + 1]
              v == Matrix(type, a)
  <2>1. a \in Arrays /\ b.refs[a] = 0  BY <1>2 DEF Free
  <2>2. new_matrix(b, type) = New(c, v)
    BY <1>2 DEF new_matrix, Numbers
  <2>. HIDE DEF a
  <2>3. /\ Form(d) /\ d.slot = b.slot /\ d.live = b.live + 1 /\ d.lost = b.lost
        /\ d.pending = b.pending /\ d.refs[a] = 1
        /\ \A e \in Arrays \ {a} : d.refs[e] = b.refs[e] /\ d.data[e] = b.data[e]
    BY <2>1 DEF Base, Calc, Form, Fields
  <2>4. v # None /\ v.type = type /\ Value(v) /\ V(v) = 1 /\ \A e : M(v, e) = IF e = a THEN 1 ELSE 0
    BY <2>1, ValueFacts DEF M
  <2>5. \A o \in New(c, v) : o.calc = d /\ o.err = "NONE" /\ o.v = v  BY NewIs
  <2>. HIDE DEF c, d, v
  <2>6. K(b.slot, a) = 0 /\ Spare(b, a) = 0
    BY <2>1, SlotsRefer, Numbered DEF Base, Spare
  <2>7. Calc(d)  BY <2>3 DEF Base, Calc
  <2>8. Extra(d) = Extra(b) + V(v) /\ \A e \in Arrays : Spare(d, e) = Spare(b, e) + M(v, e)
    BY <2>1, <2>3, <2>4, Numbered DEF Base, Extra, Spare
  <2>9. Has(b, d, v, None, None)
    BY <2>3, <2>4, <2>7, <2>8, Numbered, ValueFacts DEF Base, Has
  <2>10. \A s \in Slots : ~(IsMatrix(b.slot[s]) /\ b.slot[s].array = a)
    BY <2>1, <2>6, SlotsRefer
  <2>11. Seen(b, d)
    <3>1. \A s \in Slots : IsMatrix(b.slot[s]) => b.slot[s].array \in Arrays \ {a}
      BY <2>10, SlotsRefer
    <3>. QED  BY <2>3, <2>6, <3>1 DEF Seen, Visible
  <2>. QED  BY <2>2, <2>4, <2>5, <2>9, <2>11 DEF AllMade, Made, OfTypes
<1>. QED  BY <1>1, <1>2

LEMMA DupMade ==
    ASSUME NEW b, Base(b), NEW v, Value(v), v # None
    PROVE  /\ AllMade(b, dup_vartype(b, v)) /\ OfTypes(dup_vartype(b, v), {v.type})
           /\ \A o \in dup_vartype(b, v) : o.calc.slot = b.slot /\ (o.err = "NONE" => o.v = v)
<1>. DEFINE d == Copy(b, v)
<1>1. /\ Form(d) /\ d.slot = b.slot /\ d.lost = b.lost /\ d.pending = b.pending /\ d.data = b.data
      /\ d.live = b.live + 1 /\ \A a \in Arrays : d.refs[a] = b.refs[a] + M(v, a)
  BY CopyIs DEF Base, Calc
<1>. HIDE DEF d
<1>2. Calc(d)  BY <1>1 DEF Base, Calc
<1>3. Extra(d) = Extra(b) + V(v) /\ \A a \in Arrays : Spare(d, a) = Spare(b, a) + M(v, a)
  BY <1>1, Numbered, ValueFacts DEF Base, Extra, Spare
<1>4. Has(b, d, v, None, None)
  BY <1>1, <1>2, <1>3, Numbered, ValueFacts DEF Base, Has
<1>5. Seen(b, d)  BY <1>1 DEF Seen, Visible
<1>6. \A o \in {Outcome(d, "NONE", v)} : o.calc = d /\ o.err = "NONE" /\ o.v = v  BY OutcomeIs
<1>7. AllMade(b, Ends(b, "INSUFFICIENT_MEMORY")) /\ OfTypes(Ends(b, "INSUFFICIENT_MEMORY"), {v.type})
  BY EndsSettled
<1>8. \A o \in Ends(b, "INSUFFICIENT_MEMORY") : o.calc = b /\ o.err # "NONE"  BY OutcomeIs DEF Ends
<1>9. dup_vartype(b, v) = {Outcome(d, "NONE", v)} \cup Ends(b, "INSUFFICIENT_MEMORY")
  BY DEF dup_vartype, d
<1>10. AllMade(b, {Outcome(d, "NONE", v)}) /\ OfTypes({Outcome(d, "NONE", v)}, {v.type})
  BY <1>4, <1>5, <1>6 DEF AllMade, Made, OfTypes
<1>. QED  BY <1>1, <1>6, <1>7, <1>8, <1>9, <1>10, Together, TogetherTyped

\* One of two values is made when the other is there.
LEMMA MadeAfter ==
    ASSUME NEW b, NEW c, NEW v, v # None, Has(b, c, v, None, None), Seen(b, c),
           NEW outs, AllMade(c, outs), NEW o \in After(outs, v)
    PROVE  /\ Seen(b, o.calc)
           /\ IF o.err = "NONE"
              THEN /\ o.v[1] = v /\ o.v[2] # None
                   /\ \E q \in outs : q.err = "NONE" /\ o.v[2] = q.v
                   /\ Has(b, o.calc, o.v[1], o.v[2], None)
              ELSE Has(b, o.calc, None, None, None)
<1>1. PICK q \in outs : o \in IF q.err = "NONE" THEN {Outcome(q.calc, "NONE", <<v, q.v>>)}
                              ELSE Ends(free_vartype(q.calc, v), q.err)
  BY DEF After
<1>2. Made(c, q)  BY DEF AllMade
<1>3. Seen(b, q.calc)  BY <1>2, SeenThrough DEF Made
<1>4. CASE q.err = "NONE"
  <2>1. o.calc = q.calc /\ o.err = "NONE" /\ o.v = <<v, q.v>>  BY <1>1, <1>4, OutcomeIs
  <2>2. Has(b, q.calc, v, q.v, None)
    BY <1>2, <1>4, HasMore DEF Made
  <2>. QED  BY <1>2, <1>3, <1>4, <2>1, <2>2 DEF Made
<1>5. CASE q.err # "NONE"
  <2>1. o.calc = free_vartype(q.calc, v) /\ o.err = q.err
    BY <1>1, <1>5, OutcomeIs DEF Ends
  <2>2. Has(b, q.calc, v, None, None)  BY <1>2, <1>5, HasMore DEF Made
  <2>. QED  BY <1>3, <1>5, <2>1, <2>2, HandFreed
<1>. QED  BY <1>4, <1>5

\* Two values were made, or none.
PairMade(b, o) ==
    /\ Seen(b, o.calc)
    /\ IF o.err = "NONE"
       THEN /\ o.v[1] # None /\ o.v[2] # None
            /\ Has(b, o.calc, o.v[1], o.v[2], None)
       ELSE Has(b, o.calc, None, None, None)

LEMMA PairsMade ==
    ASSUME NEW b, Base(b)
    PROVE  /\ \A o \in two_reals(b) : PairMade(b, o) /\ (o.err = "NONE" => o.v[1].type = "real" /\ o.v[2].type = "real")
           /\ \A type \in MatrixTypes : \A o \in two_matrices(b, type) : PairMade(b, o)
<1>1. ASSUME NEW o \in two_reals(b)
      PROVE  PairMade(b, o) /\ (o.err = "NONE" => o.v[1].type = "real" /\ o.v[2].type = "real")
  <2>1. PICK q \in new_real(b) :
            o \in IF q.err = "NONE" THEN After(new_real(q.calc), q.v) ELSE {q}
    BY <1>1 DEF two_reals, Then
  <2>2. Made(b, q) /\ (q.err = "NONE" => q.v.type = "real")
    BY NumbersMade DEF AllMade, OfTypes
  <2>3. CASE q.err # "NONE"  BY <2>1, <2>2, <2>3 DEF Made, PairMade
  <2>4. CASE q.err = "NONE"
    <3>1. Has(b, q.calc, q.v, None, None) /\ Seen(b, q.calc) /\ q.v # None
      BY <2>2, <2>4 DEF Made
    <3>2. Base(q.calc)  BY <3>1, HasIsBase
    <3>3. AllMade(q.calc, new_real(q.calc)) /\ OfTypes(new_real(q.calc), {"real"})
      BY <3>2, NumbersMade
    <3>4. o \in After(new_real(q.calc), q.v)  BY <2>1, <2>4
    <3>. QED  BY <2>2, <2>4, <3>1, <3>3, <3>4, MadeAfter DEF PairMade, OfTypes
  <2>. QED  BY <2>3, <2>4
<1>2. ASSUME NEW type \in MatrixTypes, NEW o \in two_matrices(b, type) PROVE PairMade(b, o)
  <2>1. PICK q \in new_matrix(b, type) :
            o \in IF q.err = "NONE" THEN After(new_matrix(q.calc, type), q.v) ELSE {q}
    BY <1>2 DEF two_matrices, Then
  <2>2. Made(b, q)  BY MatrixMade DEF AllMade
  <2>3. CASE q.err # "NONE"  BY <2>1, <2>2, <2>3 DEF Made, PairMade
  <2>4. CASE q.err = "NONE"
    <3>1. Has(b, q.calc, q.v, None, None) /\ Seen(b, q.calc) /\ q.v # None
      BY <2>2, <2>4 DEF Made
    <3>2. Base(q.calc)  BY <3>1, HasIsBase
    <3>3. AllMade(q.calc, new_matrix(q.calc, type))  BY <3>2, MatrixMade
    <3>4. o \in After(new_matrix(q.calc, type), q.v)  BY <2>1, <2>4
    <3>. QED  BY <3>1, <3>3, <3>4, MadeAfter DEF PairMade
  <2>. QED  BY <2>3, <2>4
<1>. QED  BY <1>1, <1>2

-----------------------------------------------------------------------------
\* Writing to an array.

\* The matrix in a slot has an array that nothing else has.
Owned(c, s) == s \in Slots /\ IsMatrix(c.slot[s]) /\ c.refs[c.slot[s].array] = 1

LEMMA Disentangled ==
    ASSUME NEW b, Base(b), NEW s \in Slots, IsMatrix(b.slot[s]), NEW o \in disentangle(b, s)
    PROVE  /\ Has(b, o.calc, None, None, None) /\ Seen(b, o.calc)
           /\ o.err = "NONE" => Owned(o.calc, s)
           /\ \A r \in Slots \ {s} : o.calc.slot[r] = b.slot[r]
           /\ o.calc.slot[s].type = b.slot[s].type
<1>. DEFINE a == b.slot[s].array
<1>1. a \in Arrays /\ b.refs[a] >= 1  BY SlotsRefer
<1>2. CASE b.refs[a] = 1
  <2>1. o.calc = b  BY <1>2, OutcomeIs DEF disentangle, Done, Ends
  <2>. QED  BY <1>2, <2>1, HasNothing DEF Owned
<1>3. CASE b.refs[a] # 1 /\ Free(b) = {}
  <2>1. o.calc = b /\ o.err # "NONE"  BY <1>3, OutcomeIs DEF disentangle, Ends
  <2>. QED  BY <2>1, HasNothing
<1>4. CASE b.refs[a] # 1 /\ Free(b) # {}
  <2>. DEFINE n == CHOOSE n \in Free(b) : TRUE
              d == [b EXCEPT !.refs[a] = @ - 1, !.refs[n] = 1, !.data[n] = b.data[a], !.slot[s].array = n]
              v == b.slot[s]
              w == [v EXCEPT !.array = n]
  <2>1. n \in Arrays /\ b.refs[n] = 0 /\ n # a  BY <1>1, <1>4 DEF Free
  <2>2. o.calc = d  BY <1>4, OutcomeIs DEF disentangle, Done, Ends
  <2>. HIDE DEF n
  <2>3. /\ Value(v) /\ v.type \in MatrixTypes
    BY DEF Base, Calc, Proper, IsMatrix
  <2>4. /\ DOMAIN d = Fields /\ DOMAIN d.slot = Slots /\ DOMAIN d.refs = Arrays /\ DOMAIN d.data = Arrays
        /\ d.live = b.live /\ d.lost = b.lost /\ d.pending = b.pending /\ d.shared = b.shared
    BY DEF Base, Calc, Form, Fields
  <2>5. /\ d.refs[n] = 1 /\ d.refs[a] = b.refs[a] - 1
        /\ \A e \in Arrays \ {a, n} : d.refs[e] = b.refs[e]
        /\ d.data[n] = b.data[a] /\ \A e \in Arrays \ {n} : d.data[e] = b.data[e]
    BY <1>1, <2>1 DEF Base, Calc, Form, Fields
  <2>6. d.slot[s] = w /\ \A r \in Slots \ {s} : d.slot[r] = b.slot[r]
    BY DEF Base, Calc, Form, Fields
  <2>7. v = b.slot[s] /\ a = v.array  OBVIOUS
  <2>. HIDE DEF d
  <2>8. Form(d)
    BY <1>1, <2>1, <2>4, <2>5 DEF Form, Base, Calc
  <2>9. DOMAIN v = {"type", "array"} /\ IsMatrix(v)
    BY <2>3 DEF Value, IsMatrix, None, ScalarTypes, MatrixTypes
  <2>. HIDE DEF v
  <2>10. w.type = v.type /\ w.array = n /\ DOMAIN w = {"type", "array"}
    BY <2>9
  <2>. HIDE DEF w
  <2>11. Value(w) /\ IsMatrix(w) /\ V(w) = 1 /\ V(v) = 1
    BY <2>1, <2>3, <2>9, <2>10, ValueFacts DEF Value, IsMatrix
  <2>12. \A e : M(w, e) = (IF e = n THEN 1 ELSE 0) /\ M(v, e) = (IF e = a THEN 1 ELSE 0)
    BY <2>7, <2>9, <2>10, <2>11 DEF M
  <2>13. /\ IsFiniteSet(HeldBy(d.slot)) /\ N(d.slot) = N(b.slot) - V(v) + V(w)
         /\ \A e : K(d.slot, e) = K(b.slot, e) - M(v, e) + M(w, e)
    BY <2>6, <2>7, OneSlot DEF Base, Calc
  <2>14. Proper(d.slot)
    BY <2>6, <2>7, <2>9, <2>11, SlotFacts, ValueFacts DEF Base, Calc, Proper
  <2>15. Calc(d)  BY <2>8, <2>13, <2>14 DEF Calc
  <2>16. Extra(d) = Extra(b)
    BY <2>4, <2>11, <2>13, Numbered DEF Base, Extra
  <2>17. ASSUME NEW e \in Arrays PROVE Spare(d, e) = Spare(b, e)
    <3>1. K(d.slot, e) = K(b.slot, e) - M(v, e) + M(w, e)  BY <2>13
    <3>2. d.refs[e] = b.refs[e] - M(v, e) + M(w, e)
      BY <1>1, <2>1, <2>5, <2>12 DEF Base, Calc, Form
    <3>3. b.refs[e] \in Int /\ K(b.slot, e) \in Int /\ M(v, e) \in Int /\ M(w, e) \in Int
      BY Numbered, ValueFacts DEF Base
    <3>. HIDE DEF a
    <3>. QED  BY <3>1, <3>2, <3>3 DEF Spare
  <2>18. Has(b, d, None, None, None)
    BY <2>4, <2>15, <2>16, <2>17, Numbered, ValueFacts DEF Base, Has
  <2>19. K(b.slot, n) = 0 /\ Spare(b, n) = 0
    BY <2>1, SlotsRefer, Numbered DEF Base, Spare
  <2>20. \A r \in Slots : IsMatrix(b.slot[r]) => b.slot[r].array \in Arrays \ {n}
    BY <2>1, <2>19, SlotsRefer
  <2>21. Seen(b, d)
    BY <2>5, <2>6, <2>7, <2>9, <2>10, <2>11, <2>19, <2>20 DEF Seen, Visible
  <2>22. Owned(d, s)  BY <2>5, <2>6, <2>10, <2>11 DEF Owned
  <2>. QED  BY <2>2, <2>6, <2>7, <2>10, <2>18, <2>21, <2>22
<1>. QED  BY <1>2, <1>3, <1>4

LEMMA Written ==
    ASSUME NEW b, Base(b), NEW s \in Slots, IsMatrix(b.slot[s]), NEW who, NEW contents,
           Owned(b, s) \/ who # "command", NEW o \in WritesBy(who, b, s, contents)
    PROVE  /\ Has(b, o.calc, None, None, None) /\ o.err = "NONE" /\ o.calc.slot = b.slot
           /\ o.calc.refs = b.refs
<1>. DEFINE a == b.slot[s].array
            noted == IF b.refs[a] > 1 THEN b.shared \cup {who} ELSE b.shared
<1>1. a \in Arrays /\ b.refs[a] \in Int  BY SlotsRefer DEF Base, Calc, Form
<1>2. PICK w \in contents : o \in Done([b EXCEPT !.data[a] = w, !.shared = noted])
  BY DEF WritesBy
<1>. DEFINE d == [b EXCEPT !.data[a] = w, !.shared = noted]
<1>3. "command" \notin noted
  BY <1>1 DEF Owned, Base, Calc, Form
<1>. HIDE DEF noted
<1>4. /\ Form(d) /\ d.slot = b.slot /\ d.refs = b.refs /\ d.live = b.live /\ d.lost = b.lost
      /\ d.pending = b.pending
  BY <1>1, <1>3 DEF Base, Calc, Form, Fields
<1>5. o.calc = d /\ o.err = "NONE"  BY <1>2, OutcomeIs DEF Done, Ends
<1>. HIDE DEF d
<1>6. Calc(d) /\ Extra(d) = Extra(b) /\ \A e \in Arrays : Spare(d, e) = Spare(b, e)
  BY <1>4 DEF Base, Calc, Extra, Spare
<1>7. Has(b, d, None, None, None)
  BY <1>4, <1>6, Numbered, ValueFacts DEF Base, Has, Calc, Form
<1>. QED  BY <1>4, <1>5, <1>7

-----------------------------------------------------------------------------
\* Results.

LEMMA OnStackIs ==
    ASSUME NEW c, Calc(c)
    PROVE  /\ DOMAIN c.slot = Slots
           /\ \A s \in Stack : Value(c.slot[s]) /\ c.slot[s] # None
           /\ OnStack(c.slot) \in Int
           /\ \A a : ArrayOnStack(c.slot, a) \in Int
BY SlotFacts, ValueFacts DEF Calc, Form, Proper, OnStack, ArrayOnStack

LEMMA Recalled ==
    ASSUME NEW b, NEW c, NEW v, v # None, Has(b, c, v, None, None)
    PROVE  Has(b, recall_result(c, v), None, None, None)
<1>1. CASE c.lift
  <2>1. Takes("x", v)  BY SlotFacts DEF Takes, Has, Stack
  <2>. QED  BY <1>1, <2>1, SlotTakes DEF recall_result
<1>2. CASE ~c.lift
  <2>. DEFINE d == free_vartype(c, c.slot["t"])
              e == recall_result(c, v)
  <2>1. Calc(c) /\ Value(c.slot["t"]) /\ Value(v)  BY SlotFacts DEF Has, Calc, Proper
  <2>2. /\ Form(d) /\ d.slot = c.slot /\ d.lost = c.lost /\ d.pending = c.pending
        /\ d.live = c.live - V(c.slot["t"])
        /\ \A a \in Arrays : d.refs[a] = c.refs[a] - M(c.slot["t"], a)
    <3>1. Freed(c, d, c.slot["t"])  BY <2>1, FreeingFrees DEF Calc
    <3>. QED  BY <2>1, <3>1 DEF Freed
  <2>3. e = [d EXCEPT !.slot = [@ EXCEPT !["t"] = c.slot["z"], !["z"] = c.slot["y"],
                                         !["y"] = c.slot["x"], !["x"] = v]]
    BY <1>2 DEF recall_result
  <2>. HIDE DEF d, e
  <2>4. /\ Form(e) /\ e.lost = c.lost /\ e.pending = c.pending /\ e.live = d.live /\ e.refs = d.refs
        /\ e.slot["x"] = v /\ e.slot["y"] = c.slot["x"] /\ e.slot["z"] = c.slot["y"]
        /\ e.slot["t"] = c.slot["z"] /\ e.slot["l"] = c.slot["l"]
        /\ \A s \in Slots \ Stack : e.slot[s] = c.slot[s]
    BY <2>2, <2>3, SlotFacts DEF Form, Fields, Stack
  <2>5. \A s \in Stack : Value(e.slot[s]) /\ e.slot[s] # None
    BY <2>1, <2>4, OnStackIs DEF Stack
  <2>6. e.live - c.live = OnStack(e.slot) - OnStack(c.slot) - V(v) - V(None)
    BY <2>1, <2>2, <2>4, Numbered, ValueFacts DEF OnStack
  <2>7. \A a \in Arrays : e.refs[a] - c.refs[a] =
            ArrayOnStack(e.slot, a) - ArrayOnStack(c.slot, a) - M(v, a) - M(None, a)
    BY <2>1, <2>2, <2>4, Numbered, ValueFacts DEF ArrayOnStack
  <2>. QED  BY <2>4, <2>5, <2>6, <2>7, StackMoves DEF e
<1>. QED  BY <1>1, <1>2

LEMMA RecalledTwo ==
    ASSUME NEW b, NEW c, NEW p, NEW q, p # None, q # None, Has(b, c, p, q, None)
    PROVE  Has(b, recall_two_results(c, p, q), None, None, None)
<1>. DEFINE g == IF c.lift THEN c.slot["x"] ELSE c.slot["z"]
            k == IF c.lift THEN c.slot["y"] ELSE c.slot["x"]
            m == IF c.lift THEN c.slot["z"] ELSE c.slot["y"]
            d == free_vartype(c, c.slot["t"])
            e == free_vartype(d, g)
            r == recall_two_results(c, p, q)
<1>1. Calc(c) /\ Value(c.slot["t"]) /\ Value(g) /\ Value(p) /\ Value(q)
  BY SlotFacts DEF Has, Calc, Proper
<1>2. /\ Form(d) /\ d.slot = c.slot /\ d.lost = c.lost /\ d.pending = c.pending
      /\ d.live = c.live - V(c.slot["t"])
      /\ \A a \in Arrays : d.refs[a] = c.refs[a] - M(c.slot["t"], a)
  <2>1. Freed(c, d, c.slot["t"])  BY <1>1, FreeingFrees DEF Calc
  <2>. QED  BY <1>1, <2>1 DEF Freed
<1>. HIDE DEF d, g
<1>3. /\ Form(e) /\ e.slot = d.slot /\ e.lost = d.lost /\ e.pending = d.pending
      /\ e.live = d.live - V(g)
      /\ \A a \in Arrays : e.refs[a] = d.refs[a] - M(g, a)
  <2>1. Freed(d, e, g)  BY <1>1, <1>2, FreeingFrees
  <2>. QED  BY <1>1, <1>2, <2>1 DEF Freed
<1>. HIDE DEF e
<1>4. \/ c.lift /\ r = [e EXCEPT !.slot = [@ EXCEPT !["t"] = c.slot["z"], !["z"] = c.slot["y"],
                                                    !["y"] = q, !["x"] = p]]
      \/ ~c.lift /\ r = [e EXCEPT !.slot = [@ EXCEPT !["t"] = c.slot["y"], !["z"] = c.slot["x"],
                                                     !["y"] = q, !["x"] = p]]
  BY DEF recall_two_results, e, d, g
<1>5. r = [e EXCEPT !.slot = [@ EXCEPT !["t"] = m, !["z"] = k, !["y"] = q, !["x"] = p]]
  BY <1>4
<1>. HIDE DEF r, m, k
<1>6. /\ Form(r) /\ r.lost = c.lost /\ r.pending = c.pending /\ r.live = e.live /\ r.refs = e.refs
      /\ r.slot["x"] = p /\ r.slot["y"] = q /\ r.slot["z"] = k
      /\ r.slot["t"] = m /\ r.slot["l"] = c.slot["l"]
      /\ \A s \in Slots \ Stack : r.slot[s] = c.slot[s]
  BY <1>2, <1>3, <1>5, SlotFacts DEF Form, Fields, Stack
<1>7. \A s \in Stack : Value(r.slot[s]) /\ r.slot[s] # None
  BY <1>1, <1>6, OnStackIs DEF Stack, m, k
<1>8. V(g) + V(k) + V(m) = V(c.slot["x"]) + V(c.slot["y"]) + V(c.slot["z"])
  BY ValueFacts DEF g, k, m
<1>9. \A a : M(g, a) + M(k, a) + M(m, a) = M(c.slot["x"], a) + M(c.slot["y"], a) + M(c.slot["z"], a)
  BY ValueFacts DEF g, k, m
<1>10. r.live - c.live = OnStack(r.slot) - OnStack(c.slot) - V(p) - V(q)
  BY <1>1, <1>2, <1>3, <1>6, <1>8, Numbered, ValueFacts DEF OnStack
<1>11. \A a \in Arrays : r.refs[a] - c.refs[a] =
           ArrayOnStack(r.slot, a) - ArrayOnStack(c.slot, a) - M(p, a) - M(q, a)
  BY <1>1, <1>2, <1>3, <1>6, <1>9, Numbered, ValueFacts DEF ArrayOnStack
<1>. QED  BY <1>6, <1>7, <1>10, <1>11, StackMoves DEF r

LEMMA UnaryResult ==
    ASSUME NEW b, NEW c, NEW v, NEW w, v # None, Has(b, c, v, w, None)
    PROVE  Has(b, unary_result(c, v), w, None, None)
<1>. DEFINE d == free_vartype(c, c.slot["l"])
            e == unary_result(c, v)
<1>1. Calc(c) /\ Value(c.slot["l"]) /\ Value(v)  BY SlotFacts DEF Has, Calc, Proper
<1>2. /\ Form(d) /\ d.slot = c.slot /\ d.lost = c.lost /\ d.pending = c.pending
      /\ d.live = c.live - V(c.slot["l"])
      /\ \A a \in Arrays : d.refs[a] = c.refs[a] - M(c.slot["l"], a)
  <2>1. Freed(c, d, c.slot["l"])  BY <1>1, FreeingFrees DEF Calc
  <2>. QED  BY <1>1, <2>1 DEF Freed
<1>3. e = [d EXCEPT !.slot = [@ EXCEPT !["l"] = c.slot["x"], !["x"] = v]]
  BY DEF unary_result
<1>. HIDE DEF d, e
<1>4. /\ Form(e) /\ e.lost = c.lost /\ e.pending = c.pending /\ e.live = d.live /\ e.refs = d.refs
      /\ e.slot["x"] = v /\ e.slot["y"] = c.slot["y"] /\ e.slot["z"] = c.slot["z"]
      /\ e.slot["t"] = c.slot["t"] /\ e.slot["l"] = c.slot["x"]
      /\ \A s \in Slots \ Stack : e.slot[s] = c.slot[s]
  BY <1>2, <1>3, SlotFacts DEF Form, Fields, Stack
<1>5. \A s \in Stack : Value(e.slot[s]) /\ e.slot[s] # None
  BY <1>1, <1>4, OnStackIs DEF Stack
<1>6. e.live - c.live = OnStack(e.slot) - OnStack(c.slot) - V(v) - V(None)
  BY <1>1, <1>2, <1>4, Numbered, ValueFacts DEF OnStack
<1>7. \A a \in Arrays : e.refs[a] - c.refs[a] =
          ArrayOnStack(e.slot, a) - ArrayOnStack(c.slot, a) - M(v, a) - M(None, a)
  BY <1>1, <1>2, <1>4, Numbered, ValueFacts DEF ArrayOnStack
<1>8. Has(b, c, v, None, w)
  <2>1. Extra(b) \in Int /\ \A a \in Arrays : Spare(b, a) \in Int  BY Numbered DEF Has, Base
  <2>. QED  BY <2>1, ValueFacts DEF Has
<1>9. Has(b, e, None, None, w)  BY <1>4, <1>5, <1>6, <1>7, <1>8, StackMoves
<1>. QED  BY <1>9, Swapped DEF e

LEMMA BinaryResult ==
    ASSUME NEW b, NEW c, NEW v, v # None, Has(b, c, v, None, None)
    PROVE  Has(b, binary_result(c, v), None, None, None)
<1>. DEFINE d == free_vartype(c, c.slot["l"])
            f == free_vartype(d, c.slot["y"])
            g == Copy(f, c.slot["t"])
            e == binary_result(c, v)
<1>1. /\ Calc(c) /\ Value(c.slot["l"]) /\ Value(c.slot["y"]) /\ Value(v)
      /\ Value(c.slot["t"]) /\ c.slot["t"] # None
  BY SlotFacts DEF Has, Calc, Proper, Stack
<1>2. /\ Form(d) /\ d.slot = c.slot /\ d.lost = c.lost /\ d.pending = c.pending
      /\ d.live = c.live - V(c.slot["l"])
      /\ \A a \in Arrays : d.refs[a] = c.refs[a] - M(c.slot["l"], a)
  <2>1. Freed(c, d, c.slot["l"])  BY <1>1, FreeingFrees DEF Calc
  <2>. QED  BY <1>1, <2>1 DEF Freed
<1>. HIDE DEF d
<1>3. /\ Form(f) /\ f.slot = c.slot /\ f.lost = c.lost /\ f.pending = c.pending
      /\ f.live = d.live - V(c.slot["y"])
      /\ \A a \in Arrays : f.refs[a] = d.refs[a] - M(c.slot["y"], a)
  <2>1. Freed(d, f, c.slot["y"])  BY <1>1, <1>2, FreeingFrees
  <2>. QED  BY <1>1, <1>2, <2>1 DEF Freed
<1>. HIDE DEF f
<1>4. /\ Form(g) /\ g.slot = c.slot /\ g.lost = c.lost /\ g.pending = c.pending
      /\ g.live = f.live + V(c.slot["t"])
      /\ \A a \in Arrays : g.refs[a] = f.refs[a] + M(c.slot["t"], a)
  BY <1>1, <1>3, CopyIs, ValueFacts
<1>5. e = [g EXCEPT !.slot = [@ EXCEPT !["l"] = c.slot["x"], !["x"] = v,
                                       !["y"] = c.slot["z"], !["z"] = c.slot["t"]]]
  BY DEF binary_result, f, d
<1>. HIDE DEF e, g
<1>6. /\ Form(e) /\ e.lost = c.lost /\ e.pending = c.pending /\ e.live = g.live /\ e.refs = g.refs
      /\ e.slot["x"] = v /\ e.slot["y"] = c.slot["z"] /\ e.slot["z"] = c.slot["t"]
      /\ e.slot["t"] = c.slot["t"] /\ e.slot["l"] = c.slot["x"]
      /\ \A s \in Slots \ Stack : e.slot[s] = c.slot[s]
  BY <1>4, <1>5, SlotFacts DEF Form, Fields, Stack
<1>7. \A s \in Stack : Value(e.slot[s]) /\ e.slot[s] # None
  BY <1>1, <1>6, OnStackIs DEF Stack
<1>8. e.live - c.live = OnStack(e.slot) - OnStack(c.slot) - V(v) - V(None)
  BY <1>1, <1>2, <1>3, <1>4, <1>6, Numbered, ValueFacts DEF OnStack
<1>9. \A a \in Arrays : e.refs[a] - c.refs[a] =
          ArrayOnStack(e.slot, a) - ArrayOnStack(c.slot, a) - M(v, a) - M(None, a)
  BY <1>1, <1>2, <1>3, <1>4, <1>6, Numbered, ValueFacts DEF ArrayOnStack
<1>. QED  BY <1>6, <1>7, <1>8, <1>9, StackMoves DEF e

LEMMA SplitResult ==
    ASSUME NEW b, NEW c, NEW v, v[1] # None, v[2] # None, Has(b, c, v[1], v[2], None)
    PROVE  Has(b, split_result(c, v), None, None, None)
<1>. DEFINE d == free_vartype(c, c.slot["l"])
            f == free_vartype(d, c.slot["t"])
            p == v[1]
            q == v[2]
            e == split_result(c, v)
<1>1. /\ Calc(c) /\ Value(c.slot["l"]) /\ Value(c.slot["t"]) /\ Value(p) /\ Value(q)
  BY SlotFacts DEF Has, Calc, Proper, Stack
<1>2. /\ Form(d) /\ d.slot = c.slot /\ d.lost = c.lost /\ d.pending = c.pending
      /\ d.live = c.live - V(c.slot["l"])
      /\ \A a \in Arrays : d.refs[a] = c.refs[a] - M(c.slot["l"], a)
  <2>1. Freed(c, d, c.slot["l"])  BY <1>1, FreeingFrees DEF Calc
  <2>. QED  BY <1>1, <2>1 DEF Freed
<1>. HIDE DEF d
<1>3. /\ Form(f) /\ f.slot = c.slot /\ f.lost = c.lost /\ f.pending = c.pending
      /\ f.live = d.live - V(c.slot["t"])
      /\ \A a \in Arrays : f.refs[a] = d.refs[a] - M(c.slot["t"], a)
  <2>1. Freed(d, f, c.slot["t"])  BY <1>1, <1>2, FreeingFrees
  <2>. QED  BY <1>1, <1>2, <2>1 DEF Freed
<1>4. e = [f EXCEPT !.slot = [@ EXCEPT !["l"] = c.slot["x"], !["t"] = c.slot["z"],
                                       !["z"] = c.slot["y"], !["y"] = p, !["x"] = q]]
  BY DEF split_result, d
<1>. HIDE DEF e, f
<1>5. p # None /\ q # None /\ Has(b, c, p, q, None)  OBVIOUS
<1>. HIDE DEF p, q
<1>6. /\ Form(e) /\ e.lost = c.lost /\ e.pending = c.pending /\ e.live = f.live /\ e.refs = f.refs
      /\ e.slot["x"] = q /\ e.slot["y"] = p /\ e.slot["z"] = c.slot["y"]
      /\ e.slot["t"] = c.slot["z"] /\ e.slot["l"] = c.slot["x"]
      /\ \A s \in Slots \ Stack : e.slot[s] = c.slot[s]
  BY <1>3, <1>4, SlotFacts DEF Form, Fields, Stack
<1>7. \A s \in Stack : Value(e.slot[s]) /\ e.slot[s] # None
  BY <1>1, <1>5, <1>6, OnStackIs DEF Stack
<1>8. e.live - c.live = OnStack(e.slot) - OnStack(c.slot) - V(p) - V(q)
  BY <1>1, <1>2, <1>3, <1>6, Numbered, ValueFacts DEF OnStack
<1>9. \A a \in Arrays : e.refs[a] - c.refs[a] =
          ArrayOnStack(e.slot, a) - ArrayOnStack(c.slot, a) - M(p, a) - M(q, a)
  BY <1>1, <1>2, <1>3, <1>6, Numbered, ValueFacts DEF ArrayOnStack
<1>. QED  BY <1>5, <1>6, <1>7, <1>8, <1>9, StackMoves DEF e

LEMMA TwoReplaced ==
    ASSUME NEW b, NEW c, NEW v, v[1] # None, v[2] # None, Has(b, c, v[1], v[2], None)
    PROVE  Has(b, replace_two(c, v), None, None, None)
<1>1. Takes("y", v[1])  BY SlotFacts DEF Takes, Has, Stack
<1>2. Has(b, WithSlot(c, "y", v[1]), None, v[2], None)  BY <1>1, SlotTakes
<1>3. Has(b, WithSlot(c, "y", v[1]), v[2], None, None)  BY <1>2, Swapped
<1>. QED  BY <1>3, UnaryResult DEF replace_two

\* The same for outcomes.
LEMMA ResultsSettled ==
    ASSUME NEW b, NEW outs, AllMade(b, outs)
    PROVE  AllSettled(b, Recalls(outs)) /\ AllSettled(b, Unary(outs)) /\ AllSettled(b, Binary(outs))
<1>1. ASSUME NEW o \in Recalls(outs) PROVE Settled(b, o)
  <2>1. PICK q \in outs : o \in IF q.err = "NONE" THEN Done(recall_result(q.calc, q.v)) ELSE {q}
    BY <1>1 DEF Recalls, Then
  <2>2. Made(b, q)  BY DEF AllMade
  <2>3. CASE q.err # "NONE"  BY <2>1, <2>2, <2>3 DEF Made, Settled
  <2>4. CASE q.err = "NONE"
    <3>1. o.calc = recall_result(q.calc, q.v) /\ o.err = "NONE"
      BY <2>1, <2>4, OutcomeIs DEF Done, Ends
    <3>. QED  BY <2>2, <2>4, <3>1, Recalled DEF Made, Settled, Fine
  <2>. QED  BY <2>3, <2>4
<1>2. ASSUME NEW o \in Unary(outs) PROVE Settled(b, o)
  <2>1. PICK q \in outs : o \in IF q.err = "NONE" THEN Done(unary_result(q.calc, q.v)) ELSE {q}
    BY <1>2 DEF Unary, Then
  <2>2. Made(b, q)  BY DEF AllMade
  <2>3. CASE q.err # "NONE"  BY <2>1, <2>2, <2>3 DEF Made, Settled
  <2>4. CASE q.err = "NONE"
    <3>1. o.calc = unary_result(q.calc, q.v) /\ o.err = "NONE"
      BY <2>1, <2>4, OutcomeIs DEF Done, Ends
    <3>. QED  BY <2>2, <2>4, <3>1, UnaryResult DEF Made, Settled, Fine
  <2>. QED  BY <2>3, <2>4
<1>3. ASSUME NEW o \in Binary(outs) PROVE Settled(b, o)
  <2>1. PICK q \in outs : o \in IF q.err = "NONE" THEN Done(binary_result(q.calc, q.v)) ELSE {q}
    BY <1>3 DEF Binary, Then
  <2>2. Made(b, q)  BY DEF AllMade
  <2>3. CASE q.err # "NONE"  BY <2>1, <2>2, <2>3 DEF Made, Settled
  <2>4. CASE q.err = "NONE"
    <3>1. o.calc = binary_result(q.calc, q.v) /\ o.err = "NONE"
      BY <2>1, <2>4, OutcomeIs DEF Done, Ends
    <3>. QED  BY <2>2, <2>4, <3>1, BinaryResult DEF Made, Settled, Fine
  <2>. QED  BY <2>3, <2>4
<1>. QED  BY <1>1, <1>2, <1>3 DEF AllSettled

\* Two results, with what is in between.
LEMMA SplitSettled ==
    ASSUME NEW b, NEW q, PairMade(b, q),
           NEW o \in IF q.err = "NONE" THEN Done(split_result(q.calc, q.v)) ELSE {q}
    PROVE  Settled(b, o)
<1>1. CASE q.err # "NONE"  BY <1>1 DEF PairMade, Settled
<1>2. CASE q.err = "NONE"
  <2>1. o.calc = split_result(q.calc, q.v) /\ o.err = "NONE"  BY <1>2, OutcomeIs DEF Done, Ends
  <2>. QED  BY <1>2, <2>1, SplitResult DEF PairMade, Settled, Fine
<1>. QED  BY <1>1, <1>2

LEMMA ReplaceSettled ==
    ASSUME NEW b, NEW q, PairMade(b, q),
           NEW o \in IF q.err = "NONE" THEN Done(replace_two(q.calc, q.v)) ELSE {q}
    PROVE  Settled(b, o)
<1>1. CASE q.err # "NONE"  BY <1>1 DEF PairMade, Settled
<1>2. CASE q.err = "NONE"
  <2>1. o.calc = replace_two(q.calc, q.v) /\ o.err = "NONE"  BY <1>2, OutcomeIs DEF Done, Ends
  <2>. QED  BY <1>2, <2>1, TwoReplaced DEF PairMade, Settled, Fine
<1>. QED  BY <1>1, <1>2

-----------------------------------------------------------------------------
\* Functions of values.

LEMMA TypesOfValues ==
    ASSUME NEW v, Value(v), v # None
    PROVE  /\ v.type \in ScalarTypes \cup MatrixTypes
           /\ IsMatrix(v) <=> v.type \in {"realmatrix", "complexmatrix"}
           /\ IsString(v) <=> v.type = "string"
           /\ v.type \in {"real", "complex", "string", "realmatrix", "complexmatrix"}
BY DEF Value, IsMatrix, IsString, ScalarTypes, MatrixTypes

LEMMA StackTypes ==
    ASSUME NEW c, Calc(c), NEW s \in Stack
    PROVE  Value(c.slot[s]) /\ c.slot[s] # None
BY SlotFacts DEF Calc, Proper

LEMMA MapsMatrixMade ==
    ASSUME NEW b, Base(b), NEW type \in MatrixTypes, NEW errors, "NONE" \notin errors
    PROVE  AllMade(b, MapsMatrix(b, type, errors)) /\ OfTypes(MapsMatrix(b, type, errors), MatrixTypes)
<1>1. OfTypes(new_matrix(b, type), MatrixTypes)  BY MatrixMade DEF OfTypes
<1>. QED  BY <1>1, MatrixMade, EndsSettled, Together, TogetherTyped DEF MapsMatrix

LEMMA map_unaryMade ==
    ASSUME NEW b, Base(b), NEW v, Value(v), v # None, NEW errors, "NONE" \notin errors
    PROVE  AllMade(b, map_unary(b, v, errors))
<1>1. CASE v.type \in {"real", "complex"}
  <2>1. map_unary(b, v, errors) = new_scalar(b, v.type) \cup Fails(b, errors)
    BY <1>1 DEF map_unary
  <2>. QED  BY <1>1, <2>1, ScalarMade, EndsSettled, Together DEF ScalarTypes
<1>2. CASE v.type \in {"realmatrix", "complexmatrix"}
  <2>1. \/ map_unary(b, v, errors) = MapsMatrix(b, v.type, errors)
        \/ map_unary(b, v, errors) = Fails(b, {"ALPHA_DATA_IS_INVALID"})
    BY <1>2 DEF map_unary
  <2>. QED  BY <1>2, <2>1, MapsMatrixMade, EndsSettled DEF MatrixTypes
<1>3. CASE v.type = "string"
  <2>1. map_unary(b, v, errors) = Ends(b, "INTERNAL_ERROR")  BY <1>3 DEF map_unary
  <2>. QED  BY <2>1, EndsSettled
<1>. QED  BY <1>1, <1>2, <1>3, TypesOfValues

LEMMA BinaryTypes ==
    ASSUME NEW v, NEW w, Value(v), v # None, Value(w), w # None
    PROVE  /\ IsMatrix(v) \/ IsMatrix(w) => BinaryType(v, w) \in MatrixTypes
           /\ ~IsMatrix(v) /\ ~IsMatrix(w) => BinaryType(v, w) \in ScalarTypes
BY DEF BinaryType, MatrixTypes, ScalarTypes

LEMMA ElementWiseMade ==
    ASSUME NEW b, Base(b), NEW v, Value(v), v # None, NEW w, Value(w), w # None,
           NEW errors, "NONE" \notin errors, IsMatrix(v) \/ IsMatrix(w)
    PROVE  AllMade(b, ElementWise(b, v, w, errors)) /\ OfTypes(ElementWise(b, v, w, errors), MatrixTypes)
<1>1. BinaryType(v, w) \in MatrixTypes  BY BinaryTypes
<1>. QED  BY <1>1, MapsMatrixMade, EndsSettled DEF ElementWise

LEMMA map_binaryMade ==
    ASSUME NEW b, Base(b), NEW v, Value(v), v # None, NEW w, Value(w), w # None,
           NEW errors, "NONE" \notin errors
    PROVE  /\ AllMade(b, map_binary(b, v, w, errors))
           /\ IsMatrix(v) \/ IsMatrix(w) => OfTypes(map_binary(b, v, w, errors), MatrixTypes)
<1>1. CASE IsString(v) \/ IsString(w)
  <2>1. map_binary(b, v, w, errors) = Ends(b, "INTERNAL_ERROR")
    BY <1>1 DEF map_binary, IsString
  <2>. QED  BY <2>1, EndsSettled
<1>2. CASE v.type \in {"real", "complex"} /\ ~IsString(w)
  <2>1. map_binary(b, v, w, errors) = ScalarWith(b, v, w, errors)
    BY <1>2 DEF map_binary, IsString
  <2>2. ~IsMatrix(v)  BY <1>2 DEF IsMatrix, MatrixTypes
  <2>3. CASE IsMatrix(w)  BY <2>1, <2>3, ElementWiseMade DEF ScalarWith
  <2>4. CASE ~IsMatrix(w)
    <3>1. BinaryType(v, w) \in ScalarTypes  BY <2>2, <2>4, BinaryTypes
    <3>2. ScalarWith(b, v, w, errors) = new_scalar(b, BinaryType(v, w)) \cup Fails(b, errors)
      BY <2>4 DEF ScalarWith
    <3>3. AllMade(b, new_scalar(b, BinaryType(v, w))) /\ AllMade(b, Fails(b, errors))
      BY <3>1, ScalarMade, EndsSettled
    <3>. QED  BY <2>1, <2>2, <2>4, <3>2, <3>3 DEF AllMade
  <2>. QED  BY <2>3, <2>4
<1>3. CASE v.type \in {"realmatrix", "complexmatrix"} /\ ~IsString(w)
  <2>1. \/ map_binary(b, v, w, errors) = ElementWise(b, v, w, errors) \cup Ends(b, "DIMENSION_ERROR")
        \/ map_binary(b, v, w, errors) = ElementWise(b, v, w, errors) \cup {}
    BY <1>3 DEF map_binary, IsString, RealMatrixWith, ComplexMatrixWith
  <2>2. IsMatrix(v)  BY <1>3 DEF IsMatrix, MatrixTypes
  <2>3. /\ AllMade(b, ElementWise(b, v, w, errors)) /\ AllMade(b, Ends(b, "DIMENSION_ERROR"))
        /\ OfTypes(ElementWise(b, v, w, errors), MatrixTypes)
        /\ OfTypes(Ends(b, "DIMENSION_ERROR"), MatrixTypes)
    BY <2>2, ElementWiseMade, EndsSettled
  <2>. QED  BY <2>1, <2>3 DEF AllMade, OfTypes
<1>. QED  BY <1>1, <1>2, <1>3, TypesOfValues DEF IsString

LEMMA genericMade ==
    ASSUME NEW b, Base(b), NEW v, Value(v), v # None, NEW w, Value(w), w # None
    PROVE  /\ AllMade(b, generic_sub(b, v, w)) /\ AllMade(b, generic_add(b, v, w))
           /\ IsMatrix(v) \/ IsMatrix(w) => /\ OfTypes(generic_sub(b, v, w), MatrixTypes)
                                            /\ OfTypes(generic_add(b, v, w), MatrixTypes)
BY map_binaryMade, EndsSettled DEF generic_sub, generic_add, SubErrors, AddErrors

-----------------------------------------------------------------------------
\* The end of an operation, and what waits for it.

TempOf(how) == IF how.kind = "rcl" THEN how.temp ELSE None

\* A result can be put where how says.
HowFits(how) ==
    /\ how.kind \in {"binary", "unary", "rcl", "sto"}
    /\ how.kind = "rcl" => Value(how.temp) /\ how.temp # None
    /\ how.kind = "sto" => how.slot \in Slots

\* A result of one of these types can.
Fits(how, types) ==
    /\ HowFits(how)
    /\ how.kind = "sto" /\ how.slot = "REGS" => misplaced \/ types \subseteq MatrixTypes

PendingFits(p) ==
    \/ p.op = "print" /\ p.how.kind = "print"
    \/ /\ p.op \in {"mul", "div", "det", "inv"}
       /\ p.type \in ScalarTypes \cup MatrixTypes
       /\ HowFits(p.how)
       /\ p.how.kind = "sto" => p.type \in MatrixTypes

\* An operation in slices has begun.
Going(b, o) ==
    /\ o.err = "INTERRUPTIBLE"
    /\ \E d, p : /\ p # None /\ PendingFits(p)
                 /\ Has(b, d, TempOf(p.how), None, None)
                 /\ o.calc = [d EXCEPT !.pending = p]

Right(b, o) == Settled(b, o) \/ Going(b, o)
AllRight(b, outs) == \A o \in outs : Right(b, o)

LEMMA SettledIsRight ==
    ASSUME NEW b, NEW S
    PROVE  /\ AllSettled(b, S) => AllRight(b, S)
           /\ \A T : AllRight(b, S) /\ AllRight(b, T) => AllRight(b, S \cup T)
           /\ (\A T \in S : AllRight(b, T)) => AllRight(b, UNION S)
BY DEF AllSettled, AllRight, Right

LEMMA CompletesOne ==
    ASSUME NEW b, NEW c, NEW how, NEW types, Fits(how, types),
           Has(b, c, TempOf(how), None, None), Seen(b, c),
           NEW q, Made(c, q), q.err = "NONE" => q.v.type \in types,
           NEW o \in completion(q.calc, how, q.err, q.v)
    PROVE  Settled(b, o)
<1>. DEFINE r == TempOf(how)
            d == IF how.kind = "rcl" THEN free_vartype(q.calc, how.temp) ELSE q.calc
<1>1. Seen(b, q.calc)  BY SeenThrough DEF Made
<1>2. CASE q.err # "NONE"
  <2>1. Has(b, q.calc, r, None, None)  BY <1>2, HasMore DEF Made
  <2>2. Has(b, d, None, None, None) /\ Seen(b, d)
    BY <1>1, <2>1, HandFreed DEF TempOf
  <2>3. o.calc = d /\ o.err = q.err  BY <1>2, OutcomeIs DEF completion, Ends
  <2>. QED  BY <2>2, <2>3 DEF Settled
<1>3. CASE q.err = "NONE"
  <2>. DEFINE v == q.v
  <2>1. Has(b, q.calc, r, v, None) /\ v # None /\ v.type \in types /\ Value(v)
    BY <1>3, HasMore DEF Made, Has
  <2>2. Has(b, d, None, v, None)
    BY <2>1, HandFreed DEF TempOf
  <2>3. Has(b, d, v, None, None)  BY <2>2, Swapped
  <2>4. /\ o.err = "NONE"
        /\ \/ how.kind = "binary" /\ o.calc = binary_result(d, v)
           \/ how.kind \in {"unary", "rcl"} /\ o.calc = unary_result(d, v)
           \/ how.kind = "sto" /\ o.calc = WithSlot(d, how.slot, v)
    <3>1. o = Outcome(CASE how.kind = "binary" -> binary_result(d, v)
                        [] how.kind \in {"unary", "rcl"} -> unary_result(d, v)
                        [] how.kind = "sto" -> WithSlot(d, how.slot, v), "NONE", None)
      BY <1>3 DEF completion, Done, Ends
    <3>. HIDE DEF d, v
    <3>2. how.kind \in {"binary", "unary", "rcl", "sto"}  BY DEF Fits, HowFits
    <3>. QED  BY <3>1, <3>2, OutcomeIs
  <2>. HIDE DEF d, v
  <2>5. how.kind = "sto" => Takes(how.slot, v)
    BY <2>1 DEF Fits, HowFits, Takes, IsMatrix
  <2>6. Has(b, o.calc, None, None, None)
    <3>1. CASE how.kind = "binary"  BY <2>1, <2>3, <2>4, <3>1, BinaryResult
    <3>2. CASE how.kind \in {"unary", "rcl"}
      <4>1. o.calc = unary_result(d, v)  BY <2>4, <3>2
      <4>. QED  BY <2>1, <2>3, <4>1, UnaryResult
    <3>3. CASE how.kind = "sto"
      <4>1. o.calc = WithSlot(d, how.slot, v)  BY <2>4, <3>3
      <4>2. Has(b, WithSlot(d, how.slot, v), None, None, None)  BY <2>3, <2>5, <3>3, SlotTakes
      <4>. QED  BY <4>1, <4>2
    <3>. QED  BY <2>4, <3>1, <3>2, <3>3
  <2>. QED  BY <2>4, <2>6 DEF Settled, Fine
<1>. QED  BY <1>2, <1>3

LEMMA CompletesAll ==
    ASSUME NEW b, NEW c, NEW how, NEW types, Fits(how, types),
           Has(b, c, TempOf(how), None, None), Seen(b, c),
           NEW outs, AllMade(c, outs), OfTypes(outs, types)
    PROVE  AllSettled(b, Completes(outs, how))
<1>1. ASSUME NEW o \in Completes(outs, how) PROVE Settled(b, o)
  <2>1. PICK q \in outs : o \in completion(q.calc, how, q.err, q.v)  BY <1>1 DEF Completes
  <2>. QED  BY <2>1, CompletesOne DEF AllMade, OfTypes
<1>. QED  BY <1>1 DEF AllSettled

LEMMA StartsGo ==
    ASSUME NEW b, NEW c, NEW op, NEW type, NEW how, Has(b, c, TempOf(how), None, None),
           \/ op = "print" /\ how.kind = "print"
           \/ /\ op \in {"mul", "div", "det", "inv"} /\ type \in ScalarTypes \cup MatrixTypes
              /\ Fits(how, {type}) /\ (how.kind = "sto" => type \in MatrixTypes)
    PROVE  AllRight(b, Starts(c, op, type, how))
<1>. DEFINE p == [type |-> type, op |-> op, how |-> how]
<1>1. ASSUME NEW o \in Starts(c, op, type, how) PROVE Going(b, o)
  <2>1. o.calc = [c EXCEPT !.pending = p] /\ o.err = "INTERRUPTIBLE"
    BY OutcomeIs DEF Starts
  <2>2. p # None
    <3>1. "op" \in DOMAIN p /\ "op" \notin DOMAIN None  BY DEF None
    <3>. QED  BY <3>1
  <2>3. PendingFits(p) /\ p.how = how  BY DEF PendingFits, Fits
  <2>. HIDE DEF p
  <2>. QED  BY <2>1, <2>2, <2>3 DEF Going
<1>. QED  BY <1>1 DEF AllRight, Right

-----------------------------------------------------------------------------
\* Arguments.

LEMMA DirectFacts ==
    ASSUME NEW arg \in DirectArgs
    PROVE  /\ ~IsIndirect(arg)
           /\ \/ arg[1] = "num"
              \/ arg[1] = "stk" /\ arg[2] \in Stack
              \/ arg[1] = "str" /\ arg[2] \in Variables
BY DEF DirectArgs, IsIndirect

LEMMA ArgFacts ==
    ASSUME NEW arg \in Args
    PROVE  IsIndirect(arg) \/ arg \in DirectArgs
<1>1. ASSUME NEW d \in DirectArgs PROVE IsIndirect(<<"ind">> \o d)
  BY DEF DirectArgs, IsIndirect
<1>. QED  BY <1>1 DEF Args

LEMMA Resolves ==
    ASSUME NEW c, NEW arg
    PROVE  /\ resolve_ind_arg(c, arg).args \subseteq DirectArgs
           /\ resolve_ind_arg(c, arg).errors \subseteq {"SIZE_ERROR", "INVALID_TYPE", "NONEXISTENT"}
<1>1. \A t : Resolved(t) \subseteq DirectArgs  BY DEF Resolved, DirectArgs
<1>. QED  BY <1>1 DEF resolve_ind_arg

-----------------------------------------------------------------------------
\* RCL.

LEMMA RclDirectMade ==
    ASSUME NEW b, Base(b), NEW arg \in DirectArgs
    PROVE  AllMade(b, RclDirect(b, arg))
<1>1. CASE arg[1] = "num"
  <2>1. ASSUME IsMatrix(b.slot["REGS"]) PROVE AllMade(b, Element(b, b.slot["REGS"]))
    BY NumbersMade DEF Element, AllMade
  <2>. DEFINE regs == b.slot["REGS"]
  <2>2. \/ RclDirect(b, arg) = Ends(b, "SIZE_ERROR")
        \/ RclDirect(b, arg) = Ends(b, "INTERNAL_ERROR")
        \/ IsMatrix(regs) /\ RclDirect(b, arg) = Ends(b, "SIZE_ERROR") \cup Element(b, regs)
    BY <1>1 DEF RclDirect, recall_var
  <2>3. AllMade(b, Ends(b, "SIZE_ERROR")) /\ AllMade(b, Ends(b, "INTERNAL_ERROR"))
    BY EndsSettled
  <2>. QED  BY <2>1, <2>2, <2>3 DEF AllMade
<1>2. CASE arg[1] = "stk" /\ arg[2] \in Stack
  <2>1. RclDirect(b, arg) = dup_vartype(b, b.slot[arg[2]])  BY <1>2 DEF RclDirect
  <2>2. Value(b.slot[arg[2]]) /\ b.slot[arg[2]] # None  BY <1>2, StackTypes DEF Base
  <2>. QED  BY <2>1, <2>2, DupMade
<1>3. CASE arg[1] = "str" /\ arg[2] \in Variables
  <2>1. \/ RclDirect(b, arg) = Ends(b, "NONEXISTENT")
        \/ RclDirect(b, arg) = dup_vartype(b, b.slot[arg[2]]) /\ b.slot[arg[2]] # None
    BY <1>3 DEF RclDirect
  <2>2. Value(b.slot[arg[2]])  BY <1>3, SlotFacts DEF Base, Calc, Proper
  <2>. QED  BY <2>1, <2>2, DupMade, EndsSettled
<1>. QED  BY <1>1, <1>2, <1>3, DirectFacts

\* F for an argument, of whose outcomes something is known for direct arguments and errors.
LEMMA generic_rclMade ==
    ASSUME NEW b, Base(b), NEW arg \in Args
    PROVE  AllMade(b, generic_rcl(b, arg))
<1>1. CASE ~IsIndirect(arg)
  <2>1. generic_rcl(b, arg) = RclDirect(b, arg)  BY <1>1 DEF generic_rcl, WithArg
  <2>. QED  BY <1>1, <2>1, ArgFacts, RclDirectMade
<1>2. CASE IsIndirect(arg)
  <2>. DEFINE r == resolve_ind_arg(b, arg)
  <2>1. generic_rcl(b, arg) = Fails(b, r.errors) \cup UNION {RclDirect(b, a) : a \in r.args}
    BY <1>2 DEF generic_rcl, WithArg
  <2>2. r.args \subseteq DirectArgs /\ "NONE" \notin r.errors  BY Resolves
  <2>. HIDE DEF r
  <2>3. AllMade(b, Fails(b, r.errors))  BY <2>2, EndsSettled
  <2>4. \A a \in r.args : AllMade(b, RclDirect(b, a))  BY <2>2, RclDirectMade
  <2>. QED  BY <2>1, <2>3, <2>4 DEF AllMade
<1>. QED  BY <1>1, <1>2

LEMMA docmd_rclSettled ==
    ASSUME NEW b, Base(b), NEW arg \in Args
    PROVE  AllSettled(b, docmd_rcl(b, arg))
BY generic_rclMade, ResultsSettled DEF docmd_rcl

-----------------------------------------------------------------------------
\* Division and multiplication, at once or in slices.

\* What is in a value's place when it and another are operands.
OperandTypes(v, w) == IF IsMatrix(v) \/ IsMatrix(w) THEN MatrixTypes ELSE ScalarTypes \cup MatrixTypes

LEMMA MadeTyped ==
    ASSUME NEW b, NEW outs, AllMade(b, outs)
    PROVE  OfTypes(outs, ScalarTypes \cup MatrixTypes)
<1>1. ASSUME NEW o \in outs, o.err = "NONE" PROVE o.v.type \in ScalarTypes \cup MatrixTypes
  <2>1. o.v # None /\ Value(o.v)  BY <1>1 DEF AllMade, Made, Has
  <2>. QED  BY <2>1, TypesOfValues
<1>. QED  BY <1>1 DEF OfTypes

LEMMA FewerTypes ==
    ASSUME NEW how, NEW types, Fits(how, types), NEW fewer, fewer \subseteq types
    PROVE  Fits(how, fewer)
BY DEF Fits

LEMMA ArithmeticCompletes ==
    ASSUME NEW b, NEW c, NEW how, NEW v, NEW w, Fits(how, OperandTypes(v, w)),
           Has(b, c, TempOf(how), None, None), Seen(b, c),
           Value(v), v # None, Value(w), w # None, NEW errors, "NONE" \notin errors
    PROVE  /\ AllSettled(b, Completes(map_binary(c, v, w, errors), how))
           /\ AllSettled(b, Completes(generic_sub(c, v, w), how))
           /\ AllSettled(b, Completes(generic_add(c, v, w), how))
           /\ AllSettled(b, Completes(Fails(c, errors), how))
           /\ \A e : e # "NONE" => AllSettled(b, Completes(Ends(c, e), how))
<1>. DEFINE types == OperandTypes(v, w)
<1>1. Base(c)  BY HasIsBase
<1>2. /\ AllMade(c, map_binary(c, v, w, errors)) /\ AllMade(c, generic_sub(c, v, w))
      /\ AllMade(c, generic_add(c, v, w)) /\ AllMade(c, Fails(c, errors))
      /\ \A e : e # "NONE" => AllMade(c, Ends(c, e))
  BY <1>1, map_binaryMade, genericMade, EndsSettled
<1>3. /\ OfTypes(map_binary(c, v, w, errors), types) /\ OfTypes(generic_sub(c, v, w), types)
      /\ OfTypes(generic_add(c, v, w), types)
  <2>1. CASE IsMatrix(v) \/ IsMatrix(w)
    BY <1>1, <2>1, map_binaryMade, genericMade DEF OperandTypes
  <2>2. CASE ~(IsMatrix(v) \/ IsMatrix(w))
    BY <1>2, <2>2, MadeTyped DEF OperandTypes
  <2>. QED  BY <2>1, <2>2
<1>4. OfTypes(Fails(c, errors), types) /\ \A e : e # "NONE" => OfTypes(Ends(c, e), types)
  BY <1>1, EndsSettled
<1>. HIDE DEF types
<1>5. Fits(how, types)  BY DEF types
<1>6. \A outs : AllMade(c, outs) /\ OfTypes(outs, types) => AllSettled(b, Completes(outs, how))
  BY <1>5, CompletesAll
<1>. QED  BY <1>2, <1>3, <1>4, <1>6

LEMMA SlicesBegin ==
    ASSUME NEW b, NEW c, NEW how, NEW v, NEW w, Fits(how, OperandTypes(v, w)),
           Has(b, c, TempOf(how), None, None), Seen(b, c),
           Value(v), v # None, Value(w), w # None, IsMatrix(v), IsMatrix(w)
    PROVE  AllRight(b, linalg_div_start(c, v, w, how)) /\ AllRight(b, linalg_mul_start(c, v, w, how))
<1>1. /\ AllSettled(b, Completes(Fails(c, {"DIMENSION_ERROR", "INSUFFICIENT_MEMORY"}), how))
      /\ AllSettled(b, Completes(Ends(c, "ALPHA_DATA_IS_INVALID"), how))
  <2>1. "NONE" \notin {"DIMENSION_ERROR", "INSUFFICIENT_MEMORY"}  OBVIOUS
  <2>. QED  BY <2>1, ArithmeticCompletes
<1>2. BinaryType(v, w) \in MatrixTypes /\ Fits(how, {BinaryType(v, w)})
  BY BinaryTypes, FewerTypes DEF OperandTypes
<1>3. /\ AllRight(b, Starts(c, "div", BinaryType(v, w), how))
      /\ AllRight(b, Starts(c, "mul", BinaryType(v, w), how))
  BY <1>2, StartsGo
<1>. QED  BY <1>1, <1>3 DEF linalg_div_start, linalg_mul_start, AllSettled, AllRight, Right

LEMMA DivAndMulRight ==
    ASSUME NEW b, NEW c, NEW how, NEW v, NEW w, Fits(how, OperandTypes(v, w)),
           Has(b, c, TempOf(how), None, None), Seen(b, c),
           Value(v), v # None, Value(w), w # None
    PROVE  AllRight(b, generic_div(c, v, w, how)) /\ AllRight(b, generic_mul(c, v, w, how))
<1>1. /\ AllSettled(b, Completes(map_binary(c, v, w, DivErrors), how))
      /\ AllSettled(b, Completes(map_binary(c, v, w, MulErrors), how))
      /\ AllSettled(b, Completes(Ends(c, "ALPHA_DATA_IS_INVALID"), how))
  <2>1. "NONE" \notin DivErrors /\ "NONE" \notin MulErrors  BY DEF DivErrors, MulErrors
  <2>. QED  BY <2>1, ArithmeticCompletes
<1>2. ASSUME NEW S, AllSettled(b, S) PROVE AllRight(b, S)  BY <1>2, SettledIsRight
<1>3. IsMatrix(v) /\ IsMatrix(w) =>
          AllRight(b, linalg_div_start(c, v, w, how)) /\ AllRight(b, linalg_mul_start(c, v, w, how))
  BY SlicesBegin
<1>4. AllRight(b, generic_div(c, v, w, how))
  <2>1. \/ generic_div(c, v, w, how) = Completes(Ends(c, "ALPHA_DATA_IS_INVALID"), how)
        \/ IsMatrix(v) /\ IsMatrix(w) /\ generic_div(c, v, w, how) = linalg_div_start(c, v, w, how)
        \/ generic_div(c, v, w, how) = Completes(map_binary(c, v, w, DivErrors), how)
    BY DEF generic_div
  <2>. QED  BY <1>1, <1>2, <1>3, <2>1
<1>5. AllRight(b, generic_mul(c, v, w, how))
  <2>1. \/ generic_mul(c, v, w, how) = Completes(Ends(c, "ALPHA_DATA_IS_INVALID"), how)
        \/ IsMatrix(v) /\ IsMatrix(w) /\ generic_mul(c, v, w, how) = linalg_mul_start(c, v, w, how)
        \/ generic_mul(c, v, w, how) = Completes(map_binary(c, v, w, MulErrors), how)
    BY DEF generic_mul
  <2>. QED  BY <1>1, <1>2, <1>3, <2>1
<1>. QED  BY <1>4, <1>5

LEMMA ArithmeticRight ==
    ASSUME NEW b, Base(b)
    PROVE  /\ AllRight(b, docmd_div(b)) /\ AllRight(b, docmd_mul(b))
           /\ AllSettled(b, docmd_sub(b)) /\ AllSettled(b, docmd_add(b))
<1>. DEFINE v == b.slot["x"]
            w == b.slot["y"]
<1>1. Value(v) /\ v # None /\ Value(w) /\ w # None  BY StackTypes DEF Base, Stack
<1>2. \A types : Fits(BinaryHow, types)  BY DEF Fits, HowFits, BinaryHow
<1>3. TempOf(BinaryHow) = None  BY DEF TempOf, BinaryHow
<1>. HIDE DEF v, w
<1>4. Has(b, b, TempOf(BinaryHow), None, None) /\ Seen(b, b)  BY <1>3, HasNothing
<1>5. AllRight(b, generic_div(b, v, w, BinaryHow)) /\ AllRight(b, generic_mul(b, v, w, BinaryHow))
  BY <1>1, <1>2, <1>4, DivAndMulRight
<1>6. AllMade(b, generic_sub(b, v, w)) /\ AllMade(b, generic_add(b, v, w))
  BY <1>1, genericMade
<1>. QED  BY <1>5, <1>6, ResultsSettled DEF docmd_div, docmd_mul, docmd_sub, docmd_add, v, w

\* What RCL and an operation have in common: a value is in a hand and X is the other.
LEMMA RclOperands ==
    ASSUME NEW b, NEW q, Made(b, q), q.err = "NONE"
    PROVE  LET d == q.calc
               v == q.v
               w == d.slot["x"]
           IN  /\ Value(v) /\ v # None /\ Value(w) /\ w # None
               /\ Has(b, d, TempOf(RclHow(v)), None, None) /\ Seen(b, d)
               /\ \A types : Fits(RclHow(v), types)
<1>1. TempOf(RclHow(q.v)) = q.v  BY DEF TempOf, RclHow
<1>2. q.v # None /\ Value(q.v) /\ Has(b, q.calc, q.v, None, None) /\ Seen(b, q.calc)
  BY DEF Made, Has
<1>3. Value(q.calc.slot["x"]) /\ q.calc.slot["x"] # None
  BY <1>2, StackTypes DEF Has, Stack
<1>4. \A types : Fits(RclHow(q.v), types)  BY <1>2 DEF Fits, HowFits, RclHow
<1>. QED  BY <1>1, <1>2, <1>3, <1>4

LEMMA RclArithmeticRight ==
    ASSUME NEW b, Base(b), NEW arg \in Args
    PROVE  /\ AllRight(b, docmd_rcl_div(b, arg)) /\ AllRight(b, docmd_rcl_mul(b, arg))
           /\ AllRight(b, docmd_rcl_sub(b, arg)) /\ AllRight(b, docmd_rcl_add(b, arg))
<1>1. \A q \in generic_rcl(b, arg) : Made(b, q)  BY generic_rclMade DEF AllMade
<1>2. \A q : Made(b, q) /\ q.err # "NONE" => Right(b, q)  BY DEF Made, Settled, Right
<1>3. ASSUME NEW q, Made(b, q), q.err = "NONE"
      PROVE  LET w == q.calc.slot["x"]
             IN  /\ AllRight(b, generic_div(q.calc, q.v, w, RclHow(q.v)))
                 /\ AllRight(b, generic_mul(q.calc, q.v, w, RclHow(q.v)))
                 /\ AllRight(b, Completes(generic_sub(q.calc, q.v, w), RclHow(q.v)))
                 /\ AllRight(b, Completes(generic_add(q.calc, q.v, w), RclHow(q.v)))
  <2>. DEFINE d == q.calc
              v == q.v
              w == d.slot["x"]
              how == RclHow(v)
  <2>1. /\ Value(v) /\ v # None /\ Value(w) /\ w # None
        /\ Has(b, d, TempOf(how), None, None) /\ Seen(b, d)
        /\ Fits(how, OperandTypes(v, w))
    BY <1>3, RclOperands
  <2>. HIDE DEF d, v, w, how
  <2>2. "NONE" \notin {}  OBVIOUS
  <2>3. /\ AllRight(b, generic_div(d, v, w, how)) /\ AllRight(b, generic_mul(d, v, w, how))
    BY <2>1, DivAndMulRight
  <2>4. /\ AllSettled(b, Completes(generic_sub(d, v, w), how))
        /\ AllSettled(b, Completes(generic_add(d, v, w), how))
    BY <2>1, <2>2, ArithmeticCompletes
  <2>. QED  BY <2>3, <2>4, SettledIsRight DEF d, v, w, how
<1>4. AllRight(b, docmd_rcl_div(b, arg))
  BY <1>1, <1>2, <1>3 DEF docmd_rcl_div, Then, AllRight
<1>5. AllRight(b, docmd_rcl_mul(b, arg))
  BY <1>1, <1>2, <1>3 DEF docmd_rcl_mul, Then, AllRight
<1>6. AllRight(b, docmd_rcl_sub(b, arg))
  BY <1>1, <1>2, <1>3 DEF docmd_rcl_sub, Then, AllRight
<1>7. AllRight(b, docmd_rcl_add(b, arg))
  BY <1>1, <1>2, <1>3 DEF docmd_rcl_add, Then, AllRight
<1>. QED  BY <1>4, <1>5, <1>6, <1>7

-----------------------------------------------------------------------------
\* STO.

\* X is the same before and after.
KeepsX(b, outs) == \A o \in outs : o.calc.slot["x"] = b.slot["x"]

\* The array of REGS is made its own, then written to.
ThenWrites(q, errors, contents) ==
    IF q.err = "NONE" THEN Fails(q.calc, errors) \cup Writes(q.calc, "REGS", contents) ELSE {q}

LEMMA OwnedWritten ==
    ASSUME NEW b, Base(b), IsMatrix(b.slot["REGS"]), NEW contents, NEW errors,
           NEW q \in disentangle(b, "REGS"), NEW o \in ThenWrites(q, errors, contents)
    PROVE  Settled(b, o) /\ o.calc.slot["x"] = b.slot["x"]
<1>1. /\ Has(b, q.calc, None, None, None) /\ Seen(b, q.calc) /\ (q.err = "NONE" => Owned(q.calc, "REGS"))
      /\ q.calc.slot["x"] = b.slot["x"]
  BY Disentangled, SlotFacts DEF Stack
<1>. USE DEF ThenWrites
<1>2. CASE o = q  BY <1>1, <1>2 DEF Settled
<1>3. CASE o \in Fails(q.calc, errors)
  <2>1. o.calc = q.calc  BY <1>3, OutcomeIs DEF Fails, Ends
  <2>. QED  BY <1>1, <2>1 DEF Settled
<1>4. CASE q.err = "NONE" /\ o \in Writes(q.calc, "REGS", contents)
  <2>1. Base(q.calc) /\ Owned(q.calc, "REGS")  BY <1>1, <1>4, HasIsBase
  <2>2. Has(q.calc, o.calc, None, None, None) /\ o.err = "NONE" /\ o.calc.slot = q.calc.slot
    <3>1. o \in WritesBy("command", q.calc, "REGS", contents)  BY <1>4 DEF Writes
    <3>. QED  BY <2>1, <3>1, Written DEF Owned
  <2>3. Has(b, o.calc, None, None, None)  BY <1>1, <2>2, HasMore
  <2>. QED  BY <1>1, <2>2, <2>3 DEF Settled, Fine
<1>. QED  BY <1>2, <1>3, <1>4

\* A string, with a note that the array left behind is written to.
LEMMA StoTextSettled ==
    ASSUME NEW b, Base(b), IsMatrix(b.slot["REGS"]), NEW o \in StoText(b)
    PROVE  Settled(b, o) /\ o.calc.slot["x"] = b.slot["x"]
<1>. DEFINE left == IF b.refs[b.slot["REGS"].array] > 1 THEN {"text"} ELSE {}
<1>1. PICK q \in disentangle(b, "REGS") :
          o \in IF q.err = "NONE"
                THEN Writes([q.calc EXCEPT !.shared = @ \cup left], "REGS", Texts) ELSE {q}
  BY DEF StoText, Then, recall_var
<1>2. "command" \notin left  OBVIOUS
<1>. HIDE DEF left
<1>3. /\ Has(b, q.calc, None, None, None) /\ Seen(b, q.calc) /\ (q.err = "NONE" => Owned(q.calc, "REGS"))
      /\ q.calc.slot["x"] = b.slot["x"]
  BY Disentangled, SlotFacts DEF Stack
<1>4. CASE q.err # "NONE"  BY <1>1, <1>3, <1>4 DEF Settled
<1>5. CASE q.err = "NONE"
  <2>. DEFINE c == q.calc
              d == [c EXCEPT !.shared = @ \cup left]
  <2>1. Calc(c) /\ Owned(c, "REGS") /\ Has(b, c, None, None, None)  BY <1>3, <1>5 DEF Has
  <2>. HIDE DEF c
  <2>2. /\ Form(d) /\ d.slot = c.slot /\ d.refs = c.refs /\ d.live = c.live /\ d.lost = c.lost
        /\ d.pending = c.pending
    BY <1>2, <2>1 DEF Calc, Form, Fields
  <2>3. o \in WritesBy("command", d, "REGS", Texts)  BY <1>1, <1>5 DEF Writes, c, d
  <2>. HIDE DEF d
  <2>4. Calc(d) /\ Extra(d) = Extra(c) /\ (\A a \in Arrays : Spare(d, a) = Spare(c, a))
    BY <2>1, <2>2 DEF Calc, Extra, Spare
  <2>5. Has(b, d, None, None, None) /\ Owned(d, "REGS")
    BY <2>1, <2>2, <2>4 DEF Has, Owned
  <2>6. Base(d)  BY <2>5, HasIsBase
  <2>7. Has(d, o.calc, None, None, None) /\ o.err = "NONE" /\ o.calc.slot = d.slot
    BY <2>3, <2>5, <2>6, Written DEF Owned
  <2>8. Has(b, o.calc, None, None, None)  BY <2>5, <2>7, HasMore
  <2>. QED  BY <1>3, <2>2, <2>7, <2>8 DEF Settled, Fine, c
<1>. QED  BY <1>4, <1>5

LEMMA StoRegisterSettled ==
    ASSUME NEW b, Base(b), NEW operation
    PROVE  AllSettled(b, StoRegister(b, operation)) /\ KeepsX(b, StoRegister(b, operation))
<1>. DEFINE regs == b.slot["REGS"]
            type == b.slot["x"].type
            errors == (IF operation = "none" THEN {} ELSE {"OUT_OF_RANGE"})
                      \cup (IF operation = "/" THEN {"DIVIDE_BY_0"} ELSE {})
                      \cup (IF operation # "none" /\ ContainsStrings(b, regs)
                            THEN {"ALPHA_DATA_IS_INVALID"} ELSE {})
            strings == StoText(b)
            numbers == UNION {IF q.err = "NONE"
                              THEN Fails(q.calc, errors) \cup Writes(q.calc, "REGS", NumbersIn(q.calc, "REGS"))
                              ELSE {q} : q \in disentangle(b, "REGS")}
            complexes == UNION {IF q.err = "NONE"
                                THEN Fails(q.calc, errors) \cup Writes(q.calc, "REGS", Numbers)
                                ELSE {q} : q \in disentangle(b, "REGS")}
<1>1. "NONE" \notin errors  OBVIOUS
<1>2. \/ StoRegister(b, operation) = Ends(b, "SIZE_ERROR")
      \/ \E T : /\ \/ T \in {Ends(b, "INVALID_TYPE"), Ends(b, "ALPHA_DATA_IS_INVALID"), Ends(b, "INTERNAL_ERROR")}
                   \/ IsMatrix(regs) /\ T \in {strings, numbers, complexes}
                /\ StoRegister(b, operation) = Ends(b, "SIZE_ERROR") \cup T
  <2>1. CASE regs = None  BY <2>1 DEF StoRegister, recall_var
  <2>. DEFINE body == CASE regs.type = "realmatrix" ->
                               IF type = "string" THEN strings
                               ELSE IF type = "real" THEN numbers ELSE Ends(b, "INVALID_TYPE")
                        [] regs.type = "complexmatrix" ->
                               IF type = "string" THEN Ends(b, "ALPHA_DATA_IS_INVALID")
                               ELSE IF type \notin {"real", "complex"} THEN Ends(b, "INVALID_TYPE")
                               ELSE complexes
                        [] OTHER -> Ends(b, "INTERNAL_ERROR")
  <2>2. CASE regs # None
    <3>1. StoRegister(b, operation) = Ends(b, "SIZE_ERROR") \cup body
      BY <2>2, Zenon DEF StoRegister, recall_var, Then
    <3>. HIDE DEF strings, numbers, complexes
    <3>2. \/ body \in {Ends(b, "INVALID_TYPE"), Ends(b, "ALPHA_DATA_IS_INVALID"), Ends(b, "INTERNAL_ERROR")}
          \/ IsMatrix(regs) /\ body \in {strings, numbers, complexes}
      <4>1. CASE regs.type = "realmatrix"  BY <4>1 DEF IsMatrix, MatrixTypes
      <4>2. CASE regs.type = "complexmatrix"  BY <4>2 DEF IsMatrix, MatrixTypes
      <4>3. CASE regs.type \notin {"realmatrix", "complexmatrix"}  BY <4>3
      <4>. QED  BY <4>1, <4>2, <4>3
    <3>. QED  BY <3>1, <3>2
  <2>. QED  BY <2>1, <2>2
<1>. HIDE DEF errors
<1>. HIDE DEF strings, numbers, complexes
<1>3. ASSUME IsMatrix(regs), NEW o \in strings \cup numbers \cup complexes
      PROVE  Settled(b, o) /\ o.calc.slot["x"] = b.slot["x"]
  <2>0. CASE o \in strings  BY <1>3, <2>0, StoTextSettled DEF strings
  <2>. SUFFICES ASSUME o \in numbers \cup complexes
                PROVE  Settled(b, o) /\ o.calc.slot["x"] = b.slot["x"]
    BY <1>3, <2>0
  <2>1. PICK q \in disentangle(b, "REGS") :
            \E contents : \/ o \in ThenWrites(q, errors, contents)
                         \/ o \in ThenWrites(q, {}, contents)
    BY DEF numbers, complexes, ThenWrites, Fails
  <2>2. PICK contents : \/ o \in ThenWrites(q, errors, contents)
                        \/ o \in ThenWrites(q, {}, contents)
    BY <2>1
  <2>. QED  BY <1>3, <2>1, <2>2, OwnedWritten
<1>4. \A e : AllSettled(b, Ends(b, e)) /\ KeepsX(b, Ends(b, e))
  BY EndsSettled, OutcomeIs DEF KeepsX, Ends
<1>5. ASSUME NEW T, \/ T \in {Ends(b, "INVALID_TYPE"), Ends(b, "ALPHA_DATA_IS_INVALID"), Ends(b, "INTERNAL_ERROR")}
                    \/ IsMatrix(regs) /\ T \in {strings, numbers, complexes}
      PROVE  AllSettled(b, T) /\ KeepsX(b, T)
  BY <1>3, <1>4, <1>5 DEF AllSettled, KeepsX
<1>6. ASSUME NEW S, NEW T, AllSettled(b, S) /\ KeepsX(b, S), AllSettled(b, T) /\ KeepsX(b, T)
      PROVE  AllSettled(b, S \cup T) /\ KeepsX(b, S \cup T)
  BY <1>6 DEF AllSettled, KeepsX
<1>. QED  BY <1>2, <1>4, <1>5, <1>6

LEMMA StoCopySettled ==
    ASSUME NEW b, Base(b), NEW s \in Slots
    PROVE  AllSettled(b, StoCopy(b, s)) /\ KeepsX(b, StoCopy(b, s))
<1>. DEFINE v == b.slot["x"]
<1>1. Value(v) /\ v # None  BY StackTypes DEF Base, Stack
<1>2. \A e : AllSettled(b, Ends(b, e)) /\ KeepsX(b, Ends(b, e))
  BY EndsSettled, OutcomeIs DEF KeepsX, Ends
<1>3. CASE s = "x" \/ (s = "REGS" /\ ~IsMatrix(v))
  <2>1. StoCopy(b, s) = Ends(b, "NONE") \/ StoCopy(b, s) = Ends(b, "RESTRICTED_OPERATION")
    BY <1>3 DEF StoCopy, Done
  <2>. QED  BY <1>2, <2>1
<1>4. CASE ~(s = "x" \/ (s = "REGS" /\ ~IsMatrix(v)))
  <2>. SUFFICES ASSUME NEW o \in StoCopy(b, s) PROVE Settled(b, o) /\ o.calc.slot["x"] = b.slot["x"]
    BY DEF AllSettled, KeepsX
  <2>1. PICK q \in dup_vartype(b, v) : o \in IF q.err = "NONE" THEN Done(WithSlot(q.calc, s, q.v)) ELSE {q}
    BY <1>4 DEF StoCopy, Then
  <2>2. Made(b, q) /\ q.calc.slot = b.slot /\ (q.err = "NONE" => q.v = v)
    BY <1>1, DupMade DEF AllMade
  <2>3. CASE q.err # "NONE"  BY <2>1, <2>2, <2>3 DEF Made, Settled
  <2>4. CASE q.err = "NONE"
    <3>1. o.calc = WithSlot(q.calc, s, q.v) /\ o.err = "NONE"
      BY <2>1, <2>4, OutcomeIs DEF Done, Ends
    <3>2. Takes(s, q.v)  BY <1>1, <1>4, <2>2, <2>4 DEF Takes
    <3>3. Has(b, q.calc, q.v, None, None)  BY <2>2, <2>4 DEF Made
    <3>4. Has(b, WithSlot(q.calc, s, q.v), None, None, None)
      BY <3>2, <3>3, SlotTakes
    <3>5. o.calc.slot["x"] = b.slot["x"]
      <4>1. Calc(q.calc)  BY <3>3 DEF Has
      <4>. QED  BY <1>4, <2>2, <3>1, <4>1, SlotIs, SlotFacts
    <3>. QED  BY <3>1, <3>4, <3>5 DEF Settled, Fine
  <2>. QED  BY <2>3, <2>4
<1>. QED  BY <1>3, <1>4

LEMMA apply_sto_operationRight ==
    ASSUME NEW b, Base(b), NEW operation \in {"/", "*", "-", "+"}, NEW s \in Slots, b.slot[s] # None
    PROVE  AllRight(b, apply_sto_operation(b, operation, s))
<1>. DEFINE v == b.slot["x"]
            w == b.slot[s]
            how == [kind |-> "sto", slot |-> s]
<1>1. /\ Value(v) /\ v # None /\ Value(w) /\ w # None
      /\ s = "REGS" => misplaced \/ IsMatrix(w)
  BY StackTypes DEF Base, Stack, Calc, Proper
<1>2. Fits(how, OperandTypes(v, w))  BY <1>1 DEF Fits, HowFits, OperandTypes
<1>3. TempOf(how) = None  BY DEF TempOf
<1>4. apply_sto_operation(b, operation, s) \in
          {generic_div(b, v, w, how), generic_mul(b, v, w, how),
           Completes(generic_sub(b, v, w), how), Completes(generic_add(b, v, w), how)}
  BY DEF apply_sto_operation
<1>. HIDE DEF v, w, how
<1>5. Has(b, b, TempOf(how), None, None) /\ Seen(b, b)  BY <1>3, HasNothing
<1>6. AllRight(b, generic_div(b, v, w, how)) /\ AllRight(b, generic_mul(b, v, w, how))
  BY <1>1, <1>2, <1>5, DivAndMulRight
<1>7. "NONE" \notin {}  OBVIOUS
<1>8. /\ AllSettled(b, Completes(generic_sub(b, v, w), how))
      /\ AllSettled(b, Completes(generic_add(b, v, w), how))
  BY <1>1, <1>2, <1>5, <1>7, ArithmeticCompletes
<1>. QED  BY <1>4, <1>6, <1>8, SettledIsRight

LEMMA StoDirectSettled ==
    ASSUME NEW b, Base(b), NEW arg \in DirectArgs
    PROVE  AllSettled(b, StoDirect(b, arg, "none")) /\ KeepsX(b, StoDirect(b, arg, "none"))
<1>1. CASE arg[1] = "num"
  <2>1. StoDirect(b, arg, "none") = StoRegister(b, "none")  BY <1>1 DEF StoDirect
  <2>. QED  BY <2>1, StoRegisterSettled
<1>2. CASE arg[1] # "num"
  <2>1. StoDirect(b, arg, "none") = StoCopy(b, arg[2])  BY <1>2 DEF StoDirect
  <2>2. arg[2] \in Slots  BY <1>2, DirectFacts, SlotFacts
  <2>. QED  BY <2>1, <2>2, StoCopySettled
<1>. QED  BY <1>1, <1>2

LEMMA StoDirectRight ==
    ASSUME NEW b, Base(b), NEW arg \in DirectArgs, NEW operation \in {"/", "*", "-", "+"}
    PROVE  AllRight(b, StoDirect(b, arg, operation))
<1>1. \/ StoDirect(b, arg, operation) = Ends(b, "ALPHA_DATA_IS_INVALID")
      \/ StoDirect(b, arg, operation) = StoRegister(b, operation)
      \/ StoDirect(b, arg, operation) = Ends(b, "NONEXISTENT")
      \/ /\ arg[1] # "num" /\ b.slot[arg[2]] # None
         /\ StoDirect(b, arg, operation) = apply_sto_operation(b, operation, arg[2])
  BY DEF StoDirect
<1>2. arg[1] # "num" => arg[2] \in Slots  BY DirectFacts, SlotFacts
<1>3. AllSettled(b, StoRegister(b, operation)) /\ \A e : AllSettled(b, Ends(b, e))
  BY StoRegisterSettled, EndsSettled
<1>4. \A S : AllSettled(b, S) => AllRight(b, S)  BY SettledIsRight
<1>. QED  BY <1>1, <1>2, <1>3, <1>4, apply_sto_operationRight

LEMMA docmd_stoSettled ==
    ASSUME NEW b, Base(b), NEW arg \in Args
    PROVE  AllSettled(b, docmd_sto(b, arg)) /\ KeepsX(b, docmd_sto(b, arg))
<1>1. CASE ~IsIndirect(arg)
  <2>1. docmd_sto(b, arg) = StoDirect(b, arg, "none")  BY <1>1 DEF docmd_sto, generic_sto, WithArg
  <2>. QED  BY <1>1, <2>1, ArgFacts, StoDirectSettled
<1>2. CASE IsIndirect(arg)
  <2>. DEFINE r == resolve_ind_arg(b, arg)
  <2>1. docmd_sto(b, arg) = Fails(b, r.errors) \cup UNION {StoDirect(b, a, "none") : a \in r.args}
    BY <1>2 DEF docmd_sto, generic_sto, WithArg
  <2>2. r.args \subseteq DirectArgs  BY Resolves
  <2>. HIDE DEF r
  <2>3. AllSettled(b, Fails(b, r.errors)) /\ KeepsX(b, Fails(b, r.errors))
    BY EndsSettled, OutcomeIs DEF KeepsX, Fails, Ends
  <2>4. \A a \in r.args : AllSettled(b, StoDirect(b, a, "none")) /\ KeepsX(b, StoDirect(b, a, "none"))
    BY <2>2, StoDirectSettled
  <2>. QED  BY <2>1, <2>3, <2>4 DEF AllSettled, KeepsX
<1>. QED  BY <1>1, <1>2

LEMMA generic_stoRight ==
    ASSUME NEW b, Base(b), NEW arg \in Args, NEW operation \in {"/", "*", "-", "+"}
    PROVE  AllRight(b, generic_sto(b, arg, operation))
<1>1. CASE ~IsIndirect(arg)
  <2>1. generic_sto(b, arg, operation) = StoDirect(b, arg, operation)  BY <1>1 DEF generic_sto, WithArg
  <2>. QED  BY <1>1, <2>1, ArgFacts, StoDirectRight
<1>2. CASE IsIndirect(arg)
  <2>. DEFINE r == resolve_ind_arg(b, arg)
  <2>1. generic_sto(b, arg, operation) = Fails(b, r.errors) \cup UNION {StoDirect(b, a, operation) : a \in r.args}
    BY <1>2 DEF generic_sto, WithArg
  <2>2. r.args \subseteq DirectArgs  BY Resolves
  <2>. HIDE DEF r
  <2>3. AllSettled(b, Fails(b, r.errors))  BY EndsSettled
  <2>4. \A a \in r.args : AllRight(b, StoDirect(b, a, operation))  BY <2>2, StoDirectRight
  <2>. QED  BY <2>1, <2>3, <2>4 DEF AllSettled, AllRight, Right
<1>. QED  BY <1>1, <1>2

LEMMA StoArithmeticRight ==
    ASSUME NEW b, Base(b), NEW arg \in Args
    PROVE  /\ AllRight(b, docmd_sto_div(b, arg)) /\ AllRight(b, docmd_sto_mul(b, arg))
           /\ AllRight(b, docmd_sto_sub(b, arg)) /\ AllRight(b, docmd_sto_add(b, arg))
BY generic_stoRight DEF docmd_sto_div, docmd_sto_mul, docmd_sto_sub, docmd_sto_add

-----------------------------------------------------------------------------
\* Functions of X and Y.

LEMMA Operands ==
    ASSUME NEW b, Base(b)
    PROVE  Value(x(b)) /\ x(b) # None /\ Value(y(b)) /\ y(b) # None
BY StackTypes DEF Base, Stack, x, y

LEMMA ResultsOfNumbers ==
    ASSUME NEW b, Base(b)
    PROVE  /\ \A outs \in {new_real(b), new_complex(b), new_real(b) \cup new_complex(b),
                           new_matrix(b, "realmatrix"), new_matrix(b, "complexmatrix")} :
                  AllSettled(b, Unary(outs)) /\ AllSettled(b, Binary(outs)) /\ AllSettled(b, Recalls(outs))
<1>1. AllMade(b, new_real(b)) /\ AllMade(b, new_complex(b))  BY NumbersMade
<1>2. AllMade(b, new_real(b) \cup new_complex(b))  BY <1>1 DEF AllMade
<1>3. AllMade(b, new_matrix(b, "realmatrix")) /\ AllMade(b, new_matrix(b, "complexmatrix"))
  BY MatrixMade DEF MatrixTypes
<1>. QED  BY <1>1, <1>2, <1>3, ResultsSettled

LEMMA TwoSettled ==
    ASSUME NEW b, NEW S, NEW T, AllSettled(b, S), AllSettled(b, T)
    PROVE  AllSettled(b, S \cup T)
BY DEF AllSettled

LEMMA MapsXSettled ==
    ASSUME NEW b, Base(b), NEW types, NEW errors, "NONE" \notin errors
    PROVE  AllSettled(b, MapsX(b, types, errors))
<1>1. AllMade(b, map_unary(b, x(b), errors))  BY map_unaryMade, Operands
<1>. QED  BY <1>1, ResultsSettled, EndsSettled DEF MapsX

LEMMA OfTwoRealsSettled ==
    ASSUME NEW b, Base(b), NEW errors
    PROVE  AllSettled(b, OfTwoReals(b, errors))
<1>1. AllSettled(b, Binary(new_real(b))) /\ AllSettled(b, Fails(b, errors))
      /\ \A v : AllSettled(b, Rejects(b, v))
  BY ResultsOfNumbers, EndsSettled
<1>2. OfTwoReals(b, errors) \in {Binary(new_real(b)) \cup Fails(b, errors), Rejects(b, x(b)), Rejects(b, y(b))}
  BY DEF OfTwoReals
<1>. QED  BY <1>1, <1>2, TwoSettled

LEMMA LooksSettled ==
    ASSUME NEW b, Base(b), NEW v, NEW types, NEW ends
    PROVE  AllSettled(b, Looks(b, v, types, ends))
BY EndsSettled DEF Looks

LEMMA ElementarySettled ==
    ASSUME NEW b, Base(b)
    PROVE  AllSettled(b, Elementary(b))
<1>1. "NONE" \notin NumericErrors  BY DEF NumericErrors
<1>2. AllSettled(b, OfNumbers(b)) /\ AllSettled(b, OfReals(b))
  BY <1>1, MapsXSettled DEF OfNumbers, OfReals
<1>3. AllSettled(b, OfReal(b))
  <2>1. AllSettled(b, Unary(new_real(b) \cup new_complex(b))) /\ AllSettled(b, Fails(b, NumericErrors))
    BY ResultsOfNumbers, EndsSettled
  <2>. QED  BY <1>2, <2>1, TwoSettled DEF OfReal
<1>4. Elementary(b) \subseteq OfNumbers(b) \cup OfReals(b) \cup OfReal(b)
  BY DEF Elementary, docmd_sin, docmd_cos, docmd_tan, docmd_asin, docmd_acos, docmd_atan, docmd_sinh,
         docmd_cosh, docmd_tanh, docmd_asinh, docmd_acosh, docmd_atanh, docmd_log, docmd_ln,
         docmd_ln_1_x, docmd_10_pow_x, docmd_e_pow_x, docmd_e_pow_x_1, docmd_sqrt, docmd_square,
         docmd_inv
<1>. QED  BY <1>2, <1>3, <1>4 DEF AllSettled

LEMMA BasesSettled ==
    ASSUME NEW b, Base(b)
    PROVE  AllSettled(b, Bases(b))
<1>. DEFINE binary == Binary(new_real(b))
            unary == Unary(new_real(b))
<1>1. AllSettled(b, binary) /\ AllSettled(b, unary)  BY ResultsOfNumbers
<1>2. /\ \A E : AllSettled(b, Fails(b, E))
      /\ \A v : AllSettled(b, Rejects(b, v))
      /\ \A e : AllSettled(b, Ends(b, e))
  BY EndsSettled
<1>. HIDE DEF binary, unary
<1>3. ASSUME NEW errors PROVE AllSettled(b, OfBaseParams(b, errors))
  <2>1. \/ OfBaseParams(b, errors) = Fails(b, get_base_param(x(b)))
        \/ OfBaseParams(b, errors) = Fails(b, get_base_param(y(b)))
        \/ OfBaseParams(b, errors) = Fails(b, {"INVALID_DATA"} \cup errors) \cup binary
    BY DEF OfBaseParams, WithBaseParams, binary
  <2>. QED  BY <1>1, <1>2, <2>1, TwoSettled
<1>4. AllSettled(b, docmd_bit_t(b))
  <2>1. \/ docmd_bit_t(b) = Fails(b, get_base_param(x(b)))
        \/ docmd_bit_t(b) = Fails(b, get_base_param(y(b)))
        \/ docmd_bit_t(b) = Fails(b, {"INVALID_DATA"} \cup {}) \cup Fails(b, {"YES", "NO"})
    BY DEF docmd_bit_t, WithBaseParams
  <2>. QED  BY <1>2, <2>1, TwoSettled
<1>5. AllSettled(b, docmd_not(b)) /\ AllSettled(b, docmd_to_dec(b)) /\ AllSettled(b, docmd_to_oct(b))
  BY <1>1, <1>2, TwoSettled DEF docmd_not, docmd_to_dec, docmd_to_oct, unary
<1>6. AllSettled(b, docmd_basechs(b))  BY <1>2 DEF docmd_basechs
<1>. QED
  BY <1>3, <1>4, <1>5, <1>6
  DEF AllSettled, Bases, docmd_and, docmd_or, docmd_xor, docmd_baseadd, docmd_basesub, docmd_basemul,
      docmd_basediv, docmd_rotxy

\* Two results, which replace X and Y or split X.
Splits(outs) == UNION {IF q.err = "NONE" THEN Done(split_result(q.calc, q.v)) ELSE {q} : q \in outs}

LEMMA PairsSettled ==
    ASSUME NEW b, Base(b)
    PROVE  /\ AllSettled(b, Replaces(b))
           /\ AllSettled(b, Splits(two_reals(b)))
           /\ \A type \in MatrixTypes : AllSettled(b, Splits(two_matrices(b, type)))
<1>1. /\ \A q \in two_reals(b) : PairMade(b, q)
      /\ \A type \in MatrixTypes : \A q \in two_matrices(b, type) : PairMade(b, q)
  BY PairsMade
<1>2. AllSettled(b, Replaces(b))
  BY <1>1, ReplaceSettled DEF Replaces, Then, AllSettled
<1>3. AllSettled(b, Splits(two_reals(b)))
  BY <1>1, SplitSettled DEF Splits, AllSettled
<1>4. \A type \in MatrixTypes : AllSettled(b, Splits(two_matrices(b, type)))
  BY <1>1, SplitSettled DEF Splits, AllSettled
<1>. QED  BY <1>2, <1>3, <1>4

LEMMA TestsSettled ==
    ASSUME NEW b, Base(b)
    PROVE  AllSettled(b, Tests(b))
<1>1. /\ \A E : AllSettled(b, Fails(b, E))
      /\ \A v : AllSettled(b, Rejects(b, v))
      /\ \A e : AllSettled(b, Ends(b, e))
  BY EndsSettled
<1>2. AllSettled(b, x_compare_0(b))  BY LooksSettled DEF x_compare_0
<1>3. AllSettled(b, x_compare_y(b))  BY <1>1, LooksSettled DEF x_compare_y
<1>4. AllSettled(b, docmd_x_eq_y(b))  BY <1>1 DEF docmd_x_eq_y
<1>5. AllSettled(b, docmd_x_ne_y(b))
  <2>1. \A o \in docmd_x_eq_y(b) : o.calc = b  BY OutcomeIs DEF docmd_x_eq_y, Ends, Fails
  <2>2. \A o \in docmd_x_ne_y(b) : o.calc = b  BY <2>1, OutcomeIs DEF docmd_x_ne_y
  <2>. QED  BY <2>2, HasNothing DEF AllSettled, Settled
<1>6. \A types : AllSettled(b, is_type_t(b, types))  BY <1>1 DEF is_type_t
<1>. QED  BY <1>2, <1>3, <1>4, <1>5, <1>6 DEF Tests, AllSettled

LEMMA PrintsGo ==
    ASSUME NEW b, Base(b)
    PROVE  /\ AllRight(b, Starts(b, "print", "none", [kind |-> "print"]))
           /\ \A s : AllRight(b, Prints(b, s))
<1>. DEFINE how == [kind |-> "print"]
<1>1. TempOf(how) = None /\ how.kind = "print"  BY DEF TempOf
<1>2. AllRight(b, Starts(b, "print", "none", how))
  BY <1>1, HasNothing, StartsGo
<1>3. AllSettled(b, Done(b))  BY EndsSettled
<1>. QED  BY <1>2, <1>3, SettledIsRight DEF Prints

LEMMA LookingRight ==
    ASSUME NEW b, Base(b)
    PROVE  AllRight(b, Looking(b))
<1>1. /\ \A E : AllSettled(b, Fails(b, E))
      /\ \A v : AllSettled(b, Rejects(b, v))
      /\ \A e : AllSettled(b, Ends(b, e))
      /\ AllSettled(b, Done(b))
  BY EndsSettled
<1>2. \A v, types, ends : AllSettled(b, Looks(b, v, types, ends))  BY LooksSettled
<1>3. /\ AllSettled(b, docmd_aip(b)) /\ AllSettled(b, docmd_delay(b)) /\ AllSettled(b, docmd_seed(b))
      /\ AllSettled(b, docmd_arot(b)) /\ AllSettled(b, docmd_adate(b)) /\ AllSettled(b, docmd_atime(b))
  BY <1>2 DEF docmd_aip, docmd_delay, docmd_seed, docmd_arot, docmd_adate, docmd_atime
<1>4. AllSettled(b, docmd_agraph(b)) /\ AllSettled(b, docmd_pixel(b))
  BY <1>2 DEF docmd_agraph, docmd_pixel, Draws
<1>5. AllSettled(b, docmd_xtoa(b))
  <2>1. \/ docmd_xtoa(b) = Fails(b, {"NONE", "INVALID_DATA"})
        \/ docmd_xtoa(b) = Done(b)
        \/ docmd_xtoa(b) = Ends(b, "INVALID_TYPE")
    BY DEF docmd_xtoa
  <2>. QED  BY <1>1, <2>1
<1>6. AllSettled(b, docmd_prsigma(b)) /\ AllSettled(b, docmd_prstk(b))
  BY <1>1 DEF docmd_prsigma, docmd_prstk
<1>7. AllRight(b, docmd_prx(b)) /\ AllRight(b, docmd_prusr(b))
  BY <1>1, PrintsGo, SettledIsRight DEF docmd_prx, docmd_prusr
<1>. QED  BY <1>3, <1>4, <1>5, <1>6, <1>7 DEF Looking, AllSettled, AllRight, Right

LEMMA PartsSettled ==
    ASSUME NEW b, Base(b)
    PROVE  AllSettled(b, Parts(b))
<1>1. /\ \A E : AllSettled(b, Fails(b, E))
      /\ \A v : AllSettled(b, Rejects(b, v))
      /\ \A e : AllSettled(b, Ends(b, e))
  BY EndsSettled
<1>2. \A types, errors : "NONE" \notin errors => AllSettled(b, MapsX(b, types, errors))
  BY MapsXSettled
<1>3. /\ AllSettled(b, docmd_ip(b)) /\ AllSettled(b, docmd_fp(b)) /\ AllSettled(b, docmd_rnd(b))
      /\ AllSettled(b, docmd_to_deg(b)) /\ AllSettled(b, docmd_to_rad(b))
      /\ AllSettled(b, docmd_to_hr(b)) /\ AllSettled(b, docmd_to_hms(b))
      /\ AllSettled(b, docmd_fact(b)) /\ AllSettled(b, docmd_gamma(b))
  BY <1>2 DEF docmd_ip, docmd_fp, docmd_rnd, docmd_to_deg, docmd_to_rad, docmd_to_hr, docmd_to_hms,
              docmd_fact, docmd_gamma
<1>4. AllSettled(b, Unary(new_real(b))) /\ AllSettled(b, Unary(new_complex(b)))
      /\ AllSettled(b, Unary(new_matrix(b, "realmatrix")))
  BY ResultsOfNumbers
<1>5. ASSUME NEW errors PROVE AllSettled(b, Turns(b, errors))
  <2>1. \/ Turns(b, errors) = Replaces(b) \cup Fails(b, errors)
        \/ Turns(b, errors) = Unary(new_complex(b)) \cup Fails(b, errors)
        \/ Turns(b, errors) \in {Rejects(b, x(b)), Rejects(b, y(b))}
    BY DEF Turns, Replaces
  <2>2. AllSettled(b, Replaces(b))  BY PairsSettled
  <2>. QED  BY <1>1, <1>4, <2>1, <2>2, TwoSettled
<1>6. AllSettled(b, docmd_abs(b))
  <2>1. \/ docmd_abs(b) = MapsX(b, RealTypes, {})
        \/ docmd_abs(b) = Unary(new_real(b)) \cup Ends(b, "OUT_OF_RANGE")
        \/ docmd_abs(b) = Rejects(b, x(b))
    BY DEF docmd_abs
  <2>. QED  BY <1>1, <1>2, <1>4, <2>1, TwoSettled
<1>7. AllSettled(b, docmd_sign(b))
  <2>1. \/ docmd_sign(b) = Unary(new_real(b))
        \/ docmd_sign(b) = Unary(new_matrix(b, "realmatrix"))
        \/ docmd_sign(b) = Unary(Unchecked(map_unary(b, x(b), {})))
    BY DEF docmd_sign
  <2>2. AllMade(b, map_unary(b, x(b), {}))  BY map_unaryMade, Operands
  <2>3. AllMade(b, Unchecked(map_unary(b, x(b), {})))  BY <2>2 DEF AllMade, Unchecked
  <2>. QED  BY <1>4, <2>1, <2>3, ResultsSettled
<1>. QED
  BY <1>3, <1>5, <1>6, <1>7 DEF Parts, AllSettled, docmd_to_rec, docmd_to_pol

\* The array of a matrix is made its own, then written to.
LEMMA SlotWritten ==
    ASSUME NEW b, Base(b), NEW s \in Slots, IsMatrix(b.slot[s]), NEW contents, NEW q \in disentangle(b, s),
           NEW o, IF q.err = "NONE" THEN o \in Writes(q.calc, s, contents) ELSE o = q
    PROVE  Settled(b, o)
<1>1. /\ Has(b, q.calc, None, None, None) /\ Seen(b, q.calc) /\ (q.err = "NONE" => Owned(q.calc, s))
  BY Disentangled
<1>2. CASE q.err # "NONE"  BY <1>1, <1>2 DEF Settled
<1>3. CASE q.err = "NONE"
  <2>1. Base(q.calc) /\ Owned(q.calc, s)  BY <1>1, <1>3, HasIsBase
  <2>2. Has(q.calc, o.calc, None, None, None) /\ o.err = "NONE"
    <3>1. o \in WritesBy("command", q.calc, s, contents)  BY <1>3 DEF Writes
    <3>. QED  BY <2>1, <3>1, Written DEF Owned
  <2>. QED  BY <1>1, <2>2, HasMore DEF Settled, Fine
<1>. QED  BY <1>2, <1>3

LEMMA ArithmeticAllRight ==
    ASSUME NEW b, Base(b)
    PROVE  AllRight(b, Arithmetic(b))
<1>1. /\ \A E : AllSettled(b, Fails(b, E))
      /\ \A v : AllSettled(b, Rejects(b, v))
      /\ \A e : AllSettled(b, Ends(b, e))
      /\ AllSettled(b, Done(b))
  BY EndsSettled
<1>2. /\ \A outs \in {new_real(b), new_complex(b), new_real(b) \cup new_complex(b),
                      new_matrix(b, "realmatrix"), new_matrix(b, "complexmatrix")} :
             AllSettled(b, Unary(outs)) /\ AllSettled(b, Binary(outs))
  BY ResultsOfNumbers
<1>3. AllSettled(b, docmd_chs(b))
  <2>1. /\ x(b).type \in {"real", "complex"} => docmd_chs(b) = Done(b)
        /\ IsString(x(b)) => docmd_chs(b) = Ends(b, "ALPHA_DATA_IS_INVALID")
        /\ IsMatrix(x(b)) /\ ContainsStrings(b, x(b)) => docmd_chs(b) = Ends(b, "ALPHA_DATA_IS_INVALID")
        /\ IsMatrix(x(b)) /\ ~ContainsStrings(b, x(b)) =>
               docmd_chs(b) = UNION {IF q.err = "NONE" THEN Writes(q.calc, "x", Numbers) ELSE {q} :
                                     q \in disentangle(b, "x")}
    BY DEF docmd_chs, Then, IsString, IsMatrix, MatrixTypes
  <2>2. ASSUME IsMatrix(x(b)),
               NEW o \in UNION {IF q.err = "NONE" THEN Writes(q.calc, "x", Numbers) ELSE {q} :
                                q \in disentangle(b, "x")}
        PROVE  Settled(b, o)
    BY <2>2, SlotWritten, SlotFacts DEF x
  <2>. QED  BY <1>1, <2>1, <2>2, Operands, TypesOfValues DEF AllSettled
<1>4. AllSettled(b, docmd_complex(b))
  <2>1. \/ docmd_complex(b) \in {Rejects(b, y(b)), Ends(b, "ALPHA_DATA_IS_INVALID"), Binary(new_complex(b))}
        \/ docmd_complex(b) = Splits(two_reals(b)) \cup Ends(b, "OUT_OF_RANGE")
        \/ docmd_complex(b) = Ends(b, "DIMENSION_ERROR") \cup Ends(b, "ALPHA_DATA_IS_INVALID")
        \/ docmd_complex(b) = Ends(b, "DIMENSION_ERROR") \cup Binary(new_matrix(b, "complexmatrix"))
        \/ docmd_complex(b) = Splits(two_matrices(b, "realmatrix")) \cup Ends(b, "OUT_OF_RANGE")
    <3>. USE DEF docmd_complex, Then, Splits, IsString
    <3>1. CASE x(b).type = "real"  BY <3>1
    <3>2. CASE x(b).type = "complex"  BY <3>2
    <3>3. CASE x(b).type = "realmatrix"  BY <3>3
    <3>4. CASE x(b).type = "complexmatrix"  BY <3>4
    <3>5. CASE x(b).type = "string"  BY <3>5
    <3>. QED  BY <3>1, <3>2, <3>3, <3>4, <3>5, Operands, TypesOfValues
  <2>2. /\ AllSettled(b, Splits(two_reals(b)))
        /\ AllSettled(b, Splits(two_matrices(b, "realmatrix")))
    BY PairsSettled DEF MatrixTypes
  <2>3. AllSettled(b, Binary(new_complex(b))) /\ AllSettled(b, Binary(new_matrix(b, "complexmatrix")))
    BY <1>2
  <2>. QED  BY <1>1, <2>1, <2>2, <2>3, TwoSettled
<1>5. AllSettled(b, docmd_y_pow_x(b))
  <2>1. \/ docmd_y_pow_x(b) \in {Ends(b, "ALPHA_DATA_IS_INVALID"), Ends(b, "INVALID_TYPE")}
        \/ docmd_y_pow_x(b) = Fails(b, NumericErrors) \cup Binary(new_real(b) \cup new_complex(b))
        \/ docmd_y_pow_x(b) = Fails(b, NumericErrors) \cup Binary(new_complex(b))
    BY DEF docmd_y_pow_x
  <2>2. AllSettled(b, Binary(new_real(b) \cup new_complex(b))) /\ AllSettled(b, Binary(new_complex(b)))
    BY <1>2
  <2>. QED  BY <1>1, <2>1, <2>2, TwoSettled
<1>6. /\ AllSettled(b, docmd_mod(b)) /\ AllSettled(b, docmd_comb(b)) /\ AllSettled(b, docmd_perm(b))
      /\ AllSettled(b, docmd_hmsadd(b)) /\ AllSettled(b, docmd_hmssub(b))
  BY OfTwoRealsSettled DEF docmd_mod, docmd_comb, docmd_perm, docmd_hmsadd, docmd_hmssub, hms_add_or_sub
<1>7. AllSettled(b, docmd_percent(b)) /\ AllSettled(b, docmd_percent_ch(b))
  <2>1. \/ docmd_percent(b) \in {Ends(b, "ALPHA_DATA_IS_INVALID"), Ends(b, "INVALID_TYPE")}
        \/ docmd_percent(b) = Unary(new_real(b)) \cup Ends(b, "OUT_OF_RANGE")
    BY DEF docmd_percent
  <2>2. \/ docmd_percent_ch(b) \in {Rejects(b, x(b)), Rejects(b, y(b))}
        \/ docmd_percent_ch(b) = Unary(new_real(b)) \cup Fails(b, {"DIVIDE_BY_0", "OUT_OF_RANGE"})
    BY DEF docmd_percent_ch
  <2>3. AllSettled(b, Unary(new_real(b)))  BY <1>2
  <2>. QED  BY <1>1, <2>1, <2>2, <2>3, TwoSettled
<1>8. /\ AllRight(b, docmd_div(b)) /\ AllRight(b, docmd_mul(b))
      /\ AllSettled(b, docmd_sub(b)) /\ AllSettled(b, docmd_add(b))
  BY ArithmeticRight
<1>. QED
  BY <1>3, <1>4, <1>5, <1>6, <1>7, <1>8 DEF Arithmetic, AllSettled, AllRight, Right

-----------------------------------------------------------------------------
\* Matrices and statistics.

LEMMA TransSettled ==
    ASSUME NEW b, Base(b), IsMatrix(x(b)), NEW q \in new_matrix(b, x(b).type),
           NEW o \in IF q.err = "NONE"
                     THEN Done([unary_result(q.calc, q.v) EXCEPT !.data[q.v.array] = b.data[x(b).array]])
                     ELSE {q}
    PROVE  Settled(b, o)
<1>1. Made(b, q) /\ (q.err = "NONE" => q.v.type = x(b).type)
  BY MatrixMade DEF AllMade, OfTypes, IsMatrix
<1>2. CASE q.err # "NONE"  BY <1>1, <1>2 DEF Made, Settled
<1>3. CASE q.err = "NONE"
  <2>. DEFINE d == unary_result(q.calc, q.v)
              e == [d EXCEPT !.data[q.v.array] = b.data[x(b).array]]
  <2>1. Has(b, d, None, None, None)  BY <1>1, <1>3, UnaryResult DEF Made
  <2>2. o.calc = e /\ o.err = "NONE"  BY <1>3, OutcomeIs DEF Done, Ends
  <2>. HIDE DEF d
  <2>3. /\ Form(e) /\ e.slot = d.slot /\ e.refs = d.refs /\ e.live = d.live /\ e.lost = d.lost
        /\ e.pending = d.pending
    BY <2>1 DEF Has, Calc, Form, Fields
  <2>. HIDE DEF e
  <2>4. Calc(e) /\ Extra(e) = Extra(d) /\ \A a \in Arrays : Spare(e, a) = Spare(d, a)
    BY <2>1, <2>3 DEF Has, Calc, Extra, Spare
  <2>5. Has(b, e, None, None, None)  BY <2>1, <2>3, <2>4 DEF Has
  <2>. QED  BY <2>2, <2>5 DEF Settled, Fine
<1>. QED  BY <1>2, <1>3

LEMMA RecallTwoSettled ==
    ASSUME NEW b, Base(b), NEW q \in two_reals(b),
           NEW o \in IF q.err = "NONE"
                     THEN Done(recall_two_results(q.calc, q.v[1], q.v[2]))
                          \cup Done(recall_two_results(q.calc, q.v[2], q.v[1]))
                     ELSE {q}
    PROVE  Settled(b, o)
<1>1. PairMade(b, q)  BY PairsMade
<1>2. CASE q.err # "NONE"  BY <1>1, <1>2 DEF PairMade, Settled
<1>3. CASE q.err = "NONE"
  <2>. DEFINE p == q.v[1]
              r == q.v[2]
  <2>1. Has(b, q.calc, p, r, None) /\ p # None /\ r # None  BY <1>1, <1>3 DEF PairMade
  <2>2. Has(b, q.calc, r, p, None)  BY <2>1, Swapped
  <2>3. Has(b, recall_two_results(q.calc, p, r), None, None, None)  BY <2>1, RecalledTwo
  <2>4. Has(b, recall_two_results(q.calc, r, p), None, None, None)  BY <2>1, <2>2, RecalledTwo
  <2>5. /\ o.calc \in {recall_two_results(q.calc, p, r), recall_two_results(q.calc, r, p)}
        /\ o.err = "NONE"
    BY <1>3, OutcomeIs DEF Done, Ends
  <2>. QED  BY <2>3, <2>4, <2>5 DEF Settled, Fine
<1>. QED  BY <1>2, <1>3

\* Determinant and inverse: an error is reported by their completion.
LEMMA UnarySlices ==
    ASSUME NEW b, Base(b), NEW how, how = [kind |-> "unary"]
    PROVE  /\ AllSettled(b, Completes(Fails(b, {"DIMENSION_ERROR", "INSUFFICIENT_MEMORY"}), how))
           /\ AllSettled(b, Completes(Ends(b, "ALPHA_DATA_IS_INVALID"), how))
           /\ \A op \in {"det", "inv"}, type \in ScalarTypes \cup MatrixTypes :
                  AllRight(b, Starts(b, op, type, how))
<1>1. TempOf(how) = None /\ \A types : Fits(how, types)  BY DEF TempOf, Fits, HowFits
<1>2. Has(b, b, TempOf(how), None, None) /\ Seen(b, b)  BY <1>1, HasNothing
<1>3. Fits(how, MatrixTypes)  BY <1>1
<1>4. \A outs : AllMade(b, outs) /\ OfTypes(outs, MatrixTypes) => AllSettled(b, Completes(outs, how))
  BY <1>2, <1>3, CompletesAll
<1>5. "NONE" \notin {"DIMENSION_ERROR", "INSUFFICIENT_MEMORY"} /\ "ALPHA_DATA_IS_INVALID" # "NONE"
  OBVIOUS
<1>. QED  BY <1>1, <1>2, <1>4, <1>5, EndsSettled, StartsGo

LEMMA MatricesRight ==
    ASSUME NEW b, Base(b)
    PROVE  AllRight(b, Matrices(b))
<1>1. /\ \A E : AllSettled(b, Fails(b, E))
      /\ \A v : AllSettled(b, Rejects(b, v))
      /\ \A e : AllSettled(b, Ends(b, e))
      /\ AllSettled(b, Done(b))
  BY EndsSettled
<1>2. /\ AllSettled(b, Unary(new_real(b))) /\ AllSettled(b, Binary(new_real(b)))
      /\ AllSettled(b, Binary(new_complex(b))) /\ AllSettled(b, Binary(new_matrix(b, "realmatrix")))
      /\ AllSettled(b, Unary(new_matrix(b, "realmatrix")))
      /\ \A type \in MatrixTypes : AllSettled(b, Unary(new_matrix(b, type)))
  BY ResultsOfNumbers DEF MatrixTypes
<1>3. \A S, T : AllSettled(b, S) /\ AllSettled(b, T) => AllSettled(b, S \cup T)
  BY TwoSettled
<1>4. AllSettled(b, docmd_newmat(b))
  BY <1>1, <1>2, <1>3 DEF docmd_newmat
<1>5. AllSettled(b, docmd_dim_t(b))
  <2>1. docmd_dim_t(b) = Rejects(b, x(b)) \/ docmd_dim_t(b) = Splits(two_reals(b))
    BY DEF docmd_dim_t, Splits, Then
  <2>2. AllSettled(b, Splits(two_reals(b)))  BY PairsSettled
  <2>. QED  BY <1>1, <2>1, <2>2
<1>6. AllSettled(b, docmd_cross(b))
  <2>1. \/ docmd_cross(b) \in {Ends(b, "ALPHA_DATA_IS_INVALID"), Ends(b, "INVALID_TYPE")}
        \/ docmd_cross(b) = Binary(new_real(b)) \cup Ends(b, "OUT_OF_RANGE")
        \/ docmd_cross(b) = Ends(b, "DIMENSION_ERROR") \cup Ends(b, "ALPHA_DATA_IS_INVALID")
        \/ docmd_cross(b) = Ends(b, "DIMENSION_ERROR")
                            \cup (Binary(new_matrix(b, "realmatrix")) \cup Ends(b, "OUT_OF_RANGE"))
    BY DEF docmd_cross
  <2>. QED  BY <1>1, <1>2, <1>3, <2>1
<1>7. AllSettled(b, docmd_dot(b))
  <2>1. \/ docmd_dot(b) \in {Ends(b, "ALPHA_DATA_IS_INVALID"), Ends(b, "INVALID_TYPE")}
        \/ docmd_dot(b) = Binary(new_real(b)) \cup Ends(b, "OUT_OF_RANGE")
        \/ docmd_dot(b) = Ends(b, "DIMENSION_ERROR") \cup Ends(b, "ALPHA_DATA_IS_INVALID")
        \/ docmd_dot(b) = Ends(b, "DIMENSION_ERROR") \cup (Binary(new_real(b)) \cup Ends(b, "OUT_OF_RANGE"))
        \/ docmd_dot(b) = Ends(b, "DIMENSION_ERROR") \cup (Binary(new_complex(b)) \cup Ends(b, "OUT_OF_RANGE"))
    BY DEF docmd_dot
  <2>. QED  BY <1>1, <1>2, <1>3, <2>1
<1>8. AllSettled(b, Norm(b)) /\ AllSettled(b, docmd_rsum(b))
  BY <1>1, <1>2, <1>3 DEF Norm, docmd_rsum, IsMatrix
<1>9. AllSettled(b, docmd_uvec(b))
  <2>1. \/ docmd_uvec(b) \in {Ends(b, "ALPHA_DATA_IS_INVALID"), Ends(b, "INVALID_TYPE"), Rejects(b, x(b))}
        \/ docmd_uvec(b) = docmd_sign(b) \cup Ends(b, "INVALID_DATA")
        \/ docmd_uvec(b) = Unary(new_matrix(b, "realmatrix")) \cup Fails(b, {"OUT_OF_RANGE", "INVALID_DATA"})
    BY DEF docmd_uvec
  <2>2. AllSettled(b, docmd_sign(b))  BY PartsSettled DEF Parts, AllSettled
  <2>. QED  BY <1>1, <1>2, <1>3, <2>1, <2>2
<1>10. AllSettled(b, docmd_trans(b))
  <2>. DEFINE S == UNION {IF q.err = "NONE"
                          THEN Done([unary_result(q.calc, q.v) EXCEPT !.data[q.v.array] = b.data[x(b).array]])
                          ELSE {q} : q \in new_matrix(b, x(b).type)}
  <2>1. /\ ~IsMatrix(x(b)) => docmd_trans(b) = Rejects(b, x(b))
        /\ IsMatrix(x(b)) => docmd_trans(b) = S
    <3>1. ASSUME ~IsMatrix(x(b)) PROVE docmd_trans(b) = Rejects(b, x(b))
      BY <3>1 DEF docmd_trans
    <3>2. ASSUME IsMatrix(x(b)) PROVE docmd_trans(b) = S
      BY <3>2, Zenon DEF docmd_trans, Then
    <3>. QED  BY <3>1, <3>2
  <2>2. IsMatrix(x(b)) => AllSettled(b, S)  BY TransSettled DEF AllSettled
  <2>. QED  BY <1>1, <2>1, <2>2
<1>11. AllSettled(b, docmd_rclij(b)) /\ AllSettled(b, max_min_helper(b))
  <2>. DEFINE S == UNION {IF q.err = "NONE"
                          THEN Done(recall_two_results(q.calc, q.v[1], q.v[2]))
                               \cup Done(recall_two_results(q.calc, q.v[2], q.v[1]))
                          ELSE {q} : q \in two_reals(b)}
  <2>1. AllSettled(b, S)  BY RecallTwoSettled DEF AllSettled
  <2>2. docmd_rclij(b) \subseteq Ends(b, "NONEXISTENT") \cup S
    BY DEF docmd_rclij, Then
  <2>3. max_min_helper(b) \subseteq
            Fails(b, {"NONEXISTENT", "INVALID_TYPE", "ALPHA_DATA_IS_INVALID"}) \cup S
    BY DEF max_min_helper, Then
  <2>. HIDE DEF S
  <2>. QED  BY <1>1, <2>1, <2>2, <2>3 DEF AllSettled
<1>12. AllSettled(b, docmd_find(b))  BY <1>1 DEF docmd_find
<1>13. AllRight(b, docmd_det(b)) /\ AllRight(b, docmd_invrt(b))
  <2>. DEFINE how == [kind |-> "unary"]
              fails == Completes(Fails(b, {"DIMENSION_ERROR", "INSUFFICIENT_MEMORY"}), how)
              texts == Completes(Ends(b, "ALPHA_DATA_IS_INVALID"), how)
  <2>1. /\ AllSettled(b, fails) /\ AllSettled(b, texts)
        /\ \A op \in {"det", "inv"}, type \in ScalarTypes \cup MatrixTypes :
               AllRight(b, Starts(b, op, type, how))
    BY UnarySlices
  <2>2. \/ docmd_det(b) = Rejects(b, x(b))
        \/ docmd_det(b) = fails \cup texts
        \/ docmd_det(b) = fails \cup Starts(b, "det", "real", how)
        \/ docmd_det(b) = fails \cup Starts(b, "det", "complex", how)
    BY DEF docmd_det
  <2>3. \/ docmd_invrt(b) = Rejects(b, x(b))
        \/ docmd_invrt(b) = fails \cup texts
        \/ \E type \in ScalarTypes \cup MatrixTypes : docmd_invrt(b) = fails \cup Starts(b, "inv", type, how)
    BY DEF docmd_invrt, IsMatrix
  <2>4. "real" \in ScalarTypes \cup MatrixTypes /\ "complex" \in ScalarTypes \cup MatrixTypes
    BY DEF ScalarTypes
  <2>. HIDE DEF fails, texts, how
  <2>. QED  BY <1>1, <2>1, <2>2, <2>3, <2>4 DEF AllSettled, AllRight, Right
<1>. QED
  BY <1>4, <1>5, <1>6, <1>7, <1>8, <1>9, <1>10, <1>11, <1>12, <1>13
  DEF Matrices, docmd_fnrm, docmd_rnrm, AllSettled, AllRight, Right

\* Nothing that a command makes of the sums goes to a place where something else is.
LEMMA AccumulateSettled ==
    ASSUME NEW b, Base(b), IsMatrix(b.slot["REGS"]), NEW o \in Unchecked(Accumulate(b))
    PROVE  Settled(b, o)
<1>1. PICK w \in WritesBy("statistics", b, "REGS", {b.data[b.slot["REGS"].array]}) :
           \E p \in Then(Unary(new_real(w.calc)), LAMBDA d, v : Done(d)) :
               o = Outcome([p.calc EXCEPT !.disable = TRUE], p.err, None)
  BY DEF Accumulate, Unchecked
<1>. DEFINE S == Unary(new_real(w.calc))
<1>10. PICK p \in UNION {IF q.err = "NONE" THEN Done(q.calc) ELSE {q} : q \in S} :
           o = Outcome([p.calc EXCEPT !.disable = TRUE], p.err, None)
  BY <1>1 DEF Then
<1>11. PICK r \in S : p \in IF r.err = "NONE" THEN Done(r.calc) ELSE {r}
  BY <1>10
<1>12. o.calc = [r.calc EXCEPT !.disable = TRUE] /\ o.err = "NONE"
  <2>1. p.calc = r.calc  BY <1>11, OutcomeIs DEF Done, Ends
  <2>2. o.err = "NONE"  BY DEF Unchecked
  <2>3. o.calc = [p.calc EXCEPT !.disable = TRUE]  BY <1>10, OutcomeIs
  <2>. QED  BY <2>1, <2>2, <2>3
<1>2. Has(b, w.calc, None, None, None)  BY Written, SlotFacts
<1>3. Base(w.calc)  BY <1>2, HasIsBase
<1>4. Settled(w.calc, r)  BY <1>3, ResultsOfNumbers DEF AllSettled
<1>5. Has(b, r.calc, None, None, None)  BY <1>2, <1>4, HasMore DEF Settled
<1>. DEFINE d == r.calc
            e == [d EXCEPT !.disable = TRUE]
<1>6. /\ Form(e) /\ e.slot = d.slot /\ e.refs = d.refs /\ e.live = d.live /\ e.lost = d.lost
      /\ e.pending = d.pending
  BY <1>5 DEF Has, Calc, Form, Fields
<1>7. o.calc = e  BY <1>12
<1>. HIDE DEF e
<1>8. Calc(e) /\ Extra(e) = Extra(d) /\ \A a \in Arrays : Spare(e, a) = Spare(d, a)
  BY <1>5, <1>6 DEF Has, Calc, Extra, Spare
<1>9. Has(b, e, None, None, None)  BY <1>5, <1>6, <1>8 DEF Has
<1>. QED  BY <1>7, <1>9, <1>12 DEF Settled, Fine

\* What a value that is left behind counts for, is counted as lost.
LEMMA LeftBehind ==
    ASSUME NEW b, Base(b), NEW q \in new_real(b),
           NEW o \in IF q.err = "NONE" THEN Ends([q.calc EXCEPT !.lost = @ + 1], "STAT_MATH_ERROR") ELSE {q}
    PROVE  Settled(b, o)
<1>1. Made(b, q) /\ (q.err = "NONE" => q.v.type = "real")
  BY NumbersMade DEF AllMade, OfTypes
<1>2. CASE q.err # "NONE"  BY <1>1, <1>2 DEF Made, Settled
<1>3. CASE q.err = "NONE"
  <2>. DEFINE d == q.calc
              e == [d EXCEPT !.lost = @ + 1]
  <2>1. Has(b, d, q.v, None, None) /\ Seen(b, d)  BY <1>1, <1>3 DEF Made
  <2>2. V(q.v) = 1 /\ \A a : M(q.v, a) = 0
    BY <1>1, <1>3, ValueFacts DEF Made, M, IsMatrix, MatrixTypes
  <2>3. o.calc = e  BY <1>3, OutcomeIs DEF Ends
  <2>4. d.lost \in Nat /\ DOMAIN d = Fields  BY <2>1 DEF Has, Calc, Form
  <2>5. /\ Form(e) /\ e.slot = d.slot /\ e.refs = d.refs /\ e.live = d.live /\ e.lost = d.lost + 1
        /\ e.pending = d.pending /\ e.data = d.data
    BY <2>1, <2>4 DEF Has, Calc, Form, Fields
  <2>. HIDE DEF e, d
  <2>6. Calc(e) /\ Extra(e) = Extra(d) - 1 /\ \A a \in Arrays : Spare(e, a) = Spare(d, a)
    BY <2>1, <2>4, <2>5, Numbered DEF Has, Calc, Extra, Spare
  <2>7. Extra(b) \in Int /\ (\A a \in Arrays : Spare(b, a) \in Int) /\ b.lost \in Nat
    BY Numbered DEF Base, Calc, Form
  <2>8. Has(b, e, None, None, None)
    BY <2>1, <2>2, <2>4, <2>5, <2>6, <2>7, ValueFacts DEF Has
  <2>9. Seen(b, e)  BY <2>1, <2>5 DEF Seen, Visible
  <2>. QED  BY <2>3, <2>8, <2>9 DEF Settled
<1>. QED  BY <1>2, <1>3

LEMMA StatisticsSettled ==
    ASSUME NEW b, Base(b)
    PROVE  AllSettled(b, Statistics(b))
<1>. DEFINE adds == Unchecked(Accumulate(b))
<1>1. /\ \A E : AllSettled(b, Fails(b, E))
      /\ \A v : AllSettled(b, Rejects(b, v))
      /\ \A e : AllSettled(b, Ends(b, e))
      /\ AllSettled(b, Done(b))
      /\ AllSettled(b, {})
  BY EndsSettled DEF AllSettled
<1>2. AllSettled(b, Recalls(new_real(b)))  BY ResultsOfNumbers
<1>3. \A S, T : AllSettled(b, S) /\ AllSettled(b, T) => AllSettled(b, S \cup T)
  BY TwoSettled
<1>4. AllSettled(b, Forecast(b))  BY MapsXSettled DEF Forecast
<1>5. AllSettled(b, Replaces(b))  BY PairsSettled
<1>6. SumsUsable(b) => AllSettled(b, adds)
  BY AccumulateSettled DEF SumsUsable, AllSettled, recall_var, IsMatrix, MatrixTypes
<1>7. ASSUME NEW S, NEW E, AllSettled(b, S) PROVE AllSettled(b, Fails(b, E) \cup IF SumsUsable(b) THEN S ELSE {})
  BY <1>1, <1>3, <1>7
<1>8. AllSettled(b, docmd_best(b))
  BY <1>1, <1>7 DEF docmd_best, WithSums
<1>9. /\ AllSettled(b, docmd_corr(b)) /\ AllSettled(b, docmd_slope(b))
      /\ AllSettled(b, docmd_yint(b)) /\ AllSettled(b, docmd_wmean(b))
  BY <1>2, <1>7 DEF docmd_corr, docmd_slope, docmd_yint, docmd_wmean, WithSums
<1>10. AllSettled(b, docmd_fcstx(b)) /\ AllSettled(b, docmd_fcsty(b))
  BY <1>4, <1>7 DEF docmd_fcstx, docmd_fcsty, WithSums
<1>11. AllSettled(b, docmd_mean(b)) /\ AllSettled(b, docmd_sum(b))
  BY <1>5, <1>7 DEF docmd_mean, docmd_sum, WithSums
<1>12. AllSettled(b, docmd_sdev(b))
  <2>. DEFINE S == UNION {IF q.err = "NONE" THEN Ends([q.calc EXCEPT !.lost = @ + 1], "STAT_MATH_ERROR")
                          ELSE {q} : q \in new_real(b)}
  <2>1. AllSettled(b, S)  BY LeftBehind DEF AllSettled
  <2>2. docmd_sdev(b) = Fails(b, StatErrors(b)) \cup IF SumsUsable(b) THEN Replaces(b) \cup S ELSE {}
    BY DEF docmd_sdev, WithSums, Then
  <2>. HIDE DEF S
  <2>3. AllSettled(b, Replaces(b) \cup S)  BY <1>3, <1>5, <2>1
  <2>. QED  BY <1>7, <2>2, <2>3
<1>13. AllSettled(b, sigma_helper_1(b))
  <2>. DEFINE body == CASE x(b).type = "real" ->
                               IF y(b).type # "real" THEN Rejects(b, y(b))
                               ELSE adds \cup Ends(b, "INSUFFICIENT_MEMORY")
                        [] x(b).type = "realmatrix" ->
                               Ends(b, "DIMENSION_ERROR")
                               \cup IF ContainsStrings(b, x(b)) THEN Ends(b, "ALPHA_DATA_IS_INVALID")
                                    ELSE adds \cup Ends(b, "INSUFFICIENT_MEMORY")
                        [] OTHER -> Rejects(b, x(b))
  <2>1. sigma_helper_1(b) = Fails(b, get_summation(b)) \cup IF SumsUsable(b) THEN body ELSE {}
    BY DEF sigma_helper_1, WithSums
  <2>. HIDE DEF adds
  <2>2. \/ body \in {Rejects(b, x(b)), Rejects(b, y(b)), adds \cup Ends(b, "INSUFFICIENT_MEMORY"),
                     Ends(b, "DIMENSION_ERROR") \cup Ends(b, "ALPHA_DATA_IS_INVALID"),
                     Ends(b, "DIMENSION_ERROR") \cup (adds \cup Ends(b, "INSUFFICIENT_MEMORY"))}
    <3>1. CASE x(b).type = "real"  BY <3>1
    <3>2. CASE x(b).type = "realmatrix"  BY <3>2
    <3>3. CASE x(b).type \notin {"real", "realmatrix"}  BY <3>3
    <3>. QED  BY <3>1, <3>2, <3>3
  <2>. HIDE DEF body
  <2>3. SumsUsable(b) => AllSettled(b, body)
    BY <1>1, <1>3, <1>6, <2>2
  <2>. QED  BY <1>1, <1>3, <2>1, <2>3
<1>. QED
  BY <1>8, <1>9, <1>10, <1>11, <1>12, <1>13
  DEF Statistics, docmd_sigmaadd, docmd_sigmasub, AllSettled

-----------------------------------------------------------------------------
\* Slots that are emptied and filled.

\* The accounts of e are those of c, but for what is in hands.
LEMMA Recounted ==
    ASSUME NEW b, NEW c, NEW u, NEW v, NEW w, Has(b, c, u, v, w), NEW e, Form(e), Proper(e.slot),
           IsFiniteSet(HeldBy(e.slot)), e.lost = c.lost, e.pending = c.pending,
           NEW p, NEW q, NEW r, Value(p), Value(q), Value(r),
           Extra(e) - Extra(c) = V(p) + V(q) + V(r) - V(u) - V(v) - V(w),
           \A a \in Arrays : Spare(e, a) - Spare(c, a) = M(p, a) + M(q, a) + M(r, a) - M(u, a) - M(v, a) - M(w, a)
    PROVE  Has(b, e, p, q, r)
<1>1. Calc(e)  BY DEF Calc
<1>2. /\ Extra(b) \in Int /\ Extra(c) \in Int /\ Extra(e) \in Int
      /\ \A a \in Arrays : Spare(b, a) \in Int /\ Spare(c, a) \in Int /\ Spare(e, a) \in Int
  BY <1>1, Numbered DEF Has, Base
<1>3. Extra(e) = Extra(b) + V(p) + V(q) + V(r)
  <2>1. Extra(c) = Extra(b) + V(u) + V(v) + V(w)  BY DEF Has
  <2>2. Extra(e) - Extra(c) = V(p) + V(q) + V(r) - V(u) - V(v) - V(w)  OBVIOUS
  <2>3. \A k : V(k) \in Int  BY ValueFacts
  <2>4. PICK f \in Int, g \in Int, h \in Int : f = Extra(b) /\ g = Extra(c) /\ h = Extra(e)  BY <1>2
  <2>5. PICK u1 \in Int, v1 \in Int, w1 \in Int : u1 = V(u) /\ v1 = V(v) /\ w1 = V(w)  BY <2>3
  <2>6. PICK p1 \in Int, q1 \in Int, r1 \in Int : p1 = V(p) /\ q1 = V(q) /\ r1 = V(r)  BY <2>3
  <2>7. g = f + u1 + v1 + w1  BY <2>1, <2>4, <2>5
  <2>8. h - g = p1 + q1 + r1 - u1 - v1 - w1  BY <2>2, <2>4, <2>5, <2>6
  <2>9. h = f + p1 + q1 + r1  BY <2>7, <2>8
  <2>. QED  BY <2>4, <2>6, <2>9
<1>4. ASSUME NEW a \in Arrays PROVE Spare(e, a) = Spare(b, a) + M(p, a) + M(q, a) + M(r, a)
  <2>1. Spare(c, a) = Spare(b, a) + M(u, a) + M(v, a) + M(w, a)  BY DEF Has
  <2>2. Spare(e, a) - Spare(c, a) = M(p, a) + M(q, a) + M(r, a) - M(u, a) - M(v, a) - M(w, a)  OBVIOUS
  <2>3. \A k : M(k, a) \in Int  BY ValueFacts
  <2>4. PICK f \in Int, g \in Int, h \in Int : f = Spare(b, a) /\ g = Spare(c, a) /\ h = Spare(e, a)  BY <1>2
  <2>5. PICK u1 \in Int, v1 \in Int, w1 \in Int : u1 = M(u, a) /\ v1 = M(v, a) /\ w1 = M(w, a)  BY <2>3
  <2>6. PICK p1 \in Int, q1 \in Int, r1 \in Int : p1 = M(p, a) /\ q1 = M(q, a) /\ r1 = M(r, a)  BY <2>3
  <2>7. g = f + u1 + v1 + w1  BY <2>1, <2>4, <2>5
  <2>8. h - g = p1 + q1 + r1 - u1 - v1 - w1  BY <2>2, <2>4, <2>5, <2>6
  <2>9. h = f + p1 + q1 + r1  BY <2>7, <2>8
  <2>. QED  BY <2>4, <2>6, <2>9
<1>. QED  BY <1>1, <1>3, <1>4 DEF Has

LEMMA Lessened ==
    ASSUME NEW S, IsFiniteSet(S), NEW T
    PROVE  /\ Cardinality(S) \in Nat /\ Cardinality(T \cap S) \in Nat /\ IsFiniteSet(S \ T)
           /\ Cardinality(S \ T) = Cardinality(S) - Cardinality(T \cap S)
<1>1. S \cap T = T \cap S  OBVIOUS
<1>2. IsFiniteSet(T \cap S)  BY FS_Intersection
<1>3. IsFiniteSet(S \ T) /\ Cardinality(S \ T) = Cardinality(S) - Cardinality(S \cap T)
  BY FS_Difference
<1>. QED  BY <1>1, <1>2, <1>3, FS_CardinalityType

LEMMA Cleared ==
    ASSUME NEW c, Form(c), IsFiniteSet(HeldBy(c.slot)), NEW slots, slots \subseteq Slots
    PROVE  LET d == Clear(c, slots)
           IN  /\ Form(d) /\ d.lost = c.lost /\ d.pending = c.pending
               /\ IsFiniteSet(HeldBy(d.slot))
               /\ Extra(d) = Extra(c) /\ \A a \in Arrays : Spare(d, a) = Spare(c, a)
               /\ \A s \in slots : d.slot[s] = None
               /\ \A s \in Slots \ slots : d.slot[s] = c.slot[s]
<1>. DEFINE d == Clear(c, slots)
            H == HeldBy(c.slot)
<1>1. Held(c) = H /\ \A a : Holders(c, a) = HoldersBy(c.slot, a)
  BY DEF Held, HeldBy, Holders, HoldersBy
<1>2. /\ Cardinality(H) \in Nat /\ Cardinality(slots \cap H) \in Nat
      /\ IsFiniteSet(H \ slots)
      /\ Cardinality(H \ slots) = Cardinality(H) - Cardinality(slots \cap H)
  BY Lessened
<1>3. \A a : /\ Cardinality(HoldersBy(c.slot, a)) \in Nat
             /\ Cardinality(slots \cap HoldersBy(c.slot, a)) \in Nat
             /\ Cardinality(HoldersBy(c.slot, a) \ slots) =
                    Cardinality(HoldersBy(c.slot, a)) - Cardinality(slots \cap HoldersBy(c.slot, a))
  BY CountsAreNumbers, Lessened
<1>4. /\ DOMAIN d = Fields /\ DOMAIN d.slot = Slots /\ DOMAIN d.refs = Arrays /\ DOMAIN d.data = Arrays
      /\ d.lost = c.lost /\ d.pending = c.pending /\ d.shared = c.shared
      /\ d.live = c.live - Cardinality(slots \cap H)
      /\ \A a \in Arrays : d.refs[a] = c.refs[a] - Cardinality(slots \cap HoldersBy(c.slot, a))
      /\ \A s \in slots : d.slot[s] = None
      /\ \A s \in Slots \ slots : d.slot[s] = c.slot[s]
  <2>. HIDE DEF H
  <2>. QED  BY <1>1 DEF Clear, Form, Fields
<1>. HIDE DEF d
<1>5. Form(d)
  <2>. HIDE DEF H
  <2>1. d.live \in Int  BY <1>2, <1>4 DEF Form
  <2>2. ASSUME NEW a \in Arrays PROVE d.refs[a] \in Int
    <3>1. c.refs[a] \in Int /\ Cardinality(slots \cap HoldersBy(c.slot, a)) \in Int  BY <1>3 DEF Form
    <3>. QED  BY <1>4, <3>1
  <2>. QED  BY <1>4, <2>1, <2>2 DEF Form
<1>6. HeldBy(d.slot) = H \ slots  BY <1>4 DEF HeldBy
<1>7. \A a : HoldersBy(d.slot, a) = HoldersBy(c.slot, a) \ slots
  BY <1>4, ValueFacts DEF HoldersBy
<1>8. Extra(d) = Extra(c)
  <2>1. c.live \in Int /\ c.lost \in Int  BY DEF Form
  <2>2. N(c.slot) = Cardinality(H) /\ N(d.slot) = Cardinality(H \ slots)  BY <1>6 DEF N
  <2>. HIDE DEF H
  <2>. QED  BY <1>2, <1>4, <2>1, <2>2 DEF Extra
<1>9. ASSUME NEW a \in Arrays PROVE Spare(d, a) = Spare(c, a)
  <2>1. c.refs[a] \in Int  BY DEF Form
  <2>2. K(c.slot, a) = Cardinality(HoldersBy(c.slot, a)) /\ K(d.slot, a) = Cardinality(HoldersBy(c.slot, a) \ slots)
    BY <1>7 DEF K
  <2>3. d.refs[a] = c.refs[a] - Cardinality(slots \cap HoldersBy(c.slot, a))  BY <1>4
  <2>4. Spare(d, a) = d.refs[a] - K(d.slot, a) /\ Spare(c, a) = c.refs[a] - K(c.slot, a)  BY DEF Spare
  <2>5. /\ Cardinality(HoldersBy(c.slot, a)) \in Int
        /\ Cardinality(slots \cap HoldersBy(c.slot, a)) \in Int
        /\ Cardinality(HoldersBy(c.slot, a) \ slots) =
               Cardinality(HoldersBy(c.slot, a)) - Cardinality(slots \cap HoldersBy(c.slot, a))
    BY <1>3
  <2>. QED  BY <2>1, <2>2, <2>3, <2>4, <2>5
<1>. QED  BY <1>2, <1>4, <1>5, <1>6, <1>8, <1>9 DEF d

LEMMA Zeroed ==
    ASSUME NEW d, Form(d), IsFiniteSet(HeldBy(d.slot)), NEW slots, slots \subseteq Slots,
           IsFiniteSet(slots), \A s \in slots : d.slot[s] = None
    PROVE  LET e == Zeroes(d, slots)
           IN  /\ Form(e) /\ e.lost = d.lost /\ e.pending = d.pending
               /\ IsFiniteSet(HeldBy(e.slot))
               /\ Extra(e) = Extra(d) /\ \A a \in Arrays : Spare(e, a) = Spare(d, a)
               /\ \A s \in slots : e.slot[s] = Scalar("real")
               /\ \A s \in Slots \ slots : e.slot[s] = d.slot[s]
<1>. DEFINE e == Zeroes(d, slots)
            H == HeldBy(d.slot)
<1>1. /\ Cardinality(H) \in Nat /\ Cardinality(slots) \in Nat
      /\ IsFiniteSet(H \cup slots)
      /\ Cardinality(H \cup slots) = Cardinality(H) + Cardinality(slots)
  <2>1. H \cap slots = {}  BY DEF HeldBy
  <2>. QED  BY <2>1, FS_Union, FS_EmptySet, FS_CardinalityType
<1>2. /\ Form(e) /\ e.lost = d.lost /\ e.pending = d.pending /\ e.refs = d.refs
      /\ e.live = d.live + Cardinality(slots)
      /\ \A s \in slots : e.slot[s] = Scalar("real")
      /\ \A s \in Slots \ slots : e.slot[s] = d.slot[s]
  <2>. HIDE DEF H
  <2>. QED  BY <1>1 DEF Zeroes, Form, Fields
<1>. HIDE DEF e
<1>3. Scalar("real") # None /\ ~IsMatrix(Scalar("real")) /\ ~IsMatrix(None)
  BY ValueFacts DEF ScalarTypes
<1>4. HeldBy(e.slot) = H \cup slots  BY <1>2, <1>3 DEF HeldBy
<1>5. \A a : HoldersBy(e.slot, a) = HoldersBy(d.slot, a)
  BY <1>2, <1>3 DEF HoldersBy
<1>6. Extra(e) = Extra(d)
  <2>1. d.live \in Int /\ d.lost \in Int  BY DEF Form
  <2>2. N(d.slot) = Cardinality(H) /\ N(e.slot) = Cardinality(H \cup slots)  BY <1>4 DEF N
  <2>. HIDE DEF H
  <2>. QED  BY <1>1, <1>2, <2>1, <2>2 DEF Extra
<1>7. \A a \in Arrays : Spare(e, a) = Spare(d, a)  BY <1>2, <1>5 DEF Spare, K
<1>. QED  BY <1>1, <1>2, <1>4, <1>6, <1>7 DEF e

\* The stack gets other values.
LEMMA Filled ==
    ASSUME NEW d, Form(d), IsFiniteSet(HeldBy(d.slot)), NEW g, DOMAIN g = Slots,
           \A s \in Slots \ Stack : g[s] = d.slot[s]
    PROVE  LET e == [d EXCEPT !.slot = g]
           IN  /\ Form(e) /\ e.lost = d.lost /\ e.pending = d.pending /\ e.slot = g
               /\ IsFiniteSet(HeldBy(g))
               /\ Extra(e) = Extra(d) + OnStack(d.slot) - OnStack(g)
               /\ \A a \in Arrays : Spare(e, a) = Spare(d, a) + ArrayOnStack(d.slot, a) - ArrayOnStack(g, a)
<1>. DEFINE e == [d EXCEPT !.slot = g]
<1>1. /\ Form(e) /\ e.lost = d.lost /\ e.pending = d.pending /\ e.slot = g /\ e.live = d.live /\ e.refs = d.refs
  BY DEF Form, Fields
<1>. HIDE DEF e
<1>2. /\ IsFiniteSet(HeldBy(g))
      /\ N(g) = N(d.slot) - OnStack(d.slot) + OnStack(g)
      /\ \A a : K(g, a) = K(d.slot, a) - ArrayOnStack(d.slot, a) + ArrayOnStack(g, a)
  BY FiveSlots DEF Form
<1>3. /\ N(d.slot) \in Int /\ d.live \in Int /\ d.lost \in Int
      /\ \A a : K(d.slot, a) \in Int
      /\ \A a \in Arrays : d.refs[a] \in Int
  BY CountsAreNumbers DEF Form
<1>4. /\ OnStack(d.slot) \in Int /\ OnStack(g) \in Int
      /\ \A a : ArrayOnStack(d.slot, a) \in Int /\ ArrayOnStack(g, a) \in Int
  BY ValueFacts DEF OnStack, ArrayOnStack
<1>5. Extra(e) = Extra(d) + OnStack(d.slot) - OnStack(g)
  BY <1>1, <1>2, <1>3, <1>4 DEF Extra
<1>6. \A a \in Arrays : Spare(e, a) = Spare(d, a) + ArrayOnStack(d.slot, a) - ArrayOnStack(g, a)
  BY <1>1, <1>2, <1>3, <1>4 DEF Spare
<1>. QED  BY <1>1, <1>2, <1>5, <1>6 DEF e

-----------------------------------------------------------------------------
\* Moves on the stack.

\* The same values, elsewhere on the stack.
LEMMA Rearranged ==
    ASSUME NEW b, Base(b), NEW g, DOMAIN g = Slots, \A s \in Slots \ Stack : g[s] = b.slot[s],
           \A s \in Stack : Value(g[s]) /\ g[s] # None,
           OnStack(g) = OnStack(b.slot), \A a : ArrayOnStack(g, a) = ArrayOnStack(b.slot, a)
    PROVE  Has(b, [b EXCEPT !.slot = g], None, None, None)
<1>. DEFINE e == [b EXCEPT !.slot = g]
<1>1. /\ Form(e) /\ e.lost = b.lost /\ e.pending = b.pending /\ e.slot = g
      /\ e.live = b.live /\ e.refs = b.refs
  BY DEF Form, Fields, Base, Calc
<1>. HIDE DEF e
<1>2. Has(b, b, None, None, None)  BY HasNothing
<1>3. OnStack(g) \in Int /\ \A a : ArrayOnStack(g, a) \in Int
  BY OnStackIs DEF Base
<1>4. e.live - b.live = OnStack(e.slot) - OnStack(b.slot) - V(None) - V(None)
  BY <1>1, <1>3, ValueFacts DEF Base, Calc, Form
<1>5. \A a \in Arrays : e.refs[a] - b.refs[a] =
          ArrayOnStack(e.slot, a) - ArrayOnStack(b.slot, a) - M(None, a) - M(None, a)
  BY <1>1, <1>3, ValueFacts DEF Base, Calc, Form
<1>6. \A s \in Slots \ Stack : e.slot[s] = b.slot[s]  BY <1>1
<1>7. \A s \in Stack : Value(e.slot[s]) /\ e.slot[s] # None  BY <1>1
<1>8. Has(b, e, None, None, None)  BY <1>1, <1>2, <1>4, <1>5, <1>6, <1>7, StackMoves
<1>. QED  BY <1>8 DEF e

LEMMA OneDone ==
    ASSUME NEW b, NEW c, Has(b, c, None, None, None)
    PROVE  AllSettled(b, Done(c))
BY OutcomeIs DEF AllSettled, Settled, Done, Ends, Fine

LEMMA TurnsSettled ==
    ASSUME NEW b, Base(b)
    PROVE  AllSettled(b, docmd_swap(b)) /\ AllSettled(b, docmd_rdn(b)) /\ AllSettled(b, docmd_rup(b))
<1>1. /\ DOMAIN b.slot = Slots
      /\ \A s \in Stack : Value(b.slot[s]) /\ b.slot[s] # None
  BY OnStackIs DEF Base
<1>2. \A s \in Stack : V(b.slot[s]) \in Int /\ \A a : M(b.slot[s], a) \in Int
  BY ValueFacts
<1>3. ASSUME NEW g, DOMAIN g = Slots, \A s \in Slots \ Stack : g[s] = b.slot[s], g["l"] = b.slot["l"],
             \/ /\ g["x"] = b.slot["y"] /\ g["y"] = b.slot["x"]
                /\ g["z"] = b.slot["z"] /\ g["t"] = b.slot["t"]
             \/ /\ g["x"] = b.slot["y"] /\ g["y"] = b.slot["z"]
                /\ g["z"] = b.slot["t"] /\ g["t"] = b.slot["x"]
             \/ /\ g["y"] = b.slot["x"] /\ g["z"] = b.slot["y"]
                /\ g["t"] = b.slot["z"] /\ g["x"] = b.slot["t"]
      PROVE  AllSettled(b, Done([b EXCEPT !.slot = g]))
  <2>1. \A s \in Stack : Value(g[s]) /\ g[s] # None  BY <1>1, <1>3 DEF Stack
  <2>2. OnStack(g) = OnStack(b.slot)  BY <1>2, <1>3 DEF OnStack, Stack
  <2>3. ASSUME NEW a PROVE ArrayOnStack(g, a) = ArrayOnStack(b.slot, a)
    BY <1>2, <1>3 DEF ArrayOnStack, Stack
  <2>. QED  BY <1>3, <2>1, <2>2, <2>3, Rearranged, OneDone
<1>4. AllSettled(b, docmd_swap(b))
  <2>. DEFINE g == [b.slot EXCEPT !["x"] = y(b), !["y"] = x(b)]
  <2>1. docmd_swap(b) = Done([b EXCEPT !.slot = g])  BY DEF docmd_swap
  <2>2. /\ DOMAIN g = Slots /\ \A s \in Slots \ Stack : g[s] = b.slot[s]
        /\ g["l"] = b.slot["l"] /\ g["x"] = b.slot["y"] /\ g["y"] = b.slot["x"]
        /\ g["z"] = b.slot["z"] /\ g["t"] = b.slot["t"]
    BY <1>1, SlotFacts DEF x, y, Stack
  <2>. HIDE DEF g
  <2>. QED  BY <1>3, <2>1, <2>2
<1>5. AllSettled(b, docmd_rdn(b))
  <2>. DEFINE g == [b.slot EXCEPT !["x"] = y(b), !["y"] = b.slot["z"], !["z"] = b.slot["t"], !["t"] = x(b)]
  <2>1. docmd_rdn(b) = Done([b EXCEPT !.slot = g])  BY DEF docmd_rdn
  <2>2. /\ DOMAIN g = Slots /\ \A s \in Slots \ Stack : g[s] = b.slot[s]
        /\ g["l"] = b.slot["l"] /\ g["x"] = b.slot["y"] /\ g["y"] = b.slot["z"]
        /\ g["z"] = b.slot["t"] /\ g["t"] = b.slot["x"]
    BY <1>1, SlotFacts DEF x, y, Stack
  <2>. HIDE DEF g
  <2>. QED  BY <1>3, <2>1, <2>2
<1>6. AllSettled(b, docmd_rup(b))
  <2>. DEFINE g == [b.slot EXCEPT !["x"] = b.slot["t"], !["t"] = b.slot["z"], !["z"] = y(b), !["y"] = x(b)]
  <2>1. docmd_rup(b) = Done([b EXCEPT !.slot = g])  BY DEF docmd_rup
  <2>2. /\ DOMAIN g = Slots /\ \A s \in Slots \ Stack : g[s] = b.slot[s]
        /\ g["l"] = b.slot["l"] /\ g["y"] = b.slot["x"] /\ g["z"] = b.slot["y"]
        /\ g["t"] = b.slot["z"] /\ g["x"] = b.slot["t"]
    BY <1>1, SlotFacts DEF x, y, Stack
  <2>. HIDE DEF g
  <2>. QED  BY <1>3, <2>1, <2>2
<1>. QED  BY <1>4, <1>5, <1>6

LEMMA EnterSettled ==
    ASSUME NEW b, Base(b)
    PROVE  AllSettled(b, docmd_enter(b))
<1>. SUFFICES ASSUME NEW o \in docmd_enter(b) PROVE Settled(b, o)
  BY DEF AllSettled
<1>1. PICK q \in dup_vartype(b, x(b)) :
          o \in IF q.err = "NONE"
                THEN Done([free_vartype(q.calc, q.calc.slot["t"]) EXCEPT
                              !.disable = TRUE,
                              !.slot = [@ EXCEPT !["t"] = q.calc.slot["z"], !["z"] = y(q.calc), !["y"] = q.v]])
                ELSE {q}
  BY DEF docmd_enter, Then
<1>2. Made(b, q)  BY DupMade, Operands DEF AllMade
<1>3. CASE q.err # "NONE"  BY <1>1, <1>2, <1>3 DEF Made, Settled
<1>4. CASE q.err = "NONE"
  <2>. DEFINE c == q.calc
              v == q.v
              d == free_vartype(c, c.slot["t"])
              e == [d EXCEPT !.disable = TRUE,
                             !.slot = [@ EXCEPT !["t"] = c.slot["z"], !["z"] = c.slot["y"], !["y"] = v]]
  <2>1. o.calc = e /\ o.err = "NONE"  BY <1>1, <1>4, OutcomeIs DEF Done, Ends, y
  <2>2. Has(b, c, v, None, None) /\ v # None  BY <1>2, <1>4 DEF Made
  <2>. HIDE DEF c, v
  <2>3. Calc(c) /\ Value(c.slot["t"]) /\ Value(v)  BY <2>2, SlotFacts DEF Has, Calc, Proper
  <2>4. Freed(c, d, c.slot["t"])  BY <2>3, FreeingFrees DEF Calc
  <2>. HIDE DEF d
  <2>5. /\ Form(e) /\ e.lost = c.lost /\ e.pending = c.pending /\ e.live = d.live /\ e.refs = d.refs
        /\ e.slot["x"] = c.slot["x"] /\ e.slot["y"] = v /\ e.slot["z"] = c.slot["y"]
        /\ e.slot["t"] = c.slot["z"] /\ e.slot["l"] = c.slot["l"]
        /\ \A s \in Slots \ Stack : e.slot[s] = c.slot[s]
    BY <2>4, SlotFacts DEF Freed, Form, Fields, Stack
  <2>. HIDE DEF e
  <2>6. \A s \in Stack : Value(e.slot[s]) /\ e.slot[s] # None
    BY <2>2, <2>3, <2>5, OnStackIs DEF Stack
  <2>7. e.live - c.live = OnStack(e.slot) - OnStack(c.slot) - V(v) - V(None)
    BY <2>3, <2>4, <2>5, Numbered, ValueFacts DEF OnStack, Freed
  <2>8. \A a \in Arrays : e.refs[a] - c.refs[a] =
            ArrayOnStack(e.slot, a) - ArrayOnStack(c.slot, a) - M(v, a) - M(None, a)
    BY <2>3, <2>4, <2>5, Numbered, ValueFacts DEF ArrayOnStack, Freed
  <2>9. Has(b, e, None, None, None)
    BY <2>2, <2>5, <2>6, <2>7, <2>8, StackMoves
  <2>. QED  BY <2>1, <2>9 DEF Settled, Fine
<1>. QED  BY <1>3, <1>4

\* Some of the stack becomes zeroes.
LEMMA ZeroesOnStack ==
    ASSUME NEW b, Base(b), NEW slots, slots \subseteq Slots, NEW zeroes, zeroes \subseteq slots,
           slots \cap Stack \subseteq zeroes, zeroes \subseteq Stack
    PROVE  Has(b, Zeroes(Clear(b, slots), zeroes), None, None, None)
<1>. DEFINE d == Clear(b, slots)
            e == Zeroes(d, zeroes)
<1>1. /\ Form(d) /\ d.lost = b.lost /\ d.pending = b.pending /\ IsFiniteSet(HeldBy(d.slot))
      /\ Extra(d) = Extra(b) /\ \A a \in Arrays : Spare(d, a) = Spare(b, a)
      /\ \A s \in slots : d.slot[s] = None
      /\ \A s \in Slots \ slots : d.slot[s] = b.slot[s]
  BY Cleared DEF Base, Calc
<1>. HIDE DEF d
<1>2. IsFiniteSet(zeroes)
  <2>1. zeroes \subseteq HeldBy(b.slot)  BY StackTypes, SlotFacts DEF Base, HeldBy
  <2>. QED  BY <2>1, FS_Subset DEF Base, Calc
<1>3. /\ Form(e) /\ e.lost = d.lost /\ e.pending = d.pending /\ IsFiniteSet(HeldBy(e.slot))
      /\ Extra(e) = Extra(d) /\ \A a \in Arrays : Spare(e, a) = Spare(d, a)
      /\ \A s \in zeroes : e.slot[s] = Scalar("real")
      /\ \A s \in Slots \ zeroes : e.slot[s] = d.slot[s]
  BY <1>1, <1>2, Zeroed
<1>. HIDE DEF e
<1>4. Proper(e.slot)
  <2>1. Value(Scalar("real")) /\ Scalar("real") # None /\ Value(None)
    BY ValueFacts DEF ScalarTypes
  <2>2. ASSUME NEW s \in Slots PROVE Value(e.slot[s])
    BY <1>1, <1>3, <2>1 DEF Base, Calc, Proper
  <2>3. ASSUME NEW s \in Stack PROVE e.slot[s] # None
    BY <1>1, <1>3, <2>1, SlotFacts DEF Base, Calc, Proper
  <2>4. misplaced \/ e.slot["REGS"] = None \/ IsMatrix(e.slot["REGS"])
    BY <1>1, <1>3, SlotFacts DEF Base, Calc, Proper
  <2>. QED  BY <2>2, <2>3, <2>4 DEF Proper
<1>5. Has(b, b, None, None, None)  BY HasNothing
<1>6. Extra(e) - Extra(b) = V(None) + V(None) + V(None) - V(None) - V(None) - V(None)
  BY <1>1, <1>3, Numbered, ValueFacts DEF Base
<1>7. \A a \in Arrays : Spare(e, a) - Spare(b, a) =
          M(None, a) + M(None, a) + M(None, a) - M(None, a) - M(None, a) - M(None, a)
  BY <1>1, <1>3, Numbered, ValueFacts DEF Base
<1>8. Has(b, e, None, None, None)
  BY <1>1, <1>3, <1>4, <1>5, <1>6, <1>7, Recounted, ValueFacts
<1>. QED  BY <1>8 DEF d, e

\* The stack lift is not part of the accounts.
LEMMA Flagged ==
    ASSUME NEW b, NEW c, NEW u, NEW v, NEW w, Has(b, c, u, v, w), NEW e, NEW flag,
           e \in {[c EXCEPT !.disable = flag], [c EXCEPT !.lift = flag]}
    PROVE  Has(b, e, u, v, w) /\ (Seen(b, c) => Seen(b, e)) /\ e.slot = c.slot
<1>1. /\ Form(e) /\ e.slot = c.slot /\ e.refs = c.refs /\ e.live = c.live /\ e.lost = c.lost
      /\ e.pending = c.pending /\ e.data = c.data
  BY DEF Has, Calc, Form, Fields
<1>2. Calc(e) /\ Extra(e) = Extra(c) /\ \A a \in Arrays : Spare(e, a) = Spare(c, a)
  BY <1>1 DEF Has, Calc, Extra, Spare
<1>3. Has(b, e, u, v, w)  BY <1>1, <1>2 DEF Has
<1>4. Seen(b, c) => Seen(b, e)  BY <1>1 DEF Seen, Visible
<1>. QED  BY <1>1, <1>3, <1>4

LEMMA MovesSettled ==
    ASSUME NEW b, Base(b)
    PROVE  AllSettled(b, Moves(b))
<1>1. AllSettled(b, docmd_clx(b))
  <2>. DEFINE c == Zeroes(Clear(b, {"x"}), {"x"})
  <2>1. {"x"} \subseteq Slots /\ {"x"} \cap Stack \subseteq {"x"} /\ {"x"} \subseteq Stack
    BY SlotFacts DEF Stack
  <2>2. Has(b, c, None, None, None)  BY <2>1, ZeroesOnStack
  <2>. HIDE DEF c
  <2>3. Has(b, [c EXCEPT !.disable = TRUE], None, None, None)  BY <2>2, Flagged
  <2>4. docmd_clx(b) = Done([c EXCEPT !.disable = TRUE])  BY DEF docmd_clx, c
  <2>. QED  BY <2>3, <2>4, OneDone
<1>2. AllSettled(b, docmd_clst(b))
  <2>. DEFINE slots == Stack \ {"l"}
  <2>1. slots \subseteq Slots /\ slots \cap Stack \subseteq slots /\ slots \subseteq Stack
    BY SlotFacts
  <2>. HIDE DEF slots
  <2>2. Has(b, Zeroes(Clear(b, slots), slots), None, None, None)  BY <2>1, ZeroesOnStack
  <2>. QED  BY <2>2, OneDone DEF docmd_clst, slots
<1>3. AllSettled(b, docmd_lastx(b))
  <2>1. AllMade(b, dup_vartype(b, b.slot["l"]))
    BY DupMade, StackTypes DEF Base, Stack
  <2>. QED  BY <2>1, ResultsSettled DEF docmd_lastx
<1>4. AllSettled(b, docmd_number(b)) /\ AllSettled(b, docmd_pi(b))
  BY ResultsOfNumbers DEF docmd_number, docmd_pi
<1>. QED  BY <1>1, <1>2, <1>3, <1>4, TurnsSettled, EnterSettled DEF Moves, AllSettled

-----------------------------------------------------------------------------
\* The numbered registers.

LEMMA OwnWritten ==
    ASSUME NEW b, Base(b), NEW s \in Slots, Owned(b, s), NEW contents
    PROVE  AllSettled(b, Writes(b, s, contents))
<1>1. ASSUME NEW o \in WritesBy("command", b, s, contents) PROVE Settled(b, o)
  BY <1>1, Written DEF Owned, Settled, Fine
<1>. QED  BY <1>1 DEF AllSettled, Writes

LEMMA MatrixStored ==
    ASSUME NEW b, NEW q, Made(b, q), q.err = "NONE" => IsMatrix(q.v),
           NEW o \in IF q.err = "NONE" THEN Done(store_var(q.calc, "REGS", q.v)) ELSE {q}
    PROVE  Settled(b, o)
<1>1. CASE q.err # "NONE"  BY <1>1 DEF Made, Settled
<1>2. CASE q.err = "NONE"
  <2>1. Takes("REGS", q.v)  BY <1>2, SlotFacts DEF Takes, Made, Has
  <2>2. Has(b, WithSlot(q.calc, "REGS", q.v), None, None, None)
    BY <1>2, <2>1, SlotTakes DEF Made
  <2>3. o.calc = WithSlot(q.calc, "REGS", q.v) /\ o.err = "NONE"
    BY <1>2, OutcomeIs DEF Done, Ends, store_var
  <2>. QED  BY <2>2, <2>3 DEF Settled, Fine
<1>. QED  BY <1>1, <1>2

LEMMA SizeSettled ==
    ASSUME NEW b, Base(b), NEW empty
    PROVE  AllSettled(b, docmd_size(b, empty))
<1>1. AllSettled(b, Done(b)) /\ \A e : AllSettled(b, Ends(b, e))  BY EndsSettled
<1>2. AllSettled(b, UNION {IF q.err = "NONE" THEN Done(store_var(q.calc, "REGS", q.v)) ELSE {q} :
                           q \in new_matrix(b, "realmatrix")})
  <2>1. \A q \in new_matrix(b, "realmatrix") : Made(b, q) /\ (q.err = "NONE" => IsMatrix(q.v))
    BY MatrixMade DEF AllMade, OfTypes, IsMatrix, MatrixTypes
  <2>. QED  BY <2>1, MatrixStored DEF AllSettled
<1>3. AllSettled(b, Done(purge_var(b, "REGS")))
  <2>1. Takes("REGS", None)  BY SlotFacts, ValueFacts DEF Takes
  <2>2. Has(b, WithSlot(b, "REGS", None), None, None, None)
    BY <2>1, HasNothing, SlotTakes
  <2>. QED  BY <2>2, OneDone DEF purge_var
<1>4. ASSUME IsMatrix(b.slot["REGS"]) PROVE AllSettled(b, dimension_array_ref(b, "REGS"))
  <2>. DEFINE resized == Writes(b, "REGS", NumbersIn(b, "REGS"))
              other == UNION {IF q.err = "NONE" THEN Writes(q.calc, "REGS", NumbersIn(q.calc, "REGS"))
                              ELSE {q} : q \in disentangle(b, "REGS")}
  <2>1. dimension_array_ref(b, "REGS") =
            Done(b) \cup IF b.refs[b.slot["REGS"].array] = 1
                         THEN resized \cup Ends(b, "INSUFFICIENT_MEMORY") ELSE other
    BY DEF dimension_array_ref, Then
  <2>2. ASSUME b.refs[b.slot["REGS"].array] = 1 PROVE AllSettled(b, resized)
    BY <1>4, <2>2, OwnWritten, SlotFacts DEF Owned
  <2>3. AllSettled(b, other)
    <3>1. ASSUME NEW q \in disentangle(b, "REGS"),
                 NEW o \in IF q.err = "NONE" THEN Writes(q.calc, "REGS", NumbersIn(q.calc, "REGS")) ELSE {q}
          PROVE  Settled(b, o)
      <4>. DEFINE contents == NumbersIn(q.calc, "REGS")
      <4>1. "REGS" \in Slots  BY SlotFacts
      <4>2. IF q.err = "NONE" THEN o \in Writes(q.calc, "REGS", contents) ELSE o = q  BY <3>1
      <4>. HIDE DEF contents
      <4>. QED  BY <1>4, <4>1, <4>2, SlotWritten
    <3>. QED  BY <3>1 DEF AllSettled
  <2>. HIDE DEF resized, other
  <2>4. CASE b.refs[b.slot["REGS"].array] = 1
    <3>1. dimension_array_ref(b, "REGS") = Done(b) \cup (resized \cup Ends(b, "INSUFFICIENT_MEMORY"))
      BY <2>1, <2>4
    <3>2. AllSettled(b, resized)  BY <2>2, <2>4
    <3>3. AllSettled(b, resized \cup Ends(b, "INSUFFICIENT_MEMORY"))  BY <1>1, <3>2, TwoSettled
    <3>. QED  BY <1>1, <3>1, <3>3, TwoSettled
  <2>5. CASE b.refs[b.slot["REGS"].array] # 1
    <3>1. dimension_array_ref(b, "REGS") = Done(b) \cup other  BY <2>1, <2>5
    <3>. QED  BY <1>1, <2>3, <3>1, TwoSettled
  <2>. QED  BY <2>4, <2>5
<1>5. \/ docmd_size(b, empty) = Done(b)
      \/ docmd_size(b, empty) = UNION {IF q.err = "NONE" THEN Done(store_var(q.calc, "REGS", q.v)) ELSE {q} :
                                       q \in new_matrix(b, "realmatrix")}
      \/ docmd_size(b, empty) = Done(purge_var(b, "REGS"))
      \/ IsMatrix(b.slot["REGS"]) /\ docmd_size(b, empty) = dimension_array_ref(b, "REGS")
  BY DEF docmd_size, dimension_array, Then, recall_var
<1>. QED  BY <1>1, <1>2, <1>3, <1>4, <1>5

LEMMA RegistersSettled ==
    ASSUME NEW b, Base(b)
    PROVE  AllSettled(b, Registers(b))
<1>1. AllSettled(b, Done(b)) /\ \A e : AllSettled(b, Ends(b, e))  BY EndsSettled
<1>2. AllSettled(b, docmd_clrg(b))
  <2>. DEFINE S == UNION {IF q.err = "NONE" THEN Writes(q.calc, "REGS", Numbers) ELSE {q} :
                          q \in disentangle(b, "REGS")}
  <2>1. \/ docmd_clrg(b) \in {Ends(b, "NONEXISTENT"), Ends(b, "INTERNAL_ERROR")}
        \/ IsMatrix(b.slot["REGS"]) /\ docmd_clrg(b) = S
    BY DEF docmd_clrg, Then, recall_var
  <2>2. IsMatrix(b.slot["REGS"]) => AllSettled(b, S)
    BY SlotWritten, SlotFacts DEF AllSettled
  <2>. HIDE DEF S
  <2>. QED  BY <1>1, <2>1, <2>2
<1>3. AllSettled(b, docmd_clsigma(b))
  <2>. DEFINE S == WritesBy("statistics", b, "REGS", NumbersIn(b, "REGS"))
  <2>1. \/ docmd_clsigma(b) \in {Ends(b, "SIZE_ERROR"), Ends(b, "INVALID_TYPE")}
        \/ IsMatrix(b.slot["REGS"]) /\ docmd_clsigma(b) = Ends(b, "SIZE_ERROR") \cup S
    BY DEF docmd_clsigma, recall_var, IsMatrix, MatrixTypes
  <2>2. ASSUME IsMatrix(b.slot["REGS"]), NEW o \in S PROVE Settled(b, o)
    BY <2>2, Written, SlotFacts DEF Settled, Fine
  <2>. HIDE DEF S
  <2>. QED  BY <1>1, <2>1, <2>2 DEF AllSettled
<1>4. AllSettled(b, docmd_clall(b))
  <2>. DEFINE c == Zeroes(Clear(b, Slots), Stack)
              S == new_matrix(c, "realmatrix")
  <2>1. Has(b, c, None, None, None)  BY SlotFacts, ZeroesOnStack
  <2>. HIDE DEF c
  <2>2. \A q \in S : Made(c, q) /\ (q.err = "NONE" => IsMatrix(q.v))
    BY <2>1, HasIsBase, MatrixMade DEF AllMade, OfTypes, IsMatrix, MatrixTypes
  <2>3. docmd_clall(b) = UNION {IF q.err = "NONE" THEN Done(store_var(q.calc, "REGS", q.v)) ELSE {q} :
                                q \in Unchecked(S)}
    BY DEF docmd_clall, Then, c
  <2>4. ASSUME NEW o \in docmd_clall(b) PROVE Settled(b, o)
    <3>1. PICK q \in Unchecked(S) : o \in IF q.err = "NONE" THEN Done(store_var(q.calc, "REGS", q.v)) ELSE {q}
      BY <2>3
    <3>2. q \in S /\ q.err = "NONE"  BY DEF Unchecked
    <3>. HIDE DEF S
    <3>3. Settled(c, o)  BY <2>2, <3>1, <3>2, MatrixStored
    <3>4. o.err = "NONE"  BY <3>1, <3>2, OutcomeIs DEF Done, Ends
    <3>. QED  BY <2>1, <3>3, <3>4, HasMore DEF Settled, Fine
  <2>. QED  BY <2>4 DEF AllSettled
<1>5. AllSettled(b, docmd_sigma_reg_t(b))  BY ResultsOfNumbers DEF docmd_sigma_reg_t
<1>6. AllSettled(b, docmd_size(b, TRUE)) /\ AllSettled(b, docmd_size(b, FALSE))  BY SizeSettled
<1>. QED  BY <1>2, <1>3, <1>4, <1>5, <1>6 DEF Registers, AllSettled

-----------------------------------------------------------------------------
\* Three numbers at once, from the sensors.

Real == Scalar("real")

LEMMA RealFacts ==
    /\ Value(Real) /\ Real # None /\ ~IsMatrix(Real) /\ V(Real) = 1 /\ \A a : M(Real, a) = 0
    /\ \A v : Value(v) /\ v # None /\ v.type = "real" => V(v) = 1 /\ \A a : M(v, a) = 0
BY ValueFacts DEF Real, ScalarTypes, M, IsMatrix, MatrixTypes

LEMMA ThreeReals ==
    ASSUME NEW b, Base(b), NEW o \in three_reals(b)
    PROVE  /\ Seen(b, o.calc)
           /\ IF o.err = "NONE" THEN Has(b, o.calc, Real, Real, Real)
                                ELSE Has(b, o.calc, None, None, None)
<1>1. PICK q \in two_reals(b) :
          o \in IF q.err = "NONE"
                THEN UNION {IF p.err = "NONE" THEN {p}
                            ELSE Ends(free_vartype(free_vartype(p.calc, q.v[1]), q.v[2]), p.err) :
                            p \in new_real(q.calc)}
                ELSE {q}
  BY DEF three_reals, Then
<1>2. PairMade(b, q) /\ (q.err = "NONE" => q.v[1].type = "real" /\ q.v[2].type = "real")
  BY PairsMade
<1>3. CASE q.err # "NONE"  BY <1>1, <1>2, <1>3 DEF PairMade
<1>4. CASE q.err = "NONE"
  <2>. DEFINE u == q.v[1]
              v == q.v[2]
  <2>1. PICK p \in new_real(q.calc) :
            o \in IF p.err = "NONE" THEN {p}
                  ELSE Ends(free_vartype(free_vartype(p.calc, u), v), p.err)
    BY <1>1, <1>4
  <2>2. Has(b, q.calc, u, v, None) /\ Seen(b, q.calc) /\ u # None /\ v # None /\ u.type = "real" /\ v.type = "real"
    BY <1>2, <1>4 DEF PairMade
  <2>. HIDE DEF u, v
  <2>3. Base(q.calc)  BY <2>2, HasIsBase
  <2>4. Made(q.calc, p) /\ (p.err = "NONE" => p.v.type = "real")
    BY <2>3, NumbersMade DEF AllMade, OfTypes
  <2>5. Seen(b, p.calc)  BY <2>2, <2>4, SeenThrough DEF Made
  <2>6. CASE p.err = "NONE"
    <3>1. Has(b, p.calc, u, v, p.v)  BY <2>2, <2>4, <2>6, TwoThenOne DEF Made
    <3>2. Value(u) /\ Value(v) /\ Value(p.v) /\ p.v # None  BY <2>4, <2>6, <3>1 DEF Has, Made
    <3>3. V(u) = 1 /\ V(v) = 1 /\ V(p.v) = 1 /\ \A a : M(u, a) = 0 /\ M(v, a) = 0 /\ M(p.v, a) = 0
      BY <2>2, <2>4, <2>6, <3>2, RealFacts
    <3>4. Has(b, p.calc, Real, Real, Real)
      BY <3>1, <3>3, RealFacts DEF Has
    <3>. QED  BY <2>1, <2>5, <2>6, <3>4
  <2>7. CASE p.err # "NONE"
    <3>1. Has(b, p.calc, u, v, None)  BY <2>2, <2>4, <2>7, TwoThenOne DEF Made
    <3>. DEFINE d == free_vartype(p.calc, u)
    <3>2. Has(b, d, None, v, None) /\ Seen(b, d)  BY <2>5, <3>1, HandFreed
    <3>. HIDE DEF d
    <3>3. Has(b, d, v, None, None)  BY <3>2, Swapped
    <3>4. Has(b, free_vartype(d, v), None, None, None) /\ Seen(b, free_vartype(d, v))
      BY <3>2, <3>3, HandFreed
    <3>5. o.calc = free_vartype(d, v) /\ o.err # "NONE"
      BY <2>1, <2>7, OutcomeIs DEF Ends, d
    <3>. QED  BY <3>4, <3>5
  <2>. QED  BY <2>6, <2>7
<1>. QED  BY <1>3, <1>4

LEMMA AccelSettled ==
    ASSUME NEW b, Base(b)
    PROVE  AllSettled(b, docmd_accel(b))
<1>1. ASSUME NEW q \in three_reals(b), q.err = "NONE"
      PROVE  LET d == q.calc
                 gone == {"t", "z"} \cup IF d.lift THEN {"x"} ELSE {"y"}
                 kept == IF d.lift THEN y(d) ELSE x(d)
                 e == [Clear(d, gone) EXCEPT !.slot =
                          [@ EXCEPT !["t"] = kept, !["z"] = Scalar("real"),
                                    !["y"] = Scalar("real"), !["x"] = Scalar("real")]]
             IN  Has(b, e, None, None, None)
  <2>. DEFINE d == q.calc
              gone == {"t", "z"} \cup IF d.lift THEN {"x"} ELSE {"y"}
              kept == IF d.lift THEN y(d) ELSE x(d)
              f == Clear(d, gone)
              g == [f.slot EXCEPT !["t"] = kept, !["z"] = Real, !["y"] = Real, !["x"] = Real]
              e == [f EXCEPT !.slot = g]
  <2>1. Has(b, d, Real, Real, Real)  BY <1>1, ThreeReals
  <2>2. Calc(d)  BY <2>1 DEF Has
  <2>. HIDE DEF d
  <2>3. gone \subseteq Slots  BY SlotFacts
  <2>4. /\ "t" \in gone /\ "z" \in gone /\ "l" \notin gone
        /\ \A s \in Slots \ Stack : s \notin gone
        /\ \/ "x" \in gone /\ "y" \notin gone /\ kept = d.slot["y"]
           \/ "y" \in gone /\ "x" \notin gone /\ kept = d.slot["x"]
    BY DEF Stack, x, y
  <2>. HIDE DEF gone, kept
  <2>5. /\ Form(f) /\ f.lost = d.lost /\ f.pending = d.pending /\ IsFiniteSet(HeldBy(f.slot))
        /\ Extra(f) = Extra(d) /\ \A a \in Arrays : Spare(f, a) = Spare(d, a)
        /\ \A s \in gone : f.slot[s] = None
        /\ \A s \in Slots \ gone : f.slot[s] = d.slot[s]
    BY <2>2, <2>3, Cleared DEF Calc
  <2>. HIDE DEF f
  <2>6. /\ DOMAIN g = Slots /\ \A s \in Slots \ Stack : g[s] = f.slot[s]
        /\ g["t"] = kept /\ g["z"] = Real /\ g["y"] = Real /\ g["x"] = Real /\ g["l"] = d.slot["l"]
    BY <2>4, <2>5, SlotFacts DEF Form, Stack
  <2>7. /\ f.slot["t"] = None /\ f.slot["z"] = None /\ f.slot["l"] = d.slot["l"]
        /\ \/ f.slot["x"] = None /\ f.slot["y"] = kept
           \/ f.slot["y"] = None /\ f.slot["x"] = kept
    BY <2>4, <2>5, SlotFacts
  <2>. HIDE DEF g
  <2>8. /\ Form(e) /\ e.lost = f.lost /\ e.pending = f.pending /\ e.slot = g
        /\ IsFiniteSet(HeldBy(g))
        /\ Extra(e) = Extra(f) + OnStack(f.slot) - OnStack(g)
        /\ \A a \in Arrays : Spare(e, a) = Spare(f, a) + ArrayOnStack(f.slot, a) - ArrayOnStack(g, a)
    BY <2>5, <2>6, Filled
  <2>9. /\ V(kept) \in Int /\ V(d.slot["l"]) \in Int
        /\ \A a : M(kept, a) \in Int /\ M(d.slot["l"], a) \in Int
    BY ValueFacts
  <2>10. OnStack(f.slot) = V(kept) + V(d.slot["l"]) /\ OnStack(g) = V(kept) + V(d.slot["l"]) + 3
    BY <2>6, <2>7, <2>9, ValueFacts, RealFacts DEF OnStack
  <2>11. \A a : /\ ArrayOnStack(f.slot, a) = M(kept, a) + M(d.slot["l"], a)
                /\ ArrayOnStack(g, a) = M(kept, a) + M(d.slot["l"], a)
    BY <2>6, <2>7, <2>9, ValueFacts, RealFacts DEF ArrayOnStack
  <2>. HIDE DEF e
  <2>12. /\ Extra(d) \in Int /\ \A a \in Arrays : Spare(d, a) \in Int
    BY <2>2, Numbered
  <2>13. Extra(e) - Extra(d) = V(None) + V(None) + V(None) - V(Real) - V(Real) - V(Real)
    BY <2>5, <2>8, <2>9, <2>10, <2>12, ValueFacts, RealFacts
  <2>14. \A a \in Arrays : Spare(e, a) - Spare(d, a) =
             M(None, a) + M(None, a) + M(None, a) - M(Real, a) - M(Real, a) - M(Real, a)
    BY <2>5, <2>8, <2>9, <2>11, <2>12, ValueFacts, RealFacts
  <2>15. Proper(g)
    <3>1. Value(kept) /\ kept # None  BY <2>2, <2>4, StackTypes DEF Stack
    <3>2. \A s \in Stack : Value(g[s]) /\ g[s] # None
      BY <2>2, <2>6, <3>1, RealFacts, StackTypes DEF Stack
    <3>3. \A s \in Slots \ Stack : g[s] = d.slot[s]  BY <2>4, <2>5, <2>6
    <3>. QED  BY <2>2, <3>2, <3>3, SlotFacts DEF Proper, Calc
  <2>16. Has(b, e, None, None, None)
    BY <2>1, <2>5, <2>8, <2>13, <2>14, <2>15, Recounted, ValueFacts
  <2>. QED  BY <2>16 DEF e, g, f, kept, gone, d, Real
<1>. SUFFICES ASSUME NEW o \in docmd_accel(b) PROVE Settled(b, o)
  BY DEF AllSettled
<1>2. CASE o \in Ends(b, "NONEXISTENT")  BY <1>2, EndsSettled DEF AllSettled
<1>3. CASE o \notin Ends(b, "NONEXISTENT")
  <2>1. PICK q \in three_reals(b) :
            o \in IF q.err = "NONE"
                  THEN LET d == q.calc
                           gone == {"t", "z"} \cup IF d.lift THEN {"x"} ELSE {"y"}
                           kept == IF d.lift THEN y(d) ELSE x(d)
                       IN  Done([Clear(d, gone) EXCEPT !.slot =
                                    [@ EXCEPT !["t"] = kept, !["z"] = Scalar("real"),
                                              !["y"] = Scalar("real"), !["x"] = Scalar("real")]])
                  ELSE {q}
    BY <1>3, Zenon DEF docmd_accel, Then
  <2>2. CASE q.err # "NONE"  BY <2>1, <2>2, ThreeReals DEF Settled
  <2>3. CASE q.err = "NONE"  BY <1>1, <2>1, <2>3, OneDone DEF AllSettled
  <2>. QED  BY <2>2, <2>3
<1>. QED  BY <1>2, <1>3

LEMMA WholeStackSettled ==
    ASSUME NEW b, Base(b)
    PROVE  AllSettled(b, WholeStack(b, "realmatrix")) /\ AllSettled(b, WholeStack(b, "real"))
<1>0. ASSUME NEW d, Base(d), NEW type \in {"real", "realmatrix"}
      PROVE  AllMade(d, new_value(d, type))
  <2>1. CASE type = "realmatrix"  BY <1>0, <2>1, MatrixMade DEF new_value, MatrixTypes
  <2>2. CASE type = "real"  BY <1>0, <2>2, ScalarMade DEF new_value, ScalarTypes, MatrixTypes
  <2>. QED  BY <2>1, <2>2
<1>1. ASSUME NEW d, Has(b, d, Real, Real, Real), Seen(b, d), NEW type \in {"real", "realmatrix"},
             NEW p \in new_value(d, type), p.err = "NONE"
      PROVE  Has(b, [Clear(p.calc, Stack \ {"l"}) EXCEPT !.slot =
                        [@ EXCEPT !["t"] = p.v, !["z"] = Scalar("real"),
                                  !["y"] = Scalar("real"), !["x"] = Scalar("real")]], None, None, None)
  <2>. DEFINE c == p.calc
              v == p.v
              gone == Stack \ {"l"}
              f == Clear(c, gone)
              g == [f.slot EXCEPT !["t"] = v, !["z"] = Real, !["y"] = Real, !["x"] = Real]
              e == [f EXCEPT !.slot = g]
  <2>1. Base(d)  BY <1>1, HasIsBase
  <2>2. Has(d, c, v, None, None) /\ v # None
    BY <1>0, <1>1, <2>1 DEF AllMade, Made
  <2>3. Calc(c) /\ Value(v)  BY <2>2 DEF Has
  <2>. HIDE DEF c, v
  <2>4. /\ gone \subseteq Slots /\ "x" \in gone /\ "y" \in gone /\ "z" \in gone /\ "t" \in gone /\ "l" \notin gone
        /\ \A s \in Slots \ Stack : s \notin gone
    BY SlotFacts DEF Stack
  <2>. HIDE DEF gone
  <2>5. /\ Form(f) /\ f.lost = c.lost /\ f.pending = c.pending /\ IsFiniteSet(HeldBy(f.slot))
        /\ Extra(f) = Extra(c) /\ \A a \in Arrays : Spare(f, a) = Spare(c, a)
        /\ \A s \in gone : f.slot[s] = None
        /\ \A s \in Slots \ gone : f.slot[s] = c.slot[s]
    BY <2>3, <2>4, Cleared DEF Calc
  <2>. HIDE DEF f
  <2>6. /\ DOMAIN g = Slots /\ \A s \in Slots \ Stack : g[s] = f.slot[s]
        /\ g["t"] = v /\ g["z"] = Real /\ g["y"] = Real /\ g["x"] = Real /\ g["l"] = f.slot["l"]
    BY <2>4, <2>5, SlotFacts DEF Form, Stack
  <2>7. /\ f.slot["t"] = None /\ f.slot["z"] = None /\ f.slot["y"] = None /\ f.slot["x"] = None
        /\ f.slot["l"] = c.slot["l"]
    BY <2>4, <2>5, SlotFacts
  <2>. HIDE DEF g
  <2>8. /\ Form(e) /\ e.lost = f.lost /\ e.pending = f.pending /\ e.slot = g
        /\ IsFiniteSet(HeldBy(g))
        /\ Extra(e) = Extra(f) + OnStack(f.slot) - OnStack(g)
        /\ \A a \in Arrays : Spare(e, a) = Spare(f, a) + ArrayOnStack(f.slot, a) - ArrayOnStack(g, a)
    BY <2>5, <2>6, Filled
  <2>. HIDE DEF e
  <2>9. V(v) = 1 /\ V(c.slot["l"]) \in Int /\ \A a : M(v, a) \in Int /\ M(c.slot["l"], a) \in Int
    BY <2>2, ValueFacts
  <2>10. OnStack(f.slot) = V(c.slot["l"]) /\ OnStack(g) = V(c.slot["l"]) + 4
    BY <2>6, <2>7, <2>9, ValueFacts, RealFacts DEF OnStack
  <2>11. \A a : /\ ArrayOnStack(f.slot, a) = M(c.slot["l"], a)
                /\ ArrayOnStack(g, a) = M(c.slot["l"], a) + M(v, a)
    BY <2>6, <2>7, <2>9, ValueFacts, RealFacts DEF ArrayOnStack
  <2>12. /\ Extra(c) \in Int /\ Extra(d) \in Int
         /\ \A a \in Arrays : Spare(c, a) \in Int /\ Spare(d, a) \in Int
    BY <2>1, <2>3, Numbered DEF Base
  <2>13. /\ Extra(c) = Extra(d) + 1 /\ \A a \in Arrays : Spare(c, a) = Spare(d, a) + M(v, a)
         /\ c.lost >= d.lost /\ c.pending = d.pending
    BY <2>2, <2>9, <2>12, ValueFacts DEF Has
  <2>14. Extra(e) = Extra(d) - 3
    BY <2>5, <2>8, <2>9, <2>10, <2>12, <2>13
  <2>15. \A a \in Arrays : Spare(e, a) = Spare(d, a)
    BY <2>5, <2>8, <2>9, <2>11, <2>12, <2>13
  <2>16. Proper(g)
    <3>1. Value(c.slot["l"]) /\ c.slot["l"] # None  BY <2>3, StackTypes DEF Stack
    <3>2. \A s \in Stack : Value(g[s]) /\ g[s] # None
      BY <2>2, <2>3, <2>6, <2>7, <3>1, RealFacts DEF Stack
    <3>3. \A s \in Slots \ Stack : g[s] = c.slot[s]  BY <2>4, <2>5, <2>6
    <3>. QED  BY <2>3, <3>2, <3>3, SlotFacts DEF Proper, Calc
  <2>17. Calc(e)  BY <2>8, <2>16 DEF Calc
  <2>18. /\ Extra(b) \in Int /\ Extra(d) = Extra(b) + 3
         /\ \A a \in Arrays : Spare(b, a) \in Int /\ Spare(d, a) = Spare(b, a)
         /\ Base(b) /\ d.lost >= b.lost /\ d.pending = b.pending
    BY <1>1, Numbered, RealFacts DEF Has, Base
  <2>19. b.lost \in Int /\ c.lost \in Int /\ d.lost \in Int
    BY <2>1, <2>3, <2>18 DEF Base, Calc, Form
  <2>20. e.lost >= b.lost /\ e.pending = b.pending
    <3>1. e.lost = c.lost /\ e.pending = c.pending  BY <2>5, <2>8
    <3>2. c.lost >= d.lost /\ d.lost >= b.lost  BY <2>13, <2>18
    <3>3. e.lost >= b.lost  BY <2>19, <3>1, <3>2
    <3>. QED  BY <2>13, <2>18, <3>1, <3>3
  <2>21. Extra(e) = Extra(b) + V(None) + V(None) + V(None)
    BY <2>14, <2>18, ValueFacts
  <2>22. \A a \in Arrays : Spare(e, a) = Spare(b, a) + M(None, a) + M(None, a) + M(None, a)
    BY <2>15, <2>18, ValueFacts
  <2>23. Has(b, e, None, None, None)
    BY <2>17, <2>18, <2>20, <2>21, <2>22, ValueFacts DEF Has
  <2>. QED  BY <2>23, Zenon DEF e, g, f, gone, c, v, Real
<1>2. ASSUME NEW d, Has(b, d, Real, Real, Real), Seen(b, d)
      PROVE  LET e == [d EXCEPT !.live = @ - 3]
             IN  Has(b, e, None, None, None) /\ Seen(b, e)
  <2>. DEFINE e == [d EXCEPT !.live = @ - 3]
  <2>1. /\ Form(e) /\ e.slot = d.slot /\ e.refs = d.refs /\ e.live = d.live - 3 /\ e.lost = d.lost
        /\ e.pending = d.pending /\ e.data = d.data
    BY <1>2 DEF Has, Calc, Form, Fields
  <2>. HIDE DEF e
  <2>2. Calc(d) /\ Calc(e)  BY <1>2, <2>1 DEF Has, Calc
  <2>3. Extra(e) = Extra(d) - 3 /\ \A a \in Arrays : Spare(e, a) = Spare(d, a)
    BY <2>1, <2>2, Numbered DEF Extra, Spare
  <2>4. Extra(b) \in Int /\ Extra(d) = Extra(b) + 3
        /\ \A a \in Arrays : Spare(b, a) \in Int /\ Spare(d, a) = Spare(b, a)
    BY <1>2, Numbered, RealFacts DEF Has, Base
  <2>5. Extra(e) = Extra(b) + V(None) + V(None) + V(None)
    BY <2>3, <2>4, ValueFacts
  <2>6. \A a \in Arrays : Spare(e, a) = Spare(b, a) + M(None, a) + M(None, a) + M(None, a)
    BY <2>3, <2>4, ValueFacts
  <2>7. Has(b, e, None, None, None)
    BY <1>2, <2>1, <2>2, <2>5, <2>6, ValueFacts DEF Has
  <2>8. Seen(b, e)  BY <1>2, <2>1 DEF Seen, Visible
  <2>. QED  BY <2>7, <2>8 DEF e
<1>3. ASSUME NEW type \in {"real", "realmatrix"}, NEW o \in WholeStack(b, type)
      PROVE  Settled(b, o)
  <2>1. PICK q \in three_reals(b) :
            o \in IF q.err = "NONE"
                  THEN UNION {IF p.err # "NONE"
                              THEN Ends([q.calc EXCEPT !.live = @ - 3], p.err)
                              ELSE Done([Clear(p.calc, Stack \ {"l"}) EXCEPT !.slot =
                                       [@ EXCEPT !["t"] = p.v, !["z"] = Scalar("real"),
                                                 !["y"] = Scalar("real"), !["x"] = Scalar("real")]]) :
                              p \in new_value(q.calc, type)}
                  ELSE {q}
    BY <1>3, Zenon DEF WholeStack, Then
  <2>2. CASE q.err # "NONE"  BY <2>1, <2>2, ThreeReals DEF Settled
  <2>3. CASE q.err = "NONE"
    <3>1. PICK p \in new_value(q.calc, type) :
              o \in IF p.err # "NONE"
                    THEN Ends([q.calc EXCEPT !.live = @ - 3], p.err)
                    ELSE Done([Clear(p.calc, Stack \ {"l"}) EXCEPT !.slot =
                             [@ EXCEPT !["t"] = p.v, !["z"] = Scalar("real"),
                                       !["y"] = Scalar("real"), !["x"] = Scalar("real")]])
      BY <2>1, <2>3, Zenon
    <3>2. Has(b, q.calc, Real, Real, Real) /\ Seen(b, q.calc)  BY <2>3, ThreeReals
    <3>3. CASE p.err = "NONE"  BY <1>1, <3>1, <3>2, <3>3, OneDone DEF AllSettled
    <3>4. CASE p.err # "NONE"
      <4>1. o.calc = [q.calc EXCEPT !.live = @ - 3]
        BY <3>1, <3>4, OutcomeIs DEF Ends
      <4>. QED  BY <1>2, <3>2, <4>1 DEF Settled
    <3>. QED  BY <3>3, <3>4
  <2>. QED  BY <2>2, <2>3
<1>. QED  BY <1>3 DEF AllSettled

LEMMA MakesSettled ==
    ASSUME NEW b, Base(b)
    PROVE  AllSettled(b, Makes(b))
<1>1. AllSettled(b, Recalls(new_real(b))) /\ AllSettled(b, Unary(new_real(b)))  BY ResultsOfNumbers
<1>2. (\A e : AllSettled(b, Ends(b, e))) /\ (\A v : AllSettled(b, Rejects(b, v)))  BY EndsSettled
<1>3. /\ AllSettled(b, docmd_ran(b)) /\ AllSettled(b, docmd_aleng(b)) /\ AllSettled(b, docmd_atox(b))
      /\ AllSettled(b, docmd_date(b)) /\ AllSettled(b, docmd_time(b))
  BY <1>1 DEF docmd_ran, docmd_aleng, docmd_atox, docmd_date, docmd_time
<1>4. AllSettled(b, docmd_posa(b))
  <2>1. \/ docmd_posa(b) = Unary(new_real(b)) \cup Ends(b, "INVALID_DATA")
        \/ docmd_posa(b) = Unary(new_real(b))
        \/ docmd_posa(b) = Ends(b, "INVALID_TYPE")
    BY DEF docmd_posa
  <2>. QED  BY <1>1, <1>2, <2>1, TwoSettled
<1>5. AllSettled(b, docmd_date_plus(b)) /\ AllSettled(b, docmd_ddays(b))
  BY OfTwoRealsSettled DEF docmd_date_plus, docmd_ddays
<1>6. AllSettled(b, docmd_dow(b))
  BY <1>1, <1>2, TwoSettled DEF docmd_dow
<1>7. AllSettled(b, docmd_locat(b)) /\ AllSettled(b, docmd_heading(b))
  BY <1>2, WholeStackSettled, TwoSettled DEF docmd_locat, docmd_heading
<1>. QED  BY <1>3, <1>4, <1>5, <1>6, <1>7, AccelSettled DEF Makes, AllSettled

-----------------------------------------------------------------------------
\* Commands with an argument.

\* What holds of the outcomes for direct arguments holds for all arguments.
LEMMA ArgSettled ==
    ASSUME NEW b, Base(b), NEW arg \in Args, NEW f, \A a \in DirectArgs : AllSettled(b, f[a]),
           NEW S, S = IF IsIndirect(arg)
                      THEN LET r == resolve_ind_arg(b, arg)
                           IN  Fails(b, r.errors) \cup UNION {f[a] : a \in r.args}
                      ELSE f[arg]
    PROVE  AllSettled(b, S)
<1>1. CASE ~IsIndirect(arg)  BY <1>1, ArgFacts
<1>2. CASE IsIndirect(arg)
  <2>. DEFINE r == resolve_ind_arg(b, arg)
  <2>1. r.args \subseteq DirectArgs  BY Resolves
  <2>2. S = Fails(b, r.errors) \cup UNION {f[a] : a \in r.args}  BY <1>2
  <2>. HIDE DEF r
  <2>3. AllSettled(b, Fails(b, r.errors))  BY EndsSettled
  <2>. QED  BY <2>1, <2>2, <2>3 DEF AllSettled
<1>. QED  BY <1>1, <1>2

\* The same for values that are made.
LEMMA ArgMade ==
    ASSUME NEW b, Base(b), NEW arg \in Args, NEW f, \A a \in DirectArgs : AllMade(b, f[a]),
           NEW S, S = IF IsIndirect(arg)
                      THEN LET r == resolve_ind_arg(b, arg)
                           IN  Fails(b, r.errors) \cup UNION {f[a] : a \in r.args}
                      ELSE f[arg]
    PROVE  AllMade(b, S)
<1>1. CASE ~IsIndirect(arg)  BY <1>1, ArgFacts
<1>2. CASE IsIndirect(arg)
  <2>. DEFINE r == resolve_ind_arg(b, arg)
  <2>1. r.args \subseteq DirectArgs /\ "NONE" \notin r.errors  BY Resolves
  <2>2. S = Fails(b, r.errors) \cup UNION {f[a] : a \in r.args}  BY <1>2
  <2>. HIDE DEF r
  <2>3. AllMade(b, Fails(b, r.errors))  BY <2>1, EndsSettled
  <2>. QED  BY <2>1, <2>2, <2>3 DEF AllMade
<1>. QED  BY <1>1, <1>2

\* A command has put its values away, or failed; another value was in a hand all the time.
LEMMA HandPutInX ==
    ASSUME NEW b, NEW d, NEW v, v # None, Has(b, d, v, None, None), Seen(b, d), NEW r, Settled(d, r)
    PROVE  /\ Has(b, r.calc, v, None, None)
           /\ Has(b, WithSlot(r.calc, "x", v), None, None, None)
           /\ Has(b, free_vartype(r.calc, v), None, None, None)
           /\ r.err \notin Fine => Seen(b, r.calc) /\ Seen(b, free_vartype(r.calc, v))
<1>1. Has(b, r.calc, v, None, None)  BY HasMore DEF Settled
<1>2. Takes("x", v)  BY <1>1, SlotFacts DEF Takes, Has, Stack
<1>3. r.err \notin Fine => Seen(b, r.calc)  BY SeenThrough DEF Settled
<1>4. Has(b, WithSlot(r.calc, "x", v), None, None, None)  BY <1>1, <1>2, SlotTakes
<1>. QED  BY <1>1, <1>3, <1>4, HandFreed

LEMMA x_swapSettled ==
    ASSUME NEW b, Base(b), NEW arg \in Args
    PROVE  AllSettled(b, docmd_x_swap(b, arg))
<1>. DEFINE Swaps(a) ==
                UNION {IF q.err = "NONE"
                       THEN {IF o.err # "NONE" THEN Outcome(free_vartype(o.calc, q.v), o.err, None)
                             ELSE Outcome(WithSlot(o.calc, "x", q.v), "NONE", None) :
                             o \in StoDirect(q.calc, a, "none")}
                       ELSE {q} : q \in RclDirect(b, a)}
            f == [a \in DirectArgs |-> Swaps(a)]
<1>1. ASSUME NEW a \in DirectArgs, NEW o \in Swaps(a) PROVE Settled(b, o)
  <2>1. PICK q \in RclDirect(b, a) :
            o \in IF q.err = "NONE"
                  THEN {IF r.err # "NONE" THEN Outcome(free_vartype(r.calc, q.v), r.err, None)
                        ELSE Outcome(WithSlot(r.calc, "x", q.v), "NONE", None) :
                        r \in StoDirect(q.calc, a, "none")}
                  ELSE {q}
    BY <1>1
  <2>2. Made(b, q)  BY RclDirectMade DEF AllMade
  <2>3. CASE q.err # "NONE"  BY <2>1, <2>2, <2>3 DEF Made, Settled
  <2>4. CASE q.err = "NONE"
    <3>1. PICK r \in StoDirect(q.calc, a, "none") :
              o = IF r.err # "NONE" THEN Outcome(free_vartype(r.calc, q.v), r.err, None)
                  ELSE Outcome(WithSlot(r.calc, "x", q.v), "NONE", None)
      BY <2>1, <2>4
    <3>2. Has(b, q.calc, q.v, None, None) /\ Seen(b, q.calc) /\ q.v # None
      BY <2>2, <2>4 DEF Made
    <3>3. Settled(q.calc, r)  BY <3>2, HasIsBase, StoDirectSettled DEF AllSettled
    <3>4. \/ r.err = "NONE" /\ o.calc = WithSlot(r.calc, "x", q.v) /\ o.err = "NONE"
          \/ o.calc = free_vartype(r.calc, q.v) /\ o.err = r.err
      BY <3>1, OutcomeIs
    <3>. QED  BY <3>2, <3>3, <3>4, HandPutInX DEF Settled, Fine
  <2>. QED  BY <2>3, <2>4
<1>2. docmd_x_swap(b, arg) = IF IsIndirect(arg)
                             THEN LET r == resolve_ind_arg(b, arg)
                                  IN  Fails(b, r.errors) \cup UNION {Swaps(a) : a \in r.args}
                             ELSE Swaps(arg)
  BY Zenon DEF docmd_x_swap, WithArg, Then
<1>. HIDE DEF Swaps
<1>3. \A a \in DirectArgs : AllSettled(b, f[a]) /\ f[a] = Swaps(a)  BY <1>1 DEF AllSettled
<1>4. resolve_ind_arg(b, arg).args \subseteq DirectArgs  BY Resolves
<1>. HIDE DEF f
<1>5. docmd_x_swap(b, arg) = IF IsIndirect(arg)
                             THEN LET r == resolve_ind_arg(b, arg)
                                  IN  Fails(b, r.errors) \cup UNION {f[a] : a \in r.args}
                             ELSE f[arg]
  BY <1>2, <1>3, <1>4, ArgFacts
<1>. QED  BY <1>3, <1>5, ArgSettled

\* A value in a hand and one on the stack change places.
LEMMA Exchanged ==
    ASSUME NEW b, NEW c, NEW u, u # None, NEW v, NEW w, Has(b, c, u, v, w), NEW s \in Stack
    PROVE  LET e == [c EXCEPT !.slot[s] = u]
           IN  /\ Has(b, e, c.slot[s], v, w) /\ e.data = c.data
               /\ e.slot[s] = u /\ \A t \in Slots \ {s} : e.slot[t] = c.slot[t]
<1>. DEFINE e == [c EXCEPT !.slot[s] = u]
            p == c.slot[s]
<1>1. /\ Form(e) /\ e.lost = c.lost /\ e.pending = c.pending /\ e.live = c.live /\ e.refs = c.refs
      /\ e.data = c.data /\ e.slot[s] = u /\ \A t \in Slots \ {s} : e.slot[t] = c.slot[t]
  BY SlotFacts DEF Has, Calc, Form, Fields
<1>. HIDE DEF e
<1>2. Calc(c) /\ Value(p) /\ p # None /\ s \in Slots /\ Value(u)
  BY SlotFacts, StackTypes DEF Has
<1>. HIDE DEF p
<1>3. /\ IsFiniteSet(HeldBy(e.slot)) /\ N(e.slot) = N(c.slot) - V(p) + V(u)
      /\ \A a : K(e.slot, a) = K(c.slot, a) - M(p, a) + M(u, a)
  BY <1>1, <1>2, OneSlot DEF Calc, p
<1>4. Proper(e.slot)  BY <1>1, <1>2, SlotFacts DEF Calc, Proper
<1>5. Calc(e)  BY <1>1, <1>3, <1>4 DEF Calc
<1>6. V(u) = 1 /\ V(p) = 1 /\ V(None) = 0  BY <1>2, ValueFacts
<1>7. \A a : M(u, a) \in Int /\ M(p, a) \in Int /\ M(None, a) = 0  BY ValueFacts
<1>8. Extra(e) = Extra(c)
  BY <1>1, <1>2, <1>3, <1>5, <1>6, Numbered DEF Extra
<1>9. \A a \in Arrays : Spare(e, a) = Spare(c, a) + M(p, a) - M(u, a)
  BY <1>1, <1>2, <1>3, <1>5, <1>7, Numbered DEF Spare
<1>10. /\ Extra(b) \in Int /\ \A a \in Arrays : Spare(b, a) \in Int /\ Spare(c, a) \in Int
  BY <1>2, Numbered DEF Has, Base
<1>11. Extra(e) = Extra(b) + V(p) + V(v) + V(w)  BY <1>6, <1>8 DEF Has
<1>12. ASSUME NEW a \in Arrays PROVE Spare(e, a) = Spare(b, a) + M(p, a) + M(v, a) + M(w, a)
  <2>1. Spare(c, a) = Spare(b, a) + M(u, a) + M(v, a) + M(w, a)  BY DEF Has
  <2>2. M(v, a) \in Int /\ M(w, a) \in Int  BY ValueFacts
  <2>. QED  BY <1>7, <1>9, <1>10, <2>1, <2>2
<1>13. Has(b, e, p, v, w)  BY <1>1, <1>2, <1>5, <1>11, <1>12 DEF Has
<1>. QED  BY <1>1, <1>13 DEF e, p

LEMMA StoresStringSettled ==
    ASSUME NEW b, NEW d, NEW s, s # None, ~IsMatrix(s), Has(b, d, s, None, None), Seen(b, d),
           NEW arg \in Args
    PROVE  AllSettled(b, StoresString(d, s, arg))
<1>. SUFFICES ASSUME NEW o \in StoresString(d, s, arg) PROVE Settled(b, o)
  BY DEF AllSettled
<1>. DEFINE kept == d.slot["x"]
            c == [d EXCEPT !.slot["x"] = s]
<1>1. PICK r \in docmd_sto(c, arg) :
          o = Outcome([free_vartype(r.calc, s) EXCEPT !.slot["x"] = kept], r.err, None)
  BY Zenon DEF StoresString, x
<1>2. /\ Has(b, c, kept, None, None) /\ c.data = d.data
      /\ c.slot["x"] = s /\ \A t \in Slots \ {"x"} : c.slot[t] = d.slot[t]
  <2>1. "x" \in Stack  BY DEF Stack
  <2>. QED  BY <2>1, Exchanged
<1>. HIDE DEF c
<1>3. Settled(c, r) /\ r.calc.slot["x"] = s
  BY <1>2, HasIsBase, docmd_stoSettled DEF AllSettled, KeepsX
<1>4. Has(b, r.calc, kept, None, None)  BY <1>2, <1>3, HasMore DEF Settled
<1>5. kept # None /\ Value(kept) /\ Value(s)  BY StackTypes DEF Has, Stack
<1>. DEFINE e == WithSlot(r.calc, "x", kept)
<1>6. Has(b, e, None, None, None)
  <2>1. Takes("x", kept)  BY <1>5, SlotFacts DEF Takes
  <2>. QED  BY <1>4, <2>1, SlotTakes
<1>7. o.calc = e /\ o.err = r.err  BY <1>1, <1>3, OutcomeIs DEF WithSlot
<1>8. ASSUME r.err \notin Fine PROVE Seen(b, e)
  <2>1. Seen(c, r.calc)  BY <1>3, <1>8 DEF Settled
  <2>2. Form(r.calc)  BY <1>4 DEF Has, Calc
  <2>. DEFINE g == free_vartype(r.calc, s)
  <2>3. Form(g) /\ g.slot = r.calc.slot /\ \A a \in Arrays : g.data[a] = r.calc.data[a]
    <3>1. \A a : M(s, a) = 0  BY DEF M
    <3>. QED  BY <1>5, <2>2, <3>1, FreeIs
  <2>. HIDE DEF g
  <2>4. e = [g EXCEPT !.slot["x"] = kept]  BY <1>3 DEF WithSlot, g
  <2>5. /\ e.slot["x"] = kept /\ \A t \in Slots \ {"x"} : e.slot[t] = r.calc.slot[t]
        /\ \A a \in Arrays : e.data[a] = r.calc.data[a]
    BY <2>2, <2>3, <2>4, SlotFacts DEF Form, Fields
  <2>. HIDE DEF e, kept
  <2>6. \A a \in Arrays : /\ Spare(b, a) \in Int /\ Spare(b, a) >= 0
                          /\ Spare(c, a) = Spare(b, a) + M(kept, a) + M(None, a) + M(None, a)
    BY <1>2, Numbered DEF Has, Base
  <2>7. \A a \in Arrays : Spare(b, a) >= 1 \/ M(kept, a) = 1 => Spare(c, a) >= 1
    BY <2>6, ValueFacts
  <2>8. \A a \in Arrays : Spare(b, a) >= 1 \/ M(kept, a) = 1 => e.data[a] = d.data[a]
    BY <1>2, <2>1, <2>5, <2>7 DEF Seen
  <2>9. \A a \in Arrays : Spare(b, a) >= 1 => e.data[a] = b.data[a]
    BY <2>8 DEF Seen
  <2>10. Visible(e, "x") = Visible(d, "x")
    <3>1. CASE IsMatrix(kept)
      <4>1. kept.array \in Arrays /\ M(kept, kept.array) = 1
        BY <1>5, <3>1, ValueFacts DEF Value, IsMatrix, None, ScalarTypes, MatrixTypes
      <4>2. e.data[kept.array] = d.data[kept.array]  BY <2>8, <4>1
      <4>. QED  BY <2>5, <3>1, <4>2 DEF Visible, kept
    <3>2. CASE ~IsMatrix(kept)  BY <2>5, <3>2 DEF Visible, kept
    <3>. QED  BY <3>1, <3>2
  <2>11. ASSUME NEW t \in Slots \ {"x"} PROVE Visible(e, t) = Visible(d, t)
    <3>1. Visible(c, t) = Visible(r.calc, t)  BY <2>1 DEF Seen
    <3>2. Visible(c, t) = Visible(d, t)  BY <1>2 DEF Visible
    <3>3. IsMatrix(r.calc.slot[t]) => r.calc.slot[t].array \in Arrays
      BY <1>4, HasIsBase, SlotsRefer
    <3>4. Visible(e, t) = Visible(r.calc, t)  BY <2>5, <3>3 DEF Visible
    <3>. QED  BY <3>1, <3>2, <3>4
  <2>12. \A t \in Slots : Visible(b, t) = Visible(e, t)
    BY <2>10, <2>11 DEF Seen
  <2>. QED  BY <2>9, <2>12 DEF Seen
<1>. QED  BY <1>6, <1>7, <1>8 DEF Settled

LEMMA astoSettled ==
    ASSUME NEW b, Base(b), NEW arg \in Args
    PROVE  AllSettled(b, docmd_asto(b, arg))
<1>. SUFFICES ASSUME NEW o \in docmd_asto(b, arg) PROVE Settled(b, o)
  BY DEF AllSettled
<1>. DEFINE Body(d, s) ==
                CASE arg = <<"stk", "x">> -> Done(WithSlot(d, "x", s))
                  [] arg = <<"ind", "stk", "x">> ->
                         LET r == resolve_ind_arg(d, arg)
                         IN  Fails(free_vartype(d, s), r.errors)
                             \cup UNION {StoresString(d, s, a) : a \in r.args}
                  [] OTHER -> StoresString(d, s, arg)
<1>1. PICK q \in new_string(b) : o \in IF q.err = "NONE" THEN Body(q.calc, q.v) ELSE {q}
  BY Zenon DEF docmd_asto, Then
<1>2. Made(b, q) /\ (q.err = "NONE" => q.v.type = "string")
  BY NumbersMade DEF AllMade, OfTypes
<1>3. CASE q.err # "NONE"  BY <1>1, <1>2, <1>3 DEF Made, Settled
<1>4. CASE q.err = "NONE"
  <2>. DEFINE d == q.calc
              s == q.v
              r == resolve_ind_arg(d, arg)
  <2>1. Has(b, d, s, None, None) /\ Seen(b, d) /\ s # None /\ ~IsMatrix(s)
    BY <1>2, <1>4 DEF Made, IsMatrix, MatrixTypes
  <2>2. r.args \subseteq DirectArgs  BY Resolves
  <2>3. o \in Body(d, s)  BY <1>1, <1>4
  <2>. HIDE DEF d, s
  <2>4. \/ o \in Done(WithSlot(d, "x", s))
        \/ o \in Fails(free_vartype(d, s), r.errors)
        \/ o \in UNION {StoresString(d, s, a) : a \in r.args}
        \/ o \in StoresString(d, s, arg)
    <3>1. CASE arg = <<"stk", "x">>
      BY <2>3, <3>1
    <3>2. CASE arg = <<"ind", "stk", "x">>
      <4>1. arg # <<"stk", "x">>  BY <3>2
      <4>. QED  BY <2>3, <3>2, <4>1
    <3>3. CASE arg # <<"stk", "x">> /\ arg # <<"ind", "stk", "x">>
      BY <2>3, <3>3
    <3>. QED  BY <3>1, <3>2, <3>3
  <2>. HIDE DEF r
  <2>5. CASE o \in Done(WithSlot(d, "x", s))
    <3>1. Takes("x", s)  BY <2>1, SlotFacts DEF Takes, Has, Stack
    <3>2. Has(b, WithSlot(d, "x", s), None, None, None)  BY <2>1, <3>1, SlotTakes
    <3>. QED  BY <2>5, <3>2, OneDone DEF AllSettled
  <2>6. CASE o \in Fails(free_vartype(d, s), r.errors)
    <3>1. o.calc = free_vartype(d, s)  BY <2>6, OutcomeIs DEF Ends, Fails
    <3>. QED  BY <2>1, <3>1, HandFreed DEF Settled
  <2>7. CASE o \in UNION {StoresString(d, s, a) : a \in r.args}
    <3>1. PICK a \in r.args : o \in StoresString(d, s, a)  BY <2>7
    <3>2. a \in Args  BY <2>2 DEF Args
    <3>. QED  BY <2>1, <3>1, <3>2, StoresStringSettled DEF AllSettled
  <2>8. CASE o \in StoresString(d, s, arg)
    BY <2>1, <2>8, StoresStringSettled DEF AllSettled
  <2>. QED  BY <2>4, <2>5, <2>6, <2>7, <2>8
<1>. QED  BY <1>3, <1>4

LEMMA arclSettled ==
    ASSUME NEW b, Base(b), NEW arg \in Args
    PROVE  AllSettled(b, docmd_arcl(b, arg))
<1>. SUFFICES ASSUME NEW o \in docmd_arcl(b, arg) PROVE Settled(b, o)
  BY DEF AllSettled
<1>1. PICK q \in dup_vartype(b, x(b)) :
          o \in IF q.err = "NONE"
                THEN {LET e == [r.calc EXCEPT !.lift = b.lift]
                      IN  IF r.err # "NONE" THEN Outcome(free_vartype(e, q.v), r.err, None)
                          ELSE Outcome(WithSlot(e, "x", q.v), "NONE", None) :
                      r \in docmd_rcl([q.calc EXCEPT !.lift = TRUE], arg)}
                ELSE {q}
  BY Zenon DEF docmd_arcl, Then
<1>2. Made(b, q)  BY DupMade, Operands DEF AllMade
<1>3. CASE q.err # "NONE"  BY <1>1, <1>2, <1>3 DEF Made, Settled
<1>4. CASE q.err = "NONE"
  <2>. DEFINE d == [q.calc EXCEPT !.lift = TRUE]
              v == q.v
  <2>1. PICK r \in docmd_rcl(d, arg) :
            o = LET e == [r.calc EXCEPT !.lift = b.lift]
                IN  IF r.err # "NONE" THEN Outcome(free_vartype(e, v), r.err, None)
                    ELSE Outcome(WithSlot(e, "x", v), "NONE", None)
    BY <1>1, <1>4
  <2>2. Has(b, q.calc, v, None, None) /\ Seen(b, q.calc) /\ v # None
    BY <1>2, <1>4 DEF Made
  <2>3. Has(b, d, v, None, None) /\ Seen(b, d)  BY <2>2, Flagged
  <2>. HIDE DEF d, v
  <2>4. Settled(d, r)  BY <2>3, HasIsBase, docmd_rclSettled DEF AllSettled
  <2>. DEFINE e == [r.calc EXCEPT !.lift = b.lift]
  <2>5. Has(b, r.calc, v, None, None) /\ (r.err \notin Fine => Seen(b, r.calc))
    BY <2>2, <2>3, <2>4, HandPutInX
  <2>6. Has(b, e, v, None, None) /\ (r.err \notin Fine => Seen(b, e))
    BY <2>5, Flagged
  <2>7. \/ r.err = "NONE" /\ o.calc = WithSlot(e, "x", v) /\ o.err = "NONE"
        \/ o.calc = free_vartype(e, v) /\ o.err = r.err
    BY <2>1, OutcomeIs
  <2>. HIDE DEF e
  <2>8. Takes("x", v)  BY <2>2, SlotFacts DEF Takes, Has, Stack
  <2>9. Has(b, WithSlot(e, "x", v), None, None, None)  BY <2>6, <2>8, SlotTakes
  <2>. QED  BY <2>6, <2>7, <2>9, HandFreed DEF Settled, Fine
<1>. QED  BY <1>3, <1>4

LEMMA inputSettled ==
    ASSUME NEW b, Base(b), NEW arg \in Args
    PROVE  AllSettled(b, docmd_input(b, arg))
<1>. DEFINE Recall(a) ==
                {p \in RclDirect(b, a) : p.err # "NONEXISTENT"}
                \cup (IF \E p \in RclDirect(b, a) : p.err = "NONEXISTENT" THEN new_real(b) ELSE {})
            f == [a \in DirectArgs |-> Recall(a)]
            S == IF IsIndirect(arg)
                 THEN LET r == resolve_ind_arg(b, arg)
                      IN  Fails(b, r.errors) \cup UNION {Recall(a) : a \in r.args}
                 ELSE Recall(arg)
<1>1. \A a \in DirectArgs : AllMade(b, Recall(a))
  BY RclDirectMade, NumbersMade DEF AllMade
<1>2. docmd_input(b, arg) =
          UNION {IF q.err = "NONE" THEN Ends(recall_result(q.calc, q.v), "STOP") ELSE {q} : q \in S}
  BY Zenon DEF docmd_input, WithArg, Then
<1>. HIDE DEF Recall
<1>3. \A a \in DirectArgs : AllMade(b, f[a]) /\ f[a] = Recall(a)  BY <1>1
<1>4. resolve_ind_arg(b, arg).args \subseteq DirectArgs  BY Resolves
<1>. HIDE DEF f
<1>5. S = IF IsIndirect(arg)
          THEN LET r == resolve_ind_arg(b, arg)
               IN  Fails(b, r.errors) \cup UNION {f[a] : a \in r.args}
          ELSE f[arg]
  BY <1>3, <1>4, ArgFacts
<1>6. AllMade(b, S)  BY <1>3, <1>5, ArgMade
<1>. HIDE DEF S
<1>7. ASSUME NEW q \in S, NEW o \in IF q.err = "NONE" THEN Ends(recall_result(q.calc, q.v), "STOP") ELSE {q}
      PROVE  Settled(b, o)
  <2>1. Made(b, q)  BY <1>6 DEF AllMade
  <2>2. CASE q.err # "NONE"  BY <1>7, <2>1, <2>2 DEF Made, Settled
  <2>3. CASE q.err = "NONE"
    <3>1. o.calc = recall_result(q.calc, q.v) /\ o.err = "STOP"
      BY <1>7, <2>3, OutcomeIs DEF Ends
    <3>. QED  BY <2>1, <2>3, <3>1, Recalled DEF Made, Settled, Fine
  <2>. QED  BY <2>2, <2>3
<1>. QED  BY <1>2, <1>7 DEF AllSettled

LEMMA view_helperSettled ==
    ASSUME NEW b, Base(b), NEW arg \in Args
    PROVE  AllSettled(b, view_helper(b, arg))
<1>. SUFFICES ASSUME NEW o \in view_helper(b, arg) PROVE Settled(b, o)
  BY DEF AllSettled
<1>1. PICK q \in generic_rcl(b, arg) :
          o \in IF q.err = "NONE"
                THEN Done(free_vartype(q.calc, q.v)) \cup Ends(free_vartype(q.calc, q.v), "STOP")
                ELSE {q}
  BY Zenon DEF view_helper, Then
<1>2. Made(b, q)  BY generic_rclMade DEF AllMade
<1>3. CASE q.err # "NONE"  BY <1>1, <1>2, <1>3 DEF Made, Settled
<1>4. CASE q.err = "NONE"
  <2>1. o.calc = free_vartype(q.calc, q.v) /\ o.err \in {"NONE", "STOP"}
    BY <1>1, <1>4, OutcomeIs DEF Done, Ends
  <2>. QED  BY <1>2, <1>4, <2>1, HandFreed DEF Made, Settled, Fine
<1>. QED  BY <1>3, <1>4

LEMMA LoopDirectSettled ==
    ASSUME NEW b, Base(b), NEW a \in DirectArgs
    PROVE  AllSettled(b, LoopDirect(b, a))
<1>. DEFINE regs == b.slot["REGS"]
            S == UNION {IF q.err = "NONE"
                        THEN UNION {generic_loop_helper(o.calc) :
                                    o \in Writes(q.calc, "REGS", {q.calc.data[q.calc.slot["REGS"].array]})}
                        ELSE {q} : q \in disentangle(b, "REGS")}
<1>1. /\ \A e : AllSettled(b, Ends(b, e))
      /\ \A v : AllSettled(b, Rejects(b, v))
      /\ AllSettled(b, generic_loop_helper(b)) /\ AllSettled(b, {})
  BY EndsSettled DEF generic_loop_helper, AllSettled
<1>2. ASSUME IsMatrix(regs), NEW o \in S PROVE Settled(b, o)
  <2>1. PICK q \in disentangle(b, "REGS") :
            o \in IF q.err = "NONE"
                  THEN UNION {generic_loop_helper(w.calc) :
                              w \in Writes(q.calc, "REGS", {q.calc.data[q.calc.slot["REGS"].array]})}
                  ELSE {q}
    BY <1>2
  <2>2. CASE q.err # "NONE"
    <3>1. o = q  BY <2>1, <2>2
    <3>. QED  BY <1>2, <2>2, <3>1, SlotWritten, SlotFacts
  <2>3. CASE q.err = "NONE"
    <3>. DEFINE contents == {q.calc.data[q.calc.slot["REGS"].array]}
    <3>1. PICK w \in Writes(q.calc, "REGS", contents) : o \in generic_loop_helper(w.calc)
      BY <2>1, <2>3
    <3>. HIDE DEF contents
    <3>2. Settled(b, w)  BY <1>2, <2>3, SlotWritten, SlotFacts
    <3>3. o.calc = w.calc /\ o.err \in {"YES", "NO"}
      BY <3>1, OutcomeIs DEF generic_loop_helper, Fails, Ends
    <3>. QED  BY <3>2, <3>3 DEF Settled, Fine
  <2>. QED  BY <2>2, <2>3
<1>3. \/ LoopDirect(b, a) \in {Ends(b, "SIZE_ERROR"), Ends(b, "INVALID_TYPE"), Ends(b, "INTERNAL_ERROR"),
                               {}, generic_loop_helper(b), Rejects(b, b.slot[a[2]])}
      \/ /\ IsMatrix(regs)
         /\ \A o \in LoopDirect(b, a) :
                o \in Ends(b, "SIZE_ERROR") \/ o \in Ends(b, "ALPHA_DATA_IS_INVALID") \/ o \in S
  <2>1. CASE a[1] # "num"  BY <2>1 DEF LoopDirect
  <2>2. CASE a[1] = "num" /\ regs = None  BY <2>2 DEF LoopDirect, recall_var
  <2>3. CASE a[1] = "num" /\ regs # None /\ regs.type = "realmatrix"
    <3>1. LoopDirect(b, a) = Ends(b, "SIZE_ERROR")
                             \cup (IF ContainsStrings(b, regs)
                                   THEN Ends(b, "ALPHA_DATA_IS_INVALID") ELSE {})
                             \cup S
      BY <2>3, Zenon DEF LoopDirect, recall_var, Then
    <3>2. IsMatrix(regs)  BY <2>3 DEF IsMatrix, MatrixTypes
    <3>. HIDE DEF S, regs
    <3>. QED  BY <3>1, <3>2
  <2>4. CASE a[1] = "num" /\ regs # None /\ regs.type # "realmatrix"
    <3>1. LoopDirect(b, a) = CASE regs.type = "complexmatrix" -> Ends(b, "INVALID_TYPE")
                               [] OTHER -> Ends(b, "INTERNAL_ERROR")
      BY <2>4 DEF LoopDirect, recall_var
    <3>. QED  BY <3>1
  <2>. QED  BY <2>1, <2>2, <2>3, <2>4
<1>. HIDE DEF S, regs
<1>. QED  BY <1>1, <1>2, <1>3 DEF AllSettled

LEMMA generic_loopSettled ==
    ASSUME NEW b, Base(b), NEW arg \in Args
    PROVE  AllSettled(b, generic_loop(b, arg))
<1>. DEFINE f == [a \in DirectArgs |-> LoopDirect(b, a)]
<1>1. \A a \in DirectArgs : AllSettled(b, f[a]) /\ f[a] = LoopDirect(b, a)  BY LoopDirectSettled
<1>2. resolve_ind_arg(b, arg).args \subseteq DirectArgs  BY Resolves
<1>3. generic_loop(b, arg) = IF IsIndirect(arg)
                             THEN LET r == resolve_ind_arg(b, arg)
                                  IN  Fails(b, r.errors) \cup UNION {LoopDirect(b, a) : a \in r.args}
                             ELSE LoopDirect(b, arg)
  BY DEF generic_loop, WithArg
<1>. HIDE DEF f
<1>4. generic_loop(b, arg) = IF IsIndirect(arg)
                             THEN LET r == resolve_ind_arg(b, arg)
                                  IN  Fails(b, r.errors) \cup UNION {f[a] : a \in r.args}
                             ELSE f[arg]
  BY <1>1, <1>2, <1>3, ArgFacts
<1>. QED  BY <1>1, <1>4, ArgSettled

LEMMA StoresSettled ==
    ASSUME NEW b, Base(b)
    PROVE  AllSettled(b, Stores(b))
<1>1. ASSUME NEW a \in Args
      PROVE  /\ AllSettled(b, docmd_sto(b, a)) /\ AllSettled(b, docmd_rcl(b, a))
             /\ AllSettled(b, docmd_x_swap(b, a)) /\ AllSettled(b, docmd_asto(b, a))
             /\ AllSettled(b, docmd_arcl(b, a)) /\ AllSettled(b, docmd_input(b, a))
             /\ AllSettled(b, docmd_view(b, a)) /\ AllSettled(b, docmd_isg(b, a))
             /\ AllSettled(b, docmd_dse(b, a))
  BY docmd_stoSettled, docmd_rclSettled, x_swapSettled, astoSettled, arclSettled, inputSettled,
     view_helperSettled, generic_loopSettled
  DEF docmd_view, docmd_isg, docmd_dse
<1>. QED  BY <1>1 DEF Stores, AllSettled

LEMMA NamedVariablesRight ==
    ASSUME NEW b, Base(b)
    PROVE  AllRight(b, NamedVariables(b))
<1>1. ASSUME NEW arg \in Args, NEW o \in docmd_clv(b, arg) PROVE Settled(b, o)
  <2>. DEFINE Clears(a) == IF a[1] = "str" THEN Done(purge_var(b, a[2])) ELSE Ends(b, "INVALID_TYPE")
              r == resolve_ind_arg(b, arg)
  <2>1. \/ o \in Fails(b, r.errors)
        \/ \E a \in DirectArgs : o \in Clears(a)
    BY <1>1, ArgFacts, Resolves DEF docmd_clv, WithArg
  <2>2. ASSUME NEW a \in DirectArgs, o \in Clears(a) PROVE Settled(b, o)
    <3>1. CASE a[1] = "str"
      <4>1. a[2] \in Variables  BY <3>1, DirectFacts
      <4>2. Takes(a[2], None)
        BY <4>1, SlotFacts, ValueFacts, ValueStackAssumption DEF Takes, Stack
      <4>3. Has(b, WithSlot(b, a[2], None), None, None, None)  BY <4>2, HasNothing, SlotTakes
      <4>. QED  BY <2>2, <3>1, <4>3, OneDone DEF purge_var, AllSettled
    <3>2. CASE a[1] # "str"
      <4>1. o \in Ends(b, "INVALID_TYPE")  BY <2>2, <3>2
      <4>. QED  BY <4>1, EndsSettled DEF AllSettled
    <3>. QED  BY <3>1, <3>2
  <2>3. AllSettled(b, Fails(b, r.errors))  BY EndsSettled
  <2>. QED  BY <2>1, <2>2, <2>3 DEF AllSettled
<1>2. ASSUME NEW arg \in Args, NEW o \in docmd_prv(b, arg) PROVE Right(b, o)
  <2>. DEFINE Shows(a) == IF a[1] # "str" THEN Ends(b, "INVALID_TYPE")
                          ELSE IF recall_var(b, a[2]) = None THEN Ends(b, "NONEXISTENT")
                          ELSE Fails(b, {"NONE", "PRINTING_IS_DISABLED"}) \cup Prints(b, a[2])
              r == resolve_ind_arg(b, arg)
  <2>1. \/ o \in Fails(b, r.errors)
        \/ \E a \in DirectArgs : o \in Shows(a)
    BY <1>2, ArgFacts, Resolves DEF docmd_prv, WithArg
  <2>2. /\ \A E : AllRight(b, Fails(b, E))
        /\ \A e : AllRight(b, Ends(b, e))
        /\ \A s : AllRight(b, Prints(b, s))
    BY EndsSettled, SettledIsRight, PrintsGo
  <2>3. ASSUME NEW a \in DirectArgs, o \in Shows(a) PROVE Right(b, o)
    <3>1. \/ o \in Ends(b, "INVALID_TYPE") \/ o \in Ends(b, "NONEXISTENT")
          \/ o \in Fails(b, {"NONE", "PRINTING_IS_DISABLED"}) \/ o \in Prints(b, a[2])
      BY <2>3
    <3>. QED  BY <2>2, <3>1 DEF AllRight
  <2>. QED  BY <2>1, <2>2, <2>3 DEF AllRight
<1>. QED  BY <1>1, <1>2 DEF NamedVariables, NameArgs, AllRight, Right

-----------------------------------------------------------------------------
\* SOLVE and INTEG, whose variable can be REGS.

\* A calculator, whatever is in REGS.
Loose(c) ==
    /\ Form(c)
    /\ \A s \in Slots : Value(c.slot[s])
    /\ \A s \in Stack : c.slot[s] # None
    /\ IsFiniteSet(HeldBy(c.slot))

LEMMA CalcIsLoose ==
    ASSUME NEW c
    PROVE  Calc(c) <=> Loose(c) /\ (misplaced \/ RegsUsable(c))
BY DEF Calc, Proper, Loose, RegsUsable

LEMMA LooseNumbers ==
    ASSUME NEW c, Loose(c)
    PROVE  /\ Extra(c) \in Int /\ N(c.slot) \in Nat /\ c.live \in Int /\ c.lost \in Nat
           /\ \A a \in Arrays : Spare(c, a) \in Int /\ K(c.slot, a) \in Nat /\ c.refs[a] \in Int
BY CountsAreNumbers DEF Loose, Form, Extra, Spare

\* From b on, nothing has got into a hand.
Keeps(b, c) ==
    /\ Base(b) /\ Loose(c)
    /\ c.lost >= b.lost /\ c.pending = b.pending
    /\ Extra(c) = Extra(b)
    /\ \A a \in Arrays : Spare(c, a) = Spare(b, a)

LEMMA HasKeeps ==
    ASSUME NEW b, NEW c, Has(b, c, None, None, None)
    PROVE  Keeps(b, c)
<1>1. Extra(b) \in Int /\ \A a \in Arrays : Spare(b, a) \in Int  BY Numbered DEF Has, Base
<1>2. Extra(c) = Extra(b) /\ \A a \in Arrays : Spare(c, a) = Spare(b, a)
  BY <1>1, ValueFacts DEF Has
<1>. QED  BY <1>2, CalcIsLoose DEF Has, Keeps

\* A variable gets the value in a hand, also REGS a number.
LEMMA SlotGets ==
    ASSUME NEW b, NEW c, NEW v, Has(b, c, v, None, None), v # None, NEW s \in Slots
    PROVE  Keeps(b, WithSlot(c, s, v))
<1>. DEFINE p == c.slot[s]
            d == free_vartype(c, p)
            e == WithSlot(c, s, v)
<1>1. Calc(c) /\ Value(p) /\ Value(v)  BY DEF Has, Calc, Proper
<1>2. /\ Form(d) /\ d.slot = c.slot /\ d.lost = c.lost /\ d.pending = c.pending
      /\ d.live = c.live - V(p)
      /\ \A a \in Arrays : d.refs[a] = c.refs[a] - M(p, a)
  BY <1>1, FreeIs DEF Calc
<1>3. /\ Form(e) /\ e.slot = [c.slot EXCEPT ![s] = v] /\ e.lost = c.lost /\ e.pending = c.pending
      /\ e.live = c.live - V(p) /\ \A a \in Arrays : e.refs[a] = c.refs[a] - M(p, a)
  BY <1>1, <1>2 DEF WithSlot, Form, Fields
<1>. HIDE DEF d, e
<1>4. e.slot[s] = v /\ \A t \in Slots \ {s} : e.slot[t] = c.slot[t]
  BY <1>1, <1>3 DEF Calc, Form
<1>5. /\ IsFiniteSet(HeldBy(e.slot)) /\ N(e.slot) = N(c.slot) - V(p) + V(v)
      /\ \A a : K(e.slot, a) = K(c.slot, a) - M(p, a) + M(v, a)
  BY <1>1, <1>4, OneSlot DEF Calc
<1>6. Loose(e)
  <2>1. \A t \in Slots : Value(e.slot[t])  BY <1>1, <1>4 DEF Calc, Proper
  <2>2. \A t \in Stack : e.slot[t] # None  BY <1>1, <1>4, SlotFacts DEF Calc, Proper
  <2>. QED  BY <1>3, <1>5, <2>1, <2>2 DEF Loose
<1>7. Extra(e) = Extra(c) - V(v) /\ \A a \in Arrays : Spare(e, a) = Spare(c, a) - M(v, a)
  <2>1. /\ N(c.slot) \in Nat /\ c.live \in Int /\ c.lost \in Nat /\ V(p) \in Int /\ V(v) \in Int
        /\ \A a \in Arrays : /\ K(c.slot, a) \in Nat /\ c.refs[a] \in Int
                             /\ M(p, a) \in Int /\ M(v, a) \in Int
    BY <1>1, Numbered, ValueFacts
  <2>. HIDE DEF p
  <2>2. Extra(e) = Extra(c) - V(v)  BY <1>3, <1>5, <2>1 DEF Extra
  <2>3. \A a \in Arrays : Spare(e, a) = Spare(c, a) - M(v, a)  BY <1>3, <1>5, <2>1 DEF Spare
  <2>. QED  BY <2>2, <2>3
<1>8. Extra(b) \in Int /\ \A a \in Arrays : Spare(b, a) \in Int  BY Numbered DEF Has, Base
<1>9. /\ Extra(c) = Extra(b) + V(v) /\ \A a \in Arrays : Spare(c, a) = Spare(b, a) + M(v, a)
  BY <1>8, ValueFacts DEF Has
<1>10. /\ Extra(e) = Extra(b) /\ \A a \in Arrays : Spare(e, a) = Spare(b, a)
  BY <1>7, <1>8, <1>9, ValueFacts
<1>11. Base(b) /\ c.lost >= b.lost /\ c.pending = b.pending  BY DEF Has
<1>12. e.lost >= b.lost /\ e.pending = b.pending  BY <1>3, <1>11
<1>13. Keeps(b, e)  BY <1>6, <1>10, <1>11, <1>12 DEF Keeps
<1>. QED  BY <1>13 DEF e

\* The user's program was called, or something is wrong with the value of the variable;
\* or nothing of the kind.
SolverRight(b, o) ==
    \/ Settled(b, o)
    \/ o.err = "RUN" /\ Keeps(b, o.calc)
    \/ o.err = "UNDEFINED" /\ Form(o.calc)

AllSolverRight(b, outs) == \A o \in outs : SolverRight(b, o)

LEMMA SettledIsSolverRight ==
    ASSUME NEW b, NEW S
    PROVE  /\ AllSettled(b, S) => AllSolverRight(b, S)
           /\ \A T : AllSolverRight(b, S) /\ AllSolverRight(b, T) => AllSolverRight(b, S \cup T)
           /\ (\A T \in S : AllSolverRight(b, T)) => AllSolverRight(b, UNION S)
BY DEF AllSettled, AllSolverRight, SolverRight

LEMMA StoresNumberKeeps ==
    ASSUME NEW b, Base(b), NEW name \in Variables, NEW q \in StoresNumber(b, name)
    PROVE  /\ q.err = "NONE" => Keeps(b, q.calc)
           /\ q.err # "NONE" => Settled(b, q)
<1>1. CASE q \in Done(b)
  <2>1. q.calc = b /\ q.err = "NONE"  BY <1>1, OutcomeIs DEF Done, Ends
  <2>2. Keeps(b, b)  BY HasNothing, HasKeeps
  <2>. QED  BY <2>1, <2>2
<1>2. ASSUME NEW r \in new_real(b),
             q \in IF r.err = "NONE" THEN Done(store_var(r.calc, name, r.v)) ELSE {r}
      PROVE  /\ q.err = "NONE" => Keeps(b, q.calc)
             /\ q.err # "NONE" => Settled(b, q)
  <2>1. Made(b, r)  BY NumbersMade DEF AllMade
  <2>2. CASE r.err # "NONE"
    <3>1. q = r  BY <1>2, <2>2
    <3>. QED  BY <2>1, <2>2, <3>1 DEF Made, Settled
  <2>3. CASE r.err = "NONE"
    <3>1. q.calc = WithSlot(r.calc, name, r.v) /\ q.err = "NONE"
      BY <1>2, <2>3, OutcomeIs DEF Done, Ends, store_var
    <3>2. Has(b, r.calc, r.v, None, None) /\ r.v # None  BY <2>1, <2>3 DEF Made
    <3>3. name \in Slots  BY SlotFacts
    <3>. QED  BY <3>1, <3>2, <3>3, SlotGets
  <2>. QED  BY <2>2, <2>3
<1>3. \/ q \in Done(b)
      \/ \E r \in new_real(b) :
             q \in IF r.err = "NONE" THEN Done(store_var(r.calc, name, r.v)) ELSE {r}
  BY Zenon DEF StoresNumber, Then
<1>. QED  BY <1>1, <1>2, <1>3

LEMMA call_fnRight ==
    ASSUME NEW b, Base(b), NEW name \in Variables
    PROVE  AllSolverRight(b, call_fn(b, name))
<1>1. ASSUME NEW o \in call_fn(b, name) PROVE SolverRight(b, o)
  <2>1. PICK q \in StoresNumber(b, name) :
            o \in IF q.err = "NONE" THEN Calls(q.calc, name) \cup NotFound(q.calc, name) ELSE {q}
    BY <1>1, Zenon DEF call_fn, Then
  <2>2. CASE q.err # "NONE"
    <3>1. o = q  BY <2>1, <2>2
    <3>. QED  BY <2>2, <3>1, StoresNumberKeeps DEF SolverRight
  <2>3. CASE q.err = "NONE"
    <3>1. Keeps(b, q.calc)  BY <2>3, StoresNumberKeeps
    <3>2. CASE o \in Calls(q.calc, name)
      <4>1. o.err = "RUN" /\ o.calc = q.calc  BY <3>2, OutcomeIs DEF Calls
      <4>. QED  BY <3>1, <4>1 DEF SolverRight
    <3>3. CASE o \in NotFound(q.calc, name)
      <4>. DEFINE v == q.calc.slot[name]
      <4>1. o.err = "UNDEFINED" /\ o.calc = free_vartype(q.calc, v)
        BY <3>3, OutcomeIs DEF NotFound, Ends, recall_var
      <4>2. Form(q.calc) /\ Value(v)  BY <3>1, SlotFacts DEF Keeps, Loose
      <4>. HIDE DEF v
      <4>3. Form(free_vartype(q.calc, v))  BY <4>2, FreeIs
      <4>. QED  BY <4>1, <4>3 DEF SolverRight
    <3>. QED  BY <2>1, <2>3, <3>2, <3>3
  <2>. QED  BY <2>2, <2>3
<1>. QED  BY <1>1 DEF AllSolverRight

LEMMA OrStopsSettled ==
    ASSUME NEW b, NEW S, AllSettled(b, S)
    PROVE  AllSettled(b, OrStops(S))
<1>1. ASSUME NEW o \in OrStops(S) PROVE Settled(b, o)
  <2>1. PICK q \in S : o \in IF q.err = "NONE" THEN Done(q.calc) \cup Ends(q.calc, "STOP") ELSE {q}
    BY <1>1, Zenon DEF OrStops, Then
  <2>2. Settled(b, q)  BY DEF AllSettled
  <2>3. CASE q.err # "NONE"
    <3>1. o = q  BY <2>1, <2>3
    <3>. QED  BY <2>2, <3>1
  <2>4. CASE q.err = "NONE"
    <3>1. o.calc = q.calc /\ o.err \in {"NONE", "STOP"}
      BY <2>1, <2>4, OutcomeIs DEF Done, Ends
    <3>. QED  BY <2>2, <3>1 DEF Settled, Fine
  <2>. QED  BY <2>3, <2>4
<1>. QED  BY <1>1 DEF AllSettled

\* The results of a solver.
LEMMA FinishesRight ==
    ASSUME NEW b, Base(b)
    PROVE  /\ \A name : AllSolverRight(b, finish_solve(b, name))
           /\ AllSolverRight(b, finish_integ(b))
<1>1. AllSettled(b, Ends(b, "UNDEFINED"))  BY EndsSettled
<1>2. AllSettled(b, OrStops(WholeStack(b, "real")))  BY WholeStackSettled, OrStopsSettled
<1>3. ASSUME NEW name PROVE AllSolverRight(b, finish_solve(b, name))
  <2>1. finish_solve(b, name) \in {Ends(b, "UNDEFINED"), OrStops(WholeStack(b, "real"))}
    BY DEF finish_solve
  <2>. QED  BY <1>1, <1>2, <2>1, SettledIsSolverRight
<1>4. AllSolverRight(b, finish_integ(b))
  <2>. DEFINE S == Then(two_reals(b), LAMBDA d, v : Done(recall_two_results(d, v[1], v[2])))
  <2>1. ASSUME NEW o \in S PROVE Settled(b, o)
    <3>1. PICK q \in two_reals(b) :
              o \in IF q.err = "NONE" THEN Done(recall_two_results(q.calc, q.v[1], q.v[2])) ELSE {q}
      BY <2>1, Zenon DEF Then
    <3>2. o \in IF q.err = "NONE"
                THEN Done(recall_two_results(q.calc, q.v[1], q.v[2]))
                     \cup Done(recall_two_results(q.calc, q.v[2], q.v[1]))
                ELSE {q}
      BY <3>1
    <3>. QED  BY <3>2, RecallTwoSettled
  <2>2. AllSettled(b, S)  BY <2>1 DEF AllSettled
  <2>. HIDE DEF S
  <2>3. AllSettled(b, OrStops(S))  BY <2>2, OrStopsSettled
  <2>4. finish_integ(b) = OrStops(S)  BY DEF finish_integ, S
  <2>. QED  BY <2>3, <2>4, SettledIsSolverRight
<1>. QED  BY <1>3, <1>4

LEMMA ReturnsRight ==
    ASSUME NEW b, Base(b), NEW name \in Variables
    PROVE  AllSolverRight(b, return_to_solve(b, name)) /\ AllSolverRight(b, return_to_integ(b, name))
BY call_fnRight, FinishesRight, SettledIsSolverRight DEF return_to_solve, return_to_integ

\* The commands.
LEMMA SolveRight ==
    ASSUME NEW b, Base(b), NEW arg \in Args, NEW active
    PROVE  AllSolverRight(b, docmd_solve(b, arg, active))
<1>1. /\ \A e : AllSolverRight(b, Ends(b, e)) /\ \A v : AllSolverRight(b, Rejects(b, v))
      /\ \A E : AllSolverRight(b, Fails(b, E))
  BY EndsSettled, SettledIsSolverRight
<1>2. ASSUME NEW a \in DirectArgs PROVE AllSolverRight(b, SolveDirect(b, a, active))
  <2>1. a[1] = "str" => a[2] \in Variables  BY DirectFacts
  <2>2. a[1] = "str" => AllSolverRight(b, start_solve(b, a[2], active))
    <3>1. ASSUME a[1] = "str" PROVE AllSolverRight(b, start_solve(b, a[2], active))
      <4>1. start_solve(b, a[2], active) \in {Ends(b, "SOLVE_SOLVE"), call_fn(b, a[2])}
        BY DEF start_solve
      <4>. QED  BY <1>1, <2>1, <3>1, <4>1, call_fnRight
    <3>. QED  BY <3>1
  <2>3. \/ SolveDirect(b, a, active) = Ends(b, "INVALID_TYPE")
        \/ \E v : SolveDirect(b, a, active) = Rejects(b, v)
        \/ a[1] = "str" /\ SolveDirect(b, a, active) = start_solve(b, a[2], active)
    BY DEF SolveDirect
  <2>. QED  BY <1>1, <2>2, <2>3
<1>. DEFINE r == resolve_ind_arg(b, arg)
<1>3. ASSUME NEW o \in docmd_solve(b, arg, active) PROVE SolverRight(b, o)
  <2>1. \/ o \in Fails(b, r.errors)
        \/ \E a \in DirectArgs : o \in SolveDirect(b, a, active)
    BY <1>3, ArgFacts, Resolves DEF docmd_solve, WithArg
  <2>. QED  BY <1>1, <1>2, <2>1 DEF AllSolverRight
<1>. QED  BY <1>3 DEF AllSolverRight

LEMMA VmSolveRight ==
    ASSUME NEW b, Base(b), NEW arg \in DirectArgs
    PROVE  AllSolverRight(b, docmd_vmsolve(b, arg))
<1>1. (\A e : AllSolverRight(b, Ends(b, e))) /\ \A v : AllSolverRight(b, Rejects(b, v))
  BY EndsSettled, SettledIsSolverRight
<1>2. arg[1] = "str" => AllSolverRight(b, call_fn(b, arg[2]))
  BY DirectFacts, call_fnRight
<1>3. \/ docmd_vmsolve(b, arg) = Ends(b, "INVALID_TYPE")
      \/ \E v : docmd_vmsolve(b, arg) = Rejects(b, v)
      \/ arg[1] = "str" /\ docmd_vmsolve(b, arg) = call_fn(b, arg[2])
  BY DEF docmd_vmsolve, start_solve
<1>. QED  BY <1>1, <1>2, <1>3

LEMMA IntegRight ==
    ASSUME NEW b, Base(b), NEW arg \in Args, NEW active
    PROVE  AllSolverRight(b, docmd_integ(b, arg, active))
<1>1. (\A e : AllSolverRight(b, Ends(b, e))) /\ \A E : AllSolverRight(b, Fails(b, E))
  BY EndsSettled, SettledIsSolverRight
<1>2. ASSUME NEW a \in DirectArgs PROVE AllSolverRight(b, IntegDirect(b, a, active))
  <2>1. a[1] = "str" => AllSolverRight(b, call_fn(b, a[2]))
    BY DirectFacts, call_fnRight
  <2>2. \/ IntegDirect(b, a, active) = Ends(b, "INVALID_TYPE")
        \/ IntegDirect(b, a, active) = Ends(b, "INTEG_INTEG")
        \/ /\ a[1] = "str"
           /\ IntegDirect(b, a, active)
                = Fails(b, {"NONEXISTENT", "ALPHA_DATA_IS_INVALID", "INVALID_TYPE"})
                  \cup call_fn(b, a[2])
    BY DEF IntegDirect, start_integ
  <2>. QED  BY <1>1, <2>1, <2>2, SettledIsSolverRight
<1>. DEFINE r == resolve_ind_arg(b, arg)
<1>3. ASSUME NEW o \in docmd_integ(b, arg, active) PROVE SolverRight(b, o)
  <2>1. \/ o \in Fails(b, r.errors)
        \/ \E a \in DirectArgs : o \in IntegDirect(b, a, active)
    BY <1>3, ArgFacts, Resolves DEF docmd_integ, WithArg
  <2>. QED  BY <1>1, <1>2, <2>1 DEF AllSolverRight
<1>. QED  BY <1>3 DEF AllSolverRight

-----------------------------------------------------------------------------
\* The calculator between commands.

\* What an operation in slices keeps.
TempIn(c) == IF c.pending = None THEN None ELSE TempOf(c.pending.how)

\* All values are accounted for: in a slot, in an operation that goes on, or lost.
Counted(c) ==
    /\ c.pending # None => PendingFits(c.pending)
    /\ Extra(c) = V(TempIn(c))
    /\ \A a \in Arrays : Spare(c, a) >= M(TempIn(c), a)
    /\ c.lost = 0 => \A a \in Arrays : Spare(c, a) = M(TempIn(c), a)

Accounted(c) == Calc(c) /\ Counted(c)

\* The same, whatever is in REGS.
Balanced(c) == Loose(c) /\ Counted(c)

\* After a value was used that is not there, nothing is known of the accounts.
Inv ==
    /\ undefined \/ Balanced(calc)
    /\ misplaced \/ RegsUsable(calc)
    /\ "command" \notin calc.shared
    /\ harmed = {}
    /\ solving \subseteq Variables /\ integrating \subseteq Variables

\* After a command or an operation: what it was executed on, and what it has left.
Leaves(b, o) ==
    /\ Accounted(o.calc)
    /\ o.err \notin Fine \cup {"INTERRUPTIBLE"} => \A s \in Slots : Visible(b, s) = Visible(o.calc, s)

LEMMA AccountedIs ==
    ASSUME NEW c
    PROVE  Accounted(c) <=> Balanced(c) /\ (misplaced \/ RegsUsable(c))
BY CalcIsLoose DEF Accounted, Balanced

LEMMA AccountedIsBase ==
    ASSUME NEW c, Accounted(c)
    PROVE  Base(c)
<1>1. \A a \in Arrays : Spare(c, a) \in Int  BY Numbered DEF Accounted
<1>. QED  BY <1>1, ValueFacts DEF Accounted, Counted, Base

\* The accounts of what did not change are the same.
LEMMA StaysBalanced ==
    ASSUME NEW b, Accounted(b), NEW c, Keeps(b, c)
    PROVE  Balanced(c)
<1>1. Loose(c) /\ c.pending = b.pending /\ c.lost >= b.lost  BY DEF Keeps
<1>2. b.lost \in Nat /\ c.lost \in Nat  BY <1>1 DEF Accounted, Calc, Loose, Form
<1>3. c.lost = 0 => b.lost = 0  BY <1>1, <1>2
<1>4. TempIn(c) = TempIn(b)  BY <1>1 DEF TempIn
<1>. QED  BY <1>1, <1>3, <1>4 DEF Accounted, Balanced, Counted, Keeps

LEMMA StaysAccounted ==
    ASSUME NEW b, Accounted(b), NEW c, Has(b, c, None, None, None)
    PROVE  Accounted(c)
<1>1. Balanced(c)  BY HasKeeps, StaysBalanced
<1>2. Calc(c)  BY DEF Has
<1>. QED  BY <1>1, <1>2 DEF Accounted, Balanced

LEMMA RightLeaves ==
    ASSUME NEW b, Accounted(b), b.pending = None, NEW o, Right(b, o)
    PROVE  Leaves(b, o)
<1>1. CASE Settled(b, o)
  BY <1>1, StaysAccounted DEF Settled, Leaves, Seen
<1>2. CASE Going(b, o)
  <2>1. PICK d, p : /\ p # None /\ PendingFits(p) /\ Has(b, d, TempOf(p.how), None, None)
                    /\ o.calc = [d EXCEPT !.pending = p]
    BY <1>2 DEF Going
  <2>. DEFINE c == [d EXCEPT !.pending = p]
              v == TempOf(p.how)
  <2>2. /\ Form(c) /\ c.slot = d.slot /\ c.refs = d.refs /\ c.live = d.live /\ c.lost = d.lost
        /\ c.pending = p
    BY <2>1 DEF Has, Calc, Form, Fields
  <2>. HIDE DEF c
  <2>3. Calc(c) /\ Extra(c) = Extra(d) /\ \A a \in Arrays : Spare(c, a) = Spare(d, a)
    BY <2>1, <2>2 DEF Has, Calc, Extra, Spare
  <2>4. TempIn(c) = v /\ V(v) \in Int /\ \A a : M(v, a) \in Int
    BY <2>1, <2>2, ValueFacts DEF TempIn
  <2>5. TempIn(b) = None  BY DEF TempIn
  <2>6. /\ Extra(d) = Extra(b) + V(v) + V(None) + V(None)
        /\ \A a \in Arrays : Spare(d, a) = Spare(b, a) + M(v, a) + M(None, a) + M(None, a)
    BY <2>1 DEF Has
  <2>. HIDE DEF v
  <2>7. /\ Extra(b) = 0
        /\ \A a \in Arrays : /\ Spare(b, a) \in Int /\ Spare(b, a) >= 0
                             /\ b.lost = 0 => Spare(b, a) = 0
    BY <2>5, Numbered, ValueFacts DEF Accounted, Counted
  <2>8. Extra(c) = V(v)  BY <2>3, <2>4, <2>6, <2>7, ValueFacts
  <2>9. \A a \in Arrays : Spare(c, a) >= M(v, a) /\ (b.lost = 0 => Spare(c, a) = M(v, a))
    BY <2>3, <2>4, <2>6, <2>7, ValueFacts
  <2>10. b.lost \in Nat /\ d.lost \in Nat /\ d.lost >= b.lost
    BY <2>1 DEF Has, Base, Calc, Form
  <2>11. c.lost = 0 => b.lost = 0  BY <2>2, <2>10
  <2>12. Accounted(c)
    BY <2>1, <2>2, <2>3, <2>4, <2>8, <2>9, <2>11 DEF Accounted, Counted
  <2>. QED  BY <1>2, <2>1, <2>12 DEF Leaves, Going, c
<1>. QED  BY <1>1, <1>2 DEF Right

\* handle_error() does not touch values.
LEMMA FlagsBalanced ==
    ASSUME NEW c, Form(c), NEW flag, NEW other
    PROVE  \A e \in {[c EXCEPT !.lift = flag, !.disable = other], [c EXCEPT !.disable = other],
                     [c EXCEPT !.lift = flag], [c EXCEPT !.shared = {}]} :
               /\ Form(e) /\ e.slot = c.slot
               /\ Balanced(c) => Balanced(e)
               /\ Accounted(c) => Accounted(e)
<1>. DEFINE Same(e) ==
              /\ Form(e) /\ e.slot = c.slot
              /\ Balanced(c) => Balanced(e)
              /\ Accounted(c) => Accounted(e)
<1>1. ASSUME NEW e, Form(e), e.slot = c.slot, e.refs = c.refs, e.live = c.live, e.lost = c.lost,
             e.pending = c.pending
      PROVE  Same(e)
  <2>1. /\ Extra(e) = Extra(c) /\ (\A a \in Arrays : Spare(e, a) = Spare(c, a)) /\ TempIn(e) = TempIn(c)
        /\ Loose(c) => Loose(e)
        /\ Calc(c) => Calc(e)
    BY <1>1 DEF Calc, Loose, Extra, Spare, TempIn
  <2>. QED  BY <1>1, <2>1 DEF Accounted, Balanced, Counted
<1>2. Form(c)  OBVIOUS
<1>. HIDE DEF Same
<1>3. Same([c EXCEPT !.lift = flag, !.disable = other])
  <2>. DEFINE e == [c EXCEPT !.lift = flag, !.disable = other]
  <2>1. Form(e) /\ e.slot = c.slot /\ e.refs = c.refs /\ e.live = c.live /\ e.lost = c.lost
        /\ e.pending = c.pending
    BY <1>2 DEF Form, Fields
  <2>. HIDE DEF e
  <2>2. Same(e)  BY <1>1, <2>1
  <2>. QED  BY <2>2 DEF e
<1>4. Same([c EXCEPT !.disable = other])
  <2>. DEFINE e == [c EXCEPT !.disable = other]
  <2>1. Form(e) /\ e.slot = c.slot /\ e.refs = c.refs /\ e.live = c.live /\ e.lost = c.lost
        /\ e.pending = c.pending
    BY <1>2 DEF Form, Fields
  <2>. HIDE DEF e
  <2>2. Same(e)  BY <1>1, <2>1
  <2>. QED  BY <2>2 DEF e
<1>5. Same([c EXCEPT !.lift = flag])
  <2>. DEFINE e == [c EXCEPT !.lift = flag]
  <2>1. Form(e) /\ e.slot = c.slot /\ e.refs = c.refs /\ e.live = c.live /\ e.lost = c.lost
        /\ e.pending = c.pending
    BY <1>2 DEF Form, Fields
  <2>. HIDE DEF e
  <2>2. Same(e)  BY <1>1, <2>1
  <2>. QED  BY <2>2 DEF e
<1>6. Same([c EXCEPT !.shared = {}])
  <2>. DEFINE e == [c EXCEPT !.shared = {}]
  <2>1. Form(e) /\ e.slot = c.slot /\ e.refs = c.refs /\ e.live = c.live /\ e.lost = c.lost
        /\ e.pending = c.pending
    BY <1>2 DEF Form, Fields
  <2>. HIDE DEF e
  <2>2. Same(e)  BY <1>1, <2>1
  <2>. QED  BY <2>2 DEF e
<1>7. \A e \in {[c EXCEPT !.lift = flag, !.disable = other], [c EXCEPT !.disable = other],
                [c EXCEPT !.lift = flag], [c EXCEPT !.shared = {}]} : Same(e)
  BY <1>3, <1>4, <1>5, <1>6, Zenon
<1>. QED  BY <1>7 DEF Same

LEMMA HandledBalanced ==
    ASSUME NEW o, Form(o.calc)
    PROVE  /\ Form(handle_error(o))
           /\ Balanced(o.calc) => Balanced(handle_error(o))
           /\ Accounted(o.calc) => Accounted(handle_error(o))
BY FlagsBalanced DEF handle_error

LEMMA InvIsAccounted ==
    ASSUME Inv, ~undefined
    PROVE  Accounted(calc) /\ Base(calc)
BY AccountedIs, AccountedIsBase DEF Inv

-----------------------------------------------------------------------------
\* Steps.

\* What the next state is made of.
LEMMA Prime ==
    /\ Balanced(calc)' <=> Balanced(calc')
    /\ RegsUsable(calc)' <=> RegsUsable(calc')
BY DEF Balanced, Counted, TempIn, Extra, Spare, RegsUsable

LEMMA BecomesKeeps ==
    ASSUME Inv, ~undefined, NEW c, Accounted(c), Becomes(c), harmed' = {}
    PROVE  Inv'
<1>1. /\ calc' = c /\ misplaced' = (misplaced /\ ~RegsUsable(c))
      /\ solving' = solving /\ integrating' = integrating
  BY DEF Becomes
<1>2. Balanced(c) /\ (misplaced \/ RegsUsable(c))  BY AccountedIs
<1>3. "command" \notin c.shared  BY DEF Accounted, Calc, Form
<1>4. Balanced(calc)' /\ (misplaced' \/ RegsUsable(calc)')  BY <1>1, <1>2, Prime
<1>. QED  BY <1>1, <1>3, <1>4 DEF Inv

LEMMA EndedKeeps ==
    ASSUME Inv, ~undefined, NEW outs, \A o \in outs : Leaves(calc, o), Ended(outs)
    PROVE  Inv'
<1>1. PICK o \in outs : Becomes(handle_error(o)) /\ harmed' = Harm(calc, o)
  BY DEF Ended
<1>2. Accounted(o.calc)  BY DEF Leaves
<1>3. Accounted(handle_error(o))  BY <1>2, HandledBalanced DEF Accounted, Calc
<1>4. Harm(calc, o) = {}  BY DEF Leaves, Harm, Changed
<1>. QED  BY <1>1, <1>3, <1>4, BecomesKeeps

\* What a solver has left.
LEMMA SolverRightLeaves ==
    ASSUME NEW b, Accounted(b), NEW o, SolverRight(b, o)
    PROVE  /\ Form(o.calc)
           /\ o.err # "UNDEFINED" => Balanced(o.calc)
           /\ Harm(b, o) = {}
           /\ o.err \notin Fine \cup {"UNDEFINED"} => Leaves(b, o)
<1>1. CASE Settled(b, o)
  <2>1. Accounted(o.calc)  BY <1>1, StaysAccounted DEF Settled
  <2>2. Balanced(o.calc) /\ Form(o.calc)  BY <2>1, AccountedIs DEF Accounted, Calc
  <2>3. o.err \notin Fine => \A s \in Slots : Visible(b, s) = Visible(o.calc, s)
    BY <1>1 DEF Settled, Seen
  <2>. QED  BY <2>1, <2>2, <2>3 DEF Leaves, Harm, Changed
<1>2. CASE o.err = "RUN" /\ Keeps(b, o.calc)
  <2>1. Balanced(o.calc)  BY <1>2, StaysBalanced
  <2>2. Form(o.calc)  BY <2>1 DEF Balanced, Loose
  <2>. QED  BY <1>2, <2>1, <2>2 DEF Harm, Fine
<1>3. CASE o.err = "UNDEFINED" /\ Form(o.calc)
  BY <1>3 DEF Harm
<1>. QED  BY <1>1, <1>2, <1>3 DEF SolverRight

LEMMA SolverKeeps ==
    ASSUME Inv, NEW o, NEW c, SolverLeaves(o, c), Form(c), o.err # "UNDEFINED" => Balanced(c),
           harmed' = {}, solving' \subseteq Variables, integrating' \subseteq Variables
    PROVE  Inv'
<1>1. calc' = c /\ misplaced' = ~RegsUsable(c) /\ undefined' = (o.err = "UNDEFINED")
  BY DEF SolverLeaves
<1>2. (undefined' \/ Balanced(calc)') /\ (misplaced' \/ RegsUsable(calc)')  BY <1>1, Prime
<1>3. "command" \notin c.shared  BY DEF Form
<1>. QED  BY <1>1, <1>2, <1>3 DEF Inv

LEMMA LeavesKeeps ==
    ASSUME Inv, NEW o, NEW c, SolveLeaves(o, c) \/ IntegLeaves(o, c), Form(c),
           o.err # "UNDEFINED" => Balanced(c), harmed' = {}
    PROVE  Inv'
<1>1. SolverLeaves(o, c) /\ solving' \subseteq Variables /\ integrating' \subseteq Variables
  BY DEF SolveLeaves, IntegLeaves, Called, KeptOrForgotten, Inv
<1>. QED  BY <1>1, SolverKeeps

\* An active SOLVE takes the error.
LEMMA TrappedKeeps ==
    ASSUME Inv, ~undefined, NEW outs, \A o \in outs : Leaves(calc, o), Trapped(outs)
    PROVE  Inv'
<1>1. PICK name \in solving, o \in {o \in outs : o.err \in Caught} :
          \E p \in return_to_solve(o.calc, name) :
              /\ SolveLeaves(p, [p.calc EXCEPT !.disable = FALSE])
              /\ harmed' = Harm(calc, o) \cup Harm(o.calc, p)
  BY DEF Trapped
<1>2. PICK p \in return_to_solve(o.calc, name) :
          /\ SolveLeaves(p, [p.calc EXCEPT !.disable = FALSE])
          /\ harmed' = Harm(calc, o) \cup Harm(o.calc, p)
  BY <1>1
<1>3. Accounted(o.calc) /\ Harm(calc, o) = {}  BY DEF Leaves, Harm, Changed
<1>4. name \in Variables  BY DEF Inv
<1>5. SolverRight(o.calc, p)
  BY <1>3, <1>4, AccountedIsBase, ReturnsRight DEF AllSolverRight
<1>6. /\ Form(p.calc) /\ (p.err # "UNDEFINED" => Balanced(p.calc)) /\ Harm(o.calc, p) = {}
  BY <1>3, <1>5, SolverRightLeaves
<1>7. /\ Form([p.calc EXCEPT !.disable = FALSE])
      /\ Balanced(p.calc) => Balanced([p.calc EXCEPT !.disable = FALSE])
  BY <1>6, FlagsBalanced
<1>. QED  BY <1>2, <1>3, <1>6, <1>7, LeavesKeeps

LEMMA ReadyIsBase ==
    ASSUME Inv, Idle
    PROVE  /\ Accounted(Ready) /\ Base(Ready) /\ Ready.pending = None
           /\ \A o : Leaves(Ready, o) => Leaves(calc, o)
           /\ \A o : Harm(Ready, o) = {} => Harm(calc, o) = {}
<1>1. Accounted(calc)  BY InvIsAccounted DEF Idle
<1>2. Form(calc)  BY <1>1 DEF Accounted, Calc
<1>3. Accounted(Ready)  BY <1>1, <1>2, FlagsBalanced DEF Ready
<1>4. Ready.pending = None /\ Ready.slot = calc.slot /\ Ready.data = calc.data
  BY <1>2 DEF Ready, Idle, Form, Fields
<1>5. \A s : Visible(Ready, s) = Visible(calc, s)  BY <1>4 DEF Visible
<1>. QED  BY <1>3, <1>4, <1>5, AccountedIsBase DEF Leaves, Harm, Changed

LEMMA AllCommandsRight ==
    ASSUME NEW b, Base(b)
    PROVE  \A outs \in {Moves(b), Stores(b), NamedVariables(b), StoArithmetic(b), RclArithmetic(b),
                        Arithmetic(b), Parts(b), Elementary(b), Registers(b), Tests(b), Looking(b),
                        Makes(b), Matrices(b), Statistics(b), Bases(b)} : AllRight(b, outs)
<1>1. AllRight(b, StoArithmetic(b))  BY StoArithmeticRight DEF StoArithmetic, AllRight
<1>2. AllRight(b, RclArithmetic(b))  BY RclArithmeticRight DEF RclArithmetic, AllRight
<1>3. /\ AllSettled(b, Moves(b)) /\ AllSettled(b, Stores(b)) /\ AllSettled(b, Parts(b))
      /\ AllSettled(b, Elementary(b)) /\ AllSettled(b, Registers(b)) /\ AllSettled(b, Tests(b))
      /\ AllSettled(b, Makes(b)) /\ AllSettled(b, Statistics(b)) /\ AllSettled(b, Bases(b))
  BY MovesSettled, StoresSettled, PartsSettled, ElementarySettled, RegistersSettled, TestsSettled,
     MakesSettled, StatisticsSettled, BasesSettled
<1>4. \A S : AllSettled(b, S) => AllRight(b, S)  BY SettledIsRight
<1>5. /\ AllRight(b, NamedVariables(b)) /\ AllRight(b, Arithmetic(b)) /\ AllRight(b, Looking(b))
      /\ AllRight(b, Matrices(b))
  BY NamedVariablesRight, ArithmeticAllRight, LookingRight, MatricesRight
<1>. QED  BY <1>1, <1>2, <1>3, <1>4, <1>5

LEMMA ExecutedKeeps ==
    ASSUME Inv,
           NEW outs \in {Moves(Ready), Stores(Ready), NamedVariables(Ready), StoArithmetic(Ready),
                         RclArithmetic(Ready), Arithmetic(Ready), Parts(Ready), Elementary(Ready),
                         Registers(Ready), Tests(Ready), Looking(Ready), Makes(Ready), Matrices(Ready),
                         Statistics(Ready), Bases(Ready)},
           Executed(outs)
    PROVE  Inv'
<1>1. Idle /\ ~undefined /\ (Ended(outs) \/ Trapped(outs))  BY DEF Executed, Idle
<1>. DEFINE b == Ready
<1>2. /\ Accounted(b) /\ Base(b) /\ b.pending = None
      /\ \A o : Leaves(b, o) => Leaves(calc, o)
  BY <1>1, ReadyIsBase
<1>3. AllRight(b, outs)  BY <1>2, AllCommandsRight
<1>. HIDE DEF b
<1>4. \A o \in outs : Leaves(calc, o)  BY <1>2, <1>3, RightLeaves DEF AllRight
<1>. QED  BY <1>1, <1>4, EndedKeeps, TrappedKeeps

LEMMA SolverEnds ==
    ASSUME Inv, Idle, NEW outs, AllSolverRight(Ready, outs),
           Solve(outs) \/ Integrate(outs) \/ Ended(Refusals(outs))
    PROVE  Inv'
<1>1. /\ Accounted(Ready)
      /\ \A o : Leaves(Ready, o) => Leaves(calc, o)
      /\ \A o : Harm(Ready, o) = {} => Harm(calc, o) = {}
  BY ReadyIsBase
<1>2. CASE Ended(Refusals(outs))
  <2>1. \A o \in Refusals(outs) : Leaves(calc, o)
    BY <1>1, SolverRightLeaves DEF Refusals, AllSolverRight
  <2>. QED  BY <1>2, <2>1, EndedKeeps DEF Idle
<1>3. CASE Solve(outs) \/ Integrate(outs)
  <2>1. PICK o \in outs : /\ \/ SolveLeaves(o, handle_error(o))
                             \/ IntegLeaves(o, handle_error(o))
                          /\ harmed' = Harm(calc, o)
    BY <1>3 DEF Solve, Integrate
  <2>2. /\ Form(o.calc) /\ (o.err # "UNDEFINED" => Balanced(o.calc)) /\ Harm(calc, o) = {}
    BY <1>1, SolverRightLeaves DEF AllSolverRight
  <2>3. Form(handle_error(o)) /\ (Balanced(o.calc) => Balanced(handle_error(o)))
    BY <2>2, HandledBalanced
  <2>. QED  BY <2>1, <2>2, <2>3, LeavesKeeps
<1>. QED  BY <1>2, <1>3

LEMMA StartsKeep ==
    ASSUME Inv, SolveStarts \/ SolveStartsInMenu \/ IntegStarts
    PROVE  Inv'
<1>1. Idle /\ Base(Ready)  BY ReadyIsBase DEF SolveStarts, SolveStartsInMenu, IntegStarts
<1>2. NameArgs \subseteq Args  BY DEF NameArgs
<1>3. CASE SolveStarts
  <2>1. PICK active \in {FALSE, solving # {}} :
            LET outs == UNION {docmd_solve(Ready, arg, active) : arg \in NameArgs}
            IN  Solve(outs) \/ Ended(Refusals(outs))
    BY <1>3 DEF SolveStarts
  <2>. DEFINE outs == UNION {docmd_solve(Ready, arg, active) : arg \in NameArgs}
  <2>2. AllSolverRight(Ready, outs)  BY <1>1, <1>2, SolveRight DEF AllSolverRight
  <2>3. Solve(outs) \/ Ended(Refusals(outs))  BY <2>1
  <2>. HIDE DEF outs
  <2>. QED  BY <1>1, <2>2, <2>3, SolverEnds
<1>4. CASE SolveStartsInMenu
  <2>. DEFINE outs == UNION {docmd_vmsolve(Ready, arg) : arg \in DirectArgs}
  <2>1. AllSolverRight(Ready, outs)  BY <1>1, VmSolveRight DEF AllSolverRight
  <2>2. Solve(outs) \/ Ended(Refusals(outs))  BY <1>4 DEF SolveStartsInMenu
  <2>. HIDE DEF outs
  <2>. QED  BY <1>1, <2>1, <2>2, SolverEnds
<1>5. CASE IntegStarts
  <2>1. PICK active \in {FALSE, integrating # {}} :
            LET outs == UNION {docmd_integ(Ready, arg, active) : arg \in NameArgs}
            IN  Integrate(outs) \/ Ended(Refusals(outs))
    BY <1>5 DEF IntegStarts
  <2>. DEFINE outs == UNION {docmd_integ(Ready, arg, active) : arg \in NameArgs}
  <2>2. AllSolverRight(Ready, outs)  BY <1>1, <1>2, IntegRight DEF AllSolverRight
  <2>3. Integrate(outs) \/ Ended(Refusals(outs))  BY <2>1
  <2>. HIDE DEF outs
  <2>. QED  BY <1>1, <2>2, <2>3, SolverEnds
<1>. QED  BY <1>3, <1>4, <1>5

LEMMA docmd_rtnKeeps ==
    ASSUME Inv, docmd_rtn
    PROVE  Inv'
<1>1. Idle /\ Base(Ready)  BY ReadyIsBase DEF docmd_rtn
<1>2. \/ \E name \in solving : Solve(return_to_solve(Ready, name))
      \/ \E name \in integrating : Integrate(return_to_integ(Ready, name))
  BY DEF docmd_rtn
<1>3. \A name \in solving \cup integrating :
          /\ AllSolverRight(Ready, return_to_solve(Ready, name))
          /\ AllSolverRight(Ready, return_to_integ(Ready, name))
  BY <1>1, ReturnsRight DEF Inv
<1>. QED  BY <1>1, <1>2, <1>3, SolverEnds

\* The end of an operation, as if what it keeps had just been made.
LEMMA KeptIsInHand ==
    ASSUME Accounted(calc), calc.pending # None
    PROVE  LET c == [calc EXCEPT !.pending = None]
               v == TempOf(calc.pending.how)
           IN  \E b : /\ Base(b) /\ Accounted(b) /\ b.pending = None
                      /\ Has(b, c, v, None, None) /\ Seen(b, c)
                      /\ \A s \in Slots : Visible(b, s) = Visible(calc, s)
<1>. DEFINE c == [calc EXCEPT !.pending = None]
            v == TempOf(calc.pending.how)
            b == [c EXCEPT !.live = @ - V(v), !.refs = [a \in Arrays |-> @[a] - M(v, a)]]
<1>1. /\ V(v) \in Int /\ \A a : M(v, a) \in Int
      /\ V(None) = 0 /\ \A a : M(None, a) = 0
  BY ValueFacts
<1>2. Value(v)
  BY ValueFacts DEF Accounted, Counted, PendingFits, HowFits, TempOf
<1>3. TempIn(calc) = v  BY DEF TempIn
<1>4. /\ Form(c) /\ c.slot = calc.slot /\ c.refs = calc.refs /\ c.live = calc.live /\ c.lost = calc.lost
      /\ c.data = calc.data /\ c.pending = None
  BY DEF Accounted, Calc, Form, Fields
<1>. HIDE DEF c, v
<1>5. /\ Form(b) /\ b.slot = c.slot /\ b.live = c.live - V(v) /\ b.lost = c.lost
      /\ b.data = c.data /\ b.pending = None
      /\ \A a \in Arrays : b.refs[a] = c.refs[a] - M(v, a)
  BY <1>1, <1>4 DEF Form, Fields
<1>. HIDE DEF b
<1>6. Calc(calc) /\ Calc(c) /\ Calc(b)  BY <1>4, <1>5 DEF Accounted, Calc
<1>7. /\ Extra(c) = Extra(calc) /\ \A a \in Arrays : Spare(c, a) = Spare(calc, a)
  BY <1>4 DEF Extra, Spare
<1>8. /\ Extra(b) = Extra(c) - V(v) /\ \A a \in Arrays : Spare(b, a) = Spare(c, a) - M(v, a)
  BY <1>1, <1>5, <1>6, Numbered DEF Extra, Spare
<1>9. /\ Extra(c) \in Int /\ Extra(b) \in Int
      /\ \A a \in Arrays : Spare(c, a) \in Int /\ Spare(b, a) \in Int
  BY <1>6, Numbered
<1>10. /\ Extra(calc) = V(v) /\ \A a \in Arrays : Spare(calc, a) >= M(v, a)
       /\ calc.lost = 0 => \A a \in Arrays : Spare(calc, a) = M(v, a)
  BY <1>3 DEF Accounted, Counted
<1>11. Extra(b) = 0  BY <1>1, <1>7, <1>8, <1>10
<1>12. ASSUME NEW a \in Arrays
       PROVE  Spare(b, a) >= 0 /\ (b.lost = 0 => Spare(b, a) = 0)
  <2>1. Spare(c, a) \in Int /\ M(v, a) \in Int /\ Spare(b, a) = Spare(c, a) - M(v, a)
        /\ Spare(c, a) >= M(v, a) /\ (calc.lost = 0 => Spare(c, a) = M(v, a))
    BY <1>1, <1>7, <1>8, <1>9, <1>10
  <2>. QED  BY <1>4, <1>5, <2>1
<1>13. Base(b)  BY <1>6, <1>12 DEF Base
<1>14. TempIn(b) = None  BY <1>5 DEF TempIn
<1>15. Accounted(b)
  BY <1>1, <1>5, <1>6, <1>11, <1>12, <1>14 DEF Accounted, Counted
<1>16. Has(b, c, v, None, None)
  <2>1. Extra(c) = Extra(b) + V(v) + V(None) + V(None)  BY <1>1, <1>8, <1>9
  <2>2. \A a \in Arrays : Spare(c, a) = Spare(b, a) + M(v, a) + M(None, a) + M(None, a)
    BY <1>1, <1>8, <1>9
  <2>3. c.lost \in Nat  BY <1>4 DEF Form
  <2>4. Value(None)  BY ValueFacts
  <2>. QED  BY <1>2, <1>4, <1>5, <1>6, <1>13, <2>1, <2>2, <2>3, <2>4 DEF Has
<1>17. Seen(b, c) /\ \A s \in Slots : Visible(b, s) = Visible(calc, s)
  BY <1>4, <1>5 DEF Seen, Visible
<1>. QED  BY <1>5, <1>13, <1>15, <1>16, <1>17 DEF c, v

\* What a failed decomposition loses was what RCL/ had kept.
LEMMA DecompositionLeaves ==
    ASSUME Accounted(calc), calc.pending # None, NEW o,
           o \in DecompositionFails([calc EXCEPT !.pending = None], calc.pending.how),
           calc.pending.how.kind = "rcl", calc.pending.op # "print"
    PROVE  Leaves(calc, o)
<1>. DEFINE c == [calc EXCEPT !.pending = None]
            d == [c EXCEPT !.lost = @ + 1]
            v == calc.pending.how.temp
<1>1. /\ Form(c) /\ c.slot = calc.slot /\ c.refs = calc.refs /\ c.live = calc.live /\ c.lost = calc.lost
      /\ c.data = calc.data /\ c.pending = None
  BY DEF Accounted, Calc, Form, Fields
<1>2. o.calc = d  BY OutcomeIs DEF DecompositionFails, Fails, Ends
<1>. HIDE DEF c
<1>3. /\ Form(d) /\ d.slot = calc.slot /\ d.refs = calc.refs /\ d.live = calc.live
      /\ d.lost = calc.lost + 1 /\ d.data = calc.data /\ d.pending = None
  BY <1>1 DEF Form, Fields
<1>. HIDE DEF d
<1>4. Calc(calc) /\ Calc(d)  BY <1>3 DEF Accounted, Calc
<1>5. v # None  BY DEF Accounted, Counted, PendingFits, HowFits
<1>6. TempIn(calc) = v  BY DEF TempIn, TempOf
<1>7. Extra(calc) = V(v) /\ \A a \in Arrays : Spare(calc, a) >= M(v, a)
  BY <1>6 DEF Accounted, Counted
<1>. HIDE DEF v
<1>8. V(v) = 1 /\ \A a : M(v, a) \in 0 .. 1  BY <1>5, ValueFacts
<1>9. Extra(d) = 0 /\ \A a \in Arrays : Spare(d, a) = Spare(calc, a) /\ Spare(d, a) \in Int
  BY <1>3, <1>4, <1>7, <1>8, Numbered DEF Extra, Spare
<1>10. \A a \in Arrays : Spare(d, a) >= 0  BY <1>7, <1>8, <1>9
<1>11. d.lost # 0  BY <1>3, <1>4 DEF Calc, Form
<1>12. TempIn(d) = None  BY <1>3 DEF TempIn
<1>13. Accounted(d)
  BY <1>3, <1>4, <1>9, <1>10, <1>11, <1>12, ValueFacts DEF Accounted, Counted
<1>14. \A s \in Slots : Visible(calc, s) = Visible(d, s)  BY <1>3 DEF Visible
<1>. QED  BY <1>2, <1>13, <1>14 DEF Leaves

LEMMA ResumedKeeps ==
    ASSUME Inv, Resumed
    PROVE  Inv'
<1>. DEFINE p == calc.pending
            c == [calc EXCEPT !.pending = None]
            v == TempOf(p.how)
            outs == IF p.op = "print" THEN PrintEnds(c) ELSE OperationEnds(c, p)
<1>0. p # None /\ ~undefined /\ (Ended(outs) \/ Trapped(outs))  BY DEF Resumed
<1>1. p # None /\ Accounted(calc) /\ PendingFits(p)
  BY <1>0, InvIsAccounted DEF Accounted, Counted
<1>2. PICK b : /\ Base(b) /\ Accounted(b) /\ b.pending = None
               /\ Has(b, c, v, None, None) /\ Seen(b, c)
               /\ \A s \in Slots : Visible(b, s) = Visible(calc, s)
  BY <1>1, KeptIsInHand
<1>. HIDE DEF c
<1>3. ASSUME NEW o, Settled(b, o) PROVE Leaves(calc, o)
  <2>1. Leaves(b, o)  BY <1>2, <1>3, RightLeaves DEF Right
  <2>. QED  BY <1>2, <2>1 DEF Leaves
<1>4. CASE p.op = "print"
  <2>1. v = None  BY <1>1, <1>4 DEF PendingFits, TempOf
  <2>2. \A o \in outs : o.calc = c /\ o.err \in {"NONE", "STOP"}
    BY <1>4, OutcomeIs DEF PrintEnds, Done, Ends
  <2>3. \A o \in outs : Settled(b, o)  BY <1>2, <2>1, <2>2 DEF Settled, Fine
  <2>4. \A o \in outs : Leaves(calc, o)  BY <1>3, <2>3
  <2>. HIDE DEF outs
  <2>. QED  BY <1>0, <2>4, EndedKeeps, TrappedKeeps
<1>5. CASE p.op # "print"
  <2>1. /\ p.op \in {"mul", "div", "det", "inv"} /\ p.type \in ScalarTypes \cup MatrixTypes
        /\ Fits(p.how, {p.type})
    BY <1>1, <1>5 DEF PendingFits, Fits
  <2>2. Base(c)  BY <1>2, HasIsBase
  <2>3. ASSUME NEW made, AllMade(c, made), OfTypes(made, {p.type})
        PROVE  \A o \in Completes(made, p.how) : Leaves(calc, o)
    <3>1. AllSettled(b, Completes(made, p.how))
      BY <1>2, <2>1, <2>3, CompletesAll
    <3>. QED  BY <1>3, <3>1 DEF AllSettled
  <2>4. \A o \in Completes(ResultOf(c, p.type), p.how) : Leaves(calc, o)
    <3>. DEFINE all == new_value(c, p.type)
    <3>1. AllMade(c, all) /\ OfTypes(all, {p.type})
      BY <2>1, <2>2, MatrixMade, ScalarMade DEF new_value
    <3>2. ResultOf(c, p.type) \subseteq all  BY DEF ResultOf, Unchecked
    <3>. HIDE DEF all
    <3>3. AllMade(c, ResultOf(c, p.type)) /\ OfTypes(ResultOf(c, p.type), {p.type})
      BY <3>1, <3>2 DEF AllMade, OfTypes
    <3>. QED  BY <2>3, <3>3
  <2>5. ASSUME NEW errors, "NONE" \notin errors
        PROVE  \A o \in Reported(c, p.how, errors) : Leaves(calc, o)
    <3>1. AllMade(c, Fails(c, errors)) /\ OfTypes(Fails(c, errors), {p.type})
      BY <2>2, <2>5, EndsSettled
    <3>. QED  BY <2>3, <3>1 DEF Reported
  <2>6. \A o \in DecompositionFails(c, p.how) : Leaves(calc, o)
    <3>1. CASE p.how.kind = "rcl"  BY <1>1, <1>5, <3>1, DecompositionLeaves DEF c
    <3>2. CASE p.how.kind # "rcl"
      <4>1. DecompositionFails(c, p.how)
              = Fails(c, {"SINGULAR_MATRIX", "INSUFFICIENT_MEMORY", "INTERRUPTED"})
        BY <3>2 DEF DecompositionFails
      <4>2. \A o \in DecompositionFails(c, p.how) :
                o.calc = c
        BY <4>1, OutcomeIs DEF Fails, Ends
      <4>3. v = None  BY <3>2 DEF TempOf
      <4>4. \A o \in DecompositionFails(c, p.how) : Settled(b, o)
        BY <1>2, <4>2, <4>3 DEF Settled
      <4>. QED  BY <1>3, <4>4
    <3>. QED  BY <3>1, <3>2
  <2>7. \A o \in outs :
            \/ o \in Completes(ResultOf(c, p.type), p.how)
            \/ \E errors : "NONE" \notin errors /\ o \in Reported(c, p.how, errors)
            \/ o \in DecompositionFails(c, p.how)
    <3>1. outs = Completes(ResultOf(c, p.type), p.how)
            \cup CASE p.op = "mul" -> Reported(c, p.how, {"OUT_OF_RANGE", "INTERRUPTED"})
                   [] p.op = "div" ->
                          Reported(c, p.how, {"OUT_OF_RANGE", "INTERRUPTED"})
                          \cup DecompositionFails(c, p.how)
                   [] OTHER -> Reported(c, p.how, {"OUT_OF_RANGE", "SINGULAR_MATRIX", "INTERRUPTED"})
      BY <1>5 DEF OperationEnds
    <3>. HIDE DEF outs
    <3>2. ASSUME NEW o \in outs
          PROVE  \/ o \in Completes(ResultOf(c, p.type), p.how)
                 \/ o \in Reported(c, p.how, {"OUT_OF_RANGE", "INTERRUPTED"})
                 \/ o \in Reported(c, p.how, {"OUT_OF_RANGE", "SINGULAR_MATRIX", "INTERRUPTED"})
                 \/ o \in DecompositionFails(c, p.how)
      BY <3>1, Zenon
    <3>3. "NONE" \notin {"OUT_OF_RANGE", "INTERRUPTED"}
          /\ "NONE" \notin {"OUT_OF_RANGE", "SINGULAR_MATRIX", "INTERRUPTED"}
      OBVIOUS
    <3>. QED  BY <3>2, <3>3
  <2>. HIDE DEF outs, p
  <2>8. \A o \in outs : Leaves(calc, o)  BY <2>4, <2>5, <2>6, <2>7
  <2>. QED  BY <1>0, <2>8, EndedKeeps, TrappedKeeps
<1>. QED  BY <1>4, <1>5

LEMMA StoresAndShowsKeeps ==
    ASSUME Inv, StoresAndShows
    PROVE  Inv'
<1>. DEFINE b == Ready
<1>0. PICK a \in DirectArgs :
          \E o \in docmd_vmsto(b, a) \cup docmd_vmsto2(b, a) : Becomes(handle_error(o))
  BY DEF StoresAndShows
<1>1. PICK o \in docmd_vmsto(b, a) \cup docmd_vmsto2(b, a) : Becomes(handle_error(o))
  BY <1>0
<1>2. Accounted(b) /\ Base(b)  BY ReadyIsBase DEF StoresAndShows
<1>. HIDE DEF b
<1>3. a \in Args  BY DEF Args
<1>4. o \in docmd_vmsto(b, a) \/ o \in Ends(b, "INVALID_TYPE")
  BY DEF docmd_vmsto2
<1>5. Has(b, o.calc, None, None, None)
  <2>1. CASE o \in Ends(b, "INVALID_TYPE")
    BY <1>2, <2>1, EndsSettled DEF AllSettled, Settled
  <2>2. CASE o \in docmd_vmsto(b, a)
    <3>1. PICK q \in docmd_sto(b, a) : o \in IF q.err = "NONE" THEN view_helper(q.calc, a) ELSE {q}
      BY <2>2, Zenon DEF docmd_vmsto, Then
    <3>2. Has(b, q.calc, None, None, None)
      BY <1>2, <1>3, docmd_stoSettled DEF AllSettled, Settled
    <3>3. CASE q.err # "NONE"  BY <3>1, <3>2, <3>3
    <3>4. CASE q.err = "NONE"
      <4>1. Base(q.calc)  BY <3>2, HasIsBase
      <4>2. Has(q.calc, o.calc, None, None, None)
        BY <1>3, <3>1, <3>4, <4>1, view_helperSettled DEF AllSettled, Settled
      <4>. QED  BY <3>2, <4>2, HasMore
    <3>. QED  BY <3>3, <3>4
  <2>. QED  BY <1>4, <2>1, <2>2
<1>6. Accounted(o.calc)  BY <1>2, <1>5, StaysAccounted
<1>7. Accounted(handle_error(o))  BY <1>6, HandledBalanced DEF Accounted, Calc
<1>. QED  BY <1>1, <1>7, BecomesKeeps DEF StoresAndShows, Idle

LEMMA core_pasteKeeps ==
    ASSUME Inv, core_paste
    PROVE  Inv'
<1>. DEFINE made == new_real(calc) \cup new_complex(calc) \cup new_string(calc)
<1>1. PICK o \in Recalls(made) :
          Becomes(IF o.err = "NONE" THEN [o.calc EXCEPT !.lift = FALSE] ELSE o.calc)
  BY DEF core_paste
<1>2. Accounted(calc) /\ Base(calc)  BY InvIsAccounted DEF core_paste
<1>3. AllMade(calc, made)  BY <1>2, NumbersMade DEF AllMade
<1>. HIDE DEF made
<1>4. Has(calc, o.calc, None, None, None)
  BY <1>3, ResultsSettled DEF AllSettled, Settled
<1>5. Accounted(o.calc)  BY <1>2, <1>4, StaysAccounted
<1>6. Accounted([o.calc EXCEPT !.lift = FALSE])
  BY <1>5, FlagsBalanced DEF Accounted, Calc
<1>. QED  BY <1>1, <1>5, <1>6, BecomesKeeps DEF core_paste

-----------------------------------------------------------------------------
\* The theorems.

LEMMA StartsAccounted ==
    ASSUME Init
    PROVE  Inv
<1>. DEFINE a == CHOOSE a \in Arrays : TRUE
            f == Start.slot
<1>1. a \in Arrays  BY ValueStackAssumption
<1>. HIDE DEF a
<1>2. /\ DOMAIN Start = Fields /\ DOMAIN f = Slots /\ DOMAIN Start.refs = Arrays
      /\ DOMAIN Start.data = Arrays
      /\ f = [s \in Slots |-> IF s \in Stack THEN Scalar("real")
                              ELSE IF s = "REGS" THEN Matrix("realmatrix", a)
                              ELSE None]
      /\ Start.refs = [b \in Arrays |-> IF b = a THEN 1 ELSE 0]
      /\ Start.live = Cardinality(Stack) + 1 /\ Start.lost = 0 /\ Start.shared = {}
      /\ Start.pending = None
  BY DEF Start, Fields, a
<1>. HIDE DEF f
<1>3. /\ \A s \in Stack : s # "REGS" /\ f[s] = Scalar("real")
      /\ f["REGS"] = Matrix("realmatrix", a)
      /\ \A s \in Slots : s \notin Stack /\ s # "REGS" => f[s] = None
  BY <1>2, SlotFacts
<1>4. /\ Scalar("real") # None /\ ~IsMatrix(Scalar("real")) /\ Value(Scalar("real"))
      /\ Matrix("realmatrix", a) # None /\ IsMatrix(Matrix("realmatrix", a))
      /\ Value(Matrix("realmatrix", a)) /\ Matrix("realmatrix", a).array = a
      /\ Value(None) /\ ~IsMatrix(None)
  BY <1>1, ValueFacts DEF ScalarTypes, MatrixTypes
<1>5. HeldBy(f) = Stack \cup {"REGS"}  BY <1>3, <1>4, SlotFacts DEF HeldBy
<1>6. \A b : HoldersBy(f, b) = IF b = a THEN {"REGS"} ELSE {}
  BY <1>3, <1>4, SlotFacts DEF HoldersBy
<1>7. IsFiniteSet(Stack) /\ Cardinality(Stack) \in Nat
  <2>1. IsFiniteSet({"x"}) /\ Stack = (((({"x"} \cup {"y"}) \cup {"z"}) \cup {"t"}) \cup {"l"})
    BY FS_Singleton DEF Stack
  <2>2. IsFiniteSet(Stack)  BY <2>1, AddedOrRemoved
  <2>. QED  BY <2>2, FS_CardinalityType
<1>8. IsFiniteSet(HeldBy(f)) /\ N(f) = Cardinality(Stack) + 1
  BY <1>5, <1>7, AddedOrRemoved, SlotFacts DEF N
<1>9. \A b : K(f, b) = IF b = a THEN 1 ELSE 0
  BY <1>6, FS_Singleton, FS_EmptySet DEF K
<1>10. Form(Start)
  BY <1>2, <1>7 DEF Form, f
<1>11. \A s \in Slots : Value(f[s])  BY <1>3, <1>4
<1>12. Loose(Start) /\ RegsUsable(Start)
  BY <1>3, <1>4, <1>8, <1>10, <1>11 DEF Loose, RegsUsable, f
<1>13. Extra(Start) = 0 /\ \A b \in Arrays : Spare(Start, b) = 0
  BY <1>2, <1>7, <1>8, <1>9 DEF Extra, Spare, f
<1>14. TempIn(Start) = None  BY <1>2 DEF TempIn
<1>15. Balanced(Start)
  BY <1>2, <1>12, <1>13, <1>14, ValueFacts DEF Balanced, Counted
<1>. QED  BY <1>2, <1>12, <1>15 DEF Init, Inv

\* Whatever commands are executed, in whatever order, whatever the solvers call and return
\* to and the shell pastes in between: the values that exist are those that slots and an
\* operation hold, or lost ones, until SOLVE or INTEG frees the value of its variable or
\* uses it as a number that it is not.
THEOREM Invariance == Spec => []Inv
<1>1. Init => Inv  BY StartsAccounted
<1>2. Inv /\ [Next]_vars => Inv'
  <2>. SUFFICES ASSUME Inv, [Next]_vars PROVE Inv'
    OBVIOUS
  <2>1. CASE UNCHANGED vars
    <3>1. /\ calc' = calc /\ harmed' = harmed /\ solving' = solving /\ integrating' = integrating
          /\ misplaced' = misplaced /\ undefined' = undefined
      BY <2>1 DEF vars
    <3>. QED  BY <3>1, Prime DEF Inv
  <2>2. CASE Resumed  BY <2>2, ResumedKeeps
  <2>3. CASE StoresAndShows  BY <2>3, StoresAndShowsKeeps
  <2>4. CASE core_paste  BY <2>4, core_pasteKeeps
  <2>5. ASSUME NEW outs \in {Moves(Ready), Stores(Ready), NamedVariables(Ready), StoArithmetic(Ready),
                             RclArithmetic(Ready), Arithmetic(Ready), Parts(Ready), Elementary(Ready),
                             Registers(Ready), Tests(Ready), Looking(Ready), Makes(Ready),
                             Matrices(Ready), Statistics(Ready), Bases(Ready)},
               Executed(outs)
        PROVE  Inv'
    BY <2>5, ExecutedKeeps
  <2>6. CASE SolveStarts \/ SolveStartsInMenu \/ IntegStarts  BY <2>6, StartsKeep
  <2>7. CASE docmd_rtn  BY <2>7, docmd_rtnKeeps
  <2>8. CASE ReturnsForgotten
    <3>1. /\ calc' = calc /\ harmed' = harmed /\ misplaced' = misplaced /\ undefined' = undefined
          /\ solving' \subseteq solving /\ integrating' \subseteq integrating
      BY <2>8 DEF ReturnsForgotten, KeptOrForgotten
    <3>. QED  BY <3>1, Prime DEF Inv
  <2>9. CASE Undefined  BY <2>1, <2>9 DEF Undefined
  <2>. QED  BY <2>1, <2>2, <2>3, <2>4, <2>5, <2>6, <2>7, <2>8, <2>9 DEF Next
<1>. QED  BY <1>1, <1>2, PTL DEF Spec

\* What each of two ways to count the values gives.
LEMMA CountsAgree ==
    ASSUME Inv, ~undefined
    PROVE  ValuesHeldOnce
<1>. DEFINE v == TempIn(calc)
<1>0. Accounted(calc)  BY InvIsAccounted
<1>1. Calc(calc) /\ Counted(calc)  BY <1>0 DEF Accounted
<1>2. Held(calc) = HeldBy(calc.slot) /\ \A a : Holders(calc, a) = HoldersBy(calc.slot, a)
  BY DEF Held, Holders, HeldBy, HoldersBy
<1>3. Temporary = IF v = None THEN {} ELSE {v}
  <2>1. CASE calc.pending = None  BY <2>1 DEF Temporary, TempIn
  <2>2. CASE calc.pending # None /\ calc.pending.how.kind # "rcl"
    BY <2>2 DEF Temporary, TempIn, TempOf
  <2>3. CASE calc.pending # None /\ calc.pending.how.kind = "rcl"
    <3>1. calc.pending.how.temp # None
      <4>1. PendingFits(calc.pending)  BY <1>1, <2>3 DEF Counted
      <4>. QED  BY <2>3, <4>1 DEF PendingFits, HowFits
    <3>. QED  BY <2>3, <3>1 DEF Temporary, TempIn, TempOf
  <2>. QED  BY <2>1, <2>2, <2>3
<1>. HIDE DEF v
<1>4. Cardinality(Temporary) = V(v)
  BY <1>3, FS_Singleton, FS_EmptySet DEF V
<1>5. ASSUME NEW a
      PROVE  Cardinality({u \in Temporary : IsMatrix(u) /\ u.array = a}) = M(v, a)
  <2>1. {u \in Temporary : IsMatrix(u) /\ u.array = a}
          = IF IsMatrix(v) /\ v.array = a THEN {v} ELSE {}
    BY <1>3, ValueFacts
  <2>. QED  BY <2>1, FS_Singleton, FS_EmptySet DEF M
<1>6. /\ N(calc.slot) = Cardinality(Held(calc))
      /\ \A a : K(calc.slot, a) = Cardinality(Holders(calc, a))
  BY <1>2 DEF N, K
<1>7. calc.live = Cardinality(Held(calc)) + Cardinality(Temporary) + calc.lost
  <2>1. calc.live - N(calc.slot) - calc.lost = V(v)  BY <1>1 DEF Counted, Extra, v
  <2>2. calc.live \in Int /\ N(calc.slot) \in Nat /\ calc.lost \in Nat /\ V(v) \in 0 .. 1
    BY <1>1, Numbered, ValueFacts
  <2>3. calc.live = N(calc.slot) + V(v) + calc.lost  BY <2>1, <2>2
  <2>. QED  BY <1>4, <1>6, <2>3
<1>8. ASSUME NEW a \in Arrays
      PROVE  /\ calc.refs[a] >= K(calc.slot, a) + M(v, a)
             /\ calc.lost = 0 => calc.refs[a] = K(calc.slot, a) + M(v, a)
  <2>1. /\ calc.refs[a] - K(calc.slot, a) >= M(v, a)
        /\ calc.lost = 0 => calc.refs[a] - K(calc.slot, a) = M(v, a)
    BY <1>1 DEF Counted, Spare, v
  <2>2. calc.refs[a] \in Int /\ K(calc.slot, a) \in Nat /\ M(v, a) \in 0 .. 1
    BY <1>1, Numbered, ValueFacts
  <2>. QED  BY <2>1, <2>2
<1>. QED  BY <1>5, <1>6, <1>7, <1>8 DEF ValuesHeldOnce

\* Whatever a command made, moved, duplicated or freed, on whatever path it went: every
\* value is held in one place, and reference counts are the numbers of matrices.  The one
\* exception is named in the property: SOLVE and INTEG, when they free the value of their
\* variable because the user's program is not found (call_solve_fn(), call_integ_fn()), or
\* SOLVE finds no number in it at the end (finish_solve()).
THEOREM ValuesAreHeldOnce == Spec => []ValuesHeldOnce
<1>1. Inv => ValuesHeldOnce  BY CountsAgree DEF ValuesHeldOnce
<1>. QED  BY <1>1, Invariance, PTL

\* Anything but a matrix gets into REGS by no other way than as the number that INTEG, or
\* SOLVE after REGS was cleared, puts into its variable: not by STO, its arithmetic, ASTO,
\* X<>, SIZE, CLV, CLALL or the end of an operation in slices.
THEOREM RegsStaysAMatrix == Spec => []RegsIsAMatrix
<1>1. Inv => RegsIsAMatrix  BY DEF Inv, RegsIsAMatrix
<1>. QED  BY <1>1, Invariance, PTL

\* No command writes to an array that another matrix shares, but for the statistics, which
\* write to the registers, and a string stored in a register, which goes to the array that
\* REGS had before (generic_sto()).
THEOREM SharedArraysStayUntouched == Spec => []SharedArraysUntouched
<1>1. Inv => SharedArraysUntouched  BY DEF Inv, SharedArraysUntouched
<1>. QED  BY <1>1, Invariance, PTL

\* A command that fails, at once or after its slices, has left what can be seen in the
\* registers and the variables as it was, also where an active SOLVE takes the error.
THEOREM FailuresChangeNothing == Spec => []FailedCommandChangesNothing
<1>1. Inv => FailedCommandChangesNothing  BY DEF Inv, FailedCommandChangesNothing
<1>. QED  BY <1>1, Invariance, PTL

=============================================================================
