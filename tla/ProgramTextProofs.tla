------------------------- MODULE ProgramTextProofs -------------------------
(***************************************************************************)
(* What the changes to a program's text preserve.                           *)
(***************************************************************************)
EXTENDS ProgramText, SequenceTheorems, WellFoundedInduction, TLAPS

GoodText(t) == t \in Seq(Command) /\ WellFormed(t)
GoodProgram(g) == g \in Program /\ WellFormed(g.text)
GoodPrograms == {g \in Program : WellFormed(g.text)}

\* The END is a command, and a program of only an END is well formed.
LEMMA EndGood == /\ End \in Command
                 /\ GoodText(<<End>>)
  BY DEF End, Cmd, Command, Ops, Unknown, GoodText, WellFormed

\* A well-formed text has a line, and is indexed by 1 .. Len.
LEMMA GoodLen ==
  ASSUME NEW t, GoodText(t)
  PROVE  /\ Len(t) \in Nat \ {0}
         /\ DOMAIN t = 1 .. Len(t)
         /\ \A i \in 1 .. Len(t) : t[i] \in Command /\ (t[i].op = "END" <=> i = Len(t))
  BY DEF GoodText, WellFormed

NoEnds(a) == a \in Seq(Command) /\ \A i \in 1 .. Len(a) : a[i].op # "END"

\* The first n lines, without the last, hold no END.
LEMMA PrefixNoEnds ==
  ASSUME NEW t, GoodText(t), NEW n \in 0 .. Len(t) - 1
  PROVE  NoEnds(SubSeq(t, 1, n)) /\ Len(SubSeq(t, 1, n)) = n
  <1>1. /\ Len(t) \in Nat \ {0}
        /\ \A i \in 1 .. Len(t) : t[i] \in Command /\ (t[i].op = "END" <=> i = Len(t))
    BY GoodLen
  <1>2. /\ SubSeq(t, 1, n) \in Seq(Command) /\ Len(SubSeq(t, 1, n)) = n
        /\ \A i \in 1 .. n : SubSeq(t, 1, n)[i] = t[i]
    BY <1>1, SubSeqProperties
  <1> QED  BY <1>1, <1>2 DEF NoEnds

\* The lines from m on form a well-formed text.
LEMMA SuffixGood ==
  ASSUME NEW t, GoodText(t), NEW m \in 1 .. Len(t)
  PROVE  GoodText(SubSeq(t, m, Len(t))) /\ Len(SubSeq(t, m, Len(t))) = Len(t) - m + 1
  <1> DEFINE b == SubSeq(t, m, Len(t))
  <1>1. /\ Len(t) \in Nat \ {0}
        /\ \A i \in 1 .. Len(t) : t[i] \in Command /\ (t[i].op = "END" <=> i = Len(t))
    BY GoodLen
  <1>2. /\ b \in Seq(Command) /\ Len(b) = Len(t) - m + 1
        /\ \A i \in 1 .. Len(t) - m + 1 : b[i] = t[m + i - 1]
    BY <1>1, SubSeqProperties
  <1>3. \A i \in 1 .. Len(b) : b[i].op = "END" <=> i = Len(b)
    BY <1>1, <1>2
  <1>4. b # <<>> /\ DOMAIN b = 1 .. Len(b)
    <2>1. Len(b) # 0
      BY <1>1, <1>2
    <2> HIDE DEF b
    <2> QED  BY <1>2, <2>1
  <1> HIDE DEF b
  <1>5. GoodText(b) /\ Len(b) = Len(t) - m + 1
    BY <1>2, <1>3, <1>4 DEF GoodText, WellFormed
  <1> QED  BY <1>5 DEF b

\* Lines without an END before a well-formed text make a well-formed text.
LEMMA ConcatGood ==
  ASSUME NEW a, NoEnds(a), NEW b, GoodText(b)
  PROVE  GoodText(a \o b) /\ Len(a \o b) = Len(a) + Len(b)
  <1> DEFINE u == a \o b
  <1>1. /\ Len(b) \in Nat \ {0} /\ b \in Seq(Command)
        /\ \A i \in 1 .. Len(b) : b[i].op = "END" <=> i = Len(b)
    BY GoodLen DEF GoodText
  <1>2. /\ a \in Seq(Command) /\ Len(a) \in Nat
        /\ \A i \in 1 .. Len(a) : a[i].op # "END"
    BY DEF NoEnds
  <1>3. /\ u \in Seq(Command) /\ Len(u) = Len(a) + Len(b)
        /\ \A i \in 1 .. Len(a) + Len(b) :
              u[i] = IF i <= Len(a) THEN a[i] ELSE b[i - Len(a)]
    BY <1>1, <1>2, ConcatProperties
  <1>4. \A i \in 1 .. Len(u) : u[i].op = "END" <=> i = Len(u)
    <2> SUFFICES ASSUME NEW i \in 1 .. Len(u) PROVE u[i].op = "END" <=> i = Len(u)
      OBVIOUS
    <2>1. CASE i <= Len(a)
      BY <2>1, <1>1, <1>2, <1>3
    <2>2. CASE i > Len(a)
      <3>1. i - Len(a) \in 1 .. Len(b) /\ u[i] = b[i - Len(a)]
        BY <2>2, <1>1, <1>2, <1>3
      <3>2. b[i - Len(a)].op = "END" <=> i - Len(a) = Len(b)
        BY <3>1, <1>1
      <3>3. i - Len(a) = Len(b) <=> i = Len(u)
        BY <1>1, <1>2, <1>3
      <3> QED  BY <3>1, <3>2, <3>3
    <2> QED  BY <2>1, <2>2, <1>2, <1>3
  <1>5. u # <<>> /\ DOMAIN u = 1 .. Len(u)
    BY <1>1, <1>2, <1>3
  <1> HIDE DEF u
  <1>6. GoodText(u) /\ Len(u) = Len(a) + Len(b)
    BY <1>3, <1>4, <1>5 DEF GoodText, WellFormed
  <1> QED  BY <1>6 DEF u

\* Lines without an END and an END after them make a well-formed text.
LEMMA AppendEndGood ==
  ASSUME NEW a, NoEnds(a)
  PROVE  GoodText(Append(a, End)) /\ Len(Append(a, End)) = Len(a) + 1
  <1>1. End \in Command /\ End.op = "END"
    BY EndGood DEF End, Cmd
  <1> QED  BY <1>1 DEF NoEnds, GoodText, WellFormed

\* Inserting a command other than END before a line keeps a text well formed.
LEMMA InsertGood ==
  ASSUME NEW t, GoodText(t), NEW at \in 1 .. Len(t), NEW c \in Command, c.op # "END"
  PROVE  GoodText(InsertAt(t, at, c)) /\ Len(InsertAt(t, at, c)) = Len(t) + 1
  <1> DEFINE a == SubSeq(t, 1, at - 1)
             b == SubSeq(t, at, Len(t))
  <1>1. Len(t) \in Nat \ {0}
    BY GoodLen
  <1>2. NoEnds(a) /\ Len(a) = at - 1
    BY <1>1, PrefixNoEnds
  <1>3. GoodText(b) /\ Len(b) = Len(t) - at + 1
    BY SuffixGood
  <1> HIDE DEF a, b
  <1>4. NoEnds(a \o <<c>>) /\ Len(a \o <<c>>) = at
    <2>1. a \in Seq(Command) /\ <<c>> \in Seq(Command)
      BY <1>2 DEF NoEnds
    <2>2. /\ a \o <<c>> \in Seq(Command) /\ Len(a \o <<c>>) = Len(a) + 1
          /\ \A i \in 1 .. Len(a) + 1 : (a \o <<c>>)[i] = IF i <= Len(a) THEN a[i] ELSE c
      BY <2>1
    <2> QED  BY <1>2, <2>2 DEF NoEnds
  <1>5. GoodText((a \o <<c>>) \o b) /\ Len((a \o <<c>>) \o b) = at + Len(b)
    BY <1>3, <1>4, ConcatGood
  <1>6. InsertAt(t, at, c) = (a \o <<c>>) \o b
    BY DEF InsertAt, a, b
  <1> QED  BY <1>1, <1>3, <1>5, <1>6

\* Deleting the lines from first up to, not including, stop keeps a text well
\* formed when its last line stays.
LEMMA CutGood ==
  ASSUME NEW t, GoodText(t), NEW stop \in 1 .. Len(t), NEW first \in 1 .. stop
  PROVE  GoodText(SubSeq(t, 1, first - 1) \o SubSeq(t, stop, Len(t)))
  <1>1. Len(t) \in Nat \ {0}
    BY GoodLen
  <1>2. NoEnds(SubSeq(t, 1, first - 1))
    BY <1>1, PrefixNoEnds
  <1> QED  BY <1>2, SuffixGood, ConcatGood

\* Deleting one line other than the last keeps a text well formed.
LEMMA RemoveGood ==
  ASSUME NEW t, GoodText(t), NEW at \in 1 .. Len(t) - 1
  PROVE  GoodText(RemoveAt(t, at))
  <1>1. Len(t) \in Nat \ {0}
    BY GoodLen
  <1>2. NoEnds(SubSeq(t, 1, at - 1)) /\ GoodText(SubSeq(t, at + 1, Len(t)))
    BY <1>1, PrefixNoEnds, SuffixGood
  <1> QED  BY <1>2, ConcatGood DEF RemoveAt

\* Joining two well-formed texts over the first one's END gives a third.
LEMMA JoinGood ==
  ASSUME NEW t, GoodText(t), NEW u, GoodText(u)
  PROVE  GoodText(Front(t) \o u)
  <1>1. NoEnds(Front(t))
    BY GoodLen, PrefixNoEnds DEF Front
  <1> QED  BY <1>1, ConcatGood

\* A function on 1 .. n is a sequence of length n.
LEMMA FunctionIsSeq ==
  ASSUME NEW n \in Nat, NEW S, NEW f \in [1 .. n -> S]
  PROVE  f \in Seq(S) /\ Len(f) = n
  OBVIOUS

\* invalidate_lclbls() only forgets targets.
LEMMA InvalidateGood ==
  ASSUME NEW g, GoodProgram(g)
  PROVE  GoodProgram(invalidate_lclbls(g)) /\ Len(invalidate_lclbls(g).text) = Len(g.text)
  <1> DEFINE t == g.text
             u == [i \in DOMAIN t |-> IF IsLocalJump(t[i]) THEN Forget(t[i]) ELSE t[i]]
  <1>1. CASE g.lclbl_invalid
    BY <1>1 DEF invalidate_lclbls
  <1>2. CASE ~ g.lclbl_invalid
    <2>1. /\ GoodText(t) /\ Len(t) \in Nat \ {0} /\ DOMAIN t = 1 .. Len(t)
          /\ \A i \in 1 .. Len(t) : t[i] \in Command /\ (t[i].op = "END" <=> i = Len(t))
      <3>1. GoodText(t)
        BY DEF GoodProgram, Program, GoodText
      <3> QED  BY <3>1, GoodLen
    <2>2. \A i \in 1 .. Len(t) : u[i] \in Command /\ u[i].op = t[i].op
      BY <2>1 DEF Command, Forget, WithTarget, Unknown
    <2>3. u \in Seq(Command) /\ Len(u) = Len(t)
      <3>1. u \in [1 .. Len(t) -> Command]
        BY <2>1, <2>2
      <3> QED  BY <3>1, <2>1, FunctionIsSeq
    <2> HIDE DEF u
    <2>4. WellFormed(u)
      BY <2>1, <2>2, <2>3 DEF WellFormed
    <2>5. invalidate_lclbls(g) = [text |-> u, lclbl_invalid |-> TRUE]
      BY <1>2 DEF invalidate_lclbls, u
    <2> HIDE DEF t
    <2> QED  BY <2>3, <2>4, <2>5 DEF GoodProgram, Program, t
  <1> QED  BY <1>1, <1>2

\* A nonempty set of natural numbers has a least element.
LEMMA LeastOf ==
  ASSUME NEW S \in SUBSET Nat, S # {}
  PROVE  \E i \in S : \A j \in S : i <= j
  <1>1. PICK i \in S : \A j \in S : ~ (<<j, i>> \in OpToRel(<, Nat))
    BY NatLessThanWellFounded, WFMin
  <1>2. \A j \in S : ~ (j < i)
    BY <1>1 DEF OpToRel
  <1> QED  BY <1>2

\* A search for a local label gives a line other than the END, or Nonexistent.
LEMMA LocalSearchInt ==
  ASSUME NEW t, GoodText(t), NEW label, NEW at \in Int
  PROVE  find_local_label(t, label, at) \in (1 .. Len(t) - 1) \cup {Nonexistent}
  <1> DEFINE hits == {i \in 1 .. Len(t) - 1 : t[i].op = "LBL" /\ t[i].arg = label}
             ahead == {i \in hits : i >= FirstIfZero(at)}
             first(S) == CHOOSE i \in S : \A j \in S : i <= j
  <1>1. ASSUME NEW S \in SUBSET hits, S # {}
        PROVE  first(S) \in hits
    <2>1. S \in SUBSET Nat
      BY GoodLen
    <2>2. \E i \in S : \A j \in S : i <= j
      BY <2>1, <1>1, LeastOf
    <2> QED  BY <2>2
  <1>2. CASE hits = {}
    BY <1>2 DEF find_local_label
  <1>3. CASE hits # {} /\ ahead # {}
    <2>1. first(ahead) \in hits
      BY <1>1, <1>3
    <2> QED  BY <2>1, <1>3 DEF find_local_label
  <1>4. CASE hits # {} /\ ahead = {}
    <2>1. first(hits) \in hits
      BY <1>1, <1>4
    <2> QED  BY <2>1, <1>4 DEF find_local_label
  <1> QED  BY <1>2, <1>3, <1>4

\* So does a fetch that remembers a target change nothing else.
LEMMA RememberGood ==
  ASSUME NEW g, GoodProgram(g), NEW at \in 1 .. Len(g.text)
  PROVE  GoodProgram(Remember(g, at)) /\ Len(Remember(g, at).text) = Len(g.text)
  <1> DEFINE t == g.text
             n == TargetOf(t, at)
             u == [t EXCEPT ![at] = WithTarget(@, n)]
  <1>1. /\ GoodText(t) /\ Len(t) \in Nat \ {0} /\ DOMAIN t = 1 .. Len(t)
        /\ \A i \in 1 .. Len(t) : t[i] \in Command /\ (t[i].op = "END" <=> i = Len(t))
    <2>1. GoodText(t)
      BY DEF GoodProgram, Program, GoodText
    <2> QED  BY <2>1, GoodLen
  <1>2. n \in Int
    <2>1. t[at].target \in Int
      BY <1>1 DEF Command
    <2>2. find_local_label(t, t[at].arg, at + 1) \in Int
      BY <1>1, LocalSearchInt DEF Nonexistent
    <2> QED  BY <2>1, <2>2 DEF TargetOf
  <1> HIDE DEF n
  <1>3. \A i \in 1 .. Len(t) : u[i] \in Command /\ u[i].op = t[i].op
    BY <1>1, <1>2 DEF Command, WithTarget
  <1>4. u \in Seq(Command) /\ Len(u) = Len(t)
    <2>1. u \in [1 .. Len(t) -> Command]
      BY <1>1, <1>3
    <2> QED  BY <2>1, <1>1, FunctionIsSeq
  <1>5. WellFormed(u)
    BY <1>1, <1>3, <1>4 DEF WellFormed
  <1>6. Remember(g, at) = g \/ Remember(g, at) = [text |-> u, lclbl_invalid |-> FALSE]
    BY DEF Remember, n
  <1> HIDE DEF u
  <1>7. CASE Remember(g, at) = g
    BY <1>7
  <1>8. CASE Remember(g, at) = [text |-> u, lclbl_invalid |-> FALSE]
    <2>1. Remember(g, at).text = u
      BY <1>8
    <2> QED  BY <1>4, <1>5, <1>8, <2>1 DEF GoodProgram, Program
  <1> QED  BY <1>6, <1>7, <1>8

=============================================================================
