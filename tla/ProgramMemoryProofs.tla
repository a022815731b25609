------------------------ MODULE ProgramMemoryProofs ------------------------
(***************************************************************************)
(* Theorems about the program store, for every set of labels, commands and  *)
(* importable programs, every depth of the return stack and every bound.    *)
(*                                                                          *)
(* An operation either leaves the programs and the return stack alone, or   *)
(* changes the programs and forgets the return addresses, or pushes or pops *)
(* one return address; the first lemmas say what each of these keeps, then  *)
(* there is one lemma per primitive of core_globals.cc and one step per     *)
(* action.                                                                  *)
(***************************************************************************)
EXTENDS ProgramMemoryProps, ProgramTextProofs

ReturnAddress == [prgm : Nat, pc : Nat]

\* The inductive invariant.  ReturnAddressesValid needs the programs to be
\* well formed: a call that is not the last line has a line after it.
IInv ==
    /\ prgms \in Seq(Program)
    /\ ProgramsWellFormed
    /\ rtns \in Seq(ReturnAddress)
    /\ Len(rtns) <= MAX_RTNS
    /\ ReturnAddressesValid

-----------------------------------------------------------------------------

\* Well-formed programs are a sequence of good programs, and conversely.
LEMMA ProgramsGood ==
  prgms \in Seq(GoodPrograms) <=> prgms \in Seq(Program) /\ ProgramsWellFormed
  <1>1. ASSUME prgms \in Seq(GoodPrograms)
        PROVE  prgms \in Seq(Program) /\ ProgramsWellFormed
    <2>1. \A p \in DOMAIN prgms : prgms[p] \in GoodPrograms
      BY <1>1
    <2>2. GoodPrograms \subseteq Program
      BY DEF GoodPrograms
    <2>3. prgms \in Seq(Program)
      BY <1>1, <2>2, SeqMonotonic
    <2> QED  BY <2>1, <2>3 DEF ProgramsWellFormed, GoodPrograms
  <1>2. ASSUME prgms \in Seq(Program), ProgramsWellFormed
        PROVE  prgms \in Seq(GoodPrograms)
    <2>1. /\ Len(prgms) \in Nat /\ DOMAIN prgms = 1 .. Len(prgms)
          /\ prgms \in [1 .. Len(prgms) -> Program]
      BY <1>2, LenProperties
    <2>2. \A p \in 1 .. Len(prgms) : prgms[p] \in GoodPrograms
      BY <1>2, <2>1 DEF ProgramsWellFormed, GoodPrograms
    <2>3. prgms \in [1 .. Len(prgms) -> GoodPrograms]
      BY <2>1, <2>2
    <2> QED  BY <2>1, <2>3, FunctionIsSeq
  <1> QED  BY <1>1, <1>2

\* The same of the next state.
LEMMA ProgramsGoodNext ==
  ASSUME prgms' \in Seq(GoodPrograms)
  PROVE  prgms' \in Seq(Program) /\ ProgramsWellFormed'
  <1>1. \A p \in DOMAIN prgms' : prgms'[p] \in GoodPrograms
    OBVIOUS
  <1>2. GoodPrograms \subseteq Program
    BY DEF GoodPrograms
  <1>3. prgms' \in Seq(Program)
    BY <1>2, SeqMonotonic
  <1> QED  BY <1>1, <1>3 DEF ProgramsWellFormed, GoodPrograms

\* A step that forgets the return addresses keeps the invariant when it keeps
\* the programs well formed.
LEMMA ForgetKeeps ==
  ASSUME prgms' \in Seq(GoodPrograms), rtns' = <<>>
  PROVE  IInv'
  <1>1. prgms' \in Seq(Program) /\ ProgramsWellFormed'
    BY ProgramsGoodNext
  <1>2. /\ rtns' \in Seq(ReturnAddress)
        /\ Len(rtns') <= MAX_RTNS
        /\ ReturnAddressesValid'
    BY ProgramMemoryAssumption DEF ReturnAddressesValid
  <1> QED  BY <1>1, <1>2 DEF IInv

\* A step that changes neither the programs nor the return stack keeps it.
LEMMA SameKeeps ==
  ASSUME IInv, prgms' = prgms, rtns' = rtns
  PROVE  IInv'
  BY DEF IInv, ProgramsWellFormed, ReturnAddressesValid

\* A step that leaves the programs alone may forget the return addresses.
LEMMA SameOrForgetKeeps ==
  ASSUME IInv, prgms' = prgms, rtns' \in {<<>>, rtns}
  PROVE  IInv'
  <1>1. prgms \in Seq(GoodPrograms)
    BY ProgramsGood DEF IInv
  <1> QED  BY <1>1, ForgetKeeps, SameKeeps

\* The current program is well formed.
LEMMA TextGood ==
  ASSUME IInv, OnProgram
  PROVE  /\ prgms \in Seq(GoodPrograms)
         /\ Len(prgms) \in Nat
         /\ current_prgm \in 1 .. Len(prgms)
         /\ prgms[current_prgm] \in GoodPrograms
         /\ GoodText(text)
         /\ Len(text) \in Nat \ {0}
  <1>1. prgms \in Seq(GoodPrograms)
    BY ProgramsGood DEF IInv
  <1>2. Len(prgms) \in Nat /\ current_prgm \in 1 .. Len(prgms)
    BY <1>1, LenProperties DEF OnProgram
  <1>3. prgms[current_prgm] \in GoodPrograms
    BY <1>1, <1>2, ElementOfSeq
  <1>4. GoodText(text)
    BY <1>3 DEF GoodPrograms, Program, GoodText, text
  <1> QED  BY <1>1, <1>2, <1>3, <1>4, GoodLen

\* Giving a good program another good text, without its remembered targets.
LEMMA NewTextGood ==
  ASSUME NEW g \in GoodPrograms, NEW t, GoodText(t)
  PROVE  Rewritten(g, t) \in GoodPrograms
  <1>1. GoodProgram([text |-> t, lclbl_invalid |-> g.lclbl_invalid])
    BY DEF GoodPrograms, GoodProgram, Program, GoodText
  <1> QED  BY <1>1, InvalidateGood DEF Rewritten, GoodProgram, GoodPrograms

\* Deleting an element of a sequence of programs.
LEMMA RemoveProgram ==
  ASSUME NEW S, NEW s \in Seq(S), NEW i \in 1 .. Len(s)
  PROVE  /\ RemoveAt(s, i) \in Seq(S)
         /\ Len(RemoveAt(s, i)) = Len(s) - 1
         /\ \A j \in 1 .. Len(s) - 1 :
               RemoveAt(s, i)[j] = IF j < i THEN s[j] ELSE s[j + 1]
  <1> DEFINE a == SubSeq(s, 1, i - 1)
             b == SubSeq(s, i + 1, Len(s))
  <1>1. Len(s) \in Nat /\ \A j \in 1 .. Len(s) : s[j] \in S
    BY LenProperties, ElementOfSeq
  <1>2. /\ a \in Seq(S) /\ Len(a) = i - 1
        /\ \A j \in 1 .. i - 1 : a[j] = s[j]
    BY <1>1, SubSeqProperties
  <1>3. /\ b \in Seq(S) /\ Len(b) = Len(s) - i
        /\ \A j \in 1 .. Len(s) - i : b[j] = s[i + j]
    BY <1>1, SubSeqProperties
  <1>4. RemoveAt(s, i) = a \o b
    BY DEF RemoveAt
  <1> HIDE DEF a, b
  <1>5. /\ a \o b \in Seq(S) /\ Len(a \o b) = Len(s) - 1
        /\ \A j \in 1 .. Len(s) - 1 :
              (a \o b)[j] = IF j <= i - 1 THEN a[j] ELSE b[j - (i - 1)]
    <2>1. /\ a \o b \in Seq(S) /\ Len(a \o b) = Len(a) + Len(b)
          /\ \A j \in 1 .. Len(a) + Len(b) :
                (a \o b)[j] = IF j <= Len(a) THEN a[j] ELSE b[j - Len(a)]
      BY <1>2, <1>3, ConcatProperties
    <2>2. Len(a) + Len(b) = Len(s) - 1
      BY <1>1, <1>2, <1>3
    <2> QED  BY <1>2, <2>1, <2>2
  <1>6. ASSUME NEW j \in 1 .. Len(s) - 1
        PROVE  (a \o b)[j] = IF j < i THEN s[j] ELSE s[j + 1]
    <2>1. CASE j < i
      BY <2>1, <1>1, <1>2, <1>5
    <2>2. CASE ~ (j < i)
      <3>1. j - (i - 1) \in 1 .. Len(s) - i
        BY <2>2, <1>1
      <3>2. b[j - (i - 1)] = s[i + (j - (i - 1))]
        BY <3>1, <1>3
      <3>3. i + (j - (i - 1)) = j + 1
        BY <1>1
      <3> QED  BY <2>2, <3>2, <3>3, <1>1, <1>5
    <2> QED  BY <2>1, <2>2
  <1> QED  BY <1>4, <1>5, <1>6

-----------------------------------------------------------------------------
(***************************************************************************)
(* One lemma per primitive.                                                 *)
(***************************************************************************)

\* Replacing the current program by a good one.
LEMMA ReplaceCurrent ==
  ASSUME IInv, OnProgram, NEW g \in GoodPrograms
  PROVE  [prgms EXCEPT ![current_prgm] = g] \in Seq(GoodPrograms)
  BY TextGood, ExceptSeq

\* Splitting the current program at any of its lines.
LEMMA SplitGood ==
  ASSUME IInv, OnProgram, NEW at \in 1 .. Len(text), NEW stale \in BOOLEAN
  PROVE  SplitAt(at, stale) \in Seq(GoodPrograms)
  <1> DEFINE g == prgms[current_prgm]
             before == SubSeq(prgms, 1, current_prgm - 1)
             after == SubSeq(prgms, current_prgm + 1, Len(prgms))
             upper == Rewritten(g, Append(SubSeq(g.text, 1, at - 1), End))
             lower == invalidate_lclbls(
                        [text |-> SubSeq(g.text, at, Len(g.text)),
                         lclbl_invalid |-> stale])
  <1>1. /\ g \in GoodPrograms /\ GoodText(g.text) /\ Len(g.text) \in Nat \ {0}
        /\ Len(prgms) \in Nat /\ current_prgm \in 1 .. Len(prgms)
        /\ \A i \in 1 .. Len(prgms) : prgms[i] \in GoodPrograms
    BY TextGood, ElementOfSeq DEF text
  <1>2. upper \in GoodPrograms
    <2>1. NoEnds(SubSeq(g.text, 1, at - 1))
      BY <1>1, PrefixNoEnds DEF text
    <2>2. GoodText(Append(SubSeq(g.text, 1, at - 1), End))
      BY <2>1, AppendEndGood
    <2> QED  BY <1>1, <2>2, NewTextGood
  <1>3. lower \in GoodPrograms
    <2>1. GoodText(SubSeq(g.text, at, Len(g.text)))
      BY <1>1, SuffixGood DEF text
    <2>2. GoodProgram([text |-> SubSeq(g.text, at, Len(g.text)), lclbl_invalid |-> stale])
      BY <2>1 DEF GoodProgram, GoodText, Program
    <2>3. GoodProgram(lower)
      BY <2>2, InvalidateGood
    <2> QED  BY <2>3 DEF GoodProgram, GoodPrograms
  <1>4. before \in Seq(GoodPrograms) /\ after \in Seq(GoodPrograms)
    BY <1>1, SubSeqProperties
  <1>5. SplitAt(at, stale) = before \o <<upper, lower>> \o after
    BY DEF SplitAt, text
  <1> HIDE DEF upper, lower, before, after
  <1>6. <<upper, lower>> \in Seq(GoodPrograms)
    BY <1>2, <1>3
  <1>7. before \o <<upper, lower>> \in Seq(GoodPrograms)
    BY <1>4, <1>6, ConcatProperties
  <1>8. before \o <<upper, lower>> \o after \in Seq(GoodPrograms)
    BY <1>4, <1>7, ConcatProperties
  <1> QED  BY <1>5, <1>8

\* Storing a command on any line of the current program.
LEMMA StoreKeeps ==
  ASSUME IInv, OnProgram, NEW at \in 1 .. Len(text), NEW c \in Command,
         store_command(at, c)
  PROVE  IInv'
  <1>1. CASE c.op = "END"
    <2>1. PICK stale \in BOOLEAN : prgms' = SplitAt(at, stale)
      BY <1>1 DEF store_command, text
    <2> QED  BY <2>1, SplitGood, ForgetKeeps DEF store_command
  <1>2. CASE c.op # "END"
    <2> DEFINE g == prgms[current_prgm]
    <2>1. g \in GoodPrograms
      BY TextGood
    <2>2. GoodText(InsertAt(g.text, at, c))
      BY <1>2, TextGood, InsertGood DEF text
    <2>3. Rewritten(g, InsertAt(g.text, at, c)) \in GoodPrograms
      BY <2>1, <2>2, NewTextGood
    <2>4. prgms' = [prgms EXCEPT ![current_prgm] =
                      Rewritten(g, InsertAt(g.text, at, c))]
      BY <1>2 DEF store_command, text
    <2> QED  BY <2>3, <2>4, ReplaceCurrent, ForgetKeeps DEF store_command
  <1> QED  BY <1>1, <1>2

\* Deleting the command on any line of the current program.
LEMMA DeleteKeeps ==
  ASSUME IInv, OnProgram, NEW at \in 1 .. Len(text), delete_command(at)
  PROVE  IInv'
  <1> DEFINE g == prgms[current_prgm]
             n == Len(prgms)
  <1>1. /\ g \in GoodPrograms /\ GoodText(g.text) /\ Len(g.text) \in Nat \ {0}
        /\ n \in Nat /\ current_prgm \in 1 .. n
    BY TextGood DEF text
  <1>2. CASE text[at].op = "END" /\ current_prgm = n
    BY <1>2, SameKeeps DEF delete_command
  <1>3. CASE text[at].op = "END" /\ current_prgm # n
    <2> DEFINE next == prgms[current_prgm + 1]
               both == Rewritten(g, Front(g.text) \o next.text)
               joined == [prgms EXCEPT ![current_prgm] = both]
    <2>1. next \in GoodPrograms /\ GoodText(next.text)
      <3>1. current_prgm + 1 \in 1 .. n
        BY <1>1, <1>3
      <3>2. next \in GoodPrograms
        BY <3>1, TextGood, ElementOfSeq
      <3> QED  BY <3>2 DEF GoodPrograms, Program, GoodText
    <2>2. GoodText(Front(g.text) \o next.text)
      BY <1>1, <2>1, JoinGood
    <2>3. both \in GoodPrograms
      BY <1>1, <2>2, NewTextGood
    <2>4. joined \in Seq(GoodPrograms) /\ Len(joined) = n
      BY <2>3, TextGood, ExceptSeq
    <2>5. prgms' = RemoveAt(joined, current_prgm + 1) /\ rtns' = <<>>
      BY <1>3 DEF delete_command, Joined, text
    <2> HIDE DEF joined
    <2>6. current_prgm + 1 \in 1 .. Len(joined)
      BY <1>1, <1>3, <2>4
    <2>7. prgms' \in Seq(GoodPrograms)
      BY <2>4, <2>5, <2>6, RemoveProgram
    <2> QED  BY <2>5, <2>7, ForgetKeeps
  <1>4. CASE text[at].op # "END"
    <2>1. at \in 1 .. Len(g.text) - 1
      BY <1>1, <1>4, GoodLen DEF text
    <2>2. GoodText(RemoveAt(g.text, at))
      BY <1>1, <2>1, RemoveGood
    <2>3. Rewritten(g, RemoveAt(g.text, at)) \in GoodPrograms
      BY <1>1, <2>2, NewTextGood
    <2>4. prgms' = [prgms EXCEPT ![current_prgm] =
                      Rewritten(g, RemoveAt(g.text, at))]
      BY <1>4 DEF delete_command, text
    <2>5. rtns' = <<>>
      BY <1>4 DEF delete_command, text
    <2> QED  BY <2>3, <2>4, <2>5, ReplaceCurrent, ForgetKeeps
  <1> QED  BY <1>2, <1>3, <1>4

\* Deleting any number of lines from any line of the current program on.
LEMMA ClearLinesKeeps ==
  ASSUME IInv, OnProgram, NEW first \in 1 .. Len(text), NEW n \in Nat,
         clear_prgm_lines(first, n)
  PROVE  IInv'
  <1> DEFINE g == prgms[current_prgm]
             stop == IF first + n > Len(g.text) THEN Len(g.text) ELSE first + n
             cut == SubSeq(g.text, 1, first - 1) \o SubSeq(g.text, stop, Len(g.text))
  <1>1. g \in GoodPrograms /\ GoodText(g.text) /\ Len(g.text) \in Nat \ {0}
    BY TextGood DEF text
  <1>2. first \in 1 .. Len(g.text)
    BY DEF text
  <1>3. stop \in 1 .. Len(g.text) /\ first \in 1 .. stop
    BY <1>1, <1>2
  <1>4. prgms' = [prgms EXCEPT ![current_prgm] =
                     Rewritten(g, cut)]
    BY DEF clear_prgm_lines, text
  <1> HIDE DEF stop
  <1>5. GoodText(cut)
    BY <1>1, <1>3, CutGood
  <1> HIDE DEF cut
  <1>6. Rewritten(g, cut) \in GoodPrograms
    BY <1>1, <1>5, NewTextGood
  <1>7. rtns' = <<>>
    BY DEF clear_prgm_lines
  <1> QED  BY <1>4, <1>6, <1>7, ReplaceCurrent, ForgetKeeps

\* An empty last program is added to any programs.
LEMMA WithEmptyLastGood ==
  ASSUME NEW ps \in Seq(GoodPrograms)
  PROVE  WithEmptyLast(ps) \in Seq(GoodPrograms)
  <1>1. EmptyProgram \in GoodPrograms
    BY EndGood DEF EmptyProgram, GoodPrograms, Program, GoodText
  <1>2. Append(ps, EmptyProgram) \in Seq(GoodPrograms)
    BY <1>1, AppendProperties
  <1> QED  BY <1>2 DEF WithEmptyLast

\* GTO . . keeps the invariant.
LEMMA GotoDotDotKeeps ==
  ASSUME IInv, goto_dot_dot
  PROVE  IInv'
  <1>1. prgms \in Seq(GoodPrograms)
    BY ProgramsGood DEF IInv
  <1>2. prgms' \in Seq(GoodPrograms)
    BY <1>1, WithEmptyLastGood DEF goto_dot_dot
  <1>3. CASE LastIsEmpty(prgms)
    BY <1>3, SameKeeps DEF goto_dot_dot, WithEmptyLast
  <1>4. CASE ~ LastIsEmpty(prgms)
    BY <1>2, <1>4, ForgetKeeps DEF goto_dot_dot
  <1> QED  BY <1>3, <1>4

\* So does clearing any program.
LEMMA ClearPrgmKeeps ==
  ASSUME IInv, NEW p \in DOMAIN prgms, NEW at, clear_prgm_by_index(p, at)
  PROVE  IInv'
  <1>1. prgms \in Seq(GoodPrograms)
    BY ProgramsGood DEF IInv
  <1>2. p \in 1 .. Len(prgms)
    BY <1>1, LenProperties
  <1>3. RemoveAt(prgms, p) \in Seq(GoodPrograms)
    BY <1>1, <1>2, RemoveProgram
  <1>4. WithEmptyLast(RemoveAt(prgms, p)) \in Seq(GoodPrograms)
    BY <1>3, WithEmptyLastGood
  <1>5. prgms' \in Seq(GoodPrograms) /\ rtns' = <<>>
    BY <1>3, <1>4 DEF clear_prgm_by_index
  <1> QED  BY <1>5, ForgetKeeps

\* A pushed address is one of the addresses there were, or the new one.
LEMMA PushProperties ==
  ASSUME IInv, NEW p \in Nat, NEW at \in Nat, push_rtn_addr(p, at)
  PROVE  /\ rtns' \in Seq(ReturnAddress)
         /\ Len(rtns') <= MAX_RTNS
         /\ \A i \in DOMAIN rtns' :
               \/ rtns'[i] = [prgm |-> p, pc |-> at]
               \/ \E j \in DOMAIN rtns : rtns'[i] = rtns[j]
  <1> DEFINE new == [prgm |-> p, pc |-> at]
             kept == IF Len(rtns) = MAX_RTNS THEN Tail(rtns) ELSE rtns
  <1>1. rtns \in Seq(ReturnAddress) /\ Len(rtns) \in Nat /\ Len(rtns) <= MAX_RTNS
    BY LenProperties DEF IInv
  <1>2. MAX_RTNS \in Nat \ {0}
    BY ProgramMemoryAssumption
  <1>3. /\ kept \in Seq(ReturnAddress) /\ Len(kept) \in Nat /\ Len(kept) < MAX_RTNS
        /\ \A i \in 1 .. Len(kept) : \E j \in DOMAIN rtns : kept[i] = rtns[j]
    <2>1. CASE Len(rtns) = MAX_RTNS
      <3>1. rtns # <<>>
        BY <1>2, <2>1
      <3>2. /\ Tail(rtns) \in Seq(ReturnAddress)
            /\ Len(Tail(rtns)) = Len(rtns) - 1
            /\ \A i \in 1 .. Len(Tail(rtns)) : Tail(rtns)[i] = rtns[i + 1]
        BY <1>1, <3>1, HeadTailProperties
      <3>3. \A i \in 1 .. Len(Tail(rtns)) : i + 1 \in DOMAIN rtns
        BY <1>1, <3>2, LenProperties
      <3> QED  BY <1>1, <1>2, <2>1, <3>2, <3>3
    <2>2. CASE Len(rtns) # MAX_RTNS
      BY <1>1, <1>2, <2>2, LenProperties
    <2> QED  BY <2>1, <2>2
  <1>4. rtns' = Append(kept, new)
    BY DEF push_rtn_addr
  <1>5. new \in ReturnAddress
    BY DEF ReturnAddress
  <1> HIDE DEF new, kept
  <1>6. /\ Append(kept, new) \in Seq(ReturnAddress)
        /\ Len(Append(kept, new)) = Len(kept) + 1
        /\ \A i \in 1 .. Len(kept) : Append(kept, new)[i] = kept[i]
        /\ Append(kept, new)[Len(kept) + 1] = new
    BY <1>3, <1>5, AppendProperties
  <1>7. \A i \in DOMAIN rtns' : rtns'[i] = new \/ \E j \in DOMAIN rtns : rtns'[i] = rtns[j]
    <2> SUFFICES ASSUME NEW i \in DOMAIN rtns'
                 PROVE  rtns'[i] = new \/ \E j \in DOMAIN rtns : rtns'[i] = rtns[j]
      OBVIOUS
    <2>1. i \in 1 .. Len(kept) \/ i = Len(kept) + 1
      BY <1>3, <1>4, <1>6, LenProperties
    <2> QED  BY <1>3, <1>4, <1>6, <2>1
  <1>8. rtns' \in Seq(ReturnAddress) /\ Len(rtns') <= MAX_RTNS
    BY <1>2, <1>3, <1>4, <1>6
  <1> QED  BY <1>7, <1>8 DEF new

\* Pushing a line of the current program keeps the invariant, when no program
\* changes its length.
LEMMA PushKeeps ==
  ASSUME IInv, OnProgram, NEW at \in 1 .. Len(text), push_rtn_addr(current_prgm, at),
         prgms' \in Seq(GoodPrograms),
         DOMAIN prgms' = DOMAIN prgms,
         \A p \in DOMAIN prgms : Len(prgms'[p].text) = Len(prgms[p].text)
  PROVE  IInv'
  <1>1. prgms' \in Seq(Program) /\ ProgramsWellFormed'
    BY ProgramsGoodNext
  <1>2. current_prgm \in Nat /\ at \in Nat
    BY TextGood
  <1>3. /\ rtns' \in Seq(ReturnAddress)
        /\ Len(rtns') <= MAX_RTNS
        /\ \A i \in DOMAIN rtns' :
              \/ rtns'[i] = [prgm |-> current_prgm, pc |-> at]
              \/ \E j \in DOMAIN rtns : rtns'[i] = rtns[j]
    BY <1>2, PushProperties
  <1>4. ReturnAddressesValid'
    <2> SUFFICES ASSUME NEW i \in DOMAIN rtns'
                 PROVE  /\ rtns'[i].prgm \in DOMAIN prgms'
                        /\ rtns'[i].pc \in 1 .. Len(prgms'[rtns'[i].prgm].text)
      BY DEF ReturnAddressesValid
    <2>1. CASE rtns'[i] = [prgm |-> current_prgm, pc |-> at]
      BY <2>1 DEF OnProgram, text
    <2>2. CASE \E j \in DOMAIN rtns : rtns'[i] = rtns[j]
      BY <2>2 DEF IInv, ReturnAddressesValid
    <2> QED  BY <1>3, <2>1, <2>2
  <1> QED  BY <1>1, <1>3, <1>4 DEF IInv

\* The line the cursor is on, read as line 01 when it is line 00.
LEMMA LineInText ==
  ASSUME IInv, OnLine
  PROVE  /\ OnProgram
         /\ FirstIfZero(pc) \in 1 .. Len(text)
         /\ pc # 0 => pc \in 1 .. Len(text)
         /\ InsertionPoint(text, pc) \in 1 .. Len(text)
  <1>1. OnProgram /\ pc \in 0 .. Len(text)
    BY DEF OnLine
  <1>2. /\ Len(text) \in Nat \ {0}
        /\ \A i \in 1 .. Len(text) : text[i].op = "END" <=> i = Len(text)
    BY <1>1, TextGood, GoodLen
  <1>3. FirstIfZero(pc) \in 1 .. Len(text) /\ (pc # 0 => pc \in 1 .. Len(text))
    BY <1>1, <1>2 DEF FirstIfZero
  <1>4. InsertionPoint(text, pc) \in 1 .. Len(text)
    BY <1>1, <1>2 DEF InsertionPoint
  <1> QED  BY <1>1, <1>3, <1>4

\* The commands that are typed in or stored by the program are commands.
LEMMA TypableCommands ==
  /\ Typable \subseteq Command
  /\ Cmd("NONE", NoArg) \in Command
  /\ Cmd("PLAIN", NoArg) \in Command
  BY ProgramMemoryAssumption DEF Cmd, Command, Ops, Unknown

-----------------------------------------------------------------------------
(***************************************************************************)
(* One step per action.                                                     *)
(***************************************************************************)

\* The empty memory satisfies the invariant.
LEMMA InitKeeps == Init => IInv
  <1> SUFFICES ASSUME Init PROVE IInv
    OBVIOUS
  <1>1. EmptyProgram \in GoodPrograms
    BY EndGood DEF EmptyProgram, GoodPrograms, Program, GoodText
  <1>2. prgms \in Seq(Program) /\ ProgramsWellFormed
    BY <1>1, ProgramsGood DEF Init
  <1>3. rtns \in Seq(ReturnAddress) /\ Len(rtns) <= MAX_RTNS /\ ReturnAddressesValid
    BY ProgramMemoryAssumption DEF Init, ReturnAddressesValid
  <1> QED  BY <1>2, <1>3 DEF IInv

\* Editing in program mode keeps the invariant.
LEMMA EditKeeps ==
  ASSUME IInv, Edit
  PROVE  IInv'
  <1>1. ASSUME NEW c \in Typable, TypeCommand(c)
        PROVE  IInv'
    BY <1>1, LineInText, TypableCommands, StoreKeeps DEF TypeCommand, Editing
  <1>2. ASSUME NEW c \in Typable, FinishEntry(c)
        PROVE  IInv'
    BY <1>2, LineInText, TypableCommands, StoreKeeps DEF FinishEntry
  <1>3. ASSUME NEW kind \in {"command", "string", "number"}, StartEntry(kind)
        PROVE  IInv'
    BY <1>3, SameKeeps DEF StartEntry, memory
  <1>4. CASE CancelEntry
    BY <1>4, SameKeeps DEF CancelEntry, memory
  <1>5. CASE FailGotoDot
    BY <1>5, SameKeeps DEF FailGotoDot, memory
  <1>6. CASE Backspace
    BY <1>6, LineInText, DeleteKeeps DEF Backspace, Editing
  <1>7. ASSUME NEW n \in 1 .. MaxLines, DeleteLines(n)
        PROVE  IInv'
    BY <1>7, LineInText, ClearLinesKeeps DEF DeleteLines, Editing
  <1>8. ASSUME NEW down \in BOOLEAN, StepKey(down)
        PROVE  IInv'
    BY <1>8, SameOrForgetKeeps DEF StepKey
  <1>9. CASE PrgmKey
    BY <1>9, SameKeeps DEF PrgmKey, memory
  <1> QED  BY <1>1, <1>2, <1>3, <1>4, <1>5, <1>6, <1>7, <1>8, <1>9 DEF Edit

\* A menu key pushes the line the program stopped at.
LEMMA MenuKeyKeeps ==
  ASSUME IInv, NEW label, NEW xeq, MenuKey(label, xeq)
  PROVE  IInv'
  <1>1. OnProgram /\ FirstIfZero(pc) \in 1 .. Len(text)
    BY LineInText DEF MenuKey
  <1>2. prgms' = prgms
    BY DEF MenuKey
  <1>3. rtns' = rtns \/ push_rtn_addr(current_prgm, FirstIfZero(pc))
    BY DEF MenuKey
  <1>4. CASE rtns' = rtns
    BY <1>2, <1>4, SameKeeps
  <1>5. CASE push_rtn_addr(current_prgm, FirstIfZero(pc))
    BY <1>1, <1>2, <1>5, TextGood, PushKeeps
  <1> QED  BY <1>3, <1>4, <1>5

\* The commands from the keyboard keep the invariant.
LEMMA PressKeeps ==
  ASSUME IInv, Press
  PROVE  IInv'
  <1>1. ASSUME NEW n \in 0 .. MaxLines, GotoLine(n)
        PROVE  IInv'
    BY <1>1, SameOrForgetKeeps DEF GotoLine
  <1>2. ASSUME NEW i \in DOMAIN labels, NEW run \in BOOLEAN, GotoEntry(i, run)
        PROVE  IInv'
    BY <1>2, SameOrForgetKeeps DEF GotoEntry
  <1>3. ASSUME NEW label \in LocalLabels, NEW run \in BOOLEAN, GotoLocal(label, run)
        PROVE  IInv'
    BY <1>3, SameOrForgetKeeps DEF GotoLocal
  <1>4. CASE GotoDotDot
    BY <1>4, GotoDotDotKeeps DEF GotoDotDot
  <1>5. CASE RtnKey
    BY <1>5, SameOrForgetKeeps DEF RtnKey
  <1>6. CASE RunKey
    BY <1>6, SameKeeps DEF RunKey, memory
  <1>7. CASE StopKey
    BY <1>7, SameKeeps DEF StopKey, memory
  <1>8. ASSUME NEW label \in LocalLabels \cup GlobalLabels, NEW xeq \in BOOLEAN,
               MenuKey(label, xeq)
        PROVE  IInv'
    BY <1>8, MenuKeyKeeps
  <1>9. ASSUME NEW p \in DOMAIN prgms, ClpKey(p)
        PROVE  IInv'
    BY <1>9, ClearPrgmKeeps DEF ClpKey
  <1>10. CASE ClallKey
    <2>1. prgms' \in Seq(GoodPrograms)
      <3>1. <<>> \in Seq(GoodPrograms)
        BY EmptySeq
      <3> QED  BY <1>10, <3>1, WithEmptyLastGood DEF ClallKey
    <2> QED  BY <1>10, <2>1, ForgetKeeps DEF ClallKey
  <1> QED  BY <1>1, <1>2, <1>3, <1>4, <1>5, <1>6, <1>7, <1>8, <1>9, <1>10 DEF Press

\* Importing any program keeps it.
LEMMA ImportKeeps ==
  ASSUME IInv, NEW body \in Bodies, ImportProgram(body)
  PROVE  IInv'
  <1> DEFINE programs == WithEmptyLast(prgms)
             last == Len(programs)
  <1>1. prgms \in Seq(GoodPrograms)
    BY ProgramsGood DEF IInv
  <1>2. programs \in Seq(GoodPrograms) /\ programs # <<>>
    <2>1. programs # <<>>
      BY <1>1 DEF WithEmptyLast, LastIsEmpty
    <2> QED  BY <1>1, <2>1, WithEmptyLastGood
  <1>3. prgms' = [programs EXCEPT ![last] = Rewritten(programs[last], Append(body, End))]
    BY DEF ImportProgram
  <1>4. rtns' = <<>>
    BY DEF ImportProgram
  <1> HIDE DEF programs
  <1>5. last \in 1 .. Len(programs) /\ programs[last] \in GoodPrograms
    BY <1>2, LenProperties, ElementOfSeq
  <1>6. NoEnds(body)
    <2> DEFINE S == {c \in Command : c.target = Unknown /\ c.op # "END"}
    <2>1. body \in Seq(S)
      BY ProgramMemoryAssumption
    <2>2. \A i \in 1 .. Len(body) : body[i] \in S
      BY <2>1, ElementOfSeq
    <2>3. body \in Seq(Command)
      BY <2>1, SeqMonotonic
    <2> QED  BY <2>2, <2>3 DEF NoEnds
  <1>7. GoodText(Append(body, End))
    BY <1>6, AppendEndGood
  <1>8. Rewritten(programs[last], Append(body, End)) \in GoodPrograms
    BY <1>5, <1>7, NewTextGood
  <1>9. prgms' \in Seq(GoodPrograms)
    BY <1>2, <1>3, <1>5, <1>8, ExceptSeq
  <1> QED  BY <1>4, <1>9, ForgetKeeps

\* A power cycle stores what was being typed in, or nothing.
LEMMA PowerCycleKeeps ==
  ASSUME IInv, NEW auto_exec \in BOOLEAN, PowerCycle(auto_exec)
  PROVE  IInv'
  <1>1. CASE UNCHANGED memory
    BY <1>1, SameKeeps DEF memory
  <1>2. CASE OnLine /\ store_command(FirstIfZero(pc), Cmd("NONE", NoArg))
    BY <1>2, LineInText, TypableCommands, StoreKeeps
  <1>3. CASE OnLine /\ store_command(FirstIfZero(pc), Cmd("PLAIN", NoArg))
    BY <1>3, LineInText, TypableCommands, StoreKeeps
  <1> QED  BY <1>1, <1>2, <1>3 DEF PowerCycle

\* A jump that is executed is not the last line, so there is a line after it.
LEMMA JumpHasNext ==
  ASSUME IInv, Executing({"GTO", "XEQ"})
  PROVE  OnProgram /\ line \in 1 .. Len(text) /\ line + 1 \in 1 .. Len(text)
  <1>1. OnProgram /\ line \in 1 .. Len(text)
    BY LineInText DEF Executing, line
  <1>2. /\ Len(text) \in Nat \ {0}
        /\ \A i \in 1 .. Len(text) : text[i].op = "END" <=> i = Len(text)
    BY <1>1, TextGood, GoodLen
  <1>3. command.op # "END"
    BY DEF Executing
  <1> QED  BY <1>1, <1>2, <1>3 DEF command

\* GTO and XEQ of a local label keep the invariant.
LEMMA LocalJumpKeeps ==
  ASSUME IInv, ExecLocalJump
  PROVE  IInv'
  <1> DEFINE g == prgms[current_prgm]
             new == Remember(g, line)
  <1>1. OnProgram /\ line \in 1 .. Len(text) /\ line + 1 \in 1 .. Len(text)
    BY JumpHasNext DEF ExecLocalJump
  <1>2. /\ prgms \in Seq(GoodPrograms) /\ current_prgm \in 1 .. Len(prgms)
        /\ g \in GoodPrograms
    BY <1>1, TextGood
  <1>3. new \in GoodPrograms /\ Len(new.text) = Len(g.text)
    <2>1. GoodProgram(g) /\ line \in 1 .. Len(g.text)
      BY <1>1, <1>2 DEF GoodPrograms, GoodProgram, text
    <2>2. GoodProgram(new) /\ Len(new.text) = Len(g.text)
      BY <2>1, RememberGood
    <2> QED  BY <2>2 DEF GoodPrograms, GoodProgram
  <1>4. prgms' = [prgms EXCEPT ![current_prgm] = new]
    BY DEF ExecLocalJump
  <1> HIDE DEF new
  <1>5. /\ prgms' \in Seq(GoodPrograms) /\ Len(prgms') = Len(prgms)
        /\ \A p \in 1 .. Len(prgms) : prgms'[p] = IF p = current_prgm THEN new ELSE prgms[p]
    BY <1>2, <1>3, <1>4, ExceptSeq
  <1>6. /\ DOMAIN prgms = 1 .. Len(prgms) /\ DOMAIN prgms' = DOMAIN prgms
        /\ \A p \in DOMAIN prgms : Len(prgms'[p].text) = Len(prgms[p].text)
    BY <1>2, <1>3, <1>5, LenProperties
  <1>7. CASE rtns' = rtns
    <2>1. prgms' \in Seq(Program) /\ ProgramsWellFormed'
      BY <1>5, ProgramsGoodNext
    <2>2. ReturnAddressesValid'
      BY <1>6, <1>7 DEF IInv, ReturnAddressesValid
    <2> QED  BY <1>7, <2>1, <2>2 DEF IInv
  <1>8. CASE push_rtn_addr(current_prgm, line + 1)
    BY <1>1, <1>5, <1>6, <1>8, PushKeeps
  <1> QED  BY <1>7, <1>8 DEF ExecLocalJump

\* So do those of a global label.
LEMMA GlobalJumpKeeps ==
  ASSUME IInv, ExecGlobalJump
  PROVE  IInv'
  <1>1. OnProgram /\ line + 1 \in 1 .. Len(text)
    BY JumpHasNext DEF ExecGlobalJump
  <1>2. prgms' = prgms
    BY DEF ExecGlobalJump
  <1>3. CASE rtns' = rtns
    BY <1>2, <1>3, SameKeeps
  <1>4. CASE push_rtn_addr(current_prgm, line + 1)
    BY <1>1, <1>2, <1>4, TextGood, PushKeeps
  <1> QED  BY <1>3, <1>4 DEF ExecGlobalJump

\* And RTN and END, which remove the innermost return address.
LEMMA RtnKeeps ==
  ASSUME IInv, ExecRtn
  PROVE  IInv'
  <1>1. prgms' = prgms
    BY DEF ExecRtn
  <1>2. CASE rtns = <<>>
    BY <1>1, <1>2, SameKeeps DEF ExecRtn
  <1>3. CASE rtns # <<>>
    <2>1. rtns \in Seq(ReturnAddress) /\ Len(rtns) \in Nat \ {0} /\ DOMAIN rtns = 1 .. Len(rtns)
      BY <1>3, EmptySeq, LenProperties DEF IInv
    <2>2. rtns' = SubSeq(rtns, 1, Len(rtns) - 1)
      BY <1>3 DEF ExecRtn, Front
    <2>3. \A i \in 1 .. Len(rtns) - 1 : rtns[i] \in ReturnAddress
      BY <2>1, ElementOfSeq
    <2>4. /\ rtns' \in Seq(ReturnAddress) /\ Len(rtns') = Len(rtns) - 1
          /\ \A i \in 1 .. Len(rtns) - 1 : rtns'[i] = rtns[i]
      BY <2>1, <2>2, <2>3, SubSeqProperties
    <2>5. ReturnAddressesValid'
      <3> SUFFICES ASSUME NEW i \in DOMAIN rtns'
                   PROVE  /\ rtns'[i].prgm \in DOMAIN prgms'
                          /\ rtns'[i].pc \in 1 .. Len(prgms'[rtns'[i].prgm].text)
        BY DEF ReturnAddressesValid
      <3>1. i \in 1 .. Len(rtns) - 1
        BY <2>4, LenProperties
      <3> QED  BY <1>1, <2>1, <2>4, <3>1 DEF IInv, ReturnAddressesValid
    <2>6. Len(rtns') <= MAX_RTNS
      BY <2>1, <2>4, ProgramMemoryAssumption DEF IInv
    <2>7. prgms' \in Seq(Program) /\ ProgramsWellFormed'
      BY <1>1 DEF IInv, ProgramsWellFormed
    <2> QED  BY <2>4, <2>5, <2>6, <2>7 DEF IInv
  <1> QED  BY <1>2, <1>3

\* Executing any command keeps the invariant.
LEMMA ExecuteKeeps ==
  ASSUME IInv, Execute
  PROVE  IInv'
  <1>1. CASE ExecPlain
    BY <1>1, SameKeeps DEF ExecPlain, memory
  <1>2. CASE ExecTest
    BY <1>2, SameKeeps DEF ExecTest, memory
  <1>3. CASE ExecStop
    BY <1>3, SameKeeps DEF ExecStop, memory
  <1>4. CASE ExecLocalJump
    BY <1>4, LocalJumpKeeps
  <1>5. CASE ExecGlobalJump
    BY <1>5, GlobalJumpKeeps
  <1>6. CASE ExecRtn
    BY <1>6, RtnKeeps
  <1>7. CASE ExecClp
    BY <1>7, SameKeeps, ClearPrgmKeeps DEF ExecClp, memory
  <1>8. CASE RunOffEnd
    BY <1>8, SameKeeps DEF RunOffEnd, memory
  <1> QED  BY <1>1, <1>2, <1>3, <1>4, <1>5, <1>6, <1>7, <1>8 DEF Execute

\* Every step keeps the invariant.
LEMMA NextKeeps ==
  ASSUME IInv, [Next]_vars
  PROVE  IInv'
  <1>1. CASE Edit
    BY <1>1, EditKeeps
  <1>2. CASE Press
    BY <1>2, PressKeeps
  <1>3. CASE Shell
    BY <1>3, ImportKeeps, PowerCycleKeeps DEF Shell
  <1>4. CASE Execute
    BY <1>4, ExecuteKeeps
  <1>5. CASE UNCHANGED vars
    BY <1>5, SameKeeps DEF vars
  <1> QED  BY <1>1, <1>2, <1>3, <1>4, <1>5 DEF Next

\* The inductive invariant always holds.
THEOREM Inductive == Spec => []IInv
  <1>1. IInv /\ [Next]_vars => IInv'
    BY NextKeeps
  <1> QED  BY InitKeeps, <1>1, PTL DEF Spec

\* Whatever is typed in, deleted, imported, cleared or executed, in any order,
\* each program holds exactly one END, its last line (core_globals.cc).
THEOREM ProgramsStayWellFormed == Spec => []ProgramsWellFormed
  <1>1. IInv => ProgramsWellFormed
    BY DEF IInv
  <1> QED  BY Inductive, <1>1, PTL

\* The return stack never holds an address outside the programs, or line 00,
\* so docmd_rtn may jump to what it pops (core_commands2.cc).
THEOREM ReturnsStayValid == Spec => []ReturnAddressesValid
  <1>1. IInv => ReturnAddressesValid
    BY DEF IInv
  <1> QED  BY Inductive, <1>1, PTL

-----------------------------------------------------------------------------
(***************************************************************************)
(* What a step does to the listings.                                        *)
(***************************************************************************)

\* Remembering a target is not a change to the listing of a program.
LEMMA RememberSameListing ==
  ASSUME NEW g \in GoodPrograms, NEW at \in 1 .. Len(g.text)
  PROVE  Stripped(Remember(g, at).text) = Stripped(g.text)
  <1> DEFINE t == g.text
             u == [t EXCEPT ![at] = WithTarget(@, TargetOf(t, at))]
  <1>1. Remember(g, at) = g \/ Remember(g, at).text = u
    BY DEF Remember
  <1>2. DOMAIN u = DOMAIN t /\ \A i \in DOMAIN t : Forget(u[i]) = Forget(t[i])
    BY DEF Forget, WithTarget
  <1> HIDE DEF u, t
  <1>3. Stripped(u) = Stripped(t)
    BY <1>2 DEF Stripped
  <1> QED  BY <1>1, <1>3 DEF t

\* Executing a local jump changes no listing.
LEMMA LocalJumpSameListings ==
  ASSUME IInv, ExecLocalJump
  PROVE  Listings(prgms') = Listings(prgms)
  <1> DEFINE new == Remember(prgms[current_prgm], line)
  <1>1. OnProgram /\ line \in 1 .. Len(text)
    BY JumpHasNext DEF ExecLocalJump
  <1>2. Stripped(new.text) = Stripped(prgms[current_prgm].text)
    BY <1>1, TextGood, RememberSameListing DEF text
  <1>3. prgms' = [prgms EXCEPT ![current_prgm] = new]
    BY DEF ExecLocalJump
  <1> HIDE DEF new
  <1>4. /\ DOMAIN prgms' = DOMAIN prgms
        /\ \A p \in DOMAIN prgms : Stripped(prgms'[p].text) = Stripped(prgms[p].text)
    BY <1>1, <1>2, <1>3 DEF OnProgram
  <1> QED  BY <1>4 DEF Listings

\* Every other step leaves the programs alone or forgets the return addresses.
LEMMA ChangeForgets ==
  ASSUME IInv, Next, ~ ExecLocalJump
  PROVE  prgms' = prgms \/ rtns' = <<>>
  <1>1. CASE Edit
    BY <1>1 DEF Edit, TypeCommand, FinishEntry, StartEntry, CancelEntry, FailGotoDot,
                Backspace, DeleteLines, StepKey, PrgmKey, memory,
                store_command, delete_command, clear_prgm_lines
  <1>2. CASE Press
    BY <1>2 DEF Press, GotoLine, GotoEntry, GotoLocal, GotoDotDot, RtnKey, RunKey,
                StopKey, MenuKey, ClpKey, ClallKey, memory,
                goto_dot_dot, WithEmptyLast, clear_prgm_by_index
  <1>3. CASE Shell
    BY <1>3 DEF Shell, ImportProgram, PowerCycle, memory, store_command
  <1>4. CASE Execute
    BY <1>4 DEF Execute, ExecPlain, ExecTest, ExecStop, ExecGlobalJump, ExecRtn, ExecClp,
                RunOffEnd, memory, clear_prgm_by_index
  <1> QED  BY <1>1, <1>2, <1>3, <1>4 DEF Next

\* No step that changes a listing leaves a return address behind: every editing
\* primitive of core_globals.cc ends in clear_all_rtns().
THEOREM ListingChangesForget == Spec => EditsForgetReturns
  <1>1. ASSUME IInv, [Next]_vars
        PROVE  [Listings(prgms') # Listings(prgms) => rtns' = <<>>]_vars
    <2>1. CASE UNCHANGED vars
      BY <2>1
    <2>2. CASE ExecLocalJump
      BY <1>1, <2>2, LocalJumpSameListings
    <2>3. CASE Next /\ ~ ExecLocalJump
      BY <1>1, <2>3, ChangeForgets
    <2> QED  BY <1>1, <2>1, <2>2, <2>3
  <1> QED  BY Inductive, <1>1, PTL DEF Spec, EditsForgetReturns

\* Clearing a program other than the current one leaves the cursor on the same
\* line of the same program (clear_prgm_by_index adjusts current_prgm).
THEOREM ClpKeepsCursor == Spec => ClpKeepsOtherCursor
  <1>1. ASSUME IInv, NEW p \in DOMAIN prgms, ClpKey(p), OnProgram, p # current_prgm
        PROVE  /\ pc' = pc
               /\ current_prgm' \in DOMAIN prgms'
               /\ Listings(prgms')[current_prgm'] = Listings(prgms)[current_prgm]
    <2> DEFINE rest == RemoveAt(prgms, p)
               n == Len(prgms)
    <2>1. /\ prgms \in Seq(GoodPrograms) /\ n \in Nat
          /\ current_prgm \in 1 .. n /\ DOMAIN prgms = 1 .. n
      BY <1>1, TextGood, LenProperties
    <2>2. /\ rest \in Seq(GoodPrograms) /\ Len(rest) = n - 1
          /\ \A j \in 1 .. n - 1 : rest[j] = IF j < p THEN prgms[j] ELSE prgms[j + 1]
      BY <2>1, RemoveProgram
    <2> DEFINE k == IF current_prgm > p THEN current_prgm - 1 ELSE current_prgm
    <2>3. /\ pc' = pc
          /\ current_prgm' = k
          /\ prgms' = rest \/ prgms' = Append(rest, EmptyProgram)
      BY <1>1 DEF ClpKey, clear_prgm_by_index, WithEmptyLast
    <2> HIDE DEF rest
    <2>4. k \in 1 .. n - 1 /\ rest[k] = prgms[current_prgm]
      <3>1. p \in 1 .. n
        BY <1>1, <2>1
      <3>2. CASE current_prgm > p
        <4>1. k = current_prgm - 1 /\ k \in 1 .. n - 1 /\ ~ (k < p) /\ k + 1 = current_prgm
          BY <2>1, <3>1, <3>2
        <4> HIDE DEF k
        <4>2. rest[k] = prgms[k + 1]
          BY <2>2, <4>1
        <4> QED  BY <4>1, <4>2
      <3>3. CASE ~ (current_prgm > p)
        <4>1. k = current_prgm /\ k \in 1 .. n - 1 /\ k < p
          BY <1>1, <2>1, <3>1, <3>3
        <4> HIDE DEF k
        <4>2. rest[k] = prgms[k]
          BY <2>2, <4>1
        <4> QED  BY <4>1, <4>2
      <3> QED  BY <3>2, <3>3
    <2> HIDE DEF k
    <2>5. EmptyProgram \in GoodPrograms
      BY EndGood DEF EmptyProgram, GoodPrograms, Program, GoodText
    <2>6. prgms'[k] = prgms[current_prgm] /\ k \in DOMAIN prgms'
      <3>1. CASE prgms' = rest
        BY <2>2, <2>4, <3>1, LenProperties
      <3>2. CASE prgms' = Append(rest, EmptyProgram)
        <4>1. /\ Append(rest, EmptyProgram) \in Seq(GoodPrograms)
              /\ Len(Append(rest, EmptyProgram)) = n
              /\ \A j \in 1 .. n - 1 : Append(rest, EmptyProgram)[j] = rest[j]
          <5>1. Len(rest) + 1 = n
            BY <2>1, <2>2
          <5> QED  BY <2>2, <2>5, <5>1, AppendProperties
        <4>2. DOMAIN prgms' = 1 .. n
          BY <3>2, <4>1, LenProperties
        <4>3. k \in 1 .. n
          BY <2>1, <2>4
        <4>4. prgms'[k] = rest[k]
          BY <2>4, <3>2, <4>1
        <4> QED  BY <2>4, <4>2, <4>3, <4>4
      <3> QED  BY <2>3, <3>1, <3>2
    <2>7. current_prgm \in DOMAIN prgms
      BY <2>1
    <2> QED  BY <2>3, <2>6, <2>7 DEF Listings
  <1>2. ASSUME IInv
        PROVE  [\A p \in DOMAIN prgms :
                  (ClpKey(p) /\ OnProgram /\ p # current_prgm) =>
                     /\ pc' = pc
                     /\ current_prgm' \in DOMAIN prgms'
                     /\ Listings(prgms')[current_prgm'] = Listings(prgms)[current_prgm]]_vars
    BY <1>1, <1>2
  <1> QED  BY Inductive, <1>2, PTL DEF Spec, ClpKeepsOtherCursor

-----------------------------------------------------------------------------
(***************************************************************************)
(* The targets that jumps remember.  CacheAgrees is not inductive: it takes *)
(* that a program marked as remembering no target remembers none, since no  *)
(* change to such a program clears them.                                    *)
(***************************************************************************)

\* A jump that remembers nothing, or another command.
Fresh == {c \in Command : IsLocalJump(c) => c.target = Unknown}

\* The flag of a program is true to its jumps, and they to the search.
TargetsRight(g) ==
    /\ g.lclbl_invalid => g.text \in Seq(Fresh)
    /\ \A i \in DOMAIN g.text : IsLocalJump(g.text[i]) =>
          g.text[i].target \in {Unknown, find_local_label(g.text, g.text[i].arg, i + 1)}

CachedPrograms == {g \in GoodPrograms : TargetsRight(g)}

\* The inductive invariant of CacheAgrees.
CInv == IInv /\ prgms \in Seq(CachedPrograms)

\* A program in which no jump remembers anything is right whatever its flag.
LEMMA FreshCached ==
  ASSUME NEW g \in GoodPrograms, g.text \in Seq(Fresh)
  PROVE  g \in CachedPrograms
  <1>1. ASSUME NEW i \in DOMAIN g.text, IsLocalJump(g.text[i])
        PROVE  g.text[i].target = Unknown
    <2>1. g.text[i] \in Fresh
      OBVIOUS
    <2> QED  BY <1>1, <2>1 DEF Fresh
  <1> QED  BY <1>1 DEF CachedPrograms, TargetsRight

\* invalidate_lclbls() leaves no target where the flag was true.
LEMMA InvalidateCached ==
  ASSUME NEW g, GoodProgram(g), g.lclbl_invalid => g.text \in Seq(Fresh)
  PROVE  invalidate_lclbls(g) \in CachedPrograms
  <1> DEFINE t == g.text
             u == [i \in DOMAIN t |-> IF IsLocalJump(t[i]) THEN Forget(t[i]) ELSE t[i]]
  <1>1. invalidate_lclbls(g) \in GoodPrograms
    BY InvalidateGood DEF GoodProgram, GoodPrograms
  <1>2. CASE g.lclbl_invalid
    BY <1>1, <1>2, FreshCached DEF invalidate_lclbls
  <1>3. CASE ~ g.lclbl_invalid
    <2>1. GoodText(t)
      BY DEF GoodProgram, Program, GoodText
    <2>2. /\ Len(t) \in Nat /\ DOMAIN t = 1 .. Len(t)
          /\ \A i \in 1 .. Len(t) : t[i] \in Command
      BY <2>1, GoodLen
    <2>3. \A i \in 1 .. Len(t) : u[i] \in Fresh
      BY <2>2 DEF Fresh, Command, Forget, WithTarget, Unknown
    <2>4. u \in Seq(Fresh)
      <3>1. u \in [1 .. Len(t) -> Fresh]
        BY <2>2, <2>3
      <3> QED  BY <3>1, <2>2, FunctionIsSeq
    <2>5. invalidate_lclbls(g).text = u
      BY <1>3 DEF invalidate_lclbls
    <2> HIDE DEF u
    <2> QED  BY <1>1, <2>4, <2>5, FreshCached
  <1> QED  BY <1>2, <1>3

\* So a program given another text is right, when that text holds no target
\* where the program was marked so.
LEMMA RewrittenCached ==
  ASSUME NEW g \in GoodPrograms, NEW t, GoodText(t), g.lclbl_invalid => t \in Seq(Fresh)
  PROVE  Rewritten(g, t) \in CachedPrograms
  <1> DEFINE h == [text |-> t, lclbl_invalid |-> g.lclbl_invalid]
  <1>1. GoodProgram(h)
    BY DEF GoodPrograms, GoodProgram, Program, GoodText
  <1>2. h.lclbl_invalid => h.text \in Seq(Fresh)
    OBVIOUS
  <1>3. Rewritten(g, t) = invalidate_lclbls(h)
    BY DEF Rewritten
  <1> HIDE DEF h
  <1> QED  BY <1>1, <1>2, <1>3, InvalidateCached

\* The search looks at the labels only, not at what the jumps remember.
LEMMA SearchIgnoresTargets ==
  ASSUME NEW t, NEW u, DOMAIN u = DOMAIN t, Len(u) = Len(t), DOMAIN t = 1 .. Len(t),
         Len(t) \in Nat,
         \A i \in DOMAIN t : u[i].op = t[i].op /\ u[i].arg = t[i].arg,
         NEW label, NEW at
  PROVE  find_local_label(u, label, at) = find_local_label(t, label, at)
  <1> DEFINE H(s) == {i \in 1 .. Len(s) - 1 : s[i].op = "LBL" /\ s[i].arg = label}
             Found(hits) ==
               LET ahead == {i \in hits : i >= FirstIfZero(at)}
                   first(S) == CHOOSE i \in S : \A j \in S : i <= j
               IN  IF hits = {} THEN Nonexistent
                   ELSE IF ahead # {} THEN first(ahead) ELSE first(hits)
  <1>1. H(u) = H(t)
    OBVIOUS
  <1>2. find_local_label(u, label, at) = Found(H(u))
    BY Zenon DEF find_local_label
  <1>3. find_local_label(t, label, at) = Found(H(t))
    BY Zenon DEF find_local_label
  <1> HIDE DEF H, Found
  <1> QED  BY <1>1, <1>2, <1>3

\* The fetch that remembers a target writes what the search finds.
LEMMA RememberCached ==
  ASSUME NEW g \in CachedPrograms, NEW at \in 1 .. Len(g.text)
  PROVE  Remember(g, at) \in CachedPrograms
  <1> DEFINE t == g.text
             n == TargetOf(t, at)
             u == [t EXCEPT ![at] = WithTarget(@, n)]
             h == Remember(g, at)
  <1>1. /\ GoodProgram(g) /\ GoodText(t)
    BY DEF CachedPrograms, GoodPrograms, GoodProgram, Program, GoodText
  <1>2. /\ Len(t) \in Nat \ {0} /\ DOMAIN t = 1 .. Len(t)
        /\ \A i \in 1 .. Len(t) : t[i] \in Command
    BY <1>1, GoodLen
  <1>3. h \in GoodPrograms
    BY <1>1, RememberGood DEF GoodProgram, GoodPrograms
  <1>4. CASE ~ (IsLocalJump(t[at]) /\ t[at].target = Unknown)
    BY <1>4 DEF Remember
  <1>5. CASE IsLocalJump(t[at]) /\ t[at].target = Unknown
    <2>1. h.text = u /\ h.lclbl_invalid = FALSE
      BY <1>5 DEF Remember
    <2>2. n = find_local_label(t, t[at].arg, at + 1)
      BY <1>5 DEF TargetOf
    <2> HIDE DEF n, h
    <2>3. /\ DOMAIN u = DOMAIN t /\ Len(u) = Len(t)
          /\ \A i \in DOMAIN t : u[i].op = t[i].op /\ u[i].arg = t[i].arg
      <3>1. DOMAIN u = DOMAIN t
        OBVIOUS
      <3>2. \A i \in DOMAIN t : u[i].op = t[i].op /\ u[i].arg = t[i].arg
        BY <1>2 DEF WithTarget
      <3>3. Len(u) = Len(t)
        BY <1>1, <1>2, <3>1 DEF GoodText
      <3> QED  BY <3>1, <3>2, <3>3
    <2>4. u[at].target = n /\ \A i \in DOMAIN t : i # at => u[i] = t[i]
      BY <1>2 DEF WithTarget
    <2> HIDE DEF u
    <2>5. ASSUME NEW i \in DOMAIN u, IsLocalJump(u[i])
          PROVE  u[i].target \in {Unknown, find_local_label(u, u[i].arg, i + 1)}
      <3>1. find_local_label(u, u[i].arg, i + 1) = find_local_label(t, t[i].arg, i + 1)
        <4>1. /\ DOMAIN u = DOMAIN t /\ Len(u) = Len(t) /\ DOMAIN t = 1 .. Len(t) /\ Len(t) \in Nat
              /\ \A j \in DOMAIN t : u[j].op = t[j].op /\ u[j].arg = t[j].arg
          BY <1>2, <2>3
        <4>2. u[i].arg = t[i].arg
          BY <4>1
        <4> HIDE DEF t
        <4>3. \A label, p : find_local_label(u, label, p) = find_local_label(t, label, p)
          BY <4>1, SearchIgnoresTargets, ZenonT(30)
        <4> QED  BY <4>2, <4>3
      <3>2. CASE i = at
        BY <2>2, <2>4, <3>1, <3>2
      <3>3. CASE i # at
        <4>1. i \in DOMAIN t /\ u[i] = t[i]
          BY <2>3, <2>4, <3>3
        <4>2. t[i].target \in {Unknown, find_local_label(t, t[i].arg, i + 1)}
          BY <2>5, <4>1 DEF CachedPrograms, TargetsRight
        <4> QED  BY <3>1, <4>1, <4>2
      <3> QED  BY <3>2, <3>3
    <2>6. TargetsRight(h)
      BY <2>1, <2>5 DEF TargetsRight
    <2> QED  BY <1>3, <2>6 DEF CachedPrograms, h
  <1> QED  BY <1>4, <1>5

\* The commands that are stored remember nothing.
LEMMA StoredFresh ==
  /\ Typable \subseteq Fresh
  /\ \A body \in Bodies : body \in Seq(Fresh)
  /\ End \in Fresh
  /\ Cmd("NONE", NoArg) \in Fresh
  /\ Cmd("PLAIN", NoArg) \in Fresh
  <1>1. Typable \subseteq Fresh
    BY ProgramMemoryAssumption DEF Fresh
  <1>2. ASSUME NEW body \in Bodies PROVE body \in Seq(Fresh)
    <2> DEFINE S == {c \in Command : c.target = Unknown /\ c.op # "END"}
    <2>1. body \in Seq(S)
      BY ProgramMemoryAssumption
    <2>2. S \subseteq Fresh
      BY DEF Fresh
    <2> HIDE DEF S
    <2> QED  BY <2>1, <2>2, SeqMonotonic
  <1>3. /\ End \in Fresh /\ Cmd("NONE", NoArg) \in Fresh /\ Cmd("PLAIN", NoArg) \in Fresh
    BY EndGood, TypableCommands DEF Fresh, End, Cmd, IsLocalJump
  <1> QED  BY <1>1, <1>2, <1>3

\* The empty program is right.
LEMMA EmptyCached == EmptyProgram \in CachedPrograms
  <1>1. EmptyProgram \in GoodPrograms
    BY EndGood DEF EmptyProgram, GoodPrograms, Program, GoodText
  <1>2. EmptyProgram.text \in Seq(Fresh)
    BY StoredFresh DEF EmptyProgram
  <1> QED  BY <1>1, <1>2, FreshCached

\* The current program is right.
LEMMA CurrentCached ==
  ASSUME CInv, OnProgram
  PROVE  /\ IInv
         /\ Len(prgms) \in Nat
         /\ current_prgm \in 1 .. Len(prgms)
         /\ prgms[current_prgm] \in CachedPrograms
         /\ prgms[current_prgm] \in GoodPrograms
         /\ GoodText(text)
         /\ Len(text) \in Nat \ {0}
         /\ prgms[current_prgm].lclbl_invalid => text \in Seq(Fresh)
  <1>1. /\ IInv /\ Len(prgms) \in Nat /\ current_prgm \in 1 .. Len(prgms)
        /\ prgms[current_prgm] \in GoodPrograms /\ GoodText(text) /\ Len(text) \in Nat \ {0}
    BY TextGood DEF CInv
  <1>2. prgms[current_prgm] \in CachedPrograms
    BY <1>1, ElementOfSeq DEF CInv
  <1>3. prgms[current_prgm].lclbl_invalid => text \in Seq(Fresh)
    BY <1>2 DEF CachedPrograms, TargetsRight, text
  <1> QED  BY <1>1, <1>2, <1>3

\* Replacing the current program by a right one.
LEMMA ReplaceCached ==
  ASSUME CInv, OnProgram, NEW g \in CachedPrograms
  PROVE  [prgms EXCEPT ![current_prgm] = g] \in Seq(CachedPrograms)
  BY CurrentCached, ExceptSeq DEF CInv

\* Parts of a text without targets hold none.
LEMMA FreshPart ==
  ASSUME NEW t \in Seq(Fresh), NEW m \in 1 .. Len(t) + 1, NEW n \in 0 .. Len(t)
  PROVE  SubSeq(t, m, n) \in Seq(Fresh)
  <1>1. Len(t) \in Nat /\ \A i \in 1 .. Len(t) : t[i] \in Fresh
    BY LenProperties, ElementOfSeq
  <1>2. \A i \in m .. n : t[i] \in Fresh
    BY <1>1
  <1> QED  BY <1>1, <1>2, SubSeqProperties

\* Storing a command on any line keeps the targets right, but for an END where
\* jumps remember targets.
LEMMA StoreCached ==
  ASSUME CInv, OnProgram, NEW at \in 1 .. Len(text), NEW c \in Fresh,
         store_command(at, c),
         c.op = "END" => prgms[current_prgm].lclbl_invalid
  PROVE  prgms' \in Seq(CachedPrograms)
  <1> DEFINE g == prgms[current_prgm]
             low == SubSeq(g.text, 1, at - 1)
             high == SubSeq(g.text, at, Len(g.text))
  <1>1. /\ g \in GoodPrograms /\ GoodText(g.text) /\ Len(g.text) \in Nat \ {0}
        /\ at \in 1 .. Len(g.text) /\ c \in Command
        /\ Len(prgms) \in Nat /\ current_prgm \in 1 .. Len(prgms)
        /\ prgms \in Seq(CachedPrograms)
        /\ g.lclbl_invalid => g.text \in Seq(Fresh)
    BY CurrentCached DEF text, Fresh, CInv
  <1>2. g.lclbl_invalid => low \in Seq(Fresh) /\ high \in Seq(Fresh)
    BY <1>1, FreshPart
  <1>3. CASE c.op = "END"
    <2>1. PICK stale \in BOOLEAN : prgms' = SplitAt(at, stale)
      BY <1>3 DEF store_command, text
    <2> DEFINE before == SubSeq(prgms, 1, current_prgm - 1)
               after == SubSeq(prgms, current_prgm + 1, Len(prgms))
               upper == Rewritten(g, Append(low, End))
               half == [text |-> high, lclbl_invalid |-> stale]
               lower == invalidate_lclbls(half)
    <2>2. low \in Seq(Fresh) /\ high \in Seq(Fresh)
      BY <1>2, <1>3
    <2>3. upper \in CachedPrograms
      <3>1. NoEnds(low)
        BY <1>1, PrefixNoEnds
      <3>2. GoodText(Append(low, End)) /\ Append(low, End) \in Seq(Fresh)
        BY <2>2, <3>1, AppendEndGood, StoredFresh, AppendProperties
      <3> QED  BY <1>1, <3>2, RewrittenCached
    <2>4. lower \in CachedPrograms
      <3>1. GoodText(high)
        BY <1>1, SuffixGood
      <3>2. GoodProgram(half) /\ half.text \in Seq(Fresh)
        BY <2>2, <3>1 DEF GoodProgram, GoodText, Program
      <3> HIDE DEF half
      <3> QED  BY <3>2, InvalidateCached
    <2>5. before \in Seq(CachedPrograms) /\ after \in Seq(CachedPrograms)
      <3>1. \A i \in 1 .. Len(prgms) : prgms[i] \in CachedPrograms
        BY <1>1, ElementOfSeq
      <3> QED  BY <1>1, <3>1, SubSeqProperties
    <2>6. SplitAt(at, stale) = before \o <<upper, lower>> \o after
      BY DEF SplitAt, text
    <2> HIDE DEF upper, lower, before, after
    <2>7. <<upper, lower>> \in Seq(CachedPrograms)
      BY <2>3, <2>4
    <2>8. before \o <<upper, lower>> \in Seq(CachedPrograms)
      BY <2>5, <2>7, ConcatProperties
    <2>9. before \o <<upper, lower>> \o after \in Seq(CachedPrograms)
      BY <2>5, <2>8, ConcatProperties
    <2> QED  BY <2>1, <2>6, <2>9
  <1>4. CASE c.op # "END"
    <2>1. GoodText(InsertAt(g.text, at, c))
      BY <1>1, <1>4, InsertGood
    <2>2. g.lclbl_invalid => InsertAt(g.text, at, c) \in Seq(Fresh)
      <3> SUFFICES ASSUME low \in Seq(Fresh), high \in Seq(Fresh)
                   PROVE  InsertAt(g.text, at, c) \in Seq(Fresh)
        BY <1>2
      <3>1. InsertAt(g.text, at, c) = (low \o <<c>>) \o high
        BY DEF InsertAt
      <3> HIDE DEF low, high
      <3>2. low \o <<c>> \in Seq(Fresh)
        <4>1. <<c>> \in Seq(Fresh)
          OBVIOUS
        <4> QED  BY <4>1, ConcatProperties
      <3> QED  BY <3>1, <3>2, ConcatProperties
    <2>3. Rewritten(g, InsertAt(g.text, at, c)) \in CachedPrograms
      BY <1>1, <2>1, <2>2, RewrittenCached
    <2>4. prgms' = [prgms EXCEPT ![current_prgm] =
                      Rewritten(g, InsertAt(g.text, at, c))]
      BY <1>4 DEF store_command, text
    <2> QED  BY <2>3, <2>4, ReplaceCached
  <1> QED  BY <1>3, <1>4

\* Deleting the command on any line keeps them right, but for the END between
\* a program marked as remembering no target and one that is not.
LEMMA DeleteCached ==
  ASSUME CInv, OnProgram, NEW at \in 1 .. Len(text), delete_command(at),
         ~ (/\ text[at].op = "END" /\ current_prgm # Len(prgms)
            /\ prgms[current_prgm].lclbl_invalid
            /\ ~ prgms[current_prgm + 1].lclbl_invalid)
  PROVE  prgms' \in Seq(CachedPrograms)
  <1> DEFINE g == prgms[current_prgm]
             n == Len(prgms)
  <1>1. /\ g \in GoodPrograms /\ GoodText(g.text) /\ Len(g.text) \in Nat \ {0}
        /\ at \in 1 .. Len(g.text)
        /\ n \in Nat /\ current_prgm \in 1 .. n
        /\ prgms \in Seq(CachedPrograms)
        /\ g.lclbl_invalid => g.text \in Seq(Fresh)
    BY CurrentCached DEF text, CInv
  <1>2. CASE text[at].op = "END" /\ current_prgm = n
    BY <1>1, <1>2 DEF delete_command
  <1>3. CASE text[at].op = "END" /\ current_prgm # n
    <2> DEFINE next == prgms[current_prgm + 1]
               both == Rewritten(g, Front(g.text) \o next.text)
               joined == [prgms EXCEPT ![current_prgm] = both]
    <2>1. /\ next \in GoodPrograms /\ GoodText(next.text)
          /\ next.lclbl_invalid \in BOOLEAN
          /\ next.lclbl_invalid => next.text \in Seq(Fresh)
      <3>1. current_prgm + 1 \in 1 .. n
        BY <1>1, <1>3
      <3>2. next \in CachedPrograms
        BY <1>1, <3>1, ElementOfSeq
      <3> QED  BY <3>2 DEF CachedPrograms, TargetsRight, GoodPrograms, Program, GoodText
    <2>2. GoodText(Front(g.text) \o next.text)
      BY <1>1, <2>1, JoinGood
    <2>3. g.lclbl_invalid => Front(g.text) \o next.text \in Seq(Fresh)
      <3> SUFFICES ASSUME g.lclbl_invalid
                   PROVE  Front(g.text) \o next.text \in Seq(Fresh)
        OBVIOUS
      <3>1. next.text \in Seq(Fresh)
        BY <1>3, <2>1
      <3>2. Front(g.text) \in Seq(Fresh)
        BY <1>1, FreshPart DEF Front
      <3> QED  BY <3>1, <3>2, ConcatProperties
    <2>4. both \in CachedPrograms
      BY <1>1, <2>2, <2>3, RewrittenCached
    <2>5. joined \in Seq(CachedPrograms) /\ Len(joined) = n
      BY <1>1, <2>4, ExceptSeq
    <2>6. prgms' = RemoveAt(joined, current_prgm + 1)
      BY <1>3 DEF delete_command, Joined, text
    <2> HIDE DEF joined
    <2>7. current_prgm + 1 \in 1 .. Len(joined)
      BY <1>1, <1>3, <2>5
    <2> QED  BY <2>5, <2>6, <2>7, RemoveProgram
  <1>4. CASE text[at].op # "END"
    <2>1. at \in 1 .. Len(g.text) - 1
      BY <1>1, <1>4, GoodLen DEF text
    <2>2. GoodText(RemoveAt(g.text, at))
      BY <1>1, <2>1, RemoveGood
    <2>3. g.lclbl_invalid => RemoveAt(g.text, at) \in Seq(Fresh)
      <3> SUFFICES ASSUME g.text \in Seq(Fresh)
                   PROVE  RemoveAt(g.text, at) \in Seq(Fresh)
        BY <1>1
      <3> QED  BY <2>1, RemoveProgram
    <2>4. Rewritten(g, RemoveAt(g.text, at)) \in CachedPrograms
      BY <1>1, <2>2, <2>3, RewrittenCached
    <2>5. prgms' = [prgms EXCEPT ![current_prgm] =
                      Rewritten(g, RemoveAt(g.text, at))]
      BY <1>4 DEF delete_command, text
    <2> QED  BY <2>4, <2>5, ReplaceCached
  <1> QED  BY <1>2, <1>3, <1>4

\* Deleting any number of lines keeps them right.
LEMMA ClearLinesCached ==
  ASSUME CInv, OnProgram, NEW first \in 1 .. Len(text), NEW n \in Nat,
         clear_prgm_lines(first, n)
  PROVE  prgms' \in Seq(CachedPrograms)
  <1> DEFINE g == prgms[current_prgm]
             stop == IF first + n > Len(g.text) THEN Len(g.text) ELSE first + n
             low == SubSeq(g.text, 1, first - 1)
             high == SubSeq(g.text, stop, Len(g.text))
  <1>1. /\ g \in GoodPrograms /\ GoodText(g.text) /\ Len(g.text) \in Nat \ {0}
        /\ first \in 1 .. Len(g.text)
        /\ g.lclbl_invalid => g.text \in Seq(Fresh)
    BY CurrentCached DEF text
  <1>2. stop \in 1 .. Len(g.text) /\ first \in 1 .. stop
    BY <1>1
  <1>3. prgms' = [prgms EXCEPT ![current_prgm] = Rewritten(g, low \o high)]
    BY DEF clear_prgm_lines, text
  <1> HIDE DEF stop
  <1>4. GoodText(low \o high)
    BY <1>1, <1>2, CutGood
  <1>5. g.lclbl_invalid => low \o high \in Seq(Fresh)
    <2> SUFFICES ASSUME g.text \in Seq(Fresh)
                 PROVE  low \o high \in Seq(Fresh)
      BY <1>1
    <2>1. low \in Seq(Fresh) /\ high \in Seq(Fresh)
      BY <1>1, <1>2, FreshPart
    <2> QED  BY <2>1, ConcatProperties
  <1> HIDE DEF low, high
  <1>6. Rewritten(g, low \o high) \in CachedPrograms
    BY <1>1, <1>4, <1>5, RewrittenCached
  <1> QED  BY <1>3, <1>6, ReplaceCached

\* So do an empty last program,
LEMMA WithEmptyLastCached ==
  ASSUME NEW ps \in Seq(CachedPrograms)
  PROVE  WithEmptyLast(ps) \in Seq(CachedPrograms)
  BY EmptyCached, AppendProperties DEF WithEmptyLast

\* clearing any program,
LEMMA ClearPrgmCached ==
  ASSUME CInv, NEW p \in DOMAIN prgms, NEW at, clear_prgm_by_index(p, at)
  PROVE  prgms' \in Seq(CachedPrograms)
  <1>1. prgms \in Seq(CachedPrograms) /\ p \in 1 .. Len(prgms)
    BY LenProperties DEF CInv
  <1>2. RemoveAt(prgms, p) \in Seq(CachedPrograms)
    BY <1>1, RemoveProgram
  <1> QED  BY <1>2, WithEmptyLastCached DEF clear_prgm_by_index

\* and importing one.
LEMMA ImportCached ==
  ASSUME CInv, NEW body \in Bodies, ImportProgram(body)
  PROVE  prgms' \in Seq(CachedPrograms)
  <1> DEFINE programs == WithEmptyLast(prgms)
             last == Len(programs)
  <1>1. programs \in Seq(CachedPrograms) /\ programs # <<>>
    BY WithEmptyLastCached DEF CInv, WithEmptyLast, LastIsEmpty
  <1>2. prgms' = [programs EXCEPT ![last] = Rewritten(programs[last], Append(body, End))]
    BY DEF ImportProgram
  <1> HIDE DEF programs
  <1>3. last \in 1 .. Len(programs) /\ programs[last] \in GoodPrograms
    <2>1. last \in 1 .. Len(programs)
      BY <1>1, LenProperties, EmptySeq
    <2>2. programs[last] \in CachedPrograms
      BY <1>1, <2>1, ElementOfSeq
    <2> QED  BY <2>1, <2>2 DEF CachedPrograms
  <1>4. NoEnds(body)
    <2> DEFINE S == {c \in Command : c.target = Unknown /\ c.op # "END"}
    <2>1. body \in Seq(S)
      BY ProgramMemoryAssumption
    <2>2. \A i \in 1 .. Len(body) : body[i] \in S
      BY <2>1, ElementOfSeq
    <2>3. body \in Seq(Command)
      BY <2>1, SeqMonotonic
    <2> QED  BY <2>2, <2>3 DEF NoEnds
  <1>5. GoodText(Append(body, End)) /\ Append(body, End) \in Seq(Fresh)
    BY <1>4, AppendEndGood, StoredFresh, AppendProperties
  <1>6. Rewritten(programs[last], Append(body, End)) \in CachedPrograms
    BY <1>3, <1>5, RewrittenCached
  <1> QED  BY <1>1, <1>2, <1>3, <1>6, ExceptSeq

\* The commands typed in and the lines deleted keep them right.
LEMMA EditCached ==
  ASSUME CInv, Edit, ~ StrandsTargets
  PROVE  prgms' \in Seq(CachedPrograms)
  <1>0. IInv /\ prgms \in Seq(CachedPrograms) /\ Typable \subseteq Fresh
    BY StoredFresh DEF CInv
  <1>1. ASSUME NEW c \in Typable, TypeCommand(c)
        PROVE  prgms' \in Seq(CachedPrograms)
    BY <1>0, <1>1, LineInText, StoreCached DEF TypeCommand, Editing, StrandsTargets
  <1>2. ASSUME NEW c \in Typable, FinishEntry(c)
        PROVE  prgms' \in Seq(CachedPrograms)
    BY <1>0, <1>2, LineInText, StoreCached DEF FinishEntry, StrandsTargets
  <1>3. CASE Backspace
    BY <1>0, <1>3, LineInText, DeleteCached DEF Backspace, Editing, StrandsTargets
  <1>4. ASSUME NEW n \in 1 .. MaxLines, DeleteLines(n)
        PROVE  prgms' \in Seq(CachedPrograms)
    BY <1>0, <1>4, LineInText, ClearLinesCached DEF DeleteLines, Editing
  <1>5. CASE \/ \E kind \in {"command", "string", "number"} : StartEntry(kind)
             \/ CancelEntry
             \/ FailGotoDot
             \/ \E down \in BOOLEAN : StepKey(down)
             \/ PrgmKey
    BY <1>0, <1>5 DEF StartEntry, CancelEntry, FailGotoDot, StepKey, PrgmKey, memory
  <1> QED  BY <1>1, <1>2, <1>3, <1>4, <1>5 DEF Edit

\* So do the keys that go to a line, clear programs or run them,
LEMMA PressCached ==
  ASSUME CInv, Press
  PROVE  prgms' \in Seq(CachedPrograms)
  <1>0. prgms \in Seq(CachedPrograms)
    BY DEF CInv
  <1>1. CASE GotoDotDot
    BY <1>0, <1>1, WithEmptyLastCached DEF GotoDotDot, goto_dot_dot
  <1>2. ASSUME NEW p \in DOMAIN prgms, ClpKey(p)
        PROVE  prgms' \in Seq(CachedPrograms)
    BY <1>2, ClearPrgmCached DEF ClpKey
  <1>3. CASE ClallKey
    <2>1. <<>> \in Seq(CachedPrograms)
      BY EmptySeq
    <2> QED  BY <1>3, <2>1, WithEmptyLastCached DEF ClallKey
  <1>4. CASE \/ \E n \in 0 .. MaxLines : GotoLine(n)
             \/ \E i \in DOMAIN labels, run \in BOOLEAN : GotoEntry(i, run)
             \/ \E label \in LocalLabels, run \in BOOLEAN : GotoLocal(label, run)
             \/ RtnKey \/ RunKey \/ StopKey
             \/ \E label \in LocalLabels \cup GlobalLabels, xeq \in BOOLEAN : MenuKey(label, xeq)
    BY <1>0, <1>4 DEF GotoLine, GotoEntry, GotoLocal, RtnKey, RunKey, StopKey, MenuKey, memory
  <1> QED  BY <1>1, <1>2, <1>3, <1>4 DEF Press

\* a power cycle, which may store the line that was being typed in,
LEMMA PowerCycleCached ==
  ASSUME CInv, NEW auto_exec \in BOOLEAN, PowerCycle(auto_exec)
  PROVE  prgms' \in Seq(CachedPrograms)
  <1>0. IInv /\ prgms \in Seq(CachedPrograms)
    BY DEF CInv
  <1>1. CASE UNCHANGED memory
    BY <1>0, <1>1 DEF memory
  <1>2. ASSUME NEW op \in {"NONE", "PLAIN"},
               OnLine /\ store_command(FirstIfZero(pc), Cmd(op, NoArg))
        PROVE  prgms' \in Seq(CachedPrograms)
    <2>1. Cmd(op, NoArg) \in Fresh /\ Cmd(op, NoArg).op # "END"
      BY StoredFresh DEF Cmd
    <2> QED  BY <1>0, <1>2, <2>1, LineInText, StoreCached
  <1> QED  BY <1>1, <1>2 DEF PowerCycle

\* and the commands of a program.
LEMMA ExecuteCached ==
  ASSUME CInv, Execute
  PROVE  prgms' \in Seq(CachedPrograms)
  <1>0. IInv /\ prgms \in Seq(CachedPrograms)
    BY DEF CInv
  <1>1. CASE ExecLocalJump
    <2>1. OnProgram /\ line \in 1 .. Len(text)
      BY <1>0, <1>1, JumpHasNext DEF ExecLocalJump
    <2>2. Remember(prgms[current_prgm], line) \in CachedPrograms
      BY <2>1, CurrentCached, RememberCached DEF text
    <2>3. prgms' = [prgms EXCEPT ![current_prgm] = Remember(prgms[current_prgm], line)]
      BY <1>1 DEF ExecLocalJump
    <2> QED  BY <2>1, <2>2, <2>3, ReplaceCached
  <1>2. CASE ExecClp
    BY <1>0, <1>2, ClearPrgmCached DEF ExecClp, memory
  <1>3. CASE \/ ExecPlain \/ ExecTest \/ ExecStop \/ ExecGlobalJump \/ ExecRtn \/ RunOffEnd
    BY <1>0, <1>3 DEF ExecPlain, ExecTest, ExecStop, ExecGlobalJump, ExecRtn, RunOffEnd, memory
  <1> QED  BY <1>1, <1>2, <1>3 DEF Execute

\* Whatever else happens to the programs and in whatever order, a jump never
\* remembers a target that a search would not find now, as long as no END is
\* typed or deleted where targets are stranded by it: those two steps are the
\* only ones by which the code breaks its rule (core_globals.cc: store_command,
\* delete_command).
THEOREM RememberedTargetsAgree ==
  Spec /\ [][~ StrandsTargets]_vars => []CacheAgrees
  <1>1. Init => CInv
    <2> SUFFICES ASSUME Init PROVE CInv
      OBVIOUS
    <2>1. <<EmptyProgram>> \in Seq(CachedPrograms)
      BY EmptyCached
    <2> QED  BY <2>1, InitKeeps DEF CInv, Init
  <1>2. CInv /\ [Next]_vars /\ [~ StrandsTargets]_vars => CInv'
    <2> SUFFICES ASSUME CInv, [Next]_vars, [~ StrandsTargets]_vars
                 PROVE  prgms' \in Seq(CachedPrograms)
      BY NextKeeps DEF CInv
    <2>1. CASE UNCHANGED vars
      BY <2>1 DEF vars, CInv
    <2>2. CASE Next /\ ~ StrandsTargets
      BY <2>2, EditCached, PressCached, ImportCached, PowerCycleCached, ExecuteCached
         DEF Next, Shell
    <2> QED  BY <2>1, <2>2
  <1>3. CInv => CacheAgrees
    <2> SUFFICES ASSUME CInv, NEW p \in DOMAIN prgms,
                        NEW i \in DOMAIN prgms[p].text, IsLocalJump(prgms[p].text[i])
                 PROVE  prgms[p].text[i].target \in
                          {Unknown, find_local_label(prgms[p].text, prgms[p].text[i].arg, i + 1)}
      BY DEF CacheAgrees
    <2>1. prgms[p] \in CachedPrograms
      BY DEF CInv
    <2> QED  BY <2>1 DEF CachedPrograms, TargetsRight
  <1> QED  BY <1>1, <1>2, <1>3, PTL DEF Spec

=============================================================================
