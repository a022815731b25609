-------------------------- MODULE SolveIntegProofs --------------------------
(***************************************************************************)
(* The return stack of SOLVE and INTEG, for any depth of the stack and any *)
(* set of lines: no marker is ever there twice, and none without its       *)
(* state; and stack and records implement the nested calls of CallStack.   *)
(***************************************************************************)
EXTENDS SolveInteg, SequenceTheorems, TLAPS

Addresses == Places \cup Markers
Once(stack) ==
    \A i, j \in DOMAIN stack : stack[i] \in Markers /\ stack[i] = stack[j] => i = j
GoodStack(stack) ==
    /\ stack \in Seq(Addresses) /\ Len(stack) <= MAX_RTNS
    /\ Once(stack)

RecordType == [state : {0, 1}, prev : Places, keep : BOOLEAN]

-----------------------------------------------------------------------------
(***************************************************************************)
(* Stacks.                                                                  *)
(***************************************************************************)

\* The empty stack holds no marker.
LEMMA EmptyGood ==
  /\ GoodStack(<< >>)
  /\ \A m : ~ Active(m, << >>)
  BY EmptySeq, SolveIntegAssumption DEF GoodStack, Once, Active

\* The first n addresses of a good stack are a good stack and hold nothing new.
LEMMA PrefixGood ==
  ASSUME NEW stack, GoodStack(stack), NEW n \in 0 .. Len(stack)
  PROVE  /\ GoodStack(SubSeq(stack, 1, n))
         /\ Len(SubSeq(stack, 1, n)) = n
         /\ \A i \in 1 .. n : SubSeq(stack, 1, n)[i] = stack[i]
         /\ \A m : Active(m, SubSeq(stack, 1, n)) => Active(m, stack)
  <1> DEFINE s == SubSeq(stack, 1, n)
  <1>1. /\ stack \in Seq(Addresses) /\ Len(stack) \in Nat
        /\ DOMAIN stack = 1 .. Len(stack)
        /\ \A i \in 1 .. n : stack[i] \in Addresses
    BY LenProperties, ElementOfSeq DEF GoodStack
  <1>2. /\ s \in Seq(Addresses) /\ Len(s) = n
        /\ \A i \in 1 .. n : s[i] = stack[i]
    BY <1>1, SubSeqProperties
  <1> HIDE DEF s
  <1>3. DOMAIN s = 1 .. n /\ n <= MAX_RTNS
    BY <1>1, <1>2, LenProperties, SolveIntegAssumption DEF GoodStack
  <1>4. Once(s)
    BY <1>1, <1>2, <1>3 DEF Once, GoodStack
  <1>5. \A m : Active(m, s) => Active(m, stack)
    BY <1>1, <1>2, <1>3 DEF Active
  <1> QED  BY <1>2, <1>3, <1>4, <1>5 DEF GoodStack, s

\* What the code pops is gone, if it is a marker.
LEMMA FrontGood ==
  ASSUME NEW stack, GoodStack(stack), stack # << >>
  PROVE  /\ GoodStack(Front(stack)) /\ Len(Front(stack)) = Len(stack) - 1
         /\ \A m : Active(m, Front(stack)) => Active(m, stack)
         /\ Last(stack) \in Addresses /\ Active(Last(stack), stack)
         /\ Last(stack) \in Markers => ~ Active(Last(stack), Front(stack))
  <1> DEFINE n == Len(stack) - 1
             s == SubSeq(stack, 1, n)
  <1>1. /\ Len(stack) \in Nat \ {0} /\ DOMAIN stack = 1 .. Len(stack)
        /\ Last(stack) = stack[Len(stack)] /\ Last(stack) \in Addresses
    BY EmptySeq, LenProperties, ElementOfSeq DEF GoodStack, Last
  <1>2. /\ GoodStack(s) /\ Len(s) = n
        /\ \A i \in 1 .. n : s[i] = stack[i]
        /\ \A m : Active(m, s) => Active(m, stack)
    BY <1>1, PrefixGood
  <1>3. DOMAIN s = 1 .. n
    BY <1>2, LenProperties DEF GoodStack
  <1> HIDE DEF s
  <1>4. Last(stack) \in Markers => ~ Active(Last(stack), s)
    BY <1>1, <1>2, <1>3 DEF Active, GoodStack, Once
  <1>5. Active(Last(stack), stack)
    BY <1>1 DEF Active
  <1> QED  BY <1>1, <1>2, <1>4, <1>5 DEF Front, s

\* unwind_stack_until_solve() removes the marker it finds and what is above.
LEMMA UnwindGood ==
  ASSUME NEW stack, GoodStack(stack), Active(SOLVE, stack)
  PROVE  /\ GoodStack(unwind_stack_until_solve(stack))
         /\ \A m : Active(m, unwind_stack_until_solve(stack)) => Active(m, stack)
         /\ ~ Active(SOLVE, unwind_stack_until_solve(stack))
  <1> DEFINE at == CHOOSE i \in DOMAIN stack : stack[i] = SOLVE
             n == at - 1
             s == SubSeq(stack, 1, n)
  <1>1. Len(stack) \in Nat /\ DOMAIN stack = 1 .. Len(stack)
    BY LenProperties DEF GoodStack
  <1>2. at \in DOMAIN stack /\ stack[at] = SOLVE
    BY DEF Active
  <1> HIDE DEF at
  <1>3. n \in 0 .. Len(stack)
    BY <1>1, <1>2
  <1>4. /\ GoodStack(s) /\ Len(s) = n
        /\ \A i \in 1 .. n : s[i] = stack[i]
        /\ \A m : Active(m, s) => Active(m, stack)
    BY <1>3, PrefixGood
  <1>5. DOMAIN s = 1 .. n
    BY <1>4, LenProperties DEF GoodStack
  <1> HIDE DEF s
  <1>6. \A i \in 1 .. n : stack[i] # SOLVE
    BY <1>1, <1>2 DEF GoodStack, Once, Markers
  <1>7. ~ Active(SOLVE, s)
    BY <1>4, <1>5, <1>6 DEF Active
  <1> QED  BY <1>4, <1>7 DEF unwind_stack_until_solve, s, at

\* A push keeps a stack good unless it is of a marker that is there already;
\* it brings only what is pushed.
LEMMA PushGood ==
  ASSUME NEW stack, GoodStack(stack), NEW a \in Addresses,
         a \in Markers => ~ Active(a, stack)
  PROVE  /\ GoodStack(push_rtn_addr(stack, a))
         /\ \A m : Active(m, push_rtn_addr(stack, a)) => m = a \/ Active(m, stack)
  <1> DEFINE room == IF Len(stack) = MAX_RTNS THEN Tail(stack) ELSE stack
             s == Append(room, a)
  <1>1. /\ stack \in Seq(Addresses) /\ Len(stack) \in Nat /\ DOMAIN stack = 1 .. Len(stack)
        /\ Len(stack) <= MAX_RTNS /\ MAX_RTNS \in Nat \ {0}
    BY LenProperties, SolveIntegAssumption DEF GoodStack
  <1>2. /\ room \in Seq(Addresses) /\ Len(room) + 1 <= MAX_RTNS
        /\ \E d \in {0, 1} : /\ Len(room) = Len(stack) - d
                             /\ \A i \in 1 .. Len(room) : room[i] = stack[i + d]
    <2>1. CASE Len(stack) = MAX_RTNS
      <3>1. stack # << >>
        BY <1>1, <2>1, EmptySeq
      <3>2. /\ Tail(stack) \in Seq(Addresses) /\ Len(Tail(stack)) = Len(stack) - 1
            /\ \A i \in 1 .. Len(Tail(stack)) : Tail(stack)[i] = stack[i + 1]
        BY <1>1, <3>1, HeadTailProperties
      <3> QED  BY <1>1, <2>1, <3>2
    <2>2. CASE Len(stack) # MAX_RTNS
      <3>1. room = stack
        BY <2>2
      <3>3. Len(stack) + 1 <= MAX_RTNS
        <4>1. ASSUME NEW n \in Nat, NEW m \in Nat, n <= m, n # m
              PROVE  n + 1 <= m
          BY <4>1
        <4> QED  BY <1>1, <2>2, <4>1
      <3>2. /\ 0 \in {0, 1} /\ Len(stack) = Len(stack) - 0
            /\ \A i \in 1 .. Len(stack) : stack[i] = stack[i + 0]
        BY <1>1
      <3> HIDE DEF room
      <3> QED  BY <1>1, <3>1, <3>2, <3>3
    <2> QED  BY <2>1, <2>2
  <1> HIDE DEF room
  <1>3. PICK d \in {0, 1} : /\ Len(room) = Len(stack) - d
                            /\ \A i \in 1 .. Len(room) : room[i] = stack[i + d]
    BY <1>2
  <1>4. /\ s \in Seq(Addresses) /\ Len(s) = Len(room) + 1
        /\ \A i \in 1 .. Len(room) : s[i] = room[i]
        /\ s[Len(room) + 1] = a
    BY <1>2, AppendProperties
  <1>5. DOMAIN s = 1 .. Len(room) + 1 /\ Len(room) \in Nat
    BY <1>2, <1>4, LenProperties
  <1> HIDE DEF s
  <1>6. \A i \in 1 .. Len(room) : i + d \in DOMAIN stack /\ s[i] = stack[i + d]
    BY <1>1, <1>3, <1>4, <1>5
  <1>7. Once(s)
    <2> SUFFICES ASSUME NEW i \in DOMAIN s, NEW j \in DOMAIN s, s[i] \in Markers, s[i] = s[j]
                 PROVE  i = j
      BY DEF Once
    <2>1. CASE i \in 1 .. Len(room) /\ j \in 1 .. Len(room)
      <3>1. i + d = j + d
        BY <1>6, <2>1 DEF GoodStack, Once
      <3> QED  BY <2>1, <3>1
    <2>2. \A k \in 1 .. Len(room) : s[k] \in Markers => s[k] # a
      BY <1>6 DEF Active
    <2> QED  BY <1>4, <1>5, <2>1, <2>2
  <1>8. \A m : Active(m, s) => m = a \/ Active(m, stack)
    BY <1>4, <1>5, <1>6 DEF Active
  <1> QED  BY <1>2, <1>4, <1>7, <1>8 DEF GoodStack, push_rtn_addr, s, room

-----------------------------------------------------------------------------
(***************************************************************************)
(* The inductive invariant.                                                 *)
(***************************************************************************)

IInv == TypeOK /\ OneOfEachKind

\* The invariant says that the stack is good and the records have their types.
LEMMA IInvIs ==
  IInv <=> /\ GoodStack(rtns) /\ here \in Places /\ running \in BOOLEAN
           /\ solve \in RecordType /\ integ \in RecordType
  BY DEF IInv, TypeOK, OneOfEachKind, GoodStack, Once, RecordType, Addresses

LEMMA InitKeeps == Init => IInv
  <1> SUFFICES ASSUME Init PROVE IInv
    OBVIOUS
  <1>1. GoodStack(rtns)
    BY EmptyGood DEF Init
  <1>2. solve \in RecordType /\ integ \in RecordType /\ here \in Places /\ running \in BOOLEAN
    BY DEF Init, Idle, RecordType
  <1> QED  BY <1>1, <1>2, IInvIs

\* What a step may do: the stack and the records stay good, and a marker that
\* is there afterwards finds a state, or was there with the state it has.
Sound ==
    /\ GoodStack(rtns') /\ here' \in Places /\ running' \in BOOLEAN
    /\ solve' \in RecordType /\ integ' \in RecordType
Kept ==
    /\ Active(SOLVE, rtns') =>
          solve'.state # 0 \/ (Active(SOLVE, rtns) /\ solve'.state = solve.state)
    /\ Active(INTEG, rtns') =>
          integ'.state # 0 \/ (Active(INTEG, rtns) /\ integ'.state = integ.state)

\* A call of the function pushes the marker on what docmd_gto() left.
LEMMA CallGood ==
  ASSUME NEW stack, GoodStack(stack), NEW programRunning
  PROVE  /\ ~ Active(SOLVE, stack) =>
                /\ GoodStack(call_solve_fn(stack, programRunning))
                /\ \A m : Active(m, call_solve_fn(stack, programRunning)) =>
                          m = SOLVE \/ Active(m, stack)
         /\ ~ Active(INTEG, stack) =>
                /\ GoodStack(call_integ_fn(stack, programRunning))
                /\ \A m : Active(m, call_integ_fn(stack, programRunning)) =>
                          m = INTEG \/ Active(m, stack)
  <1> DEFINE base == IF programRunning THEN stack ELSE << >>
  <1>1. GoodStack(base) /\ \A m : Active(m, base) => Active(m, stack)
    BY EmptyGood
  <1> HIDE DEF base
  <1>2. SOLVE \in Addresses /\ INTEG \in Addresses
    BY DEF Addresses, Markers
  <1>3. ~ Active(SOLVE, stack) =>
           /\ GoodStack(push_rtn_addr(base, SOLVE))
           /\ \A m : Active(m, push_rtn_addr(base, SOLVE)) => m = SOLVE \/ Active(m, stack)
    BY <1>1, <1>2, PushGood
  <1>4. ~ Active(INTEG, stack) =>
           /\ GoodStack(push_rtn_addr(base, INTEG))
           /\ \A m : Active(m, push_rtn_addr(base, INTEG)) => m = INTEG \/ Active(m, stack)
    BY <1>1, <1>2, PushGood
  <1> QED  BY <1>3, <1>4 DEF call_solve_fn, call_integ_fn, base

\* Steps that leave the stack and the records alone.
LEMMA SameKeeps ==
  ASSUME IInv, UNCHANGED <<rtns, solve, integ>>, here' \in Places, running' \in BOOLEAN
  PROVE  Sound /\ Kept
  BY IInvIs DEF Sound, Kept

\* A return to SOLVE, with no other marker of SOLVE left on the stack.
LEMMA ReturnToSolveKeeps ==
  ASSUME IInv, NEW stack, GoodStack(stack), ~ Active(SOLVE, stack),
         \A m : Active(m, stack) => Active(m, rtns),
         NEW go \in BOOLEAN, NEW programRunning, UNCHANGED integ,
         \/ return_to_solve(stack, go, programRunning)
         \/ solve_error(stack, programRunning) /\ running' \in BOOLEAN
  PROVE  Sound /\ Kept
  <1>1. CASE solve_error(stack, programRunning) /\ running' \in BOOLEAN
    <2>1. /\ GoodStack(rtns') /\ ~ Active(SOLVE, rtns')
          /\ \A m : Active(m, rtns') => Active(m, rtns)
      BY <1>1, EmptyGood DEF solve_error
    <2>2. solve' \in RecordType /\ here' \in Places
      BY <1>1, IInvIs DEF solve_error, RecordType
    <2> QED  BY <1>1, <2>1, <2>2, IInvIs DEF Sound, Kept
  <1>2. CASE /\ solve.state # 0 /\ UNCHANGED solve
             /\ rtns' = call_solve_fn(stack, programRunning)
             /\ here' \in Places /\ running' = go
    <2>1. /\ GoodStack(rtns')
          /\ \A m : Active(m, rtns') => m = SOLVE \/ Active(m, rtns)
      BY <1>2, CallGood
    <2> QED  BY <1>2, <2>1, IInvIs, SolveIntegAssumption DEF Sound, Kept
  <1>3. CASE /\ solve.state # 0 /\ rtns' = stack /\ finish(solve, go)
             /\ solve' = [solve EXCEPT !.state = 0]
    <2>1. here' \in Places /\ running' \in BOOLEAN /\ solve' \in RecordType
      BY <1>3, IInvIs DEF finish, RecordType
    <2> QED  BY <1>3, <2>1, IInvIs DEF Sound, Kept
  <1> QED  BY <1>1, <1>2, <1>3 DEF return_to_solve

\* A return to INTEG.
LEMMA ReturnToIntegKeeps ==
  ASSUME IInv, NEW stack, GoodStack(stack), ~ Active(INTEG, stack),
         \A m : Active(m, stack) => Active(m, rtns),
         NEW go \in BOOLEAN, UNCHANGED solve,
         \/ return_to_integ(stack, go)
         \/ integ_error(stack) /\ running' \in BOOLEAN
  PROVE  Sound /\ Kept
  <1>1. CASE integ_error(stack) /\ running' \in BOOLEAN
    <2>1. integ' \in RecordType /\ here' \in Places
      BY <1>1, IInvIs DEF integ_error, RecordType
    <2> QED  BY <1>1, <2>1, IInvIs DEF integ_error, Sound, Kept
  <1>2. CASE /\ integ.state # 0 /\ UNCHANGED integ
             /\ rtns' = call_integ_fn(stack, TRUE)
             /\ here' \in Places /\ running' = go
    <2>1. /\ GoodStack(rtns')
          /\ \A m : Active(m, rtns') => m = INTEG \/ Active(m, rtns)
      BY <1>2, CallGood
    <2> QED  BY <1>2, <2>1, IInvIs, SolveIntegAssumption DEF Sound, Kept
  <1>3. CASE /\ integ.state # 0 /\ rtns' = stack /\ finish(integ, go)
             /\ integ' = [integ EXCEPT !.state = 0]
    <2>1. here' \in Places /\ running' \in BOOLEAN /\ integ' \in RecordType
      BY <1>3, IInvIs DEF finish, RecordType
    <2> QED  BY <1>3, <2>1, IInvIs DEF Sound, Kept
  <1> QED  BY <1>1, <1>2, <1>3 DEF return_to_integ

\* A call pushes the address of the caller, which is no marker.
LEMMA XeqKeeps ==
  ASSUME IInv, NEW go \in BOOLEAN, Xeq(go)
  PROVE  Sound /\ Kept
  <1>1. here \in Addresses /\ here \notin Markers
    BY IInvIs, SolveIntegAssumption DEF Addresses, Markers
  <1>2. /\ GoodStack(rtns')
        /\ \A m : Active(m, rtns') => m = here \/ Active(m, rtns)
    BY <1>1, IInvIs, PushGood DEF Xeq
  <1>3. running' \in BOOLEAN
    BY IInvIs DEF Xeq, Stopped
  <1> QED  BY <1>1, <1>2, <1>3, IInvIs DEF Xeq, Sound, Kept, Markers

\* RTN pops an address, or a marker and returns to what it stands for.
LEMMA RtnKeeps ==
  ASSUME IInv, NEW go \in BOOLEAN, Rtn(go)
  PROVE  Sound /\ Kept
  <1> DEFINE top == Last(rtns)
             stack == Front(rtns)
  <1>1. rtns # << >> /\ GoodStack(rtns)
    BY IInvIs DEF Rtn
  <1>2. /\ GoodStack(stack)
        /\ \A m : Active(m, stack) => Active(m, rtns)
        /\ top \in Markers => ~ Active(top, stack)
    BY <1>1, FrontGood
  <1> HIDE DEF top, stack
  <1>3. CASE top \in Places /\ rtns' = stack /\ here' = top /\ UNCHANGED <<running, solve, integ>>
    BY <1>2, <1>3, IInvIs DEF Sound, Kept
  <1>4. CASE /\ top = SOLVE /\ UNCHANGED integ
             /\ return_to_solve(stack, go, TRUE) \/ (solve_error(stack, TRUE) /\ Stopped(go))
    <2>1. ~ Active(SOLVE, stack)
      BY <1>2, <1>4 DEF Markers
    <2>2. \/ return_to_solve(stack, go, TRUE)
          \/ solve_error(stack, TRUE) /\ running' \in BOOLEAN
      BY <1>4 DEF Stopped
    <2> QED  BY <1>2, <1>4, <2>1, <2>2, ReturnToSolveKeeps
  <1>5. CASE /\ top = INTEG /\ UNCHANGED solve
             /\ return_to_integ(stack, go) \/ (integ_error(stack) /\ Stopped(go))
    <2>1. ~ Active(INTEG, stack)
      BY <1>2, <1>5 DEF Markers
    <2>2. return_to_integ(stack, go) \/ (integ_error(stack) /\ running' \in BOOLEAN)
      BY <1>5 DEF Stopped
    <2> QED  BY <1>2, <1>5, <2>1, <2>2, ReturnToIntegKeeps
  <1> QED  BY <1>3, <1>4, <1>5 DEF Rtn, top, stack

\* An error is taken by an active SOLVE, or stops the program.
LEMMA FailKeeps ==
  ASSUME IInv, NEW go \in BOOLEAN, Fail(go)
  PROVE  Sound /\ Kept
  <1>1. CASE Stopped(go) /\ UNCHANGED <<rtns, here, solve, integ>>
    BY <1>1, IInvIs, SameKeeps DEF Stopped
  <1>2. CASE /\ Active(SOLVE, rtns) /\ UNCHANGED integ
             /\ \/ return_to_solve(unwind_stack_until_solve(rtns), go, go)
                \/ solve_error(unwind_stack_until_solve(rtns), go) /\ running' = FALSE
    <2> DEFINE stack == unwind_stack_until_solve(rtns)
    <2>1. /\ GoodStack(stack) /\ ~ Active(SOLVE, stack)
          /\ \A m : Active(m, stack) => Active(m, rtns)
      BY <1>2, IInvIs, UnwindGood
    <2>2. \/ return_to_solve(stack, go, go)
          \/ solve_error(stack, go) /\ running' \in BOOLEAN
      BY <1>2
    <2> HIDE DEF stack
    <2> QED  BY <1>2, <2>1, <2>2, ReturnToSolveKeeps
  <1> QED  BY <1>1, <1>2 DEF Fail

\* A record just filled has the type of one.
LEMMA StartedGood ==
  ASSUME IInv, NEW keep \in BOOLEAN
  PROVE  /\ Started(keep) \in RecordType /\ Started(keep).state # 0
         /\ Attempted(keep) \subseteq RecordType
  BY IInvIs DEF Started, Attempted, RecordType

\* SOLVE and INTEG in a program start only when their marker is not there.
LEMMA LineKeeps ==
  ASSUME IInv, NEW go \in BOOLEAN, SolveLine(go) \/ IntegLine(go)
  PROVE  Sound /\ Kept
  <1>1. CASE SolveLine(go) /\ rtns' = call_solve_fn(rtns, TRUE)
    <2>1. ~ Active(SOLVE, rtns) /\ solve' \in {Started(TRUE)} \cup Attempted(TRUE)
      BY <1>1 DEF SolveLine, CanStart
    <2>2. CASE solve' = Started(TRUE) /\ here' \in Places /\ UNCHANGED <<running, integ>>
      <3>1. /\ GoodStack(rtns')
            /\ \A m : Active(m, rtns') => m = SOLVE \/ Active(m, rtns)
        BY <1>1, <2>1, IInvIs, CallGood
      <3> QED  BY <2>2, <3>1, IInvIs, StartedGood, SolveIntegAssumption DEF Sound, Kept
    <2>3. CASE UNCHANGED <<rtns, here, integ>> /\ Stopped(go) /\ solve' \in Attempted(TRUE)
      BY <2>1, <2>3, IInvIs, StartedGood DEF Stopped, Sound, Kept
    <2> QED  BY <1>1, <2>2, <2>3 DEF SolveLine
  <1>2. CASE SolveLine(go) /\ UNCHANGED rtns /\ UNCHANGED here /\ Stopped(go)
    <2>1. /\ ~ Active(SOLVE, rtns) /\ UNCHANGED integ
          /\ solve' \in {Started(TRUE)} \cup Attempted(TRUE)
      BY <1>2 DEF SolveLine, CanStart
    <2> QED  BY <1>2, <2>1, IInvIs, StartedGood DEF Stopped, Sound, Kept
  <1>3. CASE IntegLine(go)
    <2>1. ~ Active(INTEG, rtns) /\ integ' = Started(TRUE) /\ UNCHANGED solve
      BY <1>3 DEF IntegLine, CanStart
    <2>2. CASE rtns' = call_integ_fn(rtns, TRUE) /\ here' \in Places /\ UNCHANGED running
      <3>1. /\ GoodStack(rtns')
            /\ \A m : Active(m, rtns') => m = INTEG \/ Active(m, rtns)
        BY <2>1, <2>2, IInvIs, CallGood
      <3> QED  BY <2>1, <2>2, <3>1, IInvIs, StartedGood, SolveIntegAssumption DEF Sound, Kept
    <2>3. CASE Stopped(go) /\ UNCHANGED <<rtns, here>>
      BY <2>1, <2>3, IInvIs, StartedGood DEF Stopped, Sound, Kept
    <2> QED  BY <1>3, <2>2, <2>3 DEF IntegLine
  <1> QED  BY <1>1, <1>2, <1>3 DEF SolveLine

\* The user's SOLVE and INTEG start from an empty stack.
LEMMA KeyKeeps ==
  ASSUME IInv, SolveKey \/ IntegKey
  PROVE  Sound /\ Kept
  <1>1. GoodStack(<< >>) /\ \A m : ~ Active(m, << >>)
    BY EmptyGood
  <1>2. CASE rtns' = << >> /\ here' = here /\ running' = running
    <2>1. solve' \in RecordType /\ integ' \in RecordType
      BY IInvIs, StartedGood DEF SolveKey, IntegKey
    <2> QED  BY <1>1, <1>2, <2>1, IInvIs DEF Sound, Kept
  <1>3. CASE /\ rtns' = call_solve_fn(<< >>, FALSE) /\ here' \in Places /\ running' = TRUE
             /\ solve' = Started(FALSE) /\ UNCHANGED integ
    <2>1. /\ GoodStack(rtns')
          /\ \A m : Active(m, rtns') => m = SOLVE
      BY <1>1, <1>3, CallGood
    <2> QED  BY <1>3, <2>1, IInvIs, StartedGood, SolveIntegAssumption DEF Sound, Kept
  <1>4. CASE /\ rtns' = call_integ_fn(<< >>, FALSE) /\ here' \in Places /\ running' = TRUE
             /\ integ' = Started(FALSE) /\ UNCHANGED solve
    <2>1. /\ GoodStack(rtns')
          /\ \A m : Active(m, rtns') => m = INTEG
      BY <1>1, <1>4, CallGood
    <2> QED  BY <1>4, <2>1, IInvIs, StartedGood, SolveIntegAssumption DEF Sound, Kept
  <1> QED  BY <1>2, <1>3, <1>4 DEF SolveKey, IntegKey

\* So does everything that forgets the return stack or leaves it alone.
LEMMA ClearKeeps ==
  ASSUME IInv, XeqKey \/ ClearProgram
  PROVE  Sound /\ Kept
  BY IInvIs, EmptyGood DEF XeqKey, ClearProgram, Sound, Kept

\* A power cycle may take the state away, but with it the markers, unless the
\* state file is of an older version.
LEMMA PowerCycleKeeps ==
  ASSUME IInv, PowerCycle
  PROVE  Sound /\ ("OLD_VERSION" \notin StateFiles => Kept)
  <1>1. PICK file \in StateFiles :
           /\ rtns' = SavedReturns(file)
           /\ solve' = unpersist_math(solve, file)
           /\ integ' = unpersist_math(integ, file)
    BY DEF PowerCycle
  <1>2. GoodStack(rtns') /\ \A m : Active(m, rtns') => Active(m, rtns)
    BY <1>1, IInvIs, EmptyGood DEF SavedReturns
  <1>3. Sound
    BY <1>1, <1>2, IInvIs DEF PowerCycle, unpersist_math, RecordType, Sound
  <1>4. CASE file = "SAME"
    BY <1>1, <1>2, <1>3, <1>4 DEF unpersist_math, Kept
  <1>5. CASE file = "OTHER_FORMAT"
    <2>1. ~ Active(SOLVE, rtns') /\ ~ Active(INTEG, rtns')
      BY <1>1, <1>5, EmptyGood DEF SavedReturns
    <2> QED  BY <1>3, <2>1 DEF Kept
  <1> QED  BY <1>3, <1>4, <1>5, SolveIntegAssumption

\* Every step leaves a good stack; every step but the loading of an old state
\* file leaves the markers their state.
LEMMA NextSound ==
  ASSUME IInv, Next
  PROVE  Sound /\ ("OLD_VERSION" \notin StateFiles => Kept)
  <1>1. ASSUME NEW go \in BOOLEAN, Gto(go) PROVE Sound /\ Kept
    BY <1>1, IInvIs, SameKeeps DEF Gto
  <1>2. CASE RtnStops \/ RunStop
    BY <1>2, IInvIs, SameKeeps DEF RtnStops, RunStop
  <1> QED  BY <1>1, <1>2, XeqKeeps, RtnKeeps, FailKeeps, LineKeeps, KeyKeeps, ClearKeeps,
              PowerCycleKeeps DEF Next

\* The inductive invariant always holds.
THEOREM Inductive == Spec => []IInv
  <1>1. IInv /\ [Next]_vars => IInv'
    <2> SUFFICES ASSUME IInv, [Next]_vars PROVE IInv'
      OBVIOUS
    <2>1. CASE Next
      <3>1. Sound
        BY <2>1, NextSound
      <3> QED  BY <3>1 DEF Sound, IInv, TypeOK, OneOfEachKind, GoodStack, Once, RecordType,
                           Addresses
    <2>2. CASE UNCHANGED vars
      BY <2>2 DEF vars, IInv, TypeOK, OneOfEachKind
    <2> QED  BY <2>1, <2>2
  <1> QED  BY InitKeeps, <1>1, PTL DEF Spec

\* The return stack is never deeper than MAX_RTNS and holds only addresses and
\* markers, and both records are always of their type (core_globals.cc).
THEOREM TypesHold == Spec => []TypeOK
  <1>1. IInv => TypeOK
    BY DEF IInv
  <1> QED  BY Inductive, <1>1, PTL

\* However XEQ, SOLVE and INTEG nest, fail, are stepped through or stopped, there
\* is at most one marker of SOLVE and one of INTEG, so one record each is enough
\* (start_solve and start_integ).
THEOREM OneOfEachAlways == Spec => []OneOfEachKind
  <1>1. IInv => OneOfEachKind
    BY DEF IInv
  <1> QED  BY Inductive, <1>1, PTL

\* Where no state file of an older version is loaded, a return to a marker finds
\* its state: ERR_INTERNAL_ERROR cannot happen (return_to_solve, return_to_integ).
THEOREM MarkersAlwaysHaveState ==
  ASSUME "OLD_VERSION" \notin StateFiles
  PROVE  Spec => []MarkersHaveState
  <1>1. Init => MarkersHaveState
    BY EmptyGood DEF Init, MarkersHaveState
  <1>2. IInv /\ MarkersHaveState /\ [Next]_vars => MarkersHaveState'
    <2> SUFFICES ASSUME IInv, MarkersHaveState, [Next]_vars PROVE MarkersHaveState'
      OBVIOUS
    <2>1. CASE Next
      <3>1. Kept
        BY <2>1, NextSound
      <3> QED  BY <3>1 DEF Kept, MarkersHaveState
    <2>2. CASE UNCHANGED vars
      BY <2>2 DEF vars, MarkersHaveState
    <2> QED  BY <2>1, <2>2
  <1> QED  BY <1>1, <1>2, Inductive, PTL DEF Spec

-----------------------------------------------------------------------------
(***************************************************************************)
(* The return stack with markers and the records of SOLVE and INTEG        *)
(* implement the nested calls of CallStack.                                *)
(***************************************************************************)
\* The frames of the abstract specification.
AFrame == Abstract!Frame

\* The frame that an address or marker stands for, given where the two records
\* say that SOLVE and INTEG were executed, and the frames of a stack.
FrameAt(a, sp, ip) ==
    CASE a = SOLVE -> [kind |-> "SOLVE", back |-> sp]
      [] a = INTEG -> [kind |-> "INTEG", back |-> ip]
      [] OTHER -> [kind |-> "CALL", back |-> a]
FramesOf(stack, sp, ip) == [i \in DOMAIN stack |-> FrameAt(stack[i], sp, ip)]

\* The refinement mapping, before and after a step.
LEMMA FramesAre ==
  /\ frames = FramesOf(rtns, solve.prev, integ.prev)
  /\ frames' = FramesOf(rtns', solve'.prev, integ'.prev)
  BY DEF frames, FrameOf, FramesOf, FrameAt

\* A marker stands for a frame of its kind, a line for a call.
LEMMA FrameIs ==
  ASSUME NEW sp \in Places, NEW ip \in Places
  PROVE  /\ FrameAt(SOLVE, sp, ip) = [kind |-> "SOLVE", back |-> sp]
         /\ FrameAt(INTEG, sp, ip) = [kind |-> "INTEG", back |-> ip]
         /\ \A a \in Places : FrameAt(a, sp, ip) = [kind |-> "CALL", back |-> a]
         /\ \A a \in Addresses : FrameAt(a, sp, ip) \in AFrame
  <1>1. SOLVE # INTEG /\ SOLVE \notin Places /\ INTEG \notin Places
    BY SolveIntegAssumption
  <1>2. FrameAt(SOLVE, sp, ip) = [kind |-> "SOLVE", back |-> sp]
    BY <1>1 DEF FrameAt
  <1>3. FrameAt(INTEG, sp, ip) = [kind |-> "INTEG", back |-> ip]
    BY <1>1 DEF FrameAt
  <1>4. \A a \in Places : FrameAt(a, sp, ip) = [kind |-> "CALL", back |-> a]
    BY <1>1 DEF FrameAt
  <1>5. /\ [kind |-> "SOLVE", back |-> sp] \in AFrame
        /\ [kind |-> "INTEG", back |-> ip] \in AFrame
        /\ \A a \in Places : [kind |-> "CALL", back |-> a] \in AFrame
    BY DEF AFrame, Abstract!Frame, Abstract!Evaluators
  <1> QED  BY <1>2, <1>3, <1>4, <1>5 DEF Addresses, Markers

\* The frames of a stack are as many, in the same order.
LEMMA FramesSeq ==
  ASSUME NEW stack \in Seq(Addresses), NEW sp \in Places, NEW ip \in Places
  PROVE  /\ FramesOf(stack, sp, ip) \in Seq(AFrame)
         /\ Len(FramesOf(stack, sp, ip)) = Len(stack)
         /\ DOMAIN FramesOf(stack, sp, ip) = 1 .. Len(stack)
         /\ \A i \in 1 .. Len(stack) : FramesOf(stack, sp, ip)[i] = FrameAt(stack[i], sp, ip)
  <1>1. Len(stack) \in Nat /\ DOMAIN stack = 1 .. Len(stack)
    BY LenProperties
  <1>2. \A i \in 1 .. Len(stack) : FrameAt(stack[i], sp, ip) \in AFrame
    BY <1>1, ElementOfSeq, FrameIs
  <1> DEFINE f == FramesOf(stack, sp, ip)
             n == Len(stack)
  <1>3. f = [i \in 1 .. n |-> FrameAt(stack[i], sp, ip)]
    BY <1>1 DEF FramesOf
  <1>4. f \in [1 .. n -> AFrame]
    BY <1>2, <1>3
  <1>5. f \in Seq(AFrame) /\ Len(f) = n
    <2> HIDE DEF f
    <2> QED  BY <1>1, <1>4
  <1> QED  BY <1>3, <1>5

\* The frames of the empty stack.
LEMMA FramesEmpty ==
  ASSUME NEW sp \in Places, NEW ip \in Places
  PROVE  FramesOf(<< >>, sp, ip) = << >>
  <1>1. << >> \in Seq(Addresses) /\ Len(<< >>) = 0
    BY EmptySeq
  <1>2. FramesOf(<< >>, sp, ip) \in Seq(AFrame) /\ Len(FramesOf(<< >>, sp, ip)) = 0
    BY <1>1, FramesSeq
  <1> QED  BY <1>2, EmptySeq

\* Taking the first n frames, all but the first, or one more.
LEMMA FramesPrefix ==
  ASSUME NEW stack \in Seq(Addresses), NEW sp \in Places, NEW ip \in Places,
         NEW n \in 0 .. Len(stack)
  PROVE  FramesOf(SubSeq(stack, 1, n), sp, ip) = SubSeq(FramesOf(stack, sp, ip), 1, n)
  <1> DEFINE f == FramesOf(stack, sp, ip)
             s == SubSeq(stack, 1, n)
             g == FramesOf(s, sp, ip)
             h == SubSeq(f, 1, n)
  <1>1. Len(stack) \in Nat /\ \A i \in 1 .. n : stack[i] \in Addresses
    BY LenProperties, ElementOfSeq
  <1>2. s \in Seq(Addresses) /\ Len(s) = n /\ \A i \in 1 .. n : s[i] = stack[i]
    BY <1>1, SubSeqProperties
  <1>3. /\ f \in Seq(AFrame) /\ Len(f) = Len(stack)
        /\ \A i \in 1 .. Len(stack) : f[i] = FrameAt(stack[i], sp, ip)
    BY FramesSeq
  <1> HIDE DEF f, s
  <1>4. \A i \in 1 .. n : f[i] \in AFrame
    BY <1>1, <1>3, ElementOfSeq
  <1>5. h \in Seq(AFrame) /\ Len(h) = n /\ \A i \in 1 .. n : h[i] = f[i]
    BY <1>1, <1>4, SubSeqProperties
  <1>6. /\ g \in Seq(AFrame) /\ Len(g) = n
        /\ \A i \in 1 .. n : g[i] = FrameAt(s[i], sp, ip)
    BY <1>2, FramesSeq
  <1> HIDE DEF g, h
  <1>7. \A i \in 1 .. Len(g) : g[i] = h[i]
    BY <1>1, <1>2, <1>3, <1>5, <1>6
  <1>8. g = h
    BY <1>5, <1>6, <1>7, SeqEqual
  <1> QED  BY <1>8 DEF g, h, f, s

\* A push adds the frame, and forgets the oldest one if there is no room: the
\* code makes room first, the abstract stack afterwards.
LEMMA FramesPush ==
  ASSUME NEW stack, GoodStack(stack), NEW a \in Addresses,
         NEW sp \in Places, NEW ip \in Places
  PROVE  FramesOf(push_rtn_addr(stack, a), sp, ip)
            = Abstract!Limited(Append(FramesOf(stack, sp, ip), FrameAt(a, sp, ip)))
  <1> DEFINE f == FramesOf(stack, sp, ip)
             n == Len(stack)
             e == FrameAt(a, sp, ip)
             longer == Append(f, e)
             room == IF n = MAX_RTNS THEN Tail(stack) ELSE stack
             s == Append(room, a)
             g == FramesOf(s, sp, ip)
             h == Abstract!Limited(longer)
  <1>1. stack \in Seq(Addresses) /\ n \in Nat /\ n <= MAX_RTNS /\ MAX_RTNS \in Nat \ {0}
    BY LenProperties, SolveIntegAssumption DEF GoodStack
  <1>2. /\ f \in Seq(AFrame) /\ Len(f) = n
        /\ \A i \in 1 .. n : f[i] = FrameAt(stack[i], sp, ip)
    BY <1>1, FramesSeq
  <1>3. e \in AFrame
    BY FrameIs
  <1>4. /\ longer \in Seq(AFrame) /\ Len(longer) = n + 1
        /\ \A i \in 1 .. n : longer[i] = f[i]
        /\ longer[n + 1] = e
    <2> HIDE DEF f, e
    <2> QED  BY <1>2, <1>3, AppendProperties
  <1> HIDE DEF f, longer
  <1>5. CASE n = MAX_RTNS
    <2>1. stack # << >> /\ longer # << >>
      <3> HIDE DEF n
      <3> QED  BY <1>1, <1>4, <1>5, EmptySeq DEF n
    <2>2. room = Tail(stack)
      BY <1>5
    <2>3. /\ room \in Seq(Addresses) /\ Len(room) = n - 1
          /\ \A i \in 1 .. n - 1 : room[i] = stack[i + 1]
      BY <1>1, <2>1, <2>2, HeadTailProperties
    <2> HIDE DEF room
    <2>4. /\ s \in Seq(Addresses) /\ Len(s) = n
          /\ \A i \in 1 .. n - 1 : s[i] = room[i]
          /\ s[n] = a
      <3>1. Len(room) + 1 = n
        BY <1>1, <2>3
      <3> QED  BY <2>3, <3>1, AppendProperties
    <2> HIDE DEF s
    <2>5. /\ g \in Seq(AFrame) /\ Len(g) = n
          /\ \A i \in 1 .. n : g[i] = FrameAt(s[i], sp, ip)
      BY <2>4, FramesSeq
    <2> HIDE DEF g
    <2>6. h = Tail(longer)
      <3>1. Len(longer) > MAX_RTNS
        BY <1>1, <1>4, <1>5
      <3> QED  BY <3>1 DEF Abstract!Limited
    <2> HIDE DEF h
    <2>7. /\ h \in Seq(AFrame) /\ Len(h) = n
          /\ \A i \in 1 .. n : h[i] = longer[i + 1]
      <3>1. /\ h \in Seq(AFrame) /\ Len(h) = Len(longer) - 1
            /\ \A i \in 1 .. Len(h) : h[i] = longer[i + 1]
        BY <1>4, <2>1, <2>6, HeadTailProperties
      <3>2. Len(longer) - 1 = n
        BY <1>1, <1>4
      <3> QED  BY <3>1, <3>2
    <2>8. \A i \in 1 .. n : g[i] = h[i]
      <3> SUFFICES ASSUME NEW i \in 1 .. n PROVE g[i] = h[i]
        OBVIOUS
      <3>1. CASE i = n
        BY <1>4, <2>4, <2>5, <2>7, <3>1
      <3>2. CASE i # n
        <4>1. i \in 1 .. n - 1 /\ i + 1 \in 1 .. n
          BY <1>1, <3>2
        <4>2. g[i] = FrameAt(stack[i + 1], sp, ip)
          BY <2>3, <2>4, <2>5, <4>1
        <4>3. h[i] = f[i + 1]
          BY <1>4, <2>7, <4>1
        <4> QED  BY <1>2, <4>1, <4>2, <4>3
      <3> QED  BY <3>1, <3>2
    <2>9. g = h
      BY <2>5, <2>7, <2>8, SeqEqual
    <2> QED  BY <2>9 DEF g, h, s, room, longer, f, push_rtn_addr
  <1>6. CASE n # MAX_RTNS
    <2>1. room = stack
      BY <1>6
    <2> HIDE DEF room
    <2>2. /\ s \in Seq(Addresses) /\ Len(s) = n + 1
          /\ \A i \in 1 .. n : s[i] = stack[i]
          /\ s[n + 1] = a
      BY <1>1, <2>1, AppendProperties
    <2> HIDE DEF s
    <2>3. /\ g \in Seq(AFrame) /\ Len(g) = n + 1
          /\ \A i \in 1 .. n + 1 : g[i] = FrameAt(s[i], sp, ip)
      BY <2>2, FramesSeq
    <2> HIDE DEF g
    <2>4. h = longer
      <3>1. ~ (Len(longer) > MAX_RTNS)
        <4>1. ASSUME NEW k \in Nat, NEW m \in Nat, k <= m, k # m
              PROVE  ~ (k + 1 > m)
          BY <4>1
        <4> QED  BY <1>1, <1>4, <1>6, <4>1
      <3> QED  BY <3>1 DEF Abstract!Limited
    <2> HIDE DEF h
    <2>5. \A i \in 1 .. n + 1 : g[i] = longer[i]
      <3> SUFFICES ASSUME NEW i \in 1 .. n + 1 PROVE g[i] = longer[i]
        OBVIOUS
      <3>1. CASE i = n + 1
        BY <1>4, <2>2, <2>3, <3>1
      <3>2. CASE i # n + 1
        <4>1. i \in 1 .. n
          BY <1>1, <3>2
        <4> QED  BY <1>2, <1>4, <2>2, <2>3, <4>1
      <3> QED  BY <3>1, <3>2
    <2>6. g = longer
      BY <1>4, <2>3, <2>5, SeqEqual
    <2> QED  BY <2>4, <2>6 DEF g, h, s, room, longer, f, push_rtn_addr
  <1> QED  BY <1>5, <1>6

\* Where a record says SOLVE or INTEG was executed matters only to a stack with
\* its marker.
LEMMA FramesUnmarked ==
  ASSUME NEW stack, NEW sp, NEW ip, NEW other
  PROVE  /\ ~ Active(SOLVE, stack) => FramesOf(stack, other, ip) = FramesOf(stack, sp, ip)
         /\ ~ Active(INTEG, stack) => FramesOf(stack, sp, other) = FramesOf(stack, sp, ip)
  BY DEF FramesOf, FrameAt, Active

\* The kinds of evaluation under way are the markers on the stack.
LEMMA KindsAre ==
  ASSUME NEW stack \in Seq(Addresses), NEW sp \in Places, NEW ip \in Places
  PROVE  /\ "SOLVE" \in Abstract!Kinds(FramesOf(stack, sp, ip)) => Active(SOLVE, stack)
         /\ "INTEG" \in Abstract!Kinds(FramesOf(stack, sp, ip)) => Active(INTEG, stack)
  <1>1. \A i \in DOMAIN stack : /\ FrameAt(stack[i], sp, ip).kind = "SOLVE" => stack[i] = SOLVE
                                /\ FrameAt(stack[i], sp, ip).kind = "INTEG" => stack[i] = INTEG
    <2> SUFFICES ASSUME NEW i \in DOMAIN stack
                 PROVE  /\ FrameAt(stack[i], sp, ip).kind = "SOLVE" => stack[i] = SOLVE
                        /\ FrameAt(stack[i], sp, ip).kind = "INTEG" => stack[i] = INTEG
      OBVIOUS
    <2>1. stack[i] \in Places \cup {SOLVE, INTEG}
      BY LenProperties, ElementOfSeq DEF Addresses, Markers
    <2> QED  BY <2>1, FrameIs
  <1> QED  BY <1>1 DEF Abstract!Kinds, FramesOf, Active

-----------------------------------------------------------------------------
(***************************************************************************)
(* Every step is a step of CallStack, or changes nothing there.             *)
(***************************************************************************)

\* The frames of a good state.
LEMMA FramesGood ==
  ASSUME IInv
  PROVE  /\ rtns \in Seq(Addresses) /\ Len(rtns) \in Nat /\ DOMAIN rtns = 1 .. Len(rtns)
         /\ here \in Places /\ solve.prev \in Places /\ integ.prev \in Places
         /\ frames \in Seq(AFrame) /\ Len(frames) = Len(rtns)
         /\ DOMAIN frames = 1 .. Len(rtns)
         /\ \A i \in 1 .. Len(rtns) : frames[i] = FrameAt(rtns[i], solve.prev, integ.prev)
  <1>1. /\ rtns \in Seq(Addresses) /\ Len(rtns) \in Nat /\ DOMAIN rtns = 1 .. Len(rtns)
        /\ here \in Places /\ solve.prev \in Places /\ integ.prev \in Places
    BY IInvIs, LenProperties DEF GoodStack, RecordType
  <1> QED  BY <1>1, FramesSeq, FramesAre

\* A state with the same stack, and the same record for each marker in it, has
\* the same frames.
LEMMA SameFrames ==
  ASSUME IInv, UNCHANGED rtns,
         solve'.prev = solve.prev \/ ~ Active(SOLVE, rtns),
         integ'.prev = integ.prev \/ ~ Active(INTEG, rtns)
  PROVE  frames' = frames
  BY FramesAre, FramesUnmarked

\* The stack is forgotten.
LEMMA ClearStep ==
  ASSUME IInv, Sound, rtns' = << >>
  PROVE  Abstract!Clear
  <1>1. solve'.prev \in Places /\ integ'.prev \in Places /\ here' \in Places
    BY DEF Sound, RecordType
  <1>2. frames' = << >>
    BY <1>1, FramesAre, FramesEmpty
  <1> QED  BY <1>1, <1>2 DEF Abstract!Clear

\* XEQ enters a call.
LEMMA XeqStep ==
  ASSUME IInv, NEW go \in BOOLEAN, Xeq(go)
  PROVE  Abstract!Call
  <1>1. /\ GoodStack(rtns) /\ here \in Places /\ here \in Addresses
        /\ solve.prev \in Places /\ integ.prev \in Places
    BY IInvIs DEF RecordType, Addresses
  <1>2. frames' = FramesOf(push_rtn_addr(rtns, here), solve.prev, integ.prev)
    BY FramesAre DEF Xeq
  <1>3. FrameAt(here, solve.prev, integ.prev) = [kind |-> "CALL", back |-> here]
    BY <1>1, FrameIs
  <1>4. frames' = Abstract!Limited(Append(frames, [kind |-> "CALL", back |-> here]))
    BY <1>1, <1>2, <1>3, FramesPush, FramesAre
  <1> QED  BY <1>4 DEF Xeq, Abstract!Call, Abstract!Entered

\* Popping an address and pushing the same again changes nothing.
LEMMA PushBack ==
  ASSUME NEW stack, GoodStack(stack), NEW n \in 0 .. Len(stack) - 1,
         NEW base, base = SubSeq(stack, 1, n), NEW a, a = stack[n + 1]
  PROVE  push_rtn_addr(base, a) = SubSeq(stack, 1, n + 1)
  <1>1. /\ stack \in Seq(Addresses) /\ Len(stack) \in Nat /\ Len(stack) <= MAX_RTNS
        /\ MAX_RTNS \in Nat
    BY LenProperties, SolveIntegAssumption DEF GoodStack
  <1>2. n \in Nat /\ n + 1 \in 1 .. Len(stack) /\ n < MAX_RTNS /\ (n + 1) - 1 = n
    BY <1>1
  <1>3. Len(base) = n
    BY <1>2, PrefixGood
  <1>4. push_rtn_addr(base, a) = Append(base, a)
    BY <1>1, <1>2, <1>3 DEF push_rtn_addr
  <1>5. base \in Seq(Addresses) /\ a \in Addresses
    BY <1>1, <1>2, PrefixGood, ElementOfSeq DEF GoodStack
  <1>6. SubSeq(stack, 1, n + 1) = Append(base, a)
    <2> DEFINE s == SubSeq(stack, 1, n + 1)
               t == Append(base, a)
    <2>1. /\ s \in Seq(Addresses) /\ Len(s) = n + 1
          /\ \A i \in 1 .. n + 1 : s[i] = stack[i]
      BY <1>2, PrefixGood DEF GoodStack
    <2>2. /\ t \in Seq(Addresses) /\ Len(t) = n + 1
          /\ \A i \in 1 .. n : t[i] = base[i]
          /\ t[n + 1] = a
      BY <1>3, <1>5, AppendProperties
    <2>3. \A i \in 1 .. n : base[i] = stack[i]
      BY <1>2, PrefixGood
    <2> HIDE DEF s, t
    <2>4. \A i \in 1 .. n + 1 : s[i] = t[i]
      <3> SUFFICES ASSUME NEW i \in 1 .. n + 1 PROVE s[i] = t[i]
        OBVIOUS
      <3>1. CASE i = n + 1
        BY <1>2, <2>1, <2>2, <3>1
      <3>2. CASE i # n + 1
        <4>1. i \in 1 .. n
          BY <1>2, <3>2
        <4> QED  BY <2>1, <2>2, <2>3, <4>1
      <3> QED  BY <3>1, <3>2
    <2>5. s = t
      BY <2>1, <2>2, <2>4, SeqEqual
    <2> QED  BY <2>5 DEF s, t
  <1> QED  BY <1>4, <1>6

\* RTN is a return, or one more evaluation of the innermost function.
LEMMA RtnStep ==
  ASSUME IInv, NEW go \in BOOLEAN, Rtn(go)
  PROVE  Abstract!Return \/ Abstract!Iterate
  <1> DEFINE n == Len(rtns)
             top == Last(rtns)
             stack == Front(rtns)
  <1>1. /\ GoodStack(rtns) /\ rtns # << >> /\ rtns \in Seq(Addresses) /\ n \in Nat \ {0}
        /\ top = rtns[n] /\ stack = SubSeq(rtns, 1, n - 1)
    BY IInvIs, EmptySeq DEF Rtn, GoodStack, Last, Front
  <1>2. /\ frames \in Seq(AFrame) /\ Len(frames) = n /\ frames # << >>
        /\ frames[n] = FrameAt(top, solve.prev, integ.prev)
        /\ solve.prev \in Places /\ integ.prev \in Places /\ here \in Places
    BY <1>1, FramesGood, EmptySeq
  <1>3. FramesOf(stack, solve.prev, integ.prev) = SubSeq(frames, 1, n - 1)
    <2>1. n - 1 \in 0 .. Len(rtns)
      BY <1>1
    <2>2. FramesOf(SubSeq(rtns, 1, n - 1), solve.prev, integ.prev)
             = SubSeq(FramesOf(rtns, solve.prev, integ.prev), 1, n - 1)
      BY <1>1, <1>2, <2>1, FramesPrefix
    <2> QED  BY <1>1, <2>2, FramesAre
  <1>4. Abstract!Front(frames) = SubSeq(frames, 1, n - 1) /\ Abstract!Last(frames) = frames[n]
    BY <1>2 DEF Abstract!Front, Abstract!Last
  <1>5. push_rtn_addr(stack, top) = rtns
    <2>1. n - 1 \in 0 .. Len(rtns) - 1 /\ (n - 1) + 1 = n
      BY <1>1
    <2>2. push_rtn_addr(stack, top) = SubSeq(rtns, 1, (n - 1) + 1)
      BY <1>1, <2>1, PushBack
    <2>3. SubSeq(rtns, 1, n) = rtns
      BY <1>1, SubSeqFull
    <2> QED  BY <2>1, <2>2, <2>3
  <1> HIDE DEF n, top, stack
  <1>6. CASE top \in Places /\ rtns' = stack /\ here' = top /\ UNCHANGED <<running, solve, integ>>
    <2>1. frames' = SubSeq(frames, 1, n - 1)
      BY <1>3, <1>6, FramesAre
    <2>2. frames[n].back = top
      BY <1>2, <1>6, FrameIs
    <2> QED  BY <1>2, <1>4, <1>6, <2>1, <2>2 DEF Abstract!Return
  <1>7. CASE /\ top = SOLVE /\ UNCHANGED integ
             /\ return_to_solve(stack, go, TRUE) \/ (solve_error(stack, TRUE) /\ Stopped(go))
    <2>1. frames[n] = [kind |-> "SOLVE", back |-> solve.prev]
      BY <1>2, <1>7, FrameIs
    <2>2. solve'.prev = solve.prev
      BY <1>7, IInvIs DEF return_to_solve, solve_error, RecordType
    <2>3. CASE rtns' = stack /\ finish(solve, go)
      <3>1. frames' = SubSeq(frames, 1, n - 1) /\ here' = solve.prev
        BY <1>3, <1>7, <2>2, <2>3, FramesAre DEF finish
      <3> QED  BY <1>2, <1>4, <2>1, <3>1 DEF Abstract!Return
    <2>4. CASE rtns' \in {stack, push_rtn_addr(stack, SOLVE)} /\ here' \in Places
      <3>1. frames' \in {frames, SubSeq(frames, 1, n - 1)}
        BY <1>3, <1>5, <1>7, <2>2, <2>4, FramesAre
      <3> QED  BY <1>2, <1>4, <2>1, <2>4, <3>1 DEF Abstract!Iterate, Abstract!Evaluators
    <2> QED  BY <1>2, <1>7, <2>3, <2>4 DEF return_to_solve, solve_error, call_solve_fn
  <1>8. CASE /\ top = INTEG /\ UNCHANGED solve
             /\ return_to_integ(stack, go) \/ (integ_error(stack) /\ Stopped(go))
    <2>1. frames[n] = [kind |-> "INTEG", back |-> integ.prev]
      BY <1>2, <1>8, FrameIs
    <2>2. integ'.prev = integ.prev
      BY <1>8, IInvIs DEF return_to_integ, integ_error, RecordType
    <2>3. CASE rtns' = stack /\ finish(integ, go)
      <3>1. frames' = SubSeq(frames, 1, n - 1) /\ here' = integ.prev
        BY <1>3, <1>8, <2>2, <2>3, FramesAre DEF finish
      <3> QED  BY <1>2, <1>4, <2>1, <3>1 DEF Abstract!Return
    <2>4. CASE rtns' \in {stack, push_rtn_addr(stack, INTEG)} /\ here' \in Places
      <3>1. frames' \in {frames, SubSeq(frames, 1, n - 1)}
        BY <1>3, <1>5, <1>8, <2>2, <2>4, FramesAre
      <3> QED  BY <1>2, <1>4, <2>1, <2>4, <3>1 DEF Abstract!Iterate, Abstract!Evaluators
    <2> QED  BY <1>2, <1>8, <2>3, <2>4 DEF return_to_integ, integ_error, call_integ_fn
  <1> QED  BY <1>6, <1>7, <1>8 DEF Rtn, top, stack

\* A push on the empty stack.
LEMMA PushAlone ==
  ASSUME NEW a \in Addresses, NEW sp \in Places, NEW ip \in Places
  PROVE  FramesOf(push_rtn_addr(<< >>, a), sp, ip) = <<FrameAt(a, sp, ip)>>
  <1>1. Len(<< >>) = 0 /\ 0 # MAX_RTNS /\ Append(<< >>, a) = <<a>>
    BY SolveIntegAssumption
  <1>2. push_rtn_addr(<< >>, a) = <<a>>
    BY <1>1 DEF push_rtn_addr
  <1> DEFINE s == <<a>>
             f == FramesOf(s, sp, ip)
             e == FrameAt(a, sp, ip)
  <1>3. s \in Seq(Addresses) /\ Len(s) = 1 /\ s[1] = a
    OBVIOUS
  <1> HIDE DEF s
  <1>4. f \in Seq(AFrame) /\ Len(f) = 1 /\ f[1] = e
    BY <1>3, FramesSeq
  <1> HIDE DEF f, e
  <1>5. f = <<e>>
    BY <1>4
  <1> QED  BY <1>2, <1>5 DEF f, e, s

\* An error ends the calls of the active SOLVE, or changes nothing.
LEMMA FailStep ==
  ASSUME IInv, Sound, NEW go \in BOOLEAN, Fail(go)
  PROVE  Abstract!Move \/ Abstract!Trap \/ Abstract!Clear
  <1>1. CASE Stopped(go) /\ UNCHANGED <<rtns, here, solve, integ>>
    BY <1>1, SameFrames, IInvIs DEF Abstract!Move
  <1>2. CASE /\ Active(SOLVE, rtns) /\ UNCHANGED integ
             /\ \/ return_to_solve(unwind_stack_until_solve(rtns), go, go)
                \/ solve_error(unwind_stack_until_solve(rtns), go) /\ running' = FALSE
    <2> DEFINE at == CHOOSE i \in DOMAIN rtns : rtns[i] = SOLVE
               stack == SubSeq(rtns, 1, at - 1)
    <2>1. /\ GoodStack(rtns) /\ rtns \in Seq(Addresses) /\ Len(rtns) \in Nat
          /\ solve.prev \in Places /\ integ.prev \in Places /\ here \in Places
          /\ here' \in Places /\ SOLVE \in Addresses
      BY FramesGood, IInvIs DEF Sound, Addresses, Markers
    <2>2. at \in DOMAIN rtns /\ rtns[at] = SOLVE
      BY <1>2 DEF Active
    <2>3. unwind_stack_until_solve(rtns) = stack
      BY DEF unwind_stack_until_solve
    <2> HIDE DEF at
    <2>4. /\ at \in 1 .. Len(rtns) /\ at \in DOMAIN frames
          /\ frames[at] = [kind |-> "SOLVE", back |-> solve.prev]
      BY <2>1, <2>2, FramesGood, FrameIs
    <2>5. at \in 0 .. Len(rtns) /\ at - 1 \in 0 .. Len(rtns) - 1 /\ at - 1 \in 0 .. Len(rtns)
          /\ (at - 1) + 1 = at
      BY <2>1, <2>4
    <2>6. /\ FramesOf(stack, solve.prev, integ.prev) = SubSeq(frames, 1, at - 1)
          /\ FramesOf(SubSeq(rtns, 1, at), solve.prev, integ.prev) = SubSeq(frames, 1, at)
      <3>1. FramesOf(SubSeq(rtns, 1, at - 1), solve.prev, integ.prev)
               = SubSeq(FramesOf(rtns, solve.prev, integ.prev), 1, at - 1)
        BY <2>1, <2>5, FramesPrefix
      <3>2. FramesOf(SubSeq(rtns, 1, at), solve.prev, integ.prev)
               = SubSeq(FramesOf(rtns, solve.prev, integ.prev), 1, at)
        BY <2>1, <2>5, FramesPrefix
      <3> QED  BY <3>1, <3>2, FramesAre
    <2>7. push_rtn_addr(stack, SOLVE) = SubSeq(rtns, 1, at)
      <3>1. rtns[(at - 1) + 1] = SOLVE
        BY <2>2, <2>5
      <3>2. push_rtn_addr(stack, SOLVE) = SubSeq(rtns, 1, (at - 1) + 1)
        BY <2>1, <2>5, <3>1, PushBack
      <3> QED  BY <2>5, <3>2
    <2>8. FramesOf(push_rtn_addr(<< >>, SOLVE), solve.prev, integ.prev) = <<frames[at]>>
      BY <2>1, <2>4, PushAlone, FrameIs
    <2>9. solve'.prev = solve.prev
      BY <1>2, IInvIs DEF return_to_solve, solve_error, RecordType
    <2>10. frames' = FramesOf(rtns', solve.prev, integ.prev)
      BY <1>2, <2>9, FramesAre
    <2> HIDE DEF stack
    <2>11. CASE rtns' = stack /\ finish(solve, go)
      <3>1. frames' = SubSeq(frames, 1, at - 1) /\ here' = frames[at].back
        BY <2>4, <2>6, <2>10, <2>11 DEF finish
      <3> QED  BY <2>4, <3>1 DEF Abstract!Trap
    <2>12. CASE rtns' = << >>
      BY <2>12, ClearStep
    <2>13. CASE rtns' = stack
      <3>1. frames' = SubSeq(frames, 1, at - 1)
        BY <2>6, <2>10, <2>13
      <3> QED  BY <2>1, <2>4, <3>1 DEF Abstract!Trap
    <2>14. CASE rtns' = call_solve_fn(stack, go)
      <3>1. frames' \in {SubSeq(frames, 1, at), <<frames[at]>>}
        BY <2>6, <2>7, <2>8, <2>10, <2>14 DEF call_solve_fn
      <3> QED  BY <2>1, <2>4, <3>1 DEF Abstract!Trap
    <2> QED  BY <1>2, <2>3, <2>11, <2>12, <2>13, <2>14 DEF return_to_solve, solve_error
  <1> QED  BY <1>1, <1>2 DEF Fail

\* A SOLVE or INTEG line starts an evaluation, or changes nothing.
LEMMA LineStep ==
  ASSUME IInv, NEW go \in BOOLEAN, SolveLine(go) \/ IntegLine(go)
  PROVE  Abstract!Move \/ \E kind \in Abstract!Evaluators : Abstract!Evaluate(kind)
  <1>1. /\ GoodStack(rtns) /\ rtns \in Seq(Addresses)
        /\ solve.prev \in Places /\ integ.prev \in Places /\ here \in Places
        /\ SOLVE \in Addresses /\ INTEG \in Addresses
    BY FramesGood, IInvIs DEF Addresses, Markers
  <1>2. CASE SolveLine(go)
    <2>1. ~ Active(SOLVE, rtns) /\ UNCHANGED integ
      BY <1>2 DEF SolveLine, CanStart
    <2>2. CASE UNCHANGED <<rtns, here>>
      BY <1>1, <2>1, <2>2, SameFrames DEF Abstract!Move
    <2>3. CASE rtns' = call_solve_fn(rtns, TRUE) /\ here' \in Places /\ solve' = Started(TRUE)
      <3>1. frames' = FramesOf(push_rtn_addr(rtns, SOLVE), here, integ.prev)
        BY <2>1, <2>3, FramesAre DEF call_solve_fn, Started
      <3>2. FrameAt(SOLVE, here, integ.prev) = [kind |-> "SOLVE", back |-> here]
        BY <1>1, FrameIs
      <3>3. FramesOf(rtns, here, integ.prev) = frames
        BY <2>1, FramesUnmarked, FramesAre
      <3>4. frames' = Abstract!Limited(Append(frames, [kind |-> "SOLVE", back |-> here]))
        BY <1>1, <3>1, <3>2, <3>3, FramesPush
      <3>5. "SOLVE" \notin Abstract!Kinds(frames)
        BY <1>1, <2>1, KindsAre, FramesAre
      <3> QED  BY <2>3, <3>4, <3>5 DEF Abstract!Evaluate, Abstract!Entered, Abstract!Evaluators
    <2> QED  BY <1>2, <2>2, <2>3 DEF SolveLine
  <1>3. CASE IntegLine(go)
    <2>1. ~ Active(INTEG, rtns) /\ UNCHANGED solve /\ integ' = Started(TRUE)
      BY <1>3 DEF IntegLine, CanStart
    <2>2. CASE UNCHANGED <<rtns, here>>
      BY <1>1, <2>1, <2>2, SameFrames DEF Abstract!Move
    <2>3. CASE rtns' = call_integ_fn(rtns, TRUE) /\ here' \in Places
      <3>1. frames' = FramesOf(push_rtn_addr(rtns, INTEG), solve.prev, here)
        BY <2>1, <2>3, FramesAre DEF call_integ_fn, Started
      <3>2. FrameAt(INTEG, solve.prev, here) = [kind |-> "INTEG", back |-> here]
        BY <1>1, FrameIs
      <3>3. FramesOf(rtns, solve.prev, here) = frames
        BY <2>1, FramesUnmarked, FramesAre
      <3>4. frames' = Abstract!Limited(Append(frames, [kind |-> "INTEG", back |-> here]))
        BY <1>1, <3>1, <3>2, <3>3, FramesPush
      <3>5. "INTEG" \notin Abstract!Kinds(frames)
        BY <1>1, <2>1, KindsAre, FramesAre
      <3> QED  BY <2>3, <3>4, <3>5 DEF Abstract!Evaluate, Abstract!Entered, Abstract!Evaluators
    <2> QED  BY <1>3, <2>2, <2>3 DEF IntegLine
  <1> QED  BY <1>2, <1>3

\* SOLVE or INTEG from the keyboard begins anew.
LEMMA KeyStep ==
  ASSUME IInv, Sound, SolveKey \/ IntegKey
  PROVE  Abstract!Clear \/ \E kind \in Abstract!Evaluators : Abstract!Begin(kind)
  <1>1. /\ solve.prev \in Places /\ integ.prev \in Places /\ here \in Places
        /\ SOLVE \in Addresses /\ INTEG \in Addresses /\ here' \in Places
    BY FramesGood DEF Sound, Addresses, Markers
  <1>2. CASE rtns' = << >>
    BY <1>2, ClearStep
  <1>3. CASE rtns' = call_solve_fn(<< >>, FALSE) /\ solve' = Started(FALSE) /\ UNCHANGED integ
    <2>1. frames' = FramesOf(push_rtn_addr(<< >>, SOLVE), here, integ.prev)
      BY <1>3, FramesAre DEF call_solve_fn, Started
    <2>2. frames' = <<[kind |-> "SOLVE", back |-> here]>>
      BY <1>1, <2>1, PushAlone, FrameIs
    <2> QED  BY <1>1, <2>2 DEF Abstract!Begin, Abstract!Evaluators
  <1>4. CASE rtns' = call_integ_fn(<< >>, FALSE) /\ integ' = Started(FALSE) /\ UNCHANGED solve
    <2>1. frames' = FramesOf(push_rtn_addr(<< >>, INTEG), solve.prev, here)
      BY <1>4, FramesAre DEF call_integ_fn, Started
    <2>2. frames' = <<[kind |-> "INTEG", back |-> here]>>
      BY <1>1, <2>1, PushAlone, FrameIs
    <2> QED  BY <1>1, <2>2 DEF Abstract!Begin, Abstract!Evaluators
  <1> QED  BY <1>2, <1>3, <1>4 DEF SolveKey, IntegKey

\* A power cycle keeps the frames, or forgets them.
LEMMA PowerCycleStep ==
  ASSUME IInv, Sound, PowerCycle
  PROVE  Abstract!Move \/ Abstract!Clear
  <1>1. PICK file \in StateFiles :
           /\ rtns' = SavedReturns(file)
           /\ solve' = unpersist_math(solve, file)
           /\ integ' = unpersist_math(integ, file)
           /\ UNCHANGED here
    BY DEF PowerCycle
  <1>2. solve'.prev = solve.prev /\ integ'.prev = integ.prev
    BY <1>1, IInvIs DEF unpersist_math, RecordType
  <1>3. CASE UNCHANGED rtns
    BY <1>1, <1>2, <1>3, SameFrames, IInvIs DEF Abstract!Move
  <1>4. CASE rtns' = << >>
    BY <1>4, ClearStep
  <1> QED  BY <1>1, <1>3, <1>4 DEF SavedReturns

\* Every step of the program is one of the nested calls.
LEMMA NextStep ==
  ASSUME IInv, Next
  PROVE  Abstract!Next
  <1>1. Sound
    BY NextSound
  <1>2. CASE UNCHANGED <<rtns, solve, integ>> /\ here' \in Places
    <2>1. frames' = frames
      BY <1>2, SameFrames
    <2> QED  BY <1>2, <2>1 DEF Abstract!Next, Abstract!Move
  <1>3. ASSUME NEW go \in BOOLEAN, Gto(go) PROVE Abstract!Next
    BY <1>2, <1>3 DEF Gto
  <1>4. ASSUME NEW go \in BOOLEAN, Xeq(go) PROVE Abstract!Next
    BY <1>4, XeqStep DEF Abstract!Next
  <1>5. ASSUME NEW go \in BOOLEAN, Rtn(go) PROVE Abstract!Next
    BY <1>5, RtnStep DEF Abstract!Next
  <1>6. ASSUME NEW go \in BOOLEAN, Fail(go) PROVE Abstract!Next
    BY <1>1, <1>6, FailStep DEF Abstract!Next
  <1>7. ASSUME NEW go \in BOOLEAN, SolveLine(go) \/ IntegLine(go) PROVE Abstract!Next
    BY <1>7, LineStep DEF Abstract!Next
  <1>8. CASE RtnStops \/ RunStop
    <2>1. UNCHANGED <<rtns, solve, integ>> /\ here' \in Places
      BY <1>8, IInvIs DEF RtnStops, RunStop
    <2> QED  BY <1>2, <2>1
  <1>9. CASE SolveKey \/ IntegKey
    BY <1>1, <1>9, KeyStep DEF Abstract!Next
  <1>10. CASE XeqKey \/ ClearProgram
    <2>1. rtns' = << >>
      BY <1>10 DEF XeqKey, ClearProgram
    <2> QED  BY <1>1, <2>1, ClearStep DEF Abstract!Next
  <1>11. CASE PowerCycle
    BY <1>1, <1>11, PowerCycleStep DEF Abstract!Next
  <1> QED  BY <1>3, <1>4, <1>5, <1>6, <1>7, <1>8, <1>9, <1>10, <1>11 DEF Next

\* A program that uses XEQ, SOLVE and INTEG, nested in any way, sees calls that
\* come back to where they were executed: the markers on the return stack with
\* the two records are as good as a stack of frames (core_math1.cc,
\* core_globals.cc, handle_error).
THEOREM CallsNest == Spec => ImplementsCallStack
  <1>1. Init => Abstract!Init
    <2> SUFFICES ASSUME Init PROVE Abstract!Init
      OBVIOUS
    <2>1. rtns = << >> /\ here \in Places /\ solve.prev \in Places /\ integ.prev \in Places
      BY DEF Init, Idle
    <2>2. frames = << >>
      BY <2>1, FramesAre, FramesEmpty
    <2> QED  BY <2>1, <2>2 DEF Abstract!Init
  <1>2. IInv /\ [Next]_vars => [Abstract!Next]_(Abstract!vars)
    <2> SUFFICES ASSUME IInv, [Next]_vars PROVE [Abstract!Next]_(Abstract!vars)
      OBVIOUS
    <2>1. CASE Next
      BY <2>1, NextStep
    <2>2. CASE UNCHANGED vars
      <3>1. frames' = frames
        BY <2>2, SameFrames DEF vars
      <3> QED  BY <2>2, <3>1 DEF vars, Abstract!vars
    <2> QED  BY <2>1, <2>2
  <1> QED  BY Inductive, <1>1, <1>2, PTL DEF Spec, ImplementsCallStack, Abstract!Spec

=============================================================================
