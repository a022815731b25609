------------------------------ MODULE CallStack ------------------------------
(***************************************************************************)
(* What a user of programs may rely on: calls, SOLVE and INTEG nest, each  *)
(* comes back to where it was executed, and at most one SOLVE and one      *)
(* INTEG are under way.  A SOLVE or an INTEG is a frame like that of a     *)
(* call, except that returning to it may evaluate the function once more.  *)
(* The stack has a limited depth; the oldest frame is forgotten.           *)
(***************************************************************************)
EXTENDS Naturals, Sequences, SequencesExt

CONSTANTS
    MAX_RTNS,       \* depth of the return stack
    Places          \* lines a program can be at

VARIABLES
    frames,         \* what is under way, the innermost last
    here            \* the line to be executed next

vars == <<frames, here>>

Evaluators == {"SOLVE", "INTEG"}
Frame == [kind : {"CALL"} \cup Evaluators, back : Places]

Kinds(s) == {s[i].kind : i \in DOMAIN s}
Limited(s) == IF Len(s) > MAX_RTNS THEN Tail(s) ELSE s
Entered(kind) == Limited(Append(frames, [kind |-> kind, back |-> here]))

Init == frames = << >> /\ here \in Places

\* The line is given in a jump, or by the user; a call that makes room by
\* forgetting a SOLVE or an INTEG is an error, which stops the program.
Move == here' \in Places /\ UNCHANGED frames

Call ==
    /\ frames' = Entered("CALL")
    /\ here' \in Places

Evaluate(kind) ==
    /\ kind \notin Kinds(frames)
    /\ frames' = Entered(kind)
    /\ here' \in Places

\* Back to where the innermost frame was entered.
Return ==
    /\ frames # << >>
    /\ frames' = Front(frames)
    /\ here' = Last(frames).back

\* SOLVE and INTEG: the next evaluation, or none for want of memory or of the
\* program.
Iterate ==
    /\ frames # << >> /\ Last(frames).kind \in Evaluators
    /\ frames' \in {frames, Front(frames)}
    /\ here' \in Places

\* An error in the function of a SOLVE ends the calls it made, and only those:
\* SOLVE tries another value or gives a result.  While stepping through the
\* function the callers of SOLVE are forgotten, as they are by a GTO that the
\* user keys in.
Trap ==
    \E i \in DOMAIN frames :
        /\ frames[i].kind = "SOLVE"
        /\ \/ frames' \in {SubSeq(frames, 1, i), SubSeq(frames, 1, i - 1), <<frames[i]>>}
              /\ here' \in Places
           \/ frames' = SubSeq(frames, 1, i - 1) /\ here' = frames[i].back

Clear ==
    /\ frames' = << >>
    /\ here' \in Places

\* SOLVE or INTEG from the keyboard.
Begin(kind) ==
    /\ frames' = <<[kind |-> kind, back |-> here]>>
    /\ here' \in Places

Next ==
    \/ Move \/ Call \/ Return \/ Iterate \/ Trap \/ Clear
    \/ \E kind \in Evaluators : Evaluate(kind) \/ Begin(kind)

Spec == Init /\ [][Next]_vars

=============================================================================
