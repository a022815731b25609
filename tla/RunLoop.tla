------------------------------- MODULE RunLoop -------------------------------
(***************************************************************************)
(* The event loop of the GTK shell (gtk/shell_main.cc) driving the core of *)
(* KeyboardCore: keystrokes, the idle callback ("reminder") that keeps a   *)
(* program going, and the three timers.  Every callback of the main loop   *)
(* is one action; the user may do anything between two of them.            *)
(***************************************************************************)
EXTENDS KeyboardCore

CONSTANTS
    Keys,           \* keys the user has, a subset of KeyNames
    MaxKeys         \* bound: keystrokes the user makes

ASSUME RunLoopAssumption == Keys \subseteq KeyNames /\ MaxKeys \in Nat

VARIABLES
    core,           \* the core, see KeyboardCore
    held,           \* ckey: the key held down, NoKey for 0
    enqueued,       \* the variable of the shell core_keydown() sets
    timer,          \* which callback timeout_id stands for
    reminder,       \* reminder_id # 0
    typed,          \* serial number of the last keystroke
    boot,           \* typed at the last power-up
    nulled          \* serial number of the last key shown as NULL

shell == <<held, enqueued, timer, reminder>>
vars == <<core, held, enqueued, timer, reminder, typed, boot, nulled>>

Serials == 0 .. MaxKeys

Off == [running |-> FALSE, getkey |-> FALSE, pause |-> FALSE, work |-> 0,
        stoppable |-> FALSE, pending |-> "NONE", shift |-> FALSE,
        repeating |-> FALSE, rkey |-> NoStroke, buf |-> << >>, fresh |-> TRUE,
        timer3 |-> FALSE, quit |-> FALSE, handled |-> 0, ran |-> 0]

Init ==
    /\ core \in {core_powercycle(Off, auto_exec) : auto_exec \in BOOLEAN}
    /\ held = NoKey /\ enqueued = FALSE /\ timer = "none"
    /\ reminder = core.running
    /\ typed = 0 /\ boot = 0 /\ nulled = 0

Alive == ~core.quit

-----------------------------------------------------------------------------
\* Keystrokes.  A keymap entry gives one key or a shifted key (a macro).

Strokes == {<<key>> : key \in Keys}
           \cup (IF "SHIFT" \in Keys THEN {<<"SHIFT", key>> : key \in Keys \ {"SHIFT"}} ELSE {})

\* Any key but a bare SHIFT puts an end to what timer 3 was waiting for.
TimerCancelled(stroke) ==
    IF core.timer3 /\ stroke # <<"SHIFT">>
    THEN [core_timeout3(core, FALSE).core EXCEPT !.timer3 = FALSE]
    ELSE core

\* The calls shell_keydown() makes for the keys of a stroke.
Keydowns(stroke) ==
    LET n == typed + 1
        c == TimerCancelled(stroke)
        afterShift == UNION {core_keyup(r.core) : r \in core_keydown(c, "SHIFT", n)}
    IN  IF Len(stroke) = 1 THEN core_keydown(c, stroke[1], n)
        ELSE UNION {core_keydown(u.core, stroke[2], n) : u \in afterShift}

Press(stroke) ==
    /\ Alive /\ held = NoKey /\ typed < MaxKeys
    /\ \E r \in Keydowns(stroke) :
          /\ core' = r.core
          /\ enqueued' = r.enqueued
          /\ reminder' = r.again
          /\ timer' = CASE r.again -> "none"
                        [] ~r.again /\ r.repeat -> "repeat"
                        [] ~r.again /\ ~r.repeat /\ ~r.enqueued -> "timeout1"
                        [] ~r.again /\ ~r.repeat /\ r.enqueued -> "none"
    /\ held' = stroke[Len(stroke)]
    /\ typed' = typed + 1
    /\ UNCHANGED <<boot, nulled>>

Release ==
    /\ Alive /\ held # NoKey
    /\ held' = NoKey /\ timer' = "none"
    /\ IF enqueued THEN UNCHANGED <<core, reminder>>
       ELSE \E u \in core_keyup(core) : core' = u.core /\ reminder' = u.again
    /\ UNCHANGED <<enqueued, typed, boot, nulled>>

-----------------------------------------------------------------------------
\* Callbacks of the main loop.

Reminder ==
    /\ Alive /\ reminder
    /\ \E r \in core_keydown(core, NoKey, 0) : core' = r.core /\ reminder' = r.again
    /\ UNCHANGED <<held, enqueued, timer, typed, boot, nulled>>

Repeater ==
    /\ Alive /\ timer = "repeat"
    /\ \E r \in core_repeat(core) :
          /\ core' = r.core
          /\ timer' = IF r.repeat THEN "repeat" ELSE "timeout1"
    /\ UNCHANGED <<held, enqueued, reminder, typed, boot, nulled>>

\* core_keytimeout1() only shows the name of the command.
Timeout1 ==
    /\ Alive /\ timer = "timeout1"
    /\ timer' = IF held # NoKey THEN "timeout2" ELSE "none"
    /\ UNCHANGED <<core, held, enqueued, reminder, typed, boot, nulled>>

Timeout2 ==
    /\ Alive /\ timer = "timeout2"
    /\ timer' = "none"
    /\ IF held = NoKey THEN UNCHANGED <<core, nulled>>
       ELSE \E t \in core_keytimeout2(core) :
                core' = t.core /\ nulled' = IF t.null THEN typed ELSE nulled
    /\ UNCHANGED <<held, enqueued, reminder, typed, boot>>

Timeout3 ==
    /\ Alive /\ core.timer3
    /\ LET u == core_timeout3(core, TRUE)
       IN  /\ core' = [u.core EXCEPT !.timer3 = FALSE]
           /\ reminder' = (reminder \/ u.again)
           /\ timer' = IF u.again THEN "none" ELSE timer
    /\ UNCHANGED <<held, enqueued, typed, boot, nulled>>

-----------------------------------------------------------------------------
\* Menu commands of the window, and the process that follows quit().

ImportPrograms ==
    /\ Alive /\ held = NoKey
    /\ core' = core_import_programs(core)
    /\ UNCHANGED <<shell, typed, boot, nulled>>

\* quit() saves the state and ends the process; the next one loads it, and
\* main() calls core_powercycle().
NewProcess ==
    /\ \E auto_exec \in BOOLEAN : core' = core_powercycle(core, auto_exec)
    /\ held' = NoKey /\ enqueued' = FALSE /\ timer' = "none"
    /\ reminder' = core'.running
    /\ boot' = typed
    /\ UNCHANGED <<typed, nulled>>

Restart == core.quit /\ NewProcess          \* quit_flag was set
CloseWindow == Alive /\ NewProcess

Callbacks == Reminder \/ Repeater \/ Timeout1 \/ Timeout2 \/ Timeout3
User == (\E stroke \in Strokes : Press(stroke)) \/ Release \/ ImportPrograms \/ CloseWindow

Next == Callbacks \/ User \/ Restart

Spec == Init /\ [][Next]_vars

\* The main loop runs every source that is ready, and a key is not held for ever.
Fairness ==
    /\ WF_vars(Reminder) /\ WF_vars(Timeout3) /\ WF_vars(Repeater)
    /\ WF_vars(Timeout1) /\ WF_vars(Timeout2)
    /\ WF_vars(Release) /\ WF_vars(Restart)

FairSpec == Spec /\ Fairness

=============================================================================
