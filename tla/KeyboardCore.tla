---------------------------- MODULE KeyboardCore ----------------------------
(***************************************************************************)
(* The entry points of the emulator core that the shell calls for          *)
(* keystrokes and timers (common/core_main.cc), as operators on one record *)
(* that holds the mode variables of the core.  A call may have several     *)
(* outcomes, because what a command, a menu or a program line does is      *)
(* abstracted; each operator returns the set of its outcomes.              *)
(*                                                                         *)
(*  running, getkey, pause   mode_running, mode_getkey, mode_pause         *)
(*  work, stoppable          slices left of mode_interruptible (0: NULL),  *)
(*                           mode_stoppable                                *)
(*  pending                  pending_command; "CANCELLED" stands for NULL  *)
(*                           too, "COMMAND" for any other command          *)
(*  shift, repeating         mode_shift, repeating                         *)
(*  rkey                     the keystroke in repeating_key                *)
(*  buf                      keybuf, from keybuf_tail to keybuf_head       *)
(*  fresh                    no_keystrokes_yet                             *)
(*  timer3, quit             shell_request_timeout3(), shell_powerdown()   *)
(*  handled, ran             serial numbers (no variable of the program):  *)
(*                           the last keystroke keydown() was given, the   *)
(*                           last one whose command core_keyup() started   *)
(***************************************************************************)
EXTENDS Naturals, Sequences

CONSTANTS
    KEYBUF_SIZE,    \* slots of the ring keybuf (16 in the code); one stays free
    Commands,       \* what a command handler may do, see Handler
    MaxWork         \* slices of a long operation at most

ASSUME KeyboardCoreAssumption ==
    /\ KEYBUF_SIZE \in Nat \ {0, 1}
    /\ MaxWork \in Nat \ {0}
    /\ Commands \subseteq {"PLAIN", "FAIL", "STOP", "XEQ", "GETKEY", "PSE", "OFF", "LONG"}

NoKey == "NONE"
KeyNames == {"SHIFT", "EXIT", "RUN", "ARROW", "KEY"}
PendingCommands ==
    {"NONE", "CANCELLED", "LINGER1", "LINGER2", "SILENT_OFF", "RUN", "SST", "COMMAND"}

Stroke(serials) == [key : KeyNames, shift : BOOLEAN, n : serials]
NoStroke == [key |-> NoKey, shift |-> FALSE, n |-> 0]

CoreState(serials) ==
    [running : BOOLEAN, getkey : BOOLEAN, pause : BOOLEAN,
     work : 0 .. MaxWork, stoppable : BOOLEAN, pending : PendingCommands,
     shift : BOOLEAN, repeating : BOOLEAN, rkey : Stroke(serials) \cup {NoStroke},
     buf : Seq(Stroke(serials)), fresh : BOOLEAN, timer3 : BOOLEAN, quit : BOOLEAN,
     handled : serials, ran : serials]

Waiting(c)  == c.running /\ c.getkey            \* a program waits in GETKEY
Queued(c)   == c.buf # << >>
Advances(c) == c.running /\ ~c.getkey /\ ~c.pause

-----------------------------------------------------------------------------
\* Command handlers.

Result(c, error) == [core |-> c, error |-> error]

\* docmd_off() refuses when no key was pressed since power-up.
SuspiciousOff_Never(c) == FALSE
SuspiciousOff(c) == c.running /\ c.fresh

Handler(c, command) ==
    CASE command = "PLAIN"  -> {Result(c, "NONE")}
      [] command = "FAIL"   -> {Result(c, "FAIL")}
      [] command = "STOP"   -> {Result(c, "STOP")}
      [] command = "XEQ"    -> {Result(c, "RUN")}
      [] command = "GETKEY" -> {Result([c EXCEPT !.getkey = TRUE], "NONE")}
      [] command = "PSE"    -> {Result([c EXCEPT !.pause = @ \/ c.running], "NONE")}
      [] command = "OFF"    -> IF SuspiciousOff(c)
                               THEN {Result(c, "SUSPICIOUS_OFF")}
                               ELSE {Result([c EXCEPT !.running = FALSE, !.quit = TRUE], "NONE")}
      [] command = "LONG"   -> {Result([c EXCEPT !.work = op[1], !.stoppable = op[2]], "INTERRUPTIBLE") :
                                    op \in (1 .. MaxWork) \X BOOLEAN}

Handlers(c, commands) == UNION {Handler(c, command) : command \in commands}

\* Continue is the value returned: whether a running program may go on.
\* An error in a program is ignored (flag 25), or answered by the solver, or
\* stops the program.
Outcome(c, continue) == [core |-> c, continue |-> continue]

handle_error(c, error) ==
    IF c.running
    THEN CASE error \in {"NONE", "RUN"} -> {Outcome(c, TRUE)}
           [] error = "FAIL" -> {Outcome(c, TRUE), Outcome(c, FALSE),
                                 Outcome([c EXCEPT !.running = FALSE], FALSE)}
           [] error \in {"STOP", "SUSPICIOUS_OFF"} ->
                  {Outcome([c EXCEPT !.running = FALSE], FALSE)}
    ELSE {Outcome([c EXCEPT !.running = (error = "RUN" /\ c.pending # "SST")], FALSE)}

stop_interruptible_ProgramGoesOn(c) == [c EXCEPT !.work = 0, !.pending = "NONE"]
stop_interruptible(c) ==
    [c EXCEPT !.work = 0, !.running = FALSE, !.pending = "NONE"]

\* One visit: program lines are executed until the shell wants the CPU.  Lines
\* that change none of the modes are not distinguished; a line that does ends
\* the visit, or leaves the modes as they were (an ignored error).
continue_running(c) ==
    LET AfterLine(r) ==
            IF r.core.pause THEN {[r.core EXCEPT !.timer3 = TRUE]}
            ELSE IF r.error = "INTERRUPTIBLE" THEN {r.core}
            ELSE {o.core : o \in handle_error(r.core, r.error)}
    IN  {c, [c EXCEPT !.running = FALSE]}       \* preempted; END of the program
            \cup UNION {AfterLine(r) : r \in Handlers(c, Commands)}

-----------------------------------------------------------------------------
\* keydown(): what a key means when no program takes it.  Which of the results
\* it is depends on the menus and on the entry mode.

PendingOf(key, shift) ==
    CASE shift /\ key = "EXIT" -> {"SILENT_OFF", "CANCELLED"}
      [] shift /\ key = "RUN"  -> {"NONE", "CANCELLED"}
      [] ~shift /\ key = "RUN" -> {"RUN", "NONE", "CANCELLED"}
      [] key = "KEY"           -> {"NONE", "CANCELLED", "COMMAND", "SST", "LINGER1"}
      [] OTHER                 -> {"NONE", "CANCELLED"}

keydown(c, k) ==
    LET d == [c EXCEPT !.pending = "NONE", !.handled = k.n]
        stops == k.key = "EXIT" \/ (k.key = "RUN" /\ ~k.shift)
        e == IF k.key = "ARROW" THEN [d EXCEPT !.repeating = TRUE, !.rkey = k] ELSE d
    IN  IF c.getkey
        THEN {[d EXCEPT !.getkey = FALSE, !.running = r] :     \* FALSE: out of memory
                  r \in {FALSE} \cup (IF stops THEN {} ELSE {c.running})}
        ELSE {[e EXCEPT !.pending = p, !.timer3 = @ \/ p = "LINGER1"] :
                  p \in PendingOf(k.key, k.shift)}
             \cup (IF k.key = "RUN" \/ (k.shift /\ k.key # "KEY") THEN {}
                   ELSE {[e EXCEPT !.running = TRUE]})         \* programmable menu

\* core_keyup(): the command the key stands for is performed at its release.
Keyup(c, again) == [core |-> c, again |-> again]

StartPending(c, commands) ==
    LET c1 == [c EXCEPT !.ran = c.handled, !.running = @ \/ c.pending = "SST"]
        Returned(r) == [r.core EXCEPT !.pause = FALSE,
                                      !.running = @ /\ c.pending # "SST"]
        Finish(r) ==
            IF r.error = "INTERRUPTIBLE" THEN {Keyup(Returned(r), TRUE)}
            ELSE {Keyup([o.core EXCEPT !.pending = "NONE"], Advances(o.core) \/ Queued(o.core)) :
                      o \in handle_error(Returned(r), r.error)}
    IN  UNION {Finish(r) : r \in Handlers(c1, commands)}

core_keyup(c) ==
    LET done == [c EXCEPT !.pending = "NONE"]
    IN  CASE c.pause -> {Keyup(c, FALSE)}
          [] ~c.pause /\ c.pending \in {"LINGER1", "LINGER2"} ->
                 {Keyup([c EXCEPT !.pending = "LINGER2"], c.running \/ Queued(c))}
          [] ~c.pause /\ c.pending = "SILENT_OFF" ->
                 {Keyup([done EXCEPT !.quit = TRUE], FALSE)}
          [] ~c.pause /\ c.pending \in {"NONE", "CANCELLED"} ->
                 {Keyup(done, c.running \/ Queued(c))}
          [] ~c.pause /\ c.pending = "RUN" ->
                 {Keyup([done EXCEPT !.running = TRUE, !.ran = c.handled], TRUE),
                  Keyup(done, c.running \/ Queued(c))}         \* INPUT cannot be stored
          [] ~c.pause /\ c.pending = "SST" ->
                 StartPending(c, Commands) \cup {Keyup(done, c.running \/ Queued(c))}
          [] ~c.pause /\ c.pending = "COMMAND" ->
                 \* the command of a long operation under way is that operation
                 StartPending(c, IF c.work > 0 THEN {"LONG"} ELSE Commands)

-----------------------------------------------------------------------------
\* core_keydown(), case by case in the order of the code.  again is its result;
\* enqueued and repeat are the values it returns through its pointers.

Reply(c, again, enqueued, repeat) ==
    [core |-> c, again |-> again, enqueued |-> enqueued, repeat |-> repeat]

Unshifted(c) == [c EXCEPT !.shift = FALSE]

\* A keystroke for which there is no room is lost.
Enqueue(c, key, n) ==
    Unshifted(IF Len(c.buf) < KEYBUF_SIZE - 1
              THEN [c EXCEPT !.buf = Append(@, [key |-> key, shift |-> c.shift, n |-> n])]
              ELSE c)

WorkerReply(c, enqueued) == Reply(c, c.running \/ Queued(c), enqueued, FALSE)

\* A long operation is under way: one slice of it.
WorkerStep(c, enqueued) ==
    LET unfinished == {Reply([c EXCEPT !.work = @ - 1], TRUE, enqueued, FALSE)}
        d == [c EXCEPT !.work = 0]
        Finished(o) == IF d.running THEN [o.core EXCEPT !.running = @ /\ o.continue]
                                    ELSE [o.core EXCEPT !.pending = "NONE"]
    IN  IF c.work > 1 THEN unfinished
        ELSE {WorkerReply(Finished(o), enqueued) :
                  o \in UNION {handle_error(d, error) : error \in {"NONE", "FAIL"}}}

KeydownWorking(c, key, n) ==
    IF key = NoKey THEN WorkerStep(c, FALSE)
    ELSE IF key = "EXIT" \/ (c.stoppable /\ ~c.shift /\ key = "RUN")
    THEN {Reply(stop_interruptible([c EXCEPT !.buf = << >>]), FALSE, TRUE, FALSE)}
    ELSE WorkerStep(Enqueue(c, key, n), TRUE)

\* A program is running.
KeydownRunning(c, key, n) ==
    LET stopped == [c EXCEPT !.buf = << >>, !.running = FALSE]
        Run(d) == {Reply(e, Advances(e) \/ Queued(e), key # NoKey, FALSE) :
                       e \in continue_running(d)}
    IN  CASE key = NoKey -> Run(c)
          [] key = "EXIT" ->
                 {Reply([Unshifted(stopped) EXCEPT !.pending = "CANCELLED"], FALSE, FALSE, FALSE)}
          [] key = "RUN" /\ ~c.shift -> {Reply(stopped, FALSE, TRUE, FALSE)}
          [] OTHER -> Run(Enqueue(c, key, n))

\* A keystroke goes straight to keydown(), and its command waits for core_keyup().
KeydownDirect(c, key, n) ==
    {Reply([d EXCEPT !.repeating = FALSE], d.running /\ ~d.getkey, FALSE, d.repeating) :
        d \in keydown(Unshifted(c), [key |-> key, shift |-> c.shift, n |-> n])}

QueuedReply_ProgramOnly(c) == Reply(c, c.running /\ ~c.getkey, FALSE, FALSE)
QueuedReply(c) == Reply(c, (c.running /\ ~c.getkey) \/ Queued(c), FALSE, FALSE)

KeydownQueued_NewKeyFirst(c, key, n) ==
    IF key # NoKey THEN KeydownDirect(c, key, n) ELSE {QueuedReply(c)}
\* The oldest keystroke of the buffer is pressed and released; a new one joins
\* the buffer, but enqueued is not set.
KeydownQueued(c, key, n) ==
    LET released == UNION {core_keyup(d) : d \in
                               keydown([c EXCEPT !.buf = Tail(@)], Head(c.buf))}
    IN  {QueuedReply(IF key = NoKey THEN u.core ELSE Enqueue(u.core, key, n)) : u \in released}

core_keydown(c, key, n) ==
    LET c1 == [c EXCEPT !.fresh = @ /\ key = NoKey]
        c2 == [c1 EXCEPT !.pause = FALSE, !.running = @ /\ ~c1.pause]
    IN  CASE key = "SHIFT" ->
                 {Reply([c1 EXCEPT !.shift = ~@], Advances(c1) \/ Queued(c1), FALSE, FALSE)}
          [] c1.pause /\ ~c1.shift /\ key \in {"RUN", "EXIT"} ->
                 {Reply(c2, FALSE, FALSE, FALSE)}
          [] OTHER ->
                 IF c2.work > 0 THEN KeydownWorking(c2, key, n)
                 ELSE IF c2.running /\ ~c2.getkey THEN KeydownRunning(c2, key, n)
                 ELSE IF Queued(c2) THEN KeydownQueued(c2, key, n)
                 ELSE IF key # NoKey THEN KeydownDirect(c2, key, n)
                 ELSE {Reply(c2, FALSE, FALSE, FALSE)}

-----------------------------------------------------------------------------
\* The timers, power, and a change of programs behind the core's back.

core_repeat(c) ==
    {Reply([d EXCEPT !.repeating = FALSE], FALSE, FALSE, d.repeating) : d \in keydown(c, c.rkey)}

\* Whether NULL is shown, and so the command annulled.  A command that is never
\* shown (FLAG_NO_SHOW) stays pending.
Timed(c, null) == [core |-> c, null |-> null]

core_keytimeout2(c) ==
    IF c.pending \in {"RUN", "SST", "COMMAND"}
    THEN {Timed([c EXCEPT !.pending = "CANCELLED"], TRUE)}
         \cup (IF c.pending = "COMMAND" THEN {Timed(c, FALSE)} ELSE {})
    ELSE {Timed(c, FALSE)}

core_timeout3_NoWakeup(c, repaint) ==
    Keyup([c EXCEPT !.pause = @ /\ ~repaint], FALSE)
core_timeout3_PauseStays(c, repaint) == Keyup(c, c.pause)
core_timeout3(c, repaint) ==
    LET lingered == [c EXCEPT !.pending = CASE @ = "LINGER1" -> "CANCELLED"
                                            [] @ = "LINGER2" -> "NONE"
                                            [] OTHER -> @]
    IN  IF c.pause THEN Keyup([c EXCEPT !.pause = ~repaint], TRUE)
                   ELSE Keyup(lingered, FALSE)

\* auto_exec is flag 11.  What was not saved comes back as it is in a new
\* process: no pause, no timer, nothing repeating.
core_powercycle(c, auto_exec) ==
    [c EXCEPT !.work = 0, !.fresh = TRUE, !.buf = << >>, !.shift = FALSE,
              !.pending = "NONE", !.getkey = FALSE, !.running = auto_exec,
              !.pause = FALSE, !.timer3 = FALSE, !.quit = FALSE,
              !.repeating = FALSE, !.rkey = NoStroke]

core_import_programs(c) == [c EXCEPT !.running = FALSE]

=============================================================================
