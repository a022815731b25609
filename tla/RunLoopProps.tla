----------------------------- MODULE RunLoopProps -----------------------------
(***************************************************************************)
(* What the event loop and the core promise each other (core_main.h) and   *)
(* the user.                                                               *)
(***************************************************************************)
EXTENDS RunLoop

\* Keystrokes take effect in the order they were typed: those that wait are in
\* that order, and all later than the last one given to keydown(), whichever
\* of the branches of core_keydown() took it.  The ring keybuf is not overrun, and
\* a key that was shown as NULL never has its command performed afterwards
\* (core_keytimeout2, core_keyup).
KeysInOrder ==
    /\ Len(core.buf) < KEYBUF_SIZE
    /\ nulled > 0 => core.ran # nulled
    /\ \A i, j \in DOMAIN core.buf : i < j => core.buf[i].n < core.buf[j].n
    /\ \A i \in DOMAIN core.buf : core.buf[i].n > core.handled

\* When no key is down and there is a program to run or a keystroke to take,
\* the idle callback is installed: no combination of results of core_keydown(),
\* core_keyup() and core_timeout3() lets the shell forget a program.  A program
\* in PSE has its timer running instead: pressing SHIFT, releasing a key pressed
\* before the pause and importing leave it alone.
WorkIsScheduled ==
    /\ core.pause => core.timer3
    /\ Alive /\ held = NoKey /\ ~core.pause /\ (Advances(core) \/ Queued(core))
         => reminder

\* EXIT, not shifted, stops whatever runs: a program, or a long operation that a program or
\* a key started, paused or not (three branches of core_keydown handle it).
ExitStops ==
    [][Press(<<"EXIT">>) /\ ~core.shift
          /\ (core.work > 0 \/ (core.running /\ ~core.getkey))
       => ~core'.running /\ core'.work = 0]_vars

\* A program that flag 11 starts at power-up cannot switch the calculator off
\* again before the user has done something (ERR_SUSPICIOUS_OFF), or it could
\* never be stopped.
NoPowerOffLoop == core.quit => typed > boot

\* A long operation under way only gets shorter: nothing starts it, or another
\* command, a second time before it is done or stopped.
\* (The code violates it: see the README; no run checks it.)
NoReentry == [][core.work > 0 => core'.work <= core.work]_vars

-----------------------------------------------------------------------------
\* A pause comes to an end.
PauseEnds == core.pause ~> ~core.pause

\* Typed-ahead keystrokes are taken, or wait for a program that runs.
QueueDrains == Queued(core) ~> (~Queued(core) \/ Advances(core))

\* A long operation comes to an end.
\* (The code violates it: see the README; no run checks it.)
LongOperationsEnd == core.work > 0 ~> core.work = 0

=============================================================================
