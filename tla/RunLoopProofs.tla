---------------------------- MODULE RunLoopProofs ----------------------------
(***************************************************************************)
(* Proofs about RunLoop: keystrokes keep their order, a program that flag  *)
(* 11 starts cannot switch off again, and EXIT stops what runs, for any    *)
(* size of the ring, any keys and commands and any number of keystrokes.   *)
(***************************************************************************)
EXTENDS RunLoopProps, TLAPS

-----------------------------------------------------------------------------
\* What a command or a program line leaves as it is: all that has to do with
\* the order of keystrokes.
Same(c, d) ==
    /\ d.buf = c.buf /\ d.handled = c.handled /\ d.ran = c.ran
    /\ d.rkey = c.rkey /\ d.pending = c.pending
    /\ d.shift = c.shift /\ d.fresh = c.fresh

AllCommands == {"PLAIN", "FAIL", "STOP", "XEQ", "GETKEY", "PSE", "OFF", "LONG"}
Errors == {"NONE", "FAIL", "STOP", "RUN", "SUSPICIOUS_OFF"}

LEMMA HandlerSame ==
    ASSUME NEW S, NEW c \in CoreState(S), NEW command \in AllCommands,
           NEW r \in Handler(c, command)
    PROVE  /\ r.core \in CoreState(S) /\ Same(c, r.core)
           /\ r.error \in Errors \cup {"INTERRUPTIBLE"}
           /\ c.running /\ c.fresh => r.core.quit = c.quit
<1> USE KeyboardCoreAssumption DEF CoreState, Same, AllCommands, Errors, Result
<1>1. CASE command = "PLAIN"  BY <1>1 DEF Handler
<1>2. CASE command = "FAIL"   BY <1>2 DEF Handler
<1>3. CASE command = "STOP"   BY <1>3 DEF Handler
<1>4. CASE command = "XEQ"    BY <1>4 DEF Handler
<1>5. CASE command = "GETKEY"
  <2>1. r = Result([c EXCEPT !.getkey = TRUE], "NONE")  BY <1>5 DEF Handler
  <2>. QED  BY <2>1
<1>6. CASE command = "PSE"
  <2>1. r = Result([c EXCEPT !.pause = @ \/ c.running], "NONE")  BY <1>6 DEF Handler
  <2>2. (c.pause \/ c.running) \in BOOLEAN  OBVIOUS
  <2>. QED  BY <2>1, <2>2
<1>7. CASE command = "OFF"
  <2>1. CASE SuspiciousOff(c)
    <3>1. r = Result(c, "SUSPICIOUS_OFF")  BY <1>7, <2>1 DEF Handler
    <3>. QED  BY <3>1
  <2>2. CASE ~SuspiciousOff(c)
    <3>1. r = Result([c EXCEPT !.running = FALSE, !.quit = TRUE], "NONE")
      BY <1>7, <2>2 DEF Handler
    <3>. QED  BY <3>1, <2>2 DEF SuspiciousOff
  <2>. QED  BY <2>1, <2>2
<1>8. CASE command = "LONG"
  <2>1. PICK op \in (1 .. MaxWork) \X BOOLEAN :
            r = Result([c EXCEPT !.work = op[1], !.stoppable = op[2]], "INTERRUPTIBLE")
    BY <1>8 DEF Handler
  <2>2. op[1] \in 0 .. MaxWork /\ op[2] \in BOOLEAN  OBVIOUS
  <2>. QED  BY <2>1, <2>2
<1>. QED  BY <1>1, <1>2, <1>3, <1>4, <1>5, <1>6, <1>7, <1>8

LEMMA HandleErrorSame ==
    ASSUME NEW S, NEW c \in CoreState(S), NEW error \in Errors,
           NEW o \in handle_error(c, error)
    PROVE  /\ o.core \in CoreState(S) /\ Same(c, o.core)
           /\ o.core.quit = c.quit
           /\ o.continue \in BOOLEAN
<1> USE DEF CoreState, Same, Errors, Outcome
<1>1. CASE c.running
  <2>1. \/ o = Outcome(c, TRUE)
        \/ o = Outcome(c, FALSE)
        \/ o = Outcome([c EXCEPT !.running = FALSE], FALSE)
    BY <1>1 DEF handle_error
  <2>2. CASE o = Outcome(c, TRUE)  BY <2>2
  <2>3. CASE o = Outcome(c, FALSE)  BY <2>3
  <2>4. CASE o = Outcome([c EXCEPT !.running = FALSE], FALSE)  BY <2>4
  <2>. QED  BY <2>1, <2>2, <2>3, <2>4
<1>2. CASE ~c.running
  <2>1. o = Outcome([c EXCEPT !.running = (error = "RUN" /\ c.pending # "SST")], FALSE)
    BY <1>2 DEF handle_error
  <2>2. (error = "RUN" /\ c.pending # "SST") \in BOOLEAN  OBVIOUS
  <2>. QED  BY <2>1, <2>2
<1>. QED  BY <1>1, <1>2

LEMMA ContinueSame ==
    ASSUME NEW S, NEW c \in CoreState(S), NEW e \in continue_running(c)
    PROVE  /\ e \in CoreState(S) /\ Same(c, e)
           /\ c.running /\ c.fresh => e.quit = c.quit
<1>1. CASE e \in {c, [c EXCEPT !.running = FALSE]}
  BY <1>1 DEF CoreState, Same
<1>2. CASE \E r \in Handlers(c, Commands) :
              \/ r.core.pause /\ e = [r.core EXCEPT !.timer3 = TRUE]
              \/ r.error = "INTERRUPTIBLE" /\ e = r.core
              \/ r.error # "INTERRUPTIBLE" /\ \E o \in handle_error(r.core, r.error) : e = o.core
  <2>1. PICK r \in Handlers(c, Commands) :
              \/ r.core.pause /\ e = [r.core EXCEPT !.timer3 = TRUE]
              \/ r.error = "INTERRUPTIBLE" /\ e = r.core
              \/ r.error # "INTERRUPTIBLE" /\ \E o \in handle_error(r.core, r.error) : e = o.core
    BY <1>2
  <2>2. PICK command \in Commands : r \in Handler(c, command)
    BY DEF Handlers
  <2>. command \in AllCommands  BY KeyboardCoreAssumption DEF AllCommands
  <2>3. /\ r.core \in CoreState(S) /\ Same(c, r.core)
        /\ r.error \in Errors \cup {"INTERRUPTIBLE"}
        /\ c.running /\ c.fresh => r.core.quit = c.quit
    BY <2>2, HandlerSame
  <2>4. CASE r.core.pause /\ e = [r.core EXCEPT !.timer3 = TRUE]
    BY <2>3, <2>4 DEF CoreState, Same
  <2>5. CASE r.error = "INTERRUPTIBLE" /\ e = r.core
    BY <2>3, <2>5
  <2>6. CASE r.error # "INTERRUPTIBLE" /\ \E o \in handle_error(r.core, r.error) : e = o.core
    <3>1. PICK o \in handle_error(r.core, r.error) : e = o.core  BY <2>6
    <3>2. e \in CoreState(S) /\ Same(r.core, e) /\ e.quit = r.core.quit
      BY <3>1, <2>3, <2>6, HandleErrorSame
    <3>. QED  BY <3>2, <2>3 DEF Same
  <2>. QED  BY <2>1, <2>4, <2>5, <2>6
<1>. QED  BY <1>1, <1>2 DEF continue_running

-----------------------------------------------------------------------------
(***************************************************************************)
(* The order of keystrokes.  What waits is in order, later than the last   *)
(* keystroke keydown() was given, and the ring has room; the key that      *)
(* repeats is an arrow.  u is the last keystroke shown as NULL: its        *)
(* command has not been started and is not pending, and it does not wait.  *)
(***************************************************************************)
Active == {"RUN", "SST", "COMMAND"}
Waits(c, n) == \E i \in DOMAIN c.buf : c.buf[i].n = n

Ordered(c) ==
    /\ Len(c.buf) < KEYBUF_SIZE
    /\ \A i, j \in DOMAIN c.buf : i < j => c.buf[i].n < c.buf[j].n
    /\ \A i \in DOMAIN c.buf : c.buf[i].n > c.handled
    /\ c.rkey.key \in {"ARROW", NoKey} /\ c.rkey.n <= c.handled

Annulled(c, u) ==
    u > 0 => /\ c.ran # u /\ ~Waits(c, u)
             /\ c.handled = u => c.pending \notin Active

Fine(c, t, u) == c \in CoreState(0 .. t) /\ Ordered(c) /\ Annulled(c, u)

\* What leaves the order of keystrokes alone, and no command pending that was not.
Keeps(c, d) ==
    /\ d.buf = c.buf /\ d.handled = c.handled /\ d.ran = c.ran /\ d.rkey = c.rkey
    /\ d.pending = c.pending \/ d.pending \notin Active

LEMMA KeepsFine ==
    ASSUME NEW t \in Nat, NEW u \in Nat, NEW c, NEW d,
           Fine(c, t, u), d \in CoreState(0 .. t), Keeps(c, d)
    PROVE  Fine(d, t, u)
BY DEF Fine, Keeps, Ordered, Annulled, Waits

LEMMA SameKeeps == ASSUME NEW c, NEW d, Same(c, d) PROVE Keeps(c, d)
BY DEF Same, Keeps

\* keydown() takes the keystroke k, and leaves those that wait alone.
LEMMA KeydownTakes ==
    ASSUME NEW t \in Nat, NEW c \in CoreState(0 .. t),
           NEW k \in Stroke(0 .. t) \cup {NoStroke}, NEW e \in keydown(c, k)
    PROVE  /\ e \in CoreState(0 .. t)
           /\ e.buf = c.buf /\ e.ran = c.ran /\ e.handled = k.n
           /\ e.rkey = c.rkey \/ (e.rkey = k /\ k.key = "ARROW")
           /\ e.pending \in PendingOf(k.key, k.shift) \cup {"NONE"}
           /\ e.quit = c.quit
<1>. k.n \in 0 .. t  BY DEF Stroke, NoStroke
<1>1. PendingOf(k.key, k.shift) \subseteq PendingCommands
  BY DEF PendingOf, PendingCommands, Stroke, NoStroke, KeyNames, NoKey
<1>. DEFINE d == [c EXCEPT !.pending = "NONE", !.handled = k.n]
           f == IF k.key = "ARROW" THEN [d EXCEPT !.repeating = TRUE, !.rkey = k] ELSE d
<1>2. /\ d \in CoreState(0 .. t) /\ d.buf = c.buf /\ d.ran = c.ran /\ d.handled = k.n
      /\ d.rkey = c.rkey /\ d.pending = "NONE" /\ d.quit = c.quit
  BY DEF CoreState, PendingCommands
<1>3. /\ f \in CoreState(0 .. t) /\ f.buf = c.buf /\ f.ran = c.ran /\ f.handled = k.n
      /\ f.rkey = c.rkey \/ (f.rkey = k /\ k.key = "ARROW")
      /\ f.pending = "NONE" /\ f.quit = c.quit
  <2>. HIDE DEF d
  <2>1. CASE k.key = "ARROW"
    <3>1. f = [d EXCEPT !.repeating = TRUE, !.rkey = k]  BY <2>1
    <3>. HIDE DEF f
    <3>. QED  BY <1>2, <2>1, <3>1 DEF CoreState
  <2>2. CASE k.key # "ARROW"  BY <1>2, <2>2
  <2>. QED  BY <2>1, <2>2
<1>4. \/ \E r \in BOOLEAN : e = [d EXCEPT !.getkey = FALSE, !.running = r]
      \/ \E p \in PendingOf(k.key, k.shift) :
             e = [f EXCEPT !.pending = p, !.timer3 = @ \/ p = "LINGER1"]
      \/ e = [f EXCEPT !.running = TRUE]
  <2>1. CASE c.getkey
    <3>1. PICK r \in {FALSE} \cup {c.running} : e = [d EXCEPT !.getkey = FALSE, !.running = r]
      BY <2>1 DEF keydown
    <3>2. r \in BOOLEAN  BY DEF CoreState
    <3>. QED  BY <3>1, <3>2, Zenon
  <2>2. CASE ~c.getkey  BY <2>2 DEF keydown
  <2>. QED  BY <2>1, <2>2
<1>. HIDE DEF d, f
<1>5. CASE \E r \in BOOLEAN : e = [d EXCEPT !.getkey = FALSE, !.running = r]
  BY <1>2, <1>5 DEF CoreState
<1>6. CASE \E p \in PendingOf(k.key, k.shift) :
             e = [f EXCEPT !.pending = p, !.timer3 = @ \/ p = "LINGER1"]
  <2>1. PICK p \in PendingOf(k.key, k.shift) :
             e = [f EXCEPT !.pending = p, !.timer3 = @ \/ p = "LINGER1"]
    BY <1>6
  <2>2. (f.timer3 \/ p = "LINGER1") \in BOOLEAN  OBVIOUS
  <2>3. p \in PendingCommands  BY <1>1, <2>1
  <2>. QED  BY <1>3, <2>1, <2>2, <2>3 DEF CoreState
<1>7. CASE e = [f EXCEPT !.running = TRUE]
  BY <1>3, <1>7 DEF CoreState
<1>. QED  BY <1>4, <1>5, <1>6, <1>7

\* core_keyup() starts at most the command of the last keystroke it was given.
Starts(c, d) ==
    /\ d.buf = c.buf /\ d.handled = c.handled /\ d.rkey = c.rkey
    /\ d.ran \in {c.ran, c.handled}

LEMMA StartPendingStarts ==
    ASSUME NEW t \in Nat, NEW u \in Nat, NEW c, Fine(c, t, u), c.pending \in Active,
           NEW commands \in SUBSET AllCommands, NEW v \in StartPending(c, commands)
    PROVE  Fine(v.core, t, u) /\ Starts(c, v.core)
<1>. DEFINE c1 == [c EXCEPT !.ran = c.handled, !.running = @ \/ c.pending = "SST"]
            Returned(r) == [r.core EXCEPT !.pause = FALSE,
                                          !.running = @ /\ c.pending # "SST"]
<1>1. c \in CoreState(0 .. t)  BY DEF Fine
<1>2. /\ c1 \in CoreState(0 .. t) /\ c1.buf = c.buf /\ c1.handled = c.handled
      /\ c1.rkey = c.rkey /\ c1.ran = c.handled /\ c1.pending = c.pending
  <2>1. (c.running \/ c.pending = "SST") \in BOOLEAN  OBVIOUS
  <2>. QED  BY <1>1, <2>1 DEF CoreState
<1>3. PICK r \in Handlers(c1, commands) :
          \/ r.error = "INTERRUPTIBLE" /\ v = Keyup(Returned(r), TRUE)
          \/ /\ r.error # "INTERRUPTIBLE"
             /\ \E o \in handle_error(Returned(r), r.error) :
                    v = Keyup([o.core EXCEPT !.pending = "NONE"], Advances(o.core) \/ Queued(o.core))
  BY DEF StartPending
<1>. HIDE DEF c1
<1>4. r.core \in CoreState(0 .. t) /\ Same(c1, r.core) /\ r.error \in Errors \cup {"INTERRUPTIBLE"}
  <2>1. PICK command \in commands : r \in Handler(c1, command)  BY DEF Handlers
  <2>. QED  BY <1>2, <2>1, HandlerSame
<1>5. Returned(r) \in CoreState(0 .. t) /\ Same(c1, Returned(r))
  <2>1. (r.core.running /\ c.pending # "SST") \in BOOLEAN  OBVIOUS
  <2>. QED  BY <1>4, <2>1 DEF CoreState, Same
<1>. DEFINE d == v.core
<1>6. /\ d \in CoreState(0 .. t)
      /\ d.buf = c.buf /\ d.handled = c.handled /\ d.rkey = c.rkey /\ d.ran = c.handled
  <2>. HIDE DEF Returned
  <2>1. CASE r.error = "INTERRUPTIBLE" /\ v = Keyup(Returned(r), TRUE)
    BY <1>2, <1>5, <2>1 DEF Same, Keyup
  <2>2. CASE /\ r.error # "INTERRUPTIBLE"
             /\ \E o \in handle_error(Returned(r), r.error) :
                    v = Keyup([o.core EXCEPT !.pending = "NONE"], Advances(o.core) \/ Queued(o.core))
    <3>1. PICK o \in handle_error(Returned(r), r.error) :
                    v = Keyup([o.core EXCEPT !.pending = "NONE"], Advances(o.core) \/ Queued(o.core))
      BY <2>2
    <3>2. o.core \in CoreState(0 .. t) /\ Same(Returned(r), o.core)
      BY <1>4, <1>5, <2>2, HandleErrorSame
    <3>3. d = [o.core EXCEPT !.pending = "NONE"]  BY <3>1 DEF Keyup
    <3>. HIDE DEF d
    <3>. QED  BY <1>2, <1>5, <3>2, <3>3 DEF Same, CoreState, PendingCommands
  <2>. QED  BY <1>3, <2>1, <2>2
<1>. QED  BY <1>6 DEF Fine, Starts, Ordered, Annulled, Waits

LEMMA KeyupStarts ==
    ASSUME NEW t \in Nat, NEW u \in Nat, NEW c, Fine(c, t, u), NEW v \in core_keyup(c)
    PROVE  Fine(v.core, t, u) /\ Starts(c, v.core)
<1>. DEFINE done == [c EXCEPT !.pending = "NONE"]
<1>1. c \in CoreState(0 .. t)  BY DEF Fine
<1>2. done \in CoreState(0 .. t) /\ Keeps(c, done)
  BY <1>1 DEF CoreState, PendingCommands, Keeps, Active
<1>3. Fine(done, t, u) /\ Starts(c, done)
  <2>. HIDE DEF done
  <2>. QED  BY <1>2, KeepsFine DEF Keeps, Starts
<1>4. CASE c.pause
  <2>1. v = Keyup(c, FALSE)  BY <1>4 DEF core_keyup
  <2>. QED  BY <2>1 DEF Keyup, Starts
<1>5. CASE ~c.pause /\ c.pending \in {"LINGER1", "LINGER2"}
  <2>. DEFINE d == [c EXCEPT !.pending = "LINGER2"]
  <2>1. v.core = d  BY <1>5 DEF core_keyup, Keyup
  <2>2. d \in CoreState(0 .. t) /\ Keeps(c, d)
    BY <1>1 DEF CoreState, PendingCommands, Keeps, Active
  <2>. HIDE DEF d
  <2>. QED  BY <2>1, <2>2, KeepsFine DEF Keeps, Starts
<1>6. CASE ~c.pause /\ c.pending = "SILENT_OFF"
  <2>. DEFINE d == [done EXCEPT !.quit = TRUE]
  <2>1. v.core = d  BY <1>6 DEF core_keyup, Keyup
  <2>. HIDE DEF done
  <2>2. d \in CoreState(0 .. t) /\ Keeps(c, d)
    BY <1>2 DEF CoreState, Keeps
  <2>. HIDE DEF d
  <2>. QED  BY <2>1, <2>2, KeepsFine DEF Keeps, Starts
<1>7. CASE ~c.pause /\ c.pending \in {"NONE", "CANCELLED"}
  <2>1. v.core = done  BY <1>7 DEF core_keyup, Keyup
  <2>. QED  BY <2>1, <1>3
<1>8. CASE ~c.pause /\ c.pending = "RUN"
  <2>. DEFINE d == [done EXCEPT !.running = TRUE, !.ran = c.handled]
  <2>1. v.core \in {d, done}  BY <1>8 DEF core_keyup, Keyup
  <2>. HIDE DEF done
  <2>2. /\ d \in CoreState(0 .. t) /\ d.buf = c.buf /\ d.handled = c.handled
        /\ d.rkey = c.rkey /\ d.ran = c.handled /\ d.pending = done.pending
    BY <1>1, <1>2 DEF CoreState, Keeps
  <2>3. done.pending = "NONE"  BY <1>1 DEF CoreState, done
  <2>. HIDE DEF d
  <2>4. Fine(d, t, u) /\ Starts(c, d)
    BY <1>8, <2>2, <2>3 DEF Fine, Ordered, Annulled, Active, Waits, Starts
  <2>. QED  BY <2>1, <2>4, <1>3
<1>9. CASE ~c.pause /\ c.pending = "SST"
  <2>1. v \in StartPending(c, Commands) \/ v.core = done
    BY <1>9 DEF core_keyup, Keyup
  <2>2. Commands \subseteq AllCommands /\ c.pending \in Active
    BY <1>9, KeyboardCoreAssumption DEF AllCommands, Active
  <2>. QED  BY <2>1, <2>2, <1>3, StartPendingStarts
<1>10. CASE ~c.pause /\ c.pending = "COMMAND"
  <2>1. v \in StartPending(c, IF c.work > 0 THEN {"LONG"} ELSE Commands)
    BY <1>10 DEF core_keyup
  <2>2. (IF c.work > 0 THEN {"LONG"} ELSE Commands) \in SUBSET AllCommands /\ c.pending \in Active
    BY <1>10, KeyboardCoreAssumption DEF AllCommands, Active
  <2>. QED  BY <2>1, <2>2, StartPendingStarts
<1>11. c.pending \in PendingCommands  BY <1>1 DEF CoreState
<1>. QED
  BY <1>4, <1>5, <1>6, <1>7, <1>8, <1>9, <1>10, <1>11 DEF PendingCommands

-----------------------------------------------------------------------------
(***************************************************************************)
(* core_keydown(), branch by branch.                                       *)
(***************************************************************************)

\* A keystroke later than all the core knows of.
Later(c, n, u) ==
    /\ c.handled < n /\ c.ran < n /\ u < n
    /\ \A i \in DOMAIN c.buf : c.buf[i].n < n

\* A keystroke that has not been started and does not wait.
Unseen(c, m) == c.ran # m /\ ~Waits(c, m)

LEMMA WorkerStepKeeps ==
    ASSUME NEW S, NEW c \in CoreState(S), c.work > 0,
           NEW queued \in BOOLEAN, NEW r \in WorkerStep(c, queued)
    PROVE  /\ r.core \in CoreState(S) /\ Keeps(c, r.core)
           /\ r.core.fresh = c.fresh /\ r.core.quit = c.quit
           /\ r.enqueued = queued /\ ~r.repeat
<1>. DEFINE d == [c EXCEPT !.work = 0]
            Finished(o) == IF d.running THEN [o.core EXCEPT !.running = @ /\ o.continue]
                                        ELSE [o.core EXCEPT !.pending = "NONE"]
<1>. USE KeyboardCoreAssumption
<1>1. d \in CoreState(S) /\ Same(c, d) /\ d.quit = c.quit
  BY DEF CoreState, Same
<1>2. CASE c.work > 1
  <2>1. r = Reply([c EXCEPT !.work = @ - 1], TRUE, queued, FALSE)
    BY <1>2 DEF WorkerStep
  <2>2. (c.work - 1) \in 0 .. MaxWork  BY <1>2 DEF CoreState
  <2>. QED  BY <2>1, <2>2 DEF CoreState, Keeps, Reply
<1>3. CASE ~(c.work > 1)
  <2>1. r \in {WorkerReply(Finished(o), queued) :
                  o \in UNION {handle_error(d, error) : error \in {"NONE", "FAIL"}}}
    BY <1>3 DEF WorkerStep
  <2>. HIDE DEF d
  <2>2. PICK o \in UNION {handle_error(d, error) : error \in {"NONE", "FAIL"}} :
                  r = WorkerReply(Finished(o), queued)
    BY <2>1
  <2>3. PICK error \in {"NONE", "FAIL"} : o \in handle_error(d, error)
    OBVIOUS
  <2>4. /\ o.core \in CoreState(S) /\ Same(d, o.core)
        /\ o.core.quit = d.quit /\ o.continue \in BOOLEAN
    BY <1>1, <2>3, HandleErrorSame DEF Errors
  <2>5. r.core = Finished(o) /\ r.enqueued = queued /\ ~r.repeat
    BY <2>2 DEF WorkerReply, Reply
  <2>6. CASE d.running
    <3>1. r.core = [o.core EXCEPT !.running = @ /\ o.continue]  BY <2>5, <2>6
    <3>2. (o.core.running /\ o.continue) \in BOOLEAN  OBVIOUS
    <3>. QED  BY <1>1, <2>4, <2>5, <3>1, <3>2 DEF CoreState, Same, Keeps
  <2>7. CASE ~d.running
    <3>1. r.core = [o.core EXCEPT !.pending = "NONE"]  BY <2>5, <2>7
    <3>. QED  BY <1>1, <2>4, <2>5, <3>1 DEF CoreState, Same, Keeps, PendingCommands, Active
  <2>. QED  BY <2>6, <2>7
<1>. QED  BY <1>2, <1>3

\* A keystroke joins those that wait, or is lost when the ring is full.
LEMMA EnqueueFine ==
    ASSUME NEW t \in Nat, NEW u \in Nat, NEW c, Fine(c, t, u),
           NEW key \in KeyNames, NEW n \in 0 .. t, Later(c, n, u)
    PROVE  LET d == Enqueue(c, key, n)
           IN  /\ Fine(d, t, u) /\ Queued(d)
               /\ d.ran = c.ran /\ d.work = c.work /\ d.running = c.running
<1>. DEFINE k == [key |-> key, shift |-> c.shift, n |-> n]
            b == IF Len(c.buf) < KEYBUF_SIZE - 1 THEN Append(c.buf, k) ELSE c.buf
            d == [c EXCEPT !.buf = b, !.shift = FALSE]
<1>. USE KeyboardCoreAssumption
<1>1. c \in CoreState(0 .. t) /\ c.buf \in Seq(Stroke(0 .. t)) /\ k \in Stroke(0 .. t)
  BY DEF Fine, CoreState, Stroke
<1>2. Enqueue(c, key, n) = d
  BY <1>1 DEF Enqueue, Unshifted, CoreState
<1>3. b \in Seq(Stroke(0 .. t)) /\ b # << >> /\ Len(b) < KEYBUF_SIZE
  <2>. HIDE DEF k
  <2>1. CASE Len(c.buf) < KEYBUF_SIZE - 1  BY <1>1, <2>1
  <2>2. CASE ~(Len(c.buf) < KEYBUF_SIZE - 1)  BY <1>1, <2>2 DEF Fine, Ordered
  <2>. QED  BY <2>1, <2>2
<1>4. /\ \A i, j \in DOMAIN b : i < j => b[i].n < b[j].n
      /\ \A i \in DOMAIN b : b[i].n > c.handled /\ (u > 0 => b[i].n # u)
  <2>1. /\ \A i, j \in DOMAIN c.buf : i < j => c.buf[i].n < c.buf[j].n
        /\ \A i \in DOMAIN c.buf : c.buf[i].n > c.handled /\ (u > 0 => c.buf[i].n # u)
        /\ \A i \in DOMAIN c.buf : c.buf[i].n < n
        /\ c.handled < n /\ u < n
    BY DEF Fine, Ordered, Annulled, Waits, Later
  <2>2. CASE Len(c.buf) < KEYBUF_SIZE - 1
    <3>1. k.n = n  OBVIOUS
    <3>. HIDE DEF k
    <3>2. /\ DOMAIN b = 1 .. Len(c.buf) + 1
          /\ \A i \in 1 .. Len(c.buf) : b[i] = c.buf[i]
          /\ b[Len(c.buf) + 1] = k
          /\ DOMAIN c.buf = 1 .. Len(c.buf)
      BY <1>1, <2>2
    <3>. HIDE DEF b
    <3>3. Len(c.buf) \in Nat /\ c.handled \in Nat /\ \A i \in 1 .. Len(c.buf) : c.buf[i].n \in Nat
      <4>1. Len(c.buf) \in Nat /\ c.handled \in Nat  BY <1>1 DEF CoreState
      <4>2. \A i \in 1 .. Len(c.buf) : c.buf[i] \in Stroke(0 .. t)  BY <1>1
      <4>3. \A x \in Stroke(0 .. t) : x.n \in Nat  BY DEF Stroke
      <4>. QED  BY <4>1, <4>2, <4>3
    <3>4. \A i \in DOMAIN b : \/ i \in DOMAIN c.buf /\ b[i] = c.buf[i] /\ i < Len(c.buf) + 1
                              \/ i = Len(c.buf) + 1 /\ b[i].n = n
      BY <3>1, <3>2, <3>3
    <3>5. ASSUME NEW i \in DOMAIN b, NEW j \in DOMAIN b, i < j  PROVE b[i].n < b[j].n
      <4>1. CASE i \in DOMAIN c.buf /\ j \in DOMAIN c.buf
        BY <2>1, <3>2, <3>5, <4>1
      <4>2. CASE i \in DOMAIN c.buf /\ j \notin DOMAIN c.buf
        BY <2>1, <3>2, <3>4, <4>2
      <4>3. CASE i \notin DOMAIN c.buf
        BY <3>2, <3>3, <3>4, <3>5, <4>3
      <4>. QED  BY <4>1, <4>2, <4>3
    <3>6. ASSUME NEW i \in DOMAIN b  PROVE b[i].n > c.handled /\ (u > 0 => b[i].n # u)
      BY <2>1, <3>3, <3>4
    <3>. QED  BY <3>5, <3>6
  <2>3. CASE ~(Len(c.buf) < KEYBUF_SIZE - 1)  BY <2>1, <2>3
  <2>. QED  BY <2>2, <2>3
<1>. HIDE DEF b, k
<1>5. d \in CoreState(0 .. t)  BY <1>1, <1>3 DEF CoreState
<1>6. /\ d.buf = b /\ d.handled = c.handled /\ d.ran = c.ran /\ d.rkey = c.rkey
      /\ d.pending = c.pending /\ d.work = c.work /\ d.running = c.running
  BY <1>1 DEF CoreState
<1>. HIDE DEF d
<1>7. Fine(d, t, u) /\ Queued(d)
  BY <1>3, <1>4, <1>5, <1>6 DEF Fine, Ordered, Annulled, Waits, Queued
<1>. QED  BY <1>2, <1>6, <1>7

\* keydown() takes a keystroke before all that wait, and not the one shown as
\* NULL unless its key has no command to start.
LEMMA KeydownFine ==
    ASSUME NEW t \in Nat, NEW u \in Nat, NEW c, Fine(c, t, u),
           NEW k \in Stroke(0 .. t) \cup {NoStroke}, NEW e \in keydown(c, k),
           \A i \in DOMAIN c.buf : c.buf[i].n > k.n,
           c.rkey.n <= k.n,
           k.n = u /\ u > 0 => k.key \in {"ARROW", NoKey}
    PROVE  /\ Fine(e, t, u)
           /\ e.buf = c.buf /\ e.ran = c.ran /\ e.handled = k.n
<1>1. c \in CoreState(0 .. t)  BY DEF Fine
<1>2. /\ e \in CoreState(0 .. t)
      /\ e.buf = c.buf /\ e.ran = c.ran /\ e.handled = k.n
      /\ e.rkey = c.rkey \/ (e.rkey = k /\ k.key = "ARROW")
      /\ e.pending \in PendingOf(k.key, k.shift) \cup {"NONE"}
  BY <1>1, KeydownTakes
<1>3. k.key \in {"ARROW", NoKey} => e.pending \notin Active
  BY <1>2 DEF PendingOf, Active, NoKey
<1>4. k.n \in Nat /\ c.rkey.n \in Nat /\ c.handled \in Nat
  BY <1>1 DEF CoreState, Stroke, NoStroke
<1>5. Ordered(e)
  BY <1>2, <1>4 DEF Fine, Ordered
<1>6. Annulled(e, u)
  BY <1>2, <1>3 DEF Fine, Annulled, Waits
<1>. QED  BY <1>2, <1>5, <1>6 DEF Fine

\* A call of core_keydown() with or without a key: what it keeps, what it may
\* start, and that the key itself is not started unless the shell is told.
Accepts(c, key, n, t, u, r) ==
    /\ Fine(r.core, t, u)
    /\ key # NoKey /\ ~r.again /\ (r.repeat \/ ~r.enqueued) => Unseen(r.core, n)
    /\ key = NoKey => \A m \in Nat : Unseen(c, m) => Unseen(r.core, m)
    /\ key = NoKey /\ c.fresh /\ c.buf = << >> =>
          r.core.fresh /\ r.core.buf = << >> /\ r.core.quit = c.quit

\* A keystroke whose serial number is n is given, or none.
Given(c, key, n, t, u) ==
    /\ key \in KeyNames \cup {NoKey} /\ n \in 0 .. t
    /\ key # NoKey => Later(c, n, u)

LEMMA EmptyQueue == ASSUME NEW S PROVE << >> \in Seq(Stroke(S))
OBVIOUS

LEMMA LaterUnseen ==
    ASSUME NEW t \in Nat, NEW u \in Nat, NEW c, Fine(c, t, u), NEW n \in Nat, Later(c, n, u)
    PROVE  Unseen(c, n)
<1>1. c.ran \in Nat /\ \A i \in DOMAIN c.buf : c.buf[i].n \in Nat
  <2>1. c.ran \in Nat /\ c.buf \in Seq(Stroke(0 .. t))  BY DEF Fine, CoreState
  <2>2. \A x \in Stroke(0 .. t) : x.n \in Nat  BY DEF Stroke
  <2>. QED  BY <2>1, <2>2
<1>. QED  BY <1>1 DEF Later, Unseen, Waits

\* An outcome that leaves what waits and what was started alone is accepted.
LEMMA KeepsAccepts ==
    ASSUME NEW t \in Nat, NEW u \in Nat, NEW c, Fine(c, t, u), NEW key, NEW n,
           Given(c, key, n, t, u), NEW r,
           r.core \in CoreState(0 .. t), Keeps(c, r.core),
           key = NoKey => r.core.fresh = c.fresh /\ (c.fresh => r.core.quit = c.quit)
    PROVE  Accepts(c, key, n, t, u, r)
<1>1. Fine(r.core, t, u)  BY KeepsFine
<1>2. r.core.ran = c.ran /\ r.core.buf = c.buf  BY DEF Keeps
<1>3. key # NoKey => Unseen(c, n)
  BY LaterUnseen DEF Given
<1>. QED  BY <1>1, <1>2, <1>3 DEF Accepts, Unseen, Waits

LEMMA WorkingAccepts ==
    ASSUME NEW t \in Nat, NEW u \in Nat, NEW c, Fine(c, t, u), NEW key, NEW n,
           Given(c, key, n, t, u), c.work > 0, NEW r \in KeydownWorking(c, key, n)
    PROVE  Accepts(c, key, n, t, u, r)
<1>1. c \in CoreState(0 .. t)  BY DEF Fine
<1>2. CASE key = NoKey
  <2>1. r \in WorkerStep(c, FALSE)  BY <1>2 DEF KeydownWorking
  <2>2. r.core \in CoreState(0 .. t) /\ Keeps(c, r.core) /\ r.core.fresh = c.fresh
        /\ r.core.quit = c.quit
    BY <1>1, <2>1, WorkerStepKeeps
  <2>. QED  BY <2>2, KeepsAccepts
<1>3. CASE key # NoKey /\ (key = "EXIT" \/ (c.stoppable /\ ~c.shift /\ key = "RUN"))
  <2>. DEFINE f == [c EXCEPT !.buf = << >>]
              d == stop_interruptible(f)
  <2>1. r = Reply(d, FALSE, TRUE, FALSE)  BY <1>3 DEF KeydownWorking
  <2>2. /\ f \in CoreState(0 .. t) /\ f.buf = << >> /\ f.handled = c.handled
        /\ f.ran = c.ran /\ f.rkey = c.rkey
    BY <1>1, EmptyQueue DEF CoreState
  <2>3. 0 \in 0 .. MaxWork  BY KeyboardCoreAssumption
  <2>4. "NONE" \in PendingCommands  BY DEF PendingCommands
  <2>. HIDE DEF f
  <2>5. /\ d \in CoreState(0 .. t) /\ d.buf = << >> /\ d.handled = c.handled
        /\ d.ran = c.ran /\ d.rkey = c.rkey /\ d.pending = "NONE"
    BY <2>2, <2>3, <2>4 DEF CoreState, stop_interruptible
  <2>. HIDE DEF d
  <2>6. Fine(d, t, u)
    BY <2>5, KeyboardCoreAssumption DEF Fine, Ordered, Annulled, Waits, Active
  <2>. QED  BY <1>3, <2>1, <2>6 DEF Accepts, Reply
<1>4. CASE key # NoKey /\ ~(key = "EXIT" \/ (c.stoppable /\ ~c.shift /\ key = "RUN"))
  <2>. DEFINE d == Enqueue(c, key, n)
  <2>1. r \in WorkerStep(d, TRUE)  BY <1>4 DEF KeydownWorking
  <2>2. Fine(d, t, u) /\ d.work = c.work
    BY <1>4, EnqueueFine DEF Given
  <2>. HIDE DEF d
  <2>3. r.core \in CoreState(0 .. t) /\ Keeps(d, r.core) /\ r.enqueued /\ ~r.repeat
    BY <2>1, <2>2, WorkerStepKeeps DEF Fine
  <2>4. Fine(r.core, t, u)  BY <2>2, <2>3, KeepsFine
  <2>. QED  BY <1>4, <2>3, <2>4 DEF Accepts
<1>. QED  BY <1>2, <1>3, <1>4

LEMMA RunningAccepts ==
    ASSUME NEW t \in Nat, NEW u \in Nat, NEW c, Fine(c, t, u), NEW key, NEW n,
           Given(c, key, n, t, u), c.running, NEW r \in KeydownRunning(c, key, n)
    PROVE  Accepts(c, key, n, t, u, r)
<1>. DEFINE Run(d) == {Reply(e, Advances(e) \/ Queued(e), key # NoKey, FALSE) :
                           e \in continue_running(d)}
            stopped == [c EXCEPT !.buf = << >>, !.running = FALSE]
<1>1. c \in CoreState(0 .. t)  BY DEF Fine
<1>2. /\ stopped \in CoreState(0 .. t) /\ stopped.buf = << >>
      /\ stopped.handled = c.handled /\ stopped.ran = c.ran /\ stopped.rkey = c.rkey
      /\ stopped.pending = c.pending
  BY <1>1, EmptyQueue DEF CoreState
<1>3. CASE key = NoKey
  <2>1. PICK e \in continue_running(c) :
                r = Reply(e, Advances(e) \/ Queued(e), key # NoKey, FALSE)
    BY <1>3 DEF KeydownRunning, NoKey
  <2>2. r.core = e  BY <2>1 DEF Reply
  <2>3. e \in CoreState(0 .. t) /\ Same(c, e) /\ (c.fresh => e.quit = c.quit)
    BY <1>1, ContinueSame
  <2>. QED  BY <2>2, <2>3, SameKeeps, KeepsAccepts DEF Same
<1>4. CASE key = "EXIT"
  <2>. DEFINE d == [stopped EXCEPT !.shift = FALSE, !.pending = "CANCELLED"]
  <2>1. r.core = d
    BY <1>4 DEF KeydownRunning, NoKey, Unshifted, Reply
  <2>. HIDE DEF stopped
  <2>2. /\ d \in CoreState(0 .. t) /\ d.buf = << >> /\ d.handled = c.handled
        /\ d.ran = c.ran /\ d.rkey = c.rkey /\ d.pending = "CANCELLED"
    BY <1>2 DEF CoreState, PendingCommands
  <2>. HIDE DEF d
  <2>3. Fine(d, t, u)
    BY <2>2, KeyboardCoreAssumption DEF Fine, Ordered, Annulled, Waits, Active
  <2>4. Unseen(c, n)
    BY <1>4, LaterUnseen DEF Given, NoKey
  <2>5. Unseen(d, n)
    BY <2>2, <2>4 DEF Unseen, Waits
  <2>. QED  BY <1>4, <2>1, <2>3, <2>5 DEF Accepts, NoKey
<1>5. CASE key = "RUN" /\ ~c.shift
  <2>1. r = Reply(stopped, FALSE, TRUE, FALSE)
    BY <1>5 DEF KeydownRunning, NoKey
  <2>. HIDE DEF stopped
  <2>2. Fine(stopped, t, u)
    BY <1>2, KeyboardCoreAssumption DEF Fine, Ordered, Annulled, Waits
  <2>. QED  BY <1>5, <2>1, <2>2 DEF Accepts, Reply, NoKey
<1>6. CASE key \notin {NoKey, "EXIT"} /\ ~(key = "RUN" /\ ~c.shift)
  <2>. DEFINE d == Enqueue(c, key, n)
  <2>1. r \in Run(d)
    BY <1>6 DEF KeydownRunning
  <2>2. Fine(d, t, u)
    BY <1>6, EnqueueFine DEF Given
  <2>. HIDE DEF d
  <2>3. PICK e \in continue_running(d) :
                r = Reply(e, Advances(e) \/ Queued(e), key # NoKey, FALSE)
    BY <2>1
  <2>4. r.core = e /\ r.enqueued /\ ~r.repeat  BY <1>6, <2>3 DEF Reply
  <2>5. e \in CoreState(0 .. t) /\ Same(d, e)
    BY <2>2, ContinueSame DEF Fine
  <2>6. Fine(e, t, u)  BY <2>2, <2>5, SameKeeps, KeepsFine
  <2>. QED  BY <1>6, <2>4, <2>6 DEF Accepts
<1>. QED  BY <1>3, <1>4, <1>5, <1>6

LEMMA DirectAccepts ==
    ASSUME NEW t \in Nat, NEW u \in Nat, NEW c, Fine(c, t, u), NEW key, NEW n,
           Given(c, key, n, t, u), key # NoKey, c.buf = << >>, NEW r \in KeydownDirect(c, key, n)
    PROVE  Accepts(c, key, n, t, u, r)
<1>. DEFINE k == [key |-> key, shift |-> c.shift, n |-> n]
            f == Unshifted(c)
<1>1. c \in CoreState(0 .. t)  BY DEF Fine
<1>2. f \in CoreState(0 .. t) /\ Keeps(c, f)
  BY <1>1 DEF Unshifted, CoreState, Keeps
<1>3. Fine(f, t, u)
  <2>. HIDE DEF f
  <2>. QED  BY <1>2, KeepsFine
<1>4. k \in Stroke(0 .. t) /\ k.n = n
  BY <1>1 DEF Given, Stroke, CoreState
<1>. DEFINE Sent(d) == Reply([d EXCEPT !.repeating = FALSE], d.running /\ ~d.getkey, FALSE,
                             d.repeating)
<1>5. PICK d \in keydown(f, k) : r = Sent(d)
  BY Zenon DEF KeydownDirect
<1>. HIDE DEF f, k
<1>6. Fine(d, t, u) /\ d.buf = << >> /\ d.ran = c.ran
  <2>1. \A i \in DOMAIN f.buf : f.buf[i].n > k.n  BY <1>2 DEF Keeps
  <2>2. f.rkey.n <= k.n
    <3>1. f.rkey.n \in Nat /\ f.handled \in Nat /\ n \in Nat
      BY <1>2 DEF CoreState, Stroke, NoStroke, Given
    <3>. QED  BY <1>2, <1>3, <1>4, <3>1 DEF Fine, Ordered, Keeps, Given, Later
  <2>3. ~(k.n = u /\ u > 0)
    BY <1>4 DEF Given, Later
  <2>. QED  BY <1>2, <1>3, <1>4, <2>1, <2>2, <2>3, KeydownFine DEF Keeps
<1>7. r.core \in CoreState(0 .. t) /\ Keeps(d, r.core)
  <2>1. r.core = [d EXCEPT !.repeating = FALSE]  BY <1>5 DEF Reply
  <2>. QED  BY <1>6, <2>1 DEF Fine, CoreState, Keeps
<1>8. Fine(r.core, t, u)  BY <1>6, <1>7, KeepsFine
<1>9. Unseen(c, n)  BY LaterUnseen DEF Given
<1>. QED  BY <1>6, <1>7, <1>8, <1>9 DEF Accepts, Unseen, Waits, Keeps

LEMMA TailShifts ==
    ASSUME NEW S, NEW s \in Seq(S), s # << >>
    PROVE  /\ Tail(s) \in Seq(S) /\ Len(Tail(s)) = Len(s) - 1 /\ Len(s) \in Nat \ {0}
           /\ Head(s) \in S /\ Head(s) = s[1] /\ 1 \in DOMAIN s
           /\ \A i \in DOMAIN Tail(s) : i \in Nat /\ i + 1 \in DOMAIN s
                                         /\ Tail(s)[i] = s[i + 1]
<1>1. Len(s) \in Nat \ {0}  OBVIOUS
<1>2. Tail(s) \in Seq(S) /\ Len(Tail(s)) = Len(s) - 1  OBVIOUS
<1>3. Head(s) \in S /\ Head(s) = s[1] /\ 1 \in DOMAIN s  OBVIOUS
<1>4. ASSUME NEW i \in DOMAIN Tail(s)
      PROVE  i \in Nat /\ i + 1 \in DOMAIN s /\ Tail(s)[i] = s[i + 1]
  BY <1>1, <1>2
<1>. QED  BY <1>1, <1>2, <1>3, <1>4

\* h is the oldest keystroke of the buffer of c, and f is c without it.
IsNext(c, f, h, t, u) ==
    /\ Fine(f, t, u) /\ f.ran = c.ran /\ f.rkey = c.rkey
    /\ h \in Stroke(0 .. t) /\ h = c.buf[1] /\ 1 \in DOMAIN c.buf
    /\ h.n > c.handled /\ ~(h.n = u /\ u > 0)
    /\ \A i \in DOMAIN f.buf : f.buf[i].n > h.n /\ i + 1 \in DOMAIN c.buf
                               /\ f.buf[i] = c.buf[i + 1]

LEMMA HeadIsNext ==
    ASSUME NEW t \in Nat, NEW u \in Nat, NEW c, Fine(c, t, u), c.buf # << >>,
           NEW f, f = [c EXCEPT !.buf = Tail(@)], NEW h, h = Head(c.buf)
    PROVE  IsNext(c, f, h, t, u)
<1>1. c \in CoreState(0 .. t) /\ c.buf \in Seq(Stroke(0 .. t))
  BY DEF Fine, CoreState
<1>2. /\ Tail(c.buf) \in Seq(Stroke(0 .. t)) /\ Len(Tail(c.buf)) = Len(c.buf) - 1
      /\ Len(c.buf) \in Nat \ {0}
      /\ h \in Stroke(0 .. t) /\ h = c.buf[1] /\ 1 \in DOMAIN c.buf
      /\ \A i \in DOMAIN Tail(c.buf) : i \in Nat /\ i + 1 \in DOMAIN c.buf
                                       /\ Tail(c.buf)[i] = c.buf[i + 1]
  BY <1>1, TailShifts
<1>3. /\ f \in CoreState(0 .. t) /\ f.buf = Tail(c.buf) /\ f.ran = c.ran /\ f.rkey = c.rkey
      /\ f.handled = c.handled /\ f.pending = c.pending
  BY <1>1, <1>2 DEF CoreState
<1>4. h.n > c.handled /\ ~(h.n = u /\ u > 0)
  BY <1>2 DEF Fine, Ordered, Annulled, Waits
<1>5. \A i \in DOMAIN f.buf : f.buf[i].n > h.n
  <2>1. \A x \in Stroke(0 .. t) : x.n \in Nat  BY DEF Stroke
  <2>. SUFFICES ASSUME NEW i \in DOMAIN f.buf  PROVE f.buf[i].n > h.n
    OBVIOUS
  <2>2. i \in DOMAIN Tail(c.buf)  BY <1>3
  <2>3. i \in Nat /\ i + 1 \in DOMAIN c.buf /\ f.buf[i] = c.buf[i + 1] /\ i > 0
    BY <1>1, <1>2, <1>3, <2>2
  <2>4. c.buf[1].n < c.buf[i + 1].n
    BY <1>2, <2>3 DEF Fine, Ordered
  <2>5. c.buf[1].n \in Nat /\ c.buf[i + 1].n \in Nat
    BY <1>1, <1>2, <2>1, <2>3
  <2>. QED  BY <1>2, <2>3, <2>4, <2>5
<1>6. Ordered(f)
  <2>1. Len(f.buf) < KEYBUF_SIZE
    BY <1>2, <1>3, KeyboardCoreAssumption DEF Fine, Ordered
  <2>2. ASSUME NEW i \in DOMAIN f.buf, NEW j \in DOMAIN f.buf, i < j
        PROVE  f.buf[i].n < f.buf[j].n
    <3>1. /\ i + 1 \in DOMAIN c.buf /\ j + 1 \in DOMAIN c.buf /\ i + 1 < j + 1
          /\ f.buf[i] = c.buf[i + 1] /\ f.buf[j] = c.buf[j + 1]
      BY <1>2, <1>3, <2>2
    <3>. QED  BY <3>1 DEF Fine, Ordered
  <2>3. ASSUME NEW i \in DOMAIN f.buf PROVE f.buf[i].n > f.handled
    <3>1. i + 1 \in DOMAIN c.buf /\ f.buf[i] = c.buf[i + 1]
      BY <1>2, <1>3
    <3>. QED  BY <1>3, <3>1 DEF Fine, Ordered
  <2>. QED  BY <1>3, <2>1, <2>2, <2>3 DEF Fine, Ordered
<1>7. Annulled(f, u)
  BY <1>2, <1>3 DEF Fine, Annulled, Waits
<1>8. Fine(f, t, u)  BY <1>3, <1>6, <1>7 DEF Fine
<1>. QED  BY <1>2, <1>3, <1>4, <1>5, <1>8 DEF IsNext

LEMMA QueuedAccepts ==
    ASSUME NEW t \in Nat, NEW u \in Nat, NEW c, Fine(c, t, u), NEW key, NEW n,
           Given(c, key, n, t, u), c.buf # << >>, NEW r \in KeydownQueued(c, key, n)
    PROVE  Accepts(c, key, n, t, u, r)
<1>. DEFINE f == [c EXCEPT !.buf = Tail(@)]
            h == Head(c.buf)
            Sent(v) == IF key = NoKey THEN v.core ELSE Enqueue(v.core, key, n)
<1>1. c \in CoreState(0 .. t)  BY DEF Fine
<1>2. IsNext(c, f, h, t, u)
  <2>1. f = [c EXCEPT !.buf = Tail(@)] /\ h = Head(c.buf)  OBVIOUS
  <2>. HIDE DEF f, h
  <2>. QED  BY <2>1, HeadIsNext
<1>3. PICK v \in UNION {core_keyup(d) : d \in keydown(f, h)} : r = QueuedReply(Sent(v))
  BY DEF KeydownQueued
<1>. HIDE DEF f, h
<1>4. PICK e \in keydown(f, h) : v \in core_keyup(e)  OBVIOUS
<1>5. Fine(e, t, u) /\ e.buf = f.buf /\ e.ran = c.ran /\ e.handled = h.n
  <2>1. f.rkey.n <= h.n
    <3>1. c.rkey.n \in Nat /\ c.handled \in Nat /\ h.n \in Nat
      BY <1>1, <1>2 DEF CoreState, Stroke, NoStroke, IsNext
    <3>. QED  BY <1>2, <3>1 DEF Fine, Ordered, IsNext
  <2>. QED  BY <1>2, <1>4, <2>1, KeydownFine DEF IsNext
<1>6. /\ Fine(v.core, t, u) /\ v.core.buf = f.buf /\ v.core.handled = h.n
      /\ v.core.ran \in {c.ran, h.n}
  BY <1>4, <1>5, KeyupStarts DEF Starts
<1>7. CASE key = NoKey
  <2>1. r.core = v.core  BY <1>3, <1>7 DEF QueuedReply, Reply
  <2>2. ASSUME NEW m \in Nat, Unseen(c, m)  PROVE Unseen(r.core, m)
    BY <1>2, <1>6, <2>1, <2>2 DEF Unseen, Waits, IsNext
  <2>. QED  BY <1>6, <1>7, <2>1, <2>2 DEF Accepts
<1>8. CASE key # NoKey
  <2>. DEFINE d == Enqueue(v.core, key, n)
  <2>1. Later(v.core, n, u)
    BY <1>2, <1>6, <1>8 DEF Given, Later, IsNext
  <2>2. Fine(d, t, u) /\ Queued(d)
    BY <1>6, <1>8, <2>1, EnqueueFine DEF Given
  <2>3. r = QueuedReply(d)  BY <1>3, <1>8
  <2>. HIDE DEF d
  <2>4. r.core = d /\ r.again
    BY <2>2, <2>3 DEF QueuedReply, Reply
  <2>. QED  BY <1>8, <2>2, <2>4 DEF Accepts
<1>. QED  BY <1>7, <1>8

LEMMA CoreKeydownAccepts ==
    ASSUME NEW t \in Nat, NEW u \in Nat, NEW c, Fine(c, t, u), NEW key, NEW n,
           Given(c, key, n, t, u), NEW r \in core_keydown(c, key, n)
    PROVE  Accepts(c, key, n, t, u, r)
<1>. DEFINE c1 == [c EXCEPT !.fresh = @ /\ key = NoKey]
            c2 == [c1 EXCEPT !.pause = FALSE, !.running = @ /\ ~c1.pause]
            d1 == [c1 EXCEPT !.shift = ~@]
<1>1. c \in CoreState(0 .. t)  BY DEF Fine
<1>2. /\ c1 \in CoreState(0 .. t) /\ Keeps(c, c1) /\ c1.quit = c.quit
      /\ key = NoKey => c1.fresh = c.fresh
  <2>1. (c.fresh /\ key = NoKey) \in BOOLEAN  OBVIOUS
  <2>2. /\ c1 \in CoreState(0 .. t) /\ Keeps(c, c1) /\ c1.quit = c.quit
        /\ c1.fresh = (c.fresh /\ key = NoKey)
    BY <1>1, <2>1 DEF CoreState, Keeps
  <2>3. c.fresh \in BOOLEAN  BY <1>1 DEF CoreState
  <2>. HIDE DEF c1
  <2>. QED  BY <2>2, <2>3
<1>3. /\ c2 \in CoreState(0 .. t) /\ Keeps(c, c2) /\ c2.quit = c.quit
      /\ key = NoKey => c2.fresh = c.fresh
  <2>. HIDE DEF c1
  <2>1. (c1.running /\ ~c1.pause) \in BOOLEAN  OBVIOUS
  <2>2. /\ c2 \in CoreState(0 .. t) /\ Keeps(c1, c2) /\ c2.quit = c1.quit
        /\ c2.fresh = c1.fresh
    BY <1>2, <2>1 DEF CoreState, Keeps
  <2>. HIDE DEF c2
  <2>. QED  BY <1>2, <2>2 DEF Keeps
<1>4. /\ d1 \in CoreState(0 .. t) /\ Keeps(c, d1)
  <2>. HIDE DEF c1
  <2>1. (~c1.shift) \in BOOLEAN  OBVIOUS
  <2>. QED  BY <1>2, <2>1 DEF CoreState, Keeps
<1>5. Fine(c2, t, u) /\ Given(c2, key, n, t, u)
  <2>. HIDE DEF c2
  <2>. QED  BY <1>3, KeepsFine DEF Given, Later, Keeps
<1>6. \/ key = "SHIFT" /\ r.core = d1
      \/ key # NoKey /\ r.core = c2
      \/ c2.work > 0 /\ r \in KeydownWorking(c2, key, n)
      \/ c2.running /\ r \in KeydownRunning(c2, key, n)
      \/ Queued(c2) /\ r \in KeydownQueued(c2, key, n)
      \/ key # NoKey /\ ~Queued(c2) /\ r \in KeydownDirect(c2, key, n)
      \/ key = NoKey /\ r.core = c2
  <2>1. CASE key = "SHIFT"
    <3>1. r = Reply(d1, Advances(c1) \/ Queued(c1), FALSE, FALSE)
      BY <2>1 DEF core_keydown
    <3>. QED  BY <2>1, <3>1 DEF Reply
  <2>2. CASE key # "SHIFT" /\ c1.pause /\ ~c1.shift /\ key \in {"RUN", "EXIT"}
    <3>1. r = Reply(c2, FALSE, FALSE, FALSE)
      BY <2>2 DEF core_keydown
    <3>. QED  BY <2>2, <3>1 DEF Reply, NoKey
  <2>3. CASE key # "SHIFT" /\ ~(c1.pause /\ ~c1.shift /\ key \in {"RUN", "EXIT"})
    <3>1. r \in (IF c2.work > 0 THEN KeydownWorking(c2, key, n)
                 ELSE IF c2.running /\ ~c2.getkey THEN KeydownRunning(c2, key, n)
                 ELSE IF Queued(c2) THEN KeydownQueued(c2, key, n)
                 ELSE IF key # NoKey THEN KeydownDirect(c2, key, n)
                 ELSE {Reply(c2, FALSE, FALSE, FALSE)})
      BY <2>3 DEF core_keydown
    <3>2. Reply(c2, FALSE, FALSE, FALSE).core = c2  BY DEF Reply
    <3>. HIDE DEF c2
    <3>. QED  BY <3>1, <3>2
  <2>. QED  BY <2>1, <2>2, <2>3
<1>7. Accepts(c2, key, n, t, u, r) => Accepts(c, key, n, t, u, r)
  <2>. HIDE DEF c2
  <2>. QED  BY <1>3 DEF Accepts, Unseen, Waits, Keeps
<1>. HIDE DEF c1, c2, d1
<1>8. CASE key = "SHIFT" /\ r.core = d1
  BY <1>4, <1>8, KeepsAccepts DEF NoKey
<1>9. CASE r.core = c2
  BY <1>3, <1>9, KeepsAccepts
<1>10. CASE c2.work > 0 /\ r \in KeydownWorking(c2, key, n)
  BY <1>5, <1>7, <1>10, WorkingAccepts
<1>11. CASE c2.running /\ r \in KeydownRunning(c2, key, n)
  BY <1>5, <1>7, <1>11, RunningAccepts
<1>12. CASE Queued(c2) /\ r \in KeydownQueued(c2, key, n)
  BY <1>5, <1>7, <1>12, QueuedAccepts DEF Queued
<1>13. CASE key # NoKey /\ ~Queued(c2) /\ r \in KeydownDirect(c2, key, n)
  BY <1>5, <1>7, <1>13, DirectAccepts DEF Queued
<1>. QED  BY <1>6, <1>8, <1>9, <1>10, <1>11, <1>12, <1>13

-----------------------------------------------------------------------------
(***************************************************************************)
(* The event loop.  A timer of the shell runs only for a key whose command *)
(* has not been started and that does not wait; and as long as nothing was *)
(* typed since power-up, no key has cleared no_keystrokes_yet.             *)
(***************************************************************************)
Inv ==
    /\ typed \in Nat /\ boot \in Nat /\ nulled \in Nat
    /\ boot <= typed /\ nulled <= typed
    /\ Fine(core, typed, nulled)
    /\ timer # "none" => Unseen(core, typed)
    /\ typed = boot =>
          /\ core.fresh /\ core.buf = << >> /\ ~core.quit
          /\ held = NoKey /\ timer = "none"

\* After one more keystroke the core is as fine.
LEMMA FineGrows ==
    ASSUME NEW t \in Nat, NEW u \in Nat, u <= t, NEW c, Fine(c, t, u)
    PROVE  Fine(c, t + 1, u) /\ Later(c, t + 1, u)
<1>1. c \in CoreState(0 .. t)  BY DEF Fine
<1>2. Stroke(0 .. t) \subseteq Stroke(0 .. t + 1)  BY DEF Stroke
<1>3. Seq(Stroke(0 .. t)) \subseteq Seq(Stroke(0 .. t + 1))
  <2>1. \A S, T : S \subseteq T => Seq(S) \subseteq Seq(T)  OBVIOUS
  <2>. QED  BY <1>2, <2>1
<1>4. 0 .. t \subseteq 0 .. t + 1  OBVIOUS
<1>5. c \in CoreState(0 .. t + 1)
  BY <1>1, <1>2, <1>3, <1>4 DEF CoreState
<1>6. Later(c, t + 1, u)
  <2>1. c.handled \in 0 .. t /\ c.ran \in 0 .. t /\ c.buf \in Seq(Stroke(0 .. t))
    BY <1>1 DEF CoreState
  <2>2. \A x \in Stroke(0 .. t) : x.n \in 0 .. t  BY DEF Stroke
  <2>3. \A i \in DOMAIN c.buf : c.buf[i].n \in 0 .. t
    BY <2>1, <2>2
  <2>. QED  BY <2>1, <2>3 DEF Later
<1>. QED  BY <1>5, <1>6 DEF Fine

LEMMA Timeout3Keeps ==
    ASSUME NEW S, NEW c \in CoreState(S), NEW repaint \in BOOLEAN
    PROVE  LET d == [core_timeout3(c, repaint).core EXCEPT !.timer3 = FALSE]
           IN  d \in CoreState(S) /\ Keeps(c, d) /\ d.fresh = c.fresh /\ d.quit = c.quit
<1>. DEFINE e == core_timeout3(c, repaint).core
            d == [e EXCEPT !.timer3 = FALSE]
            p == CASE c.pending = "LINGER1" -> "CANCELLED"
                   [] c.pending = "LINGER2" -> "NONE"
                   [] OTHER -> c.pending
<1>1. e \in CoreState(S) /\ Keeps(c, e) /\ e.fresh = c.fresh /\ e.quit = c.quit
  <2>1. CASE c.pause
    <3>1. e = [c EXCEPT !.pause = ~repaint]  BY <2>1 DEF core_timeout3, Keyup
    <3>2. (~repaint) \in BOOLEAN  OBVIOUS
    <3>. HIDE DEF e
    <3>. QED  BY <3>1, <3>2 DEF CoreState, Keeps
  <2>2. CASE ~c.pause
    <3>1. e = [c EXCEPT !.pending = p]  BY <2>2 DEF core_timeout3, Keyup
    <3>2. p \in PendingCommands /\ (p = c.pending \/ p \notin Active)
      BY DEF CoreState, PendingCommands, Active
    <3>. HIDE DEF e, p
    <3>. QED  BY <3>1, <3>2 DEF CoreState, Keeps
  <2>. QED  BY <2>1, <2>2
<1>. HIDE DEF e
<1>2. d \in CoreState(S) /\ Keeps(e, d) /\ d.fresh = e.fresh /\ d.quit = e.quit
  BY <1>1 DEF CoreState, Keeps
<1>. HIDE DEF d
<1>3. Keeps(c, d) /\ d.fresh = c.fresh /\ d.quit = c.quit
  BY <1>1, <1>2 DEF Keeps
<1>. QED  BY <1>2, <1>3 DEF d, e

\* A bare SHIFT.
LEMMA ShiftKeeps ==
    ASSUME NEW S, NEW c \in CoreState(S), NEW n, NEW r \in core_keydown(c, "SHIFT", n)
    PROVE  r.core \in CoreState(S) /\ Keeps(c, r.core)
<1>. DEFINE c1 == [c EXCEPT !.fresh = FALSE]
<1>1. c1 \in CoreState(S) /\ Keeps(c, c1)
  BY DEF CoreState, Keeps
<1>2. r.core = [c1 EXCEPT !.shift = ~@]
  <2>1. c1 = [c EXCEPT !.fresh = @ /\ "SHIFT" = NoKey]  BY DEF NoKey
  <2>. HIDE DEF c1
  <2>2. r = Reply([c1 EXCEPT !.shift = ~@], Advances(c1) \/ Queued(c1), FALSE, FALSE)
    BY <2>1 DEF core_keydown
  <2>. QED  BY <2>2 DEF Reply
<1>. HIDE DEF c1
<1>3. (~c1.shift) \in BOOLEAN  OBVIOUS
<1>. QED  BY <1>1, <1>2, <1>3 DEF CoreState, Keeps

\* What a stroke, of one key or of two, leads to.
LEMMA PressFine ==
    ASSUME Inv, NEW stroke \in Strokes, NEW r \in Keydowns(stroke)
    PROVE  /\ Fine(r.core, typed + 1, nulled)
           /\ ~r.again /\ (r.repeat \/ ~r.enqueued) => Unseen(r.core, typed + 1)
<1>. DEFINE n == typed + 1
            c == TimerCancelled(stroke)
<1>1. /\ n \in Nat /\ n \in 0 .. n /\ nulled \in Nat /\ nulled <= typed /\ typed \in Nat
  BY DEF Inv
<1>2. Fine(c, typed, nulled)
  <2>1. core \in CoreState(0 .. typed) /\ Fine(core, typed, nulled)  BY DEF Inv, Fine
  <2>2. CASE c = core  BY <2>1, <2>2
  <2>3. CASE c = [core_timeout3(core, FALSE).core EXCEPT !.timer3 = FALSE]
    <3>1. c \in CoreState(0 .. typed) /\ Keeps(core, c)
      BY <2>1, <2>3, Timeout3Keeps
    <3>. HIDE DEF c
    <3>. QED  BY <1>1, <2>1, <3>1, KeepsFine
  <2>. QED  BY <2>2, <2>3 DEF TimerCancelled
<1>. HIDE DEF c
<1>3. Fine(c, n, nulled) /\ Later(c, n, nulled)
  BY <1>1, <1>2, FineGrows
<1>4. CASE \E key \in KeyNames : r \in core_keydown(c, key, n)
  <2>1. PICK key \in KeyNames : r \in core_keydown(c, key, n)  BY <1>4
  <2>2. Given(c, key, n, n, nulled) /\ key # NoKey
    BY <1>1, <1>3 DEF Given, KeyNames, NoKey
  <2>3. Accepts(c, key, n, n, nulled, r)
    BY <1>1, <1>3, <2>1, <2>2, CoreKeydownAccepts
  <2>. QED  BY <2>2, <2>3 DEF Accepts
<1>5. CASE \E key \in KeyNames :
              r \in UNION {core_keydown(v.core, key, n) :
                              v \in UNION {core_keyup(q.core) : q \in core_keydown(c, "SHIFT", n)}}
  <2>1. PICK key \in KeyNames :
              r \in UNION {core_keydown(v.core, key, n) :
                              v \in UNION {core_keyup(q.core) : q \in core_keydown(c, "SHIFT", n)}}
    BY <1>5
  <2>2. PICK v \in UNION {core_keyup(q.core) : q \in core_keydown(c, "SHIFT", n)} :
              r \in core_keydown(v.core, key, n)
    BY <2>1
  <2>3. PICK q \in core_keydown(c, "SHIFT", n) : v \in core_keyup(q.core)
    BY <2>2
  <2>4. q.core \in CoreState(0 .. n) /\ Keeps(c, q.core)
    BY <1>3, ShiftKeeps DEF Fine
  <2>5. Fine(q.core, n, nulled)
    BY <1>1, <1>3, <2>4, KeepsFine
  <2>6. Fine(v.core, n, nulled) /\ Starts(q.core, v.core)
    BY <1>1, <2>3, <2>5, KeyupStarts
  <2>7. Given(v.core, key, n, n, nulled) /\ key # NoKey
    BY <1>1, <1>3, <2>4, <2>6 DEF Given, Later, Keeps, Starts, KeyNames, NoKey
  <2>8. Accepts(v.core, key, n, n, nulled, r)
    BY <1>1, <2>2, <2>6, <2>7, CoreKeydownAccepts
  <2>. QED  BY <2>7, <2>8 DEF Accepts
<1>6. \/ \E key \in KeyNames : r \in core_keydown(c, key, n)
      \/ \E key \in KeyNames :
              r \in UNION {core_keydown(v.core, key, n) :
                              v \in UNION {core_keyup(q.core) : q \in core_keydown(c, "SHIFT", n)}}
  <2>1. CASE \E key \in Keys : stroke = <<key>>
    <3>1. PICK key \in Keys : stroke = <<key>>  BY <2>1
    <3>2. r \in core_keydown(c, key, n)
      BY <3>1 DEF Keydowns, c
    <3>. QED  BY <3>2, RunLoopAssumption
  <2>2. CASE \E key \in Keys : stroke = <<"SHIFT", key>>
    <3>1. PICK key \in Keys : stroke = <<"SHIFT", key>>  BY <2>2
    <3>2. Len(stroke) # 1 /\ stroke[2] = key  BY <3>1
    <3>3. r \in UNION {core_keydown(v.core, key, n) :
                          v \in UNION {core_keyup(q.core) : q \in core_keydown(c, "SHIFT", n)}}
      BY <3>2 DEF Keydowns, c
    <3>. QED  BY <3>3, RunLoopAssumption
  <2>. QED  BY <2>1, <2>2 DEF Strokes
<1>. QED  BY <1>4, <1>5, <1>6

\* A new process: nothing waits, nothing is pending, no key was pressed.
LEMMA PowercycleFine ==
    ASSUME NEW t \in Nat, NEW u \in Nat, NEW c \in CoreState(0 .. t), c.ran # u \/ u = 0,
           NEW auto_exec \in BOOLEAN
    PROVE  LET d == core_powercycle(c, auto_exec)
           IN  Fine(d, t, u) /\ d.fresh /\ d.buf = << >> /\ ~d.quit
<1>. DEFINE d == core_powercycle(c, auto_exec)
            f == [c EXCEPT !.work = 0, !.fresh = TRUE, !.buf = << >>, !.shift = FALSE,
                           !.pending = "NONE", !.getkey = FALSE, !.running = auto_exec]
<1>1. 0 \in 0 .. MaxWork  BY KeyboardCoreAssumption
<1>2. "NONE" \in PendingCommands  BY DEF PendingCommands
<1>3. /\ f \in CoreState(0 .. t) /\ f.fresh = TRUE /\ f.buf = << >> /\ f.pending = "NONE"
      /\ f.handled = c.handled /\ f.ran = c.ran
  BY <1>1, <1>2, EmptyQueue DEF CoreState
<1>4. d = [f EXCEPT !.pause = FALSE, !.timer3 = FALSE, !.quit = FALSE,
                    !.repeating = FALSE, !.rkey = NoStroke]
  BY DEF core_powercycle
<1>. HIDE DEF d, f
<1>5. /\ d \in CoreState(0 .. t) /\ d.fresh = TRUE /\ d.buf = << >> /\ d.pending = "NONE"
      /\ d.handled = c.handled /\ d.ran = c.ran /\ d.rkey = NoStroke /\ d.quit = FALSE
  BY <1>3, <1>4 DEF CoreState
<1>6. d.handled \in Nat  BY <1>5 DEF CoreState
<1>7. Ordered(d)
  BY <1>5, <1>6, KeyboardCoreAssumption DEF Ordered, NoStroke, NoKey
<1>8. Annulled(d, u)
  BY <1>5 DEF Annulled, Waits, Active
<1>9. Fine(d, t, u) /\ d.fresh /\ d.buf = << >> /\ ~d.quit
  BY <1>5, <1>7, <1>8 DEF Fine
<1>. QED  BY <1>9 DEF d

\* Initially: a new process.
LEMMA InitInv == Init => Inv
<1>. SUFFICES ASSUME Init PROVE Inv
  OBVIOUS
<1>1. Off \in CoreState(0 .. 0)
  <2>1. 0 \in 0 .. MaxWork  BY KeyboardCoreAssumption
  <2>2. << >> \in Seq(Stroke(0 .. 0))  BY EmptyQueue
  <2>3. "NONE" \in PendingCommands  BY DEF PendingCommands
  <2>. QED  BY <2>1, <2>2, <2>3 DEF Off, CoreState
<1>2. PICK auto_exec \in BOOLEAN : core = core_powercycle(Off, auto_exec)
  BY DEF Init
<1>3. Fine(core, 0, 0) /\ core.fresh /\ core.buf = << >> /\ ~core.quit
  BY <1>1, <1>2, PowercycleFine
<1>. QED  BY <1>3 DEF Init, Inv

LEMMA NewProcessInv == Inv /\ NewProcess => Inv'
<1>. SUFFICES ASSUME Inv, NewProcess PROVE Inv'
  OBVIOUS
<1>1. PICK auto_exec \in BOOLEAN : core' = core_powercycle(core, auto_exec)
  BY DEF NewProcess
<1>2. core \in CoreState(0 .. typed) /\ (core.ran # nulled \/ nulled = 0) /\ nulled \in Nat
      /\ typed \in Nat
  BY DEF Inv, Fine, Annulled
<1>3. Fine(core', typed, nulled) /\ core'.fresh /\ core'.buf = << >> /\ ~core'.quit
  BY <1>1, <1>2, PowercycleFine
<1>. QED  BY <1>3 DEF NewProcess, Inv

\* What leaves the order alone, and clears nothing when no key was pressed.
LEMMA StepKeeps ==
    ASSUME Inv, core' \in CoreState(0 .. typed), Keeps(core, core'),
           core'.fresh = core.fresh, core'.quit = core.quit,
           UNCHANGED <<typed, boot, nulled>>,
           held' = held \/ held' = NoKey,
           timer # "none" \/ timer' = "none"
    PROVE  Inv'
<1>1. Fine(core', typed, nulled)
  BY KeepsFine DEF Inv
<1>2. Unseen(core, typed) => Unseen(core', typed)
  BY DEF Keeps, Unseen, Waits
<1>3. core'.buf = core.buf  BY DEF Keeps
<1>. QED  BY <1>1, <1>2, <1>3 DEF Inv

LEMMA PressInv == ASSUME Inv, NEW stroke \in Strokes, Press(stroke) PROVE Inv'
<1>1. PICK r \in Keydowns(stroke) :
          /\ core' = r.core
          /\ timer' # "none" => ~r.again /\ (r.repeat \/ ~r.enqueued)
  BY DEF Press
<1>2. /\ Fine(core', typed + 1, nulled)
      /\ timer' # "none" => Unseen(core', typed + 1)
  BY <1>1, PressFine
<1>. QED  BY <1>2 DEF Inv, Press

LEMMA ReleaseInv == Inv /\ Release => Inv'
<1>. SUFFICES ASSUME Inv, Release PROVE Inv'
  OBVIOUS
<1>1. Fine(core', typed, nulled)
  <2>1. CASE enqueued  BY <2>1 DEF Release, Inv
  <2>2. CASE ~enqueued
    <3>1. PICK v \in core_keyup(core) : core' = v.core  BY <2>2 DEF Release
    <3>. QED  BY <3>1, KeyupStarts DEF Inv
  <2>. QED  BY <2>1, <2>2
<1>2. typed # boot  BY DEF Release, Inv
<1>. QED  BY <1>1, <1>2 DEF Release, Inv

LEMMA ReminderInv == Inv /\ Reminder => Inv'
<1>. SUFFICES ASSUME Inv, Reminder PROVE Inv'
  OBVIOUS
<1>1. PICK r \in core_keydown(core, NoKey, 0) : core' = r.core
  BY DEF Reminder
<1>2. Given(core, NoKey, 0, typed, nulled)  BY DEF Given, Inv
<1>3. Accepts(core, NoKey, 0, typed, nulled, r)
  BY <1>1, <1>2, CoreKeydownAccepts DEF Inv
<1>4. Fine(core', typed, nulled) /\ (Unseen(core, typed) => Unseen(core', typed))
  BY <1>1, <1>3 DEF Accepts, Inv
<1>5. core.fresh /\ core.buf = << >> => core'.fresh /\ core'.buf = << >> /\ core'.quit = core.quit
  BY <1>1, <1>3 DEF Accepts
<1>. QED  BY <1>4, <1>5 DEF Inv, Reminder

LEMMA RepeaterInv == Inv /\ Repeater => Inv'
<1>. SUFFICES ASSUME Inv, Repeater PROVE Inv'
  OBVIOUS
<1>1. PICK r \in core_repeat(core) : core' = r.core  BY DEF Repeater
<1>2. PICK d \in keydown(core, core.rkey) : r = Reply([d EXCEPT !.repeating = FALSE], FALSE, FALSE, d.repeating)
  BY <1>1 DEF core_repeat
<1>3. Fine(core, typed, nulled) /\ typed \in Nat /\ nulled \in Nat  BY DEF Inv
<1>4. /\ core.rkey \in Stroke(0 .. typed) \cup {NoStroke}
      /\ core.rkey.key \in {"ARROW", NoKey} /\ core.rkey.n <= core.handled
      /\ \A i \in DOMAIN core.buf : core.buf[i].n > core.handled
  BY <1>3 DEF Fine, CoreState, Ordered
<1>5. /\ core.rkey.n \in Nat /\ core.handled \in Nat
      /\ \A i \in DOMAIN core.buf : core.buf[i].n \in Nat
  <2>1. core.handled \in Nat /\ core.buf \in Seq(Stroke(0 .. typed))
    BY <1>3 DEF Fine, CoreState
  <2>2. \A x \in Stroke(0 .. typed) : x.n \in Nat  BY DEF Stroke
  <2>3. NoStroke.n \in Nat  BY DEF NoStroke
  <2>. QED  BY <1>4, <2>1, <2>2, <2>3
<1>6. \A i \in DOMAIN core.buf : core.buf[i].n > core.rkey.n
  BY <1>4, <1>5
<1>7. Fine(d, typed, nulled) /\ d.buf = core.buf /\ d.ran = core.ran
  BY <1>2, <1>3, <1>4, <1>5, <1>6, KeydownFine
<1>8. core' = [d EXCEPT !.repeating = FALSE]  BY <1>1, <1>2 DEF Reply
<1>9. core' \in CoreState(0 .. typed) /\ Keeps(d, core')
  BY <1>7, <1>8 DEF Fine, CoreState, Keeps
<1>10. Fine(core', typed, nulled)  BY <1>3, <1>7, <1>9, KeepsFine
<1>11. Unseen(core', typed)
  BY <1>7, <1>9 DEF Repeater, Inv, Unseen, Waits, Keeps
<1>12. typed # boot  BY DEF Repeater, Inv
<1>. QED  BY <1>10, <1>11, <1>12 DEF Repeater, Inv

LEMMA Timeout2Inv == Inv /\ Timeout2 => Inv'
<1>. SUFFICES ASSUME Inv, Timeout2 PROVE Inv'
  OBVIOUS
<1>1. typed # boot /\ Unseen(core, typed) /\ Fine(core, typed, nulled) /\ typed \in Nat /\ nulled \in Nat
  BY DEF Timeout2, Inv
<1>2. Fine(core', typed, nulled') /\ nulled' \in {nulled, typed}
  <2>1. CASE held = NoKey  BY <1>1, <2>1 DEF Timeout2
  <2>2. CASE held # NoKey
    <3>1. PICK t \in core_keytimeout2(core) : core' = t.core /\ nulled' = IF t.null THEN typed ELSE nulled
      BY <2>2 DEF Timeout2
    <3>2. \/ t = Timed(core, FALSE)
          \/ t = Timed([core EXCEPT !.pending = "CANCELLED"], TRUE)
      BY DEF core_keytimeout2
    <3>3. CASE t = Timed(core, FALSE)
      BY <1>1, <3>1, <3>3 DEF Timed
    <3>4. CASE t = Timed([core EXCEPT !.pending = "CANCELLED"], TRUE)
      <4>1. core' = [core EXCEPT !.pending = "CANCELLED"] /\ nulled' = typed
        BY <3>1, <3>4 DEF Timed
      <4>2. core' \in CoreState(0 .. typed) /\ Keeps(core, core') /\ core'.pending = "CANCELLED"
        BY <1>1, <4>1 DEF Fine, CoreState, Keeps, PendingCommands, Active
      <4>3. Ordered(core')  BY <1>1, <4>2 DEF Fine, Ordered, Keeps
      <4>4. Annulled(core', typed)
        BY <1>1, <4>2 DEF Annulled, Unseen, Waits, Keeps, Active
      <4>. QED  BY <4>1, <4>2, <4>3, <4>4 DEF Fine
    <3>. QED  BY <3>2, <3>3, <3>4
  <2>. QED  BY <2>1, <2>2
<1>. QED  BY <1>1, <1>2 DEF Timeout2, Inv

LEMMA Timeout3Inv == Inv /\ Timeout3 => Inv'
<1>. SUFFICES ASSUME Inv, Timeout3 PROVE Inv'
  OBVIOUS
<1>1. core \in CoreState(0 .. typed)  BY DEF Inv, Fine
<1>2. core' = [core_timeout3(core, TRUE).core EXCEPT !.timer3 = FALSE]
  BY DEF Timeout3
<1>3. core' \in CoreState(0 .. typed) /\ Keeps(core, core') /\ core'.fresh = core.fresh
      /\ core'.quit = core.quit
  BY <1>1, <1>2, Timeout3Keeps
<1>4. timer # "none" \/ timer' = "none"  BY DEF Timeout3
<1>. QED  BY <1>3, <1>4, StepKeeps DEF Timeout3

LEMMA ImportInv == Inv /\ ImportPrograms => Inv'
<1>. SUFFICES ASSUME Inv, ImportPrograms PROVE Inv'
  OBVIOUS
<1>1. core' = [core EXCEPT !.running = FALSE]
  BY DEF ImportPrograms, core_import_programs
<1>2. core' \in CoreState(0 .. typed) /\ Keeps(core, core') /\ core'.fresh = core.fresh
      /\ core'.quit = core.quit
  BY <1>1 DEF Inv, Fine, CoreState, Keeps
<1>. QED  BY <1>2, StepKeeps DEF ImportPrograms, shell

\* The inductive invariant: what waits in the ring, what was started and what was
\* annulled stay apart, whatever the shell calls next.
THEOREM Invariance == Spec => []Inv
<1>1. Inv /\ [Next]_vars => Inv'
  <2>. SUFFICES ASSUME Inv, [Next]_vars PROVE Inv'
    OBVIOUS
  <2>1. CASE Reminder  BY <2>1, ReminderInv
  <2>2. CASE Repeater  BY <2>2, RepeaterInv
  <2>3. CASE Timeout1  BY <2>3 DEF Timeout1, Inv
  <2>4. CASE Timeout2  BY <2>4, Timeout2Inv
  <2>5. CASE Timeout3  BY <2>5, Timeout3Inv
  <2>6. CASE \E stroke \in Strokes : Press(stroke)  BY <2>6, PressInv
  <2>7. CASE Release  BY <2>7, ReleaseInv
  <2>8. CASE ImportPrograms  BY <2>8, ImportInv
  <2>9. CASE NewProcess  BY <2>9, NewProcessInv
  <2>10. CASE UNCHANGED vars  BY <2>10 DEF vars, Inv
  <2>. QED
    BY <2>1, <2>2, <2>3, <2>4, <2>5, <2>6, <2>7, <2>8, <2>9, <2>10
    DEF Next, Callbacks, User, CloseWindow, Restart
<1>. QED  BY InitInv, <1>1, PTL DEF Spec

\* Keystrokes keep their order, the ring is not overrun, and a key shown as NULL
\* is not performed: for a ring of any size and any number of keystrokes.
THEOREM KeystrokesKeepTheirOrder == Spec => []KeysInOrder
<1>1. Inv => KeysInOrder
  BY DEF Inv, Fine, Ordered, Annulled, KeysInOrder
<1>. QED  BY <1>1, Invariance, PTL

\* A program started at power-up cannot switch off before a key was pressed.
THEOREM PowerStaysOn == Spec => []NoPowerOffLoop
<1>1. Inv => NoPowerOffLoop
  BY DEF Inv, NoPowerOffLoop
<1>. QED  BY <1>1, Invariance, PTL

-----------------------------------------------------------------------------
(***************************************************************************)
(* EXIT, and pauses.  While a program pauses no long operation is under    *)
(* way, so that the branch of core_keydown() that ends a pause need not    *)
(* end one; and between two callbacks the timer that ends the pause runs.  *)
(***************************************************************************)
Calm(c) == c.pause => c.work = 0
Resting(c) == c.pause => c.work = 0 /\ c.timer3

LEMMA HandlerCalm ==
    ASSUME NEW S, NEW c \in CoreState(S), ~c.pause, c.work = 0, NEW command \in AllCommands,
           NEW r \in Handler(c, command)
    PROVE  Calm(r.core)
<1> USE DEF CoreState, Calm, Result
<1>1. CASE command \in {"PLAIN", "FAIL", "STOP", "XEQ"}
  <2>1. \E error \in {"NONE", "FAIL", "STOP", "RUN"} : r = Result(c, error)  BY <1>1 DEF Handler
  <2>. QED  BY <2>1
<1>2. CASE command = "GETKEY"
  <2>1. r = Result([c EXCEPT !.getkey = TRUE], "NONE")  BY <1>2 DEF Handler
  <2>. QED  BY <2>1
<1>3. CASE command = "PSE"
  <2>1. r = Result([c EXCEPT !.pause = @ \/ c.running], "NONE")  BY <1>3 DEF Handler
  <2>2. r.core.work = c.work  BY <2>1
  <2>. QED  BY <2>2
<1>4. CASE command = "OFF"
  <2>1. r.core = c \/ r.core = [c EXCEPT !.running = FALSE, !.quit = TRUE]
    <3>1. CASE SuspiciousOff(c)  BY <1>4, <3>1 DEF Handler
    <3>2. CASE ~SuspiciousOff(c)  BY <1>4, <3>2 DEF Handler
    <3>. QED  BY <3>1, <3>2
  <2>. QED  BY <2>1
<1>5. CASE command = "LONG"
  <2>1. PICK op \in (1 .. MaxWork) \X BOOLEAN :
            r = Result([c EXCEPT !.work = op[1], !.stoppable = op[2]], "INTERRUPTIBLE")
    BY <1>5 DEF Handler
  <2>2. r.core.pause = c.pause  BY <2>1
  <2>. QED  BY <2>2
<1>. QED  BY <1>1, <1>2, <1>3, <1>4, <1>5 DEF AllCommands

\* What has to do neither with a pause nor with a long operation.
Quiet(c, d) == d.pause = c.pause /\ d.work = c.work

LEMMA HandleErrorQuiet ==
    ASSUME NEW S, NEW c \in CoreState(S), NEW error \in Errors, NEW o \in handle_error(c, error)
    PROVE  Quiet(c, o.core)
<1> USE DEF CoreState, Quiet, Errors, Outcome
<1>1. CASE c.running
  <2>1. \/ o = Outcome(c, TRUE)
        \/ o = Outcome(c, FALSE)
        \/ o = Outcome([c EXCEPT !.running = FALSE], FALSE)
    BY <1>1 DEF handle_error
  <2>2. CASE o = Outcome(c, TRUE)  BY <2>2
  <2>3. CASE o = Outcome(c, FALSE)  BY <2>3
  <2>4. CASE o = Outcome([c EXCEPT !.running = FALSE], FALSE)  BY <2>4
  <2>. QED  BY <2>1, <2>2, <2>3, <2>4
<1>2. CASE ~c.running
  <2>1. o = Outcome([c EXCEPT !.running = (error = "RUN" /\ c.pending # "SST")], FALSE)
    BY <1>2 DEF handle_error
  <2>. QED  BY <2>1
<1>. QED  BY <1>1, <1>2

LEMMA ContinueCalm ==
    ASSUME NEW S, NEW c \in CoreState(S), ~c.pause, c.work = 0, NEW e \in continue_running(c)
    PROVE  Resting(e)
<1>1. CASE e \in {c, [c EXCEPT !.running = FALSE]}
  BY <1>1 DEF CoreState, Resting
<1>2. CASE \E r \in Handlers(c, Commands) :
              \/ r.core.pause /\ e = [r.core EXCEPT !.timer3 = TRUE]
              \/ ~r.core.pause /\ r.error = "INTERRUPTIBLE" /\ e = r.core
              \/ ~r.core.pause /\ r.error # "INTERRUPTIBLE" /\ \E o \in handle_error(r.core, r.error) : e = o.core
  <2>1. PICK r \in Handlers(c, Commands) :
              \/ r.core.pause /\ e = [r.core EXCEPT !.timer3 = TRUE]
              \/ ~r.core.pause /\ r.error = "INTERRUPTIBLE" /\ e = r.core
              \/ ~r.core.pause /\ r.error # "INTERRUPTIBLE" /\ \E o \in handle_error(r.core, r.error) : e = o.core
    BY <1>2
  <2>2. PICK command \in Commands : r \in Handler(c, command)
    BY DEF Handlers
  <2>. command \in AllCommands  BY KeyboardCoreAssumption DEF AllCommands
  <2>3. r.core \in CoreState(S) /\ Calm(r.core) /\ r.error \in Errors \cup {"INTERRUPTIBLE"}
    BY <2>2, HandlerSame, HandlerCalm
  <2>4. CASE e = [r.core EXCEPT !.timer3 = TRUE]
    BY <2>3, <2>4 DEF CoreState, Calm, Resting
  <2>5. CASE ~r.core.pause /\ e = r.core
    BY <2>5 DEF Resting
  <2>6. CASE ~r.core.pause /\ r.error # "INTERRUPTIBLE" /\ \E o \in handle_error(r.core, r.error) : e = o.core
    <3>1. PICK o \in handle_error(r.core, r.error) : e = o.core  BY <2>6
    <3>2. Quiet(r.core, o.core)
      BY <2>3, <2>6, HandleErrorQuiet
    <3>. QED  BY <2>6, <3>1, <3>2 DEF Quiet, Resting
  <2>. QED  BY <2>1, <2>4, <2>5, <2>6
<1>. QED  BY <1>1, <1>2 DEF continue_running

LEMMA KeydownQuiet ==
    ASSUME NEW S, NEW c \in CoreState(S), NEW k, NEW e \in keydown(c, k)
    PROVE  Quiet(c, e) /\ (c.timer3 => e.timer3)
<1>. DEFINE d == [c EXCEPT !.pending = "NONE", !.handled = k.n]
            f == IF k.key = "ARROW" THEN [d EXCEPT !.repeating = TRUE, !.rkey = k] ELSE d
<1>1. d.pause = c.pause /\ d.work = c.work /\ d.timer3 = c.timer3  BY DEF CoreState
<1>2. f.pause = c.pause /\ f.work = c.work /\ f.timer3 = c.timer3  BY DEF CoreState
<1>3. CASE c.getkey
  <2>1. PICK r \in {FALSE} \cup {c.running} : e = [d EXCEPT !.getkey = FALSE, !.running = r]
    BY <1>3 DEF keydown
  <2>. QED  BY <2>1 DEF CoreState, Quiet
<1>4. CASE ~c.getkey
  <2>1. \/ \E p \in PendingOf(k.key, k.shift) :
               e = [f EXCEPT !.pending = p, !.timer3 = @ \/ p = "LINGER1"]
        \/ e = [f EXCEPT !.running = TRUE]
    BY <1>4 DEF keydown
  <2>. DEFINE g(p) == [f EXCEPT !.pending = p, !.timer3 = @ \/ p = "LINGER1"]
  <2>2. \A p : g(p).pause = f.pause /\ g(p).work = f.work /\ g(p).timer3 = (f.timer3 \/ p = "LINGER1")
    BY DEF CoreState
  <2>3. LET x == [f EXCEPT !.running = TRUE] IN x.pause = f.pause /\ x.work = f.work /\ x.timer3 = f.timer3
    BY DEF CoreState
  <2>4. \/ \E p \in PendingOf(k.key, k.shift) : e = g(p)
        \/ e = [f EXCEPT !.running = TRUE]
    BY <2>1
  <2>. HIDE DEF f, g
  <2>. QED  BY <1>2, <2>2, <2>3, <2>4 DEF Quiet
<1>. QED  BY <1>3, <1>4

LEMMA StartPendingCalm ==
    ASSUME NEW S, NEW c \in CoreState(S), NEW commands \in SUBSET AllCommands,
           NEW v \in StartPending(c, commands), c.handled \in S
    PROVE  ~v.core.pause
<1>. DEFINE c1 == [c EXCEPT !.ran = c.handled, !.running = @ \/ c.pending = "SST"]
            Returned(r) == [r.core EXCEPT !.pause = FALSE,
                                          !.running = @ /\ c.pending # "SST"]
<1>1. c1 \in CoreState(S)
  <2>1. (c.running \/ c.pending = "SST") \in BOOLEAN  OBVIOUS
  <2>. QED  BY <2>1 DEF CoreState
<1>2. PICK r \in Handlers(c1, commands) :
          \/ r.error = "INTERRUPTIBLE" /\ v = Keyup(Returned(r), TRUE)
          \/ /\ r.error # "INTERRUPTIBLE"
             /\ \E o \in handle_error(Returned(r), r.error) :
                    v = Keyup([o.core EXCEPT !.pending = "NONE"], Advances(o.core) \/ Queued(o.core))
  BY DEF StartPending
<1>. HIDE DEF c1
<1>3. r.core \in CoreState(S) /\ r.error \in Errors \cup {"INTERRUPTIBLE"}
  <2>1. PICK command \in commands : r \in Handler(c1, command)  BY DEF Handlers
  <2>. QED  BY <1>1, <2>1, HandlerSame
<1>4. Returned(r) \in CoreState(S) /\ ~Returned(r).pause
  <2>1. (r.core.running /\ c.pending # "SST") \in BOOLEAN  OBVIOUS
  <2>. QED  BY <1>3, <2>1 DEF CoreState
<1>. HIDE DEF Returned
<1>5. CASE v = Keyup(Returned(r), TRUE)
  BY <1>4, <1>5 DEF Keyup
<1>6. CASE /\ r.error # "INTERRUPTIBLE"
           /\ \E o \in handle_error(Returned(r), r.error) :
                  v = Keyup([o.core EXCEPT !.pending = "NONE"], Advances(o.core) \/ Queued(o.core))
  <2>1. PICK o \in handle_error(Returned(r), r.error) :
                  v = Keyup([o.core EXCEPT !.pending = "NONE"], Advances(o.core) \/ Queued(o.core))
    BY <1>6
  <2>2. o.core \in CoreState(S) /\ Quiet(Returned(r), o.core)
    BY <1>3, <1>4, <1>6, HandleErrorSame, HandleErrorQuiet
  <2>3. v.core = [o.core EXCEPT !.pending = "NONE"]  BY <2>1 DEF Keyup
  <2>. QED  BY <1>4, <2>2, <2>3 DEF CoreState, Quiet
<1>. QED  BY <1>2, <1>5, <1>6

LEMMA KeyupCalm ==
    ASSUME NEW S, NEW c \in CoreState(S), NEW v \in core_keyup(c)
    PROVE  IF c.pause THEN v.core = c ELSE ~v.core.pause
<1>. DEFINE done == [c EXCEPT !.pending = "NONE"]
<1>1. done.pause = c.pause  BY DEF CoreState
<1>2. CASE c.pause
  <2>1. v = Keyup(c, FALSE)  BY <1>2 DEF core_keyup
  <2>. QED  BY <1>2, <2>1 DEF Keyup
<1>3. CASE ~c.pause /\ c.pending \notin {"SST", "COMMAND"}
  <2>1. \/ v.core = done
        \/ v.core = [c EXCEPT !.pending = "LINGER2"]
        \/ v.core = [done EXCEPT !.quit = TRUE]
        \/ v.core = [done EXCEPT !.running = TRUE, !.ran = c.handled]
    <3>1. c.pending \in PendingCommands  BY DEF CoreState
    <3>2. CASE c.pending \in {"LINGER1", "LINGER2"}
      BY <1>3, <3>2 DEF core_keyup, Keyup
    <3>3. CASE c.pending = "SILENT_OFF"  BY <1>3, <3>3 DEF core_keyup, Keyup
    <3>4. CASE c.pending \in {"NONE", "CANCELLED"}  BY <1>3, <3>4 DEF core_keyup, Keyup
    <3>5. CASE c.pending = "RUN"  BY <1>3, <3>5 DEF core_keyup, Keyup
    <3>. QED  BY <1>3, <3>1, <3>2, <3>3, <3>4, <3>5 DEF PendingCommands
  <2>2. /\ [c EXCEPT !.pending = "LINGER2"].pause = c.pause
        /\ [done EXCEPT !.quit = TRUE].pause = c.pause
        /\ [done EXCEPT !.running = TRUE, !.ran = c.handled].pause = c.pause
    BY DEF CoreState
  <2>. HIDE DEF done
  <2>. QED  BY <1>1, <1>3, <2>1, <2>2
<1>4. CASE ~c.pause /\ c.pending \in {"SST", "COMMAND"}
  <2>. DEFINE commands == IF c.pending = "COMMAND" /\ c.work > 0 THEN {"LONG"} ELSE Commands
  <2>1. v \in StartPending(c, commands) \/ v.core = done
    <3>1. CASE c.pending = "SST"  BY <1>4, <3>1 DEF core_keyup, Keyup
    <3>2. CASE c.pending = "COMMAND"  BY <1>4, <3>2 DEF core_keyup
    <3>. QED  BY <1>4, <3>1, <3>2
  <2>2. commands \in SUBSET AllCommands
    BY KeyboardCoreAssumption DEF AllCommands
  <2>3. c.handled \in S  BY DEF CoreState
  <2>. HIDE DEF commands, done
  <2>4. ~v.core.pause
    BY <1>1, <1>4, <2>1, <2>2, <2>3, StartPendingCalm
  <2>. QED  BY <1>4, <2>4
<1>. QED  BY <1>2, <1>3, <1>4

LEMMA WorkerStepCalm ==
    ASSUME NEW S, NEW c \in CoreState(S), ~c.pause, NEW queued \in BOOLEAN,
           NEW r \in WorkerStep(c, queued)
    PROVE  ~r.core.pause
<1>. DEFINE d == [c EXCEPT !.work = 0]
            Finished(o) == IF d.running THEN [o.core EXCEPT !.running = @ /\ o.continue]
                                        ELSE [o.core EXCEPT !.pending = "NONE"]
<1>. USE KeyboardCoreAssumption
<1>1. d \in CoreState(S) /\ ~d.pause
  BY DEF CoreState
<1>2. CASE c.work > 1
  <2>1. r = Reply([c EXCEPT !.work = @ - 1], TRUE, queued, FALSE)
    BY <1>2 DEF WorkerStep
  <2>. QED  BY <2>1 DEF CoreState, Reply
<1>3. CASE ~(c.work > 1)
  <2>1. r \in {WorkerReply(Finished(o), queued) :
                  o \in UNION {handle_error(d, error) : error \in {"NONE", "FAIL"}}}
    BY <1>3 DEF WorkerStep
  <2>. HIDE DEF d
  <2>2. PICK o \in UNION {handle_error(d, error) : error \in {"NONE", "FAIL"}} :
                  r = WorkerReply(Finished(o), queued)
    BY <2>1
  <2>3. PICK error \in {"NONE", "FAIL"} : o \in handle_error(d, error)
    OBVIOUS
  <2>4. o.core \in CoreState(S) /\ ~o.core.pause
    BY <1>1, <2>3, HandleErrorSame, HandleErrorQuiet DEF Errors, Quiet
  <2>5. r.core = Finished(o)
    BY <2>2 DEF WorkerReply, Reply
  <2>6. CASE d.running
    <3>1. r.core = [o.core EXCEPT !.running = @ /\ o.continue]  BY <2>5, <2>6
    <3>. QED  BY <2>4, <3>1 DEF CoreState
  <2>7. CASE ~d.running
    <3>1. r.core = [o.core EXCEPT !.pending = "NONE"]  BY <2>5, <2>7
    <3>. QED  BY <2>4, <3>1 DEF CoreState
  <2>. QED  BY <2>6, <2>7
<1>. QED  BY <1>2, <1>3

LEMMA EnqueueQuiet ==
    ASSUME NEW S, NEW c \in CoreState(S), NEW key, NEW n
    PROVE  Quiet(c, Enqueue(c, key, n))
<1>. DEFINE d == [c EXCEPT !.buf = Append(@, [key |-> key, shift |-> c.shift, n |-> n])]
<1>1. /\ d.pause = c.pause /\ d.work = c.work
      /\ [d EXCEPT !.shift = FALSE].pause = d.pause /\ [d EXCEPT !.shift = FALSE].work = d.work
      /\ [c EXCEPT !.shift = FALSE].pause = c.pause /\ [c EXCEPT !.shift = FALSE].work = c.work
  BY DEF CoreState
<1>2. Enqueue(c, key, n) \in {[d EXCEPT !.shift = FALSE], [c EXCEPT !.shift = FALSE]}
  BY DEF Enqueue, Unshifted
<1>. HIDE DEF d
<1>. QED  BY <1>1, <1>2 DEF Quiet

\* What core_keydown() does before it looks at the key: c1, and when the pause has
\* been ended c2.
IsAwake(c, key, c1, c2) ==
    /\ c1 = [c EXCEPT !.fresh = @ /\ key = NoKey]
    /\ c2 = [c1 EXCEPT !.pause = FALSE, !.running = @ /\ ~c1.pause]

Wakes(c, c1, c2) ==
    /\ Quiet(c, c1) /\ c1.shift = c.shift
    /\ c2.pause = FALSE /\ c2.running = (c.running /\ ~c.pause)
    /\ c2.work = c.work /\ c2.getkey = c.getkey

LEMMA AwakeFine ==
    ASSUME NEW t \in Nat, NEW u \in Nat, NEW c, Fine(c, t, u), NEW key, NEW n,
           Given(c, key, n, t, u), NEW c1, NEW c2, IsAwake(c, key, c1, c2)
    PROVE  Wakes(c, c1, c2) /\ Fine(c2, t, u) /\ Given(c2, key, n, t, u)
<1>1. c \in CoreState(0 .. t)  BY DEF Fine
<1>2. /\ c1 \in CoreState(0 .. t) /\ Keeps(c, c1) /\ Quiet(c, c1)
      /\ c1.shift = c.shift /\ c1.running = c.running /\ c1.getkey = c.getkey
  <2>1. (c.fresh /\ key = NoKey) \in BOOLEAN  OBVIOUS
  <2>. QED  BY <1>1, <2>1 DEF CoreState, Keeps, Quiet, IsAwake
<1>3. /\ c2 \in CoreState(0 .. t) /\ Keeps(c1, c2) /\ c2.pause = FALSE
      /\ c2.running = (c1.running /\ ~c1.pause) /\ c2.work = c1.work /\ c2.getkey = c1.getkey
  <2>1. (c1.running /\ ~c1.pause) \in BOOLEAN  OBVIOUS
  <2>2. c2 = [c1 EXCEPT !.pause = FALSE, !.running = @ /\ ~c1.pause]  BY DEF IsAwake
  <2>. QED  BY <1>2, <2>1, <2>2 DEF CoreState, Keeps
<1>4. Keeps(c, c2)  BY <1>2, <1>3 DEF Keeps
<1>5. Fine(c2, t, u) /\ Given(c2, key, n, t, u)
  BY <1>3, <1>4, KeepsFine DEF Given, Later, Keeps
<1>. QED  BY <1>2, <1>3, <1>5 DEF Quiet, Wakes

\* The branches of core_keydown() behind its first test of mode_pause.
Awake(c, key, n) ==
    IF c.work > 0 THEN KeydownWorking(c, key, n)
    ELSE IF c.running /\ ~c.getkey THEN KeydownRunning(c, key, n)
    ELSE IF Queued(c) THEN KeydownQueued(c, key, n)
    ELSE IF key # NoKey THEN KeydownDirect(c, key, n)
    ELSE {Reply(c, FALSE, FALSE, FALSE)}

LEMMA CoreKeydownCases ==
    ASSUME NEW c, NEW key, NEW n, NEW c1, NEW c2, IsAwake(c, key, c1, c2),
           NEW r \in core_keydown(c, key, n)
    PROVE  \/ key = "SHIFT" /\ r.core = [c1 EXCEPT !.shift = ~@]
           \/ key # "SHIFT" /\ c1.pause /\ ~c1.shift /\ r.core = c2
           \/ /\ key # "SHIFT" /\ ~(c1.pause /\ ~c1.shift /\ key \in {"RUN", "EXIT"})
              /\ r \in Awake(c2, key, n)
<1>1. CASE key = "SHIFT"
  <2>1. r = Reply([c1 EXCEPT !.shift = ~@], Advances(c1) \/ Queued(c1), FALSE, FALSE)
    BY <1>1 DEF core_keydown, IsAwake
  <2>. QED  BY <1>1, <2>1 DEF Reply
<1>2. CASE key # "SHIFT" /\ c1.pause /\ ~c1.shift /\ key \in {"RUN", "EXIT"}
  <2>1. r = Reply(c2, FALSE, FALSE, FALSE)
    BY <1>2 DEF core_keydown, IsAwake
  <2>. QED  BY <1>2, <2>1 DEF Reply
<1>3. CASE key # "SHIFT" /\ ~(c1.pause /\ ~c1.shift /\ key \in {"RUN", "EXIT"})
  BY <1>3 DEF core_keydown, IsAwake, Awake
<1>. QED  BY <1>1, <1>2, <1>3

LEMMA AwakeCalm ==
    ASSUME NEW t \in Nat, NEW u \in Nat, NEW c, Fine(c, t, u), NEW key, NEW n,
           Given(c, key, n, t, u), ~c.pause, NEW r \in Awake(c, key, n)
    PROVE  Resting(r.core)
<1>1. c \in CoreState(0 .. t) /\ c.work \in Nat  BY DEF Fine, CoreState
<1>2. key # NoKey => Enqueue(c, key, n) \in CoreState(0 .. t) /\ Quiet(c, Enqueue(c, key, n))
  BY <1>1, EnqueueFine, EnqueueQuiet DEF Fine, Given
<1>3. CASE c.work > 0 /\ r \in KeydownWorking(c, key, n)
  <2>1. CASE key = NoKey
    <3>1. r \in WorkerStep(c, FALSE)  BY <1>3, <2>1 DEF KeydownWorking
    <3>. QED  BY <1>1, <3>1, WorkerStepCalm DEF Resting
  <2>2. CASE key # NoKey /\ (key = "EXIT" \/ (c.stoppable /\ ~c.shift /\ key = "RUN"))
    <3>. DEFINE f == [c EXCEPT !.buf = << >>]
    <3>1. r = Reply(stop_interruptible(f), FALSE, TRUE, FALSE)  BY <1>3, <2>2 DEF KeydownWorking
    <3>2. f.pause = c.pause /\ stop_interruptible(f).pause = f.pause
      BY <1>1 DEF CoreState, stop_interruptible
    <3>. HIDE DEF f
    <3>3. r.core = stop_interruptible(f)  BY <3>1 DEF Reply
    <3>. QED  BY <3>2, <3>3 DEF Resting
  <2>3. CASE key # NoKey /\ ~(key = "EXIT" \/ (c.stoppable /\ ~c.shift /\ key = "RUN"))
    <3>1. r \in WorkerStep(Enqueue(c, key, n), TRUE)  BY <1>3, <2>3 DEF KeydownWorking
    <3>2. Enqueue(c, key, n) \in CoreState(0 .. t) /\ ~Enqueue(c, key, n).pause
      BY <1>2, <2>3 DEF Quiet
    <3>. QED  BY <3>1, <3>2, WorkerStepCalm DEF Resting
  <2>. QED  BY <2>1, <2>2, <2>3
<1>4. CASE c.work = 0 /\ r \in KeydownRunning(c, key, n)
  <2>. DEFINE stopped == [c EXCEPT !.buf = << >>, !.running = FALSE]
  <2>1. stopped.pause = c.pause /\ [stopped EXCEPT !.shift = FALSE, !.pending = "CANCELLED"].pause = c.pause
    BY <1>1 DEF CoreState
  <2>2. CASE key = "EXIT"
    <3>1. r.core = [stopped EXCEPT !.shift = FALSE, !.pending = "CANCELLED"]
      BY <1>4, <2>2 DEF KeydownRunning, NoKey, Unshifted, Reply
    <3>. HIDE DEF stopped
    <3>. QED  BY <2>1, <3>1 DEF Resting
  <2>3. CASE key = "RUN" /\ ~c.shift
    <3>1. r.core = stopped  BY <1>4, <2>3 DEF KeydownRunning, NoKey, Reply
    <3>. HIDE DEF stopped
    <3>. QED  BY <2>1, <3>1 DEF Resting
  <2>4. CASE key # "EXIT" /\ ~(key = "RUN" /\ ~c.shift)
    <3>. DEFINE d == IF key = NoKey THEN c ELSE Enqueue(c, key, n)
    <3>1. d \in CoreState(0 .. t) /\ ~d.pause /\ d.work = 0
      BY <1>1, <1>2, <1>4 DEF Quiet
    <3>2. r \in {Reply(e, Advances(e) \/ Queued(e), key # NoKey, FALSE) : e \in continue_running(d)}
      BY <1>4, <2>4 DEF KeydownRunning
    <3>. HIDE DEF d
    <3>3. PICK e \in continue_running(d) : r = Reply(e, Advances(e) \/ Queued(e), key # NoKey, FALSE)
      BY <3>2
    <3>. QED  BY <3>1, <3>3, ContinueCalm DEF Reply
  <2>. QED  BY <2>2, <2>3, <2>4
<1>5. CASE c.buf # << >> /\ r \in KeydownQueued(c, key, n)
  <2>. DEFINE f == [c EXCEPT !.buf = Tail(@)]
              h == Head(c.buf)
              Sent(v) == IF key = NoKey THEN v.core ELSE Enqueue(v.core, key, n)
  <2>1. IsNext(c, f, h, t, u)
    <3>1. f = [c EXCEPT !.buf = Tail(@)] /\ h = Head(c.buf)  OBVIOUS
    <3>. HIDE DEF f, h
    <3>. QED  BY <1>5, <3>1, HeadIsNext
  <2>2. f.pause = c.pause  BY <1>1 DEF CoreState
  <2>3. PICK v \in UNION {core_keyup(d) : d \in keydown(f, h)} : r = QueuedReply(Sent(v))
    BY <1>5 DEF KeydownQueued
  <2>. HIDE DEF f, h
  <2>4. PICK e \in keydown(f, h) : v \in core_keyup(e)  OBVIOUS
  <2>5. e \in CoreState(0 .. t) /\ ~e.pause
    BY <2>1, <2>2, <2>4, KeydownTakes, KeydownQuiet DEF IsNext, Fine, Quiet
  <2>6. v.core \in CoreState(0 .. t) /\ ~v.core.pause
    <3>1. Fine(e, t, u)
      <4>1. f.rkey.n <= h.n
        <5>1. c.rkey.n \in Nat /\ c.handled \in Nat /\ h.n \in Nat
          BY <1>1, <2>1 DEF CoreState, Stroke, NoStroke, IsNext
        <5>. QED  BY <2>1, <5>1 DEF Fine, Ordered, IsNext
      <4>. QED  BY <2>1, <2>4, <4>1, KeydownFine DEF IsNext
    <3>. QED  BY <2>4, <2>5, <3>1, KeyupStarts, KeyupCalm DEF Fine
  <2>7. r.core = Sent(v)  BY <2>3 DEF QueuedReply, Reply
  <2>8. ~Sent(v).pause
    BY <2>6, EnqueueQuiet DEF Quiet
  <2>. HIDE DEF Sent
  <2>. QED  BY <2>7, <2>8 DEF Resting
<1>6. CASE key # NoKey /\ r \in KeydownDirect(c, key, n)
  <2>. DEFINE f == Unshifted(c)
              k == [key |-> key, shift |-> c.shift, n |-> n]
  <2>1. f \in CoreState(0 .. t) /\ ~f.pause  BY <1>1 DEF Unshifted, CoreState
  <2>2. PICK d \in keydown(f, k) :
            r = Reply([d EXCEPT !.repeating = FALSE], d.running /\ ~d.getkey, FALSE, d.repeating)
    BY <1>6, Zenon DEF KeydownDirect
  <2>3. k \in Stroke(0 .. t)
    BY <1>1, <1>6 DEF Given, Stroke, CoreState
  <2>. HIDE DEF f, k
  <2>4. ~d.pause  BY <2>1, <2>2, KeydownQuiet DEF Quiet
  <2>5. d \in CoreState(0 .. t)  BY <2>1, <2>2, <2>3, KeydownTakes
  <2>6. r.core = [d EXCEPT !.repeating = FALSE]  BY <2>2 DEF Reply
  <2>. QED  BY <2>4, <2>5, <2>6 DEF CoreState, Resting
<1>7. CASE r.core = c  BY <1>7 DEF Resting
<1>8. \/ c.work > 0 /\ r \in KeydownWorking(c, key, n)
      \/ c.work = 0 /\ r \in KeydownRunning(c, key, n)
      \/ c.buf # << >> /\ r \in KeydownQueued(c, key, n)
      \/ key # NoKey /\ r \in KeydownDirect(c, key, n)
      \/ r.core = c
  <2>1. Reply(c, FALSE, FALSE, FALSE).core = c  BY DEF Reply
  <2>2. CASE c.work > 0  BY <2>2 DEF Awake
  <2>3. CASE ~(c.work > 0) /\ c.running /\ ~c.getkey  BY <1>1, <2>3 DEF Awake
  <2>4. CASE ~(c.work > 0) /\ ~(c.running /\ ~c.getkey) /\ Queued(c)  BY <2>4 DEF Awake, Queued
  <2>5. CASE ~(c.work > 0) /\ ~(c.running /\ ~c.getkey) /\ ~Queued(c) /\ key # NoKey
    BY <2>5 DEF Awake
  <2>6. CASE ~(c.work > 0) /\ ~(c.running /\ ~c.getkey) /\ ~Queued(c) /\ key = NoKey
    BY <2>1, <2>6 DEF Awake
  <2>. QED  BY <2>2, <2>3, <2>4, <2>5, <2>6
<1>. QED  BY <1>3, <1>4, <1>5, <1>6, <1>7, <1>8

LEMMA CoreKeydownRests ==
    ASSUME NEW t \in Nat, NEW u \in Nat, NEW c, Fine(c, t, u), Calm(c), NEW key, NEW n,
           Given(c, key, n, t, u), NEW r \in core_keydown(c, key, n)
    PROVE  Calm(r.core) /\ (key # "SHIFT" \/ Resting(c) => Resting(r.core))
<1>. DEFINE c1 == [c EXCEPT !.fresh = @ /\ key = NoKey]
            c2 == [c1 EXCEPT !.pause = FALSE, !.running = @ /\ ~c1.pause]
<1>1. IsAwake(c, key, c1, c2)  BY DEF IsAwake
<1>2. /\ [c1 EXCEPT !.shift = ~@].pause = c1.pause /\ [c1 EXCEPT !.shift = ~@].work = c1.work
      /\ [c1 EXCEPT !.shift = ~@].timer3 = c.timer3
  BY DEF Fine, CoreState
<1>. HIDE DEF c1, c2
<1>3. /\ Quiet(c, c1) /\ Fine(c2, t, u) /\ Given(c2, key, n, t, u) /\ ~c2.pause
  BY <1>1, AwakeFine DEF Wakes
<1>4. \/ key = "SHIFT" /\ r.core = [c1 EXCEPT !.shift = ~@]
      \/ r.core = c2
      \/ r \in Awake(c2, key, n)
  BY <1>1, CoreKeydownCases
<1>5. CASE key = "SHIFT" /\ r.core = [c1 EXCEPT !.shift = ~@]
  BY <1>2, <1>3, <1>5 DEF Calm, Resting, Quiet
<1>6. CASE r.core = c2
  BY <1>3, <1>6 DEF Calm, Resting
<1>7. CASE r \in Awake(c2, key, n)
  BY <1>3, <1>7, AwakeCalm DEF Calm, Resting
<1>. QED  BY <1>4, <1>5, <1>6, <1>7

\* core_timeout3() ends at most a pause.
LEMMA Timeout3Calm ==
    ASSUME NEW S, NEW c \in CoreState(S), NEW repaint \in BOOLEAN, NEW d,
           d = [core_timeout3(c, repaint).core EXCEPT !.timer3 = FALSE]
    PROVE  /\ d.work = c.work /\ (IF repaint THEN ~d.pause ELSE d.pause = c.pause)
           /\ d.shift = c.shift /\ d.running = c.running /\ d.getkey = c.getkey
<1>. DEFINE p == CASE c.pending = "LINGER1" -> "CANCELLED"
                   [] c.pending = "LINGER2" -> "NONE"
                   [] OTHER -> c.pending
<1>1. CASE c.pause
  <2>1. d = [[c EXCEPT !.pause = ~repaint] EXCEPT !.timer3 = FALSE]
    BY <1>1 DEF core_timeout3, Keyup
  <2>. QED  BY <1>1, <2>1 DEF CoreState
<1>2. CASE ~c.pause
  <2>1. d = [[c EXCEPT !.pending = p] EXCEPT !.timer3 = FALSE]
    BY <1>2 DEF core_timeout3, Keyup
  <2>. HIDE DEF p
  <2>2. /\ d.work = c.work /\ d.pause = c.pause
        /\ d.shift = c.shift /\ d.running = c.running /\ d.getkey = c.getkey
    BY <2>1 DEF CoreState
  <2>. QED  BY <1>2, <2>2
<1>. QED  BY <1>1, <1>2

\* The core when the keys of a stroke reach it.
LEMMA CancelledFine ==
    ASSUME Inv, Calm(core), NEW stroke, NEW c, c = TimerCancelled(stroke)
    PROVE  /\ Fine(c, typed + 1, nulled) /\ Later(c, typed + 1, nulled) /\ Calm(c)
           /\ c.work = core.work /\ c.shift = core.shift /\ c.pause = core.pause
           /\ c.running = core.running /\ c.getkey = core.getkey
<1>1. /\ typed \in Nat /\ nulled \in Nat /\ nulled <= typed
      /\ core \in CoreState(0 .. typed) /\ Fine(core, typed, nulled)
  BY DEF Inv, Fine
<1>2. CASE c = core
  BY <1>1, <1>2, FineGrows
<1>3. CASE c = [core_timeout3(core, FALSE).core EXCEPT !.timer3 = FALSE]
  <2>1. c \in CoreState(0 .. typed) /\ Keeps(core, c)
    BY <1>1, <1>3, Timeout3Keeps
  <2>2. /\ c.work = core.work /\ c.pause = core.pause /\ c.shift = core.shift
        /\ c.running = core.running /\ c.getkey = core.getkey
    BY <1>1, <1>3, Timeout3Calm
  <2>3. Fine(c, typed, nulled)  BY <1>1, <2>1, KeepsFine
  <2>. QED  BY <1>1, <2>2, <2>3, FineGrows DEF Calm
<1>. QED  BY <1>2, <1>3 DEF TimerCancelled

LEMMA PressRests ==
    ASSUME Inv, Resting(core), NEW stroke \in Strokes, NEW r \in Keydowns(stroke)
    PROVE  Resting(r.core)
<1>. DEFINE n == typed + 1
            c == TimerCancelled(stroke)
<1>1. n \in Nat /\ n \in 0 .. n /\ nulled \in Nat  BY DEF Inv
<1>2. Fine(c, n, nulled) /\ Later(c, n, nulled) /\ Calm(c)
  BY CancelledFine DEF Calm, Resting
<1>3. stroke = <<"SHIFT">> => Resting(c)  BY DEF TimerCancelled
<1>. HIDE DEF c
<1>6. ASSUME NEW key \in KeyNames, NEW q \in core_keydown(c, key, n)
      PROVE  Calm(q.core) /\ (key # "SHIFT" \/ Resting(c) => Resting(q.core))
  <2>1. Given(c, key, n, n, nulled)  BY <1>1, <1>2 DEF Given
  <2>. QED  BY <1>1, <1>2, <1>6, <2>1, CoreKeydownRests
<1>4. CASE \E key \in Keys : stroke = <<key>>
  <2>1. PICK key \in Keys : stroke = <<key>>  BY <1>4
  <2>2. r \in core_keydown(c, key, n)
    BY <2>1 DEF Keydowns, c
  <2>. QED  BY <1>3, <1>6, <2>1, <2>2, RunLoopAssumption
<1>5. CASE \E key \in Keys \ {"SHIFT"} : stroke = <<"SHIFT", key>>
  <2>1. PICK key \in Keys \ {"SHIFT"} : stroke = <<"SHIFT", key>>  BY <1>5
  <2>2. Len(stroke) # 1 /\ stroke[2] = key  BY <2>1
  <2>3. r \in UNION {core_keydown(v.core, key, n) :
                        v \in UNION {core_keyup(q.core) : q \in core_keydown(c, "SHIFT", n)}}
    BY <2>2 DEF Keydowns, c
  <2>4. PICK v \in UNION {core_keyup(q.core) : q \in core_keydown(c, "SHIFT", n)} :
              r \in core_keydown(v.core, key, n)
    BY <2>3
  <2>5. PICK q \in core_keydown(c, "SHIFT", n) : v \in core_keyup(q.core)
    BY <2>4
  <2>6. q.core \in CoreState(0 .. n) /\ Keeps(c, q.core) /\ Calm(q.core)
    BY <1>2, <1>6, ShiftKeeps DEF Fine, KeyNames
  <2>7. Fine(q.core, n, nulled)  BY <1>1, <1>2, <2>6, KeepsFine
  <2>8. Fine(v.core, n, nulled) /\ Starts(q.core, v.core) /\ Calm(v.core)
    BY <1>1, <2>5, <2>6, <2>7, KeyupStarts, KeyupCalm DEF Calm
  <2>9. Given(v.core, key, n, n, nulled)
    BY <1>1, <1>2, <2>6, <2>8, RunLoopAssumption DEF Given, Later, Keeps, Starts, KeyNames, NoKey
  <2>. QED  BY <1>1, <2>4, <2>8, <2>9, CoreKeydownRests
<1>. QED  BY <1>4, <1>5 DEF Strokes

LEMMA StepRests == Inv /\ Resting(core) /\ [Next]_vars => Resting(core)'
<1>. SUFFICES ASSUME Inv, Resting(core), [Next]_vars PROVE Resting(core')
  BY DEF Resting
<1>1. core \in CoreState(0 .. typed) /\ typed \in Nat /\ nulled \in Nat
  BY DEF Inv, Fine
<1>2. CASE Reminder
  <2>1. PICK r \in core_keydown(core, NoKey, 0) : core' = r.core
    BY <1>2 DEF Reminder
  <2>2. Given(core, NoKey, 0, typed, nulled)  BY DEF Given, Inv
  <2>. QED  BY <2>1, <2>2, CoreKeydownRests DEF Inv, Calm, Resting, NoKey
<1>3. CASE Repeater
  <2>1. PICK r \in core_repeat(core) : core' = r.core  BY <1>3 DEF Repeater
  <2>2. PICK d \in keydown(core, core.rkey) :
            r = Reply([d EXCEPT !.repeating = FALSE], FALSE, FALSE, d.repeating)
    BY <2>1 DEF core_repeat
  <2>3. core.rkey \in Stroke(0 .. typed) \cup {NoStroke}  BY <1>1 DEF CoreState
  <2>4. d \in CoreState(0 .. typed) /\ Quiet(core, d) /\ (core.timer3 => d.timer3)
    BY <1>1, <2>2, <2>3, KeydownTakes, KeydownQuiet
  <2>5. core' = [d EXCEPT !.repeating = FALSE]  BY <2>1, <2>2 DEF Reply
  <2>. QED  BY <2>4, <2>5 DEF CoreState, Resting, Quiet
<1>4. CASE Timeout2
  <2>1. core' \in {core, [core EXCEPT !.pending = "CANCELLED"]}
    BY <1>4 DEF Timeout2, core_keytimeout2, Timed
  <2>. QED  BY <1>1, <2>1 DEF CoreState, Resting
<1>5. CASE Timeout3
  <2>1. core' = [core_timeout3(core, TRUE).core EXCEPT !.timer3 = FALSE]
    BY <1>5 DEF Timeout3
  <2>2. ~core'.pause
    BY <1>1, <2>1, Timeout3Calm
  <2>. QED  BY <2>2 DEF Resting
<1>6. CASE \E stroke \in Strokes : Press(stroke)
  BY <1>6, PressRests DEF Press
<1>7. CASE Release
  <2>1. CASE enqueued  BY <1>7, <2>1 DEF Release
  <2>2. CASE ~enqueued
    <3>1. PICK v \in core_keyup(core) : core' = v.core  BY <1>7, <2>2 DEF Release
    <3>. QED  BY <1>1, <3>1, KeyupCalm DEF Resting
  <2>. QED  BY <2>1, <2>2
<1>8. CASE ImportPrograms
  <2>1. core' = [core EXCEPT !.running = FALSE]
    BY <1>8 DEF ImportPrograms, core_import_programs
  <2>. QED  BY <1>1, <2>1 DEF CoreState, Resting
<1>9. CASE NewProcess
  <2>1. PICK auto_exec \in BOOLEAN : core' = core_powercycle(core, auto_exec)
    BY <1>9 DEF NewProcess
  <2>2. core'.pause = FALSE
    BY <1>1, <2>1 DEF core_powercycle, CoreState
  <2>. QED  BY <2>2 DEF Resting
<1>10. CASE Timeout1 \/ UNCHANGED vars
  BY <1>10 DEF Timeout1, vars
<1>. QED
  BY <1>2, <1>3, <1>4, <1>5, <1>6, <1>7, <1>8, <1>9, <1>10
  DEF Next, Callbacks, User, CloseWindow, Restart

LEMMA RestingInvariance == Spec => [](Inv /\ Resting(core))
<1>1. Init => Resting(core)
  BY DEF Init, core_powercycle, Off, Resting
<1>. QED  BY InitInv, Invariance, <1>1, StepRests, PTL DEF Spec

LEMMA ExitStep ==
    ASSUME Inv, Resting(core), Press(<<"EXIT">>), ~core.shift,
           core.work > 0 \/ (core.running /\ ~core.getkey)
    PROVE  ~core'.running /\ core'.work = 0
<1>. DEFINE n == typed + 1
            c == TimerCancelled(<<"EXIT">>)
            c1 == [c EXCEPT !.fresh = @ /\ "EXIT" = NoKey]
            c2 == [c1 EXCEPT !.pause = FALSE, !.running = @ /\ ~c1.pause]
<1>1. PICK r \in core_keydown(c, "EXIT", n) : core' = r.core
  <2>1. Len(<<"EXIT">>) = 1 /\ <<"EXIT">>[1] = "EXIT"  OBVIOUS
  <2>. QED  BY <2>1, Zenon DEF Press, Keydowns
<1>2. IsAwake(c, "EXIT", c1, c2)  BY DEF IsAwake
<1>3. n \in Nat /\ n \in 0 .. n /\ nulled \in Nat  BY DEF Inv
<1>4. /\ Fine(c, n, nulled) /\ Later(c, n, nulled) /\ Calm(c)
      /\ c.work = core.work /\ c.shift = core.shift /\ c.pause = core.pause
      /\ c.running = core.running /\ c.getkey = core.getkey
  BY CancelledFine DEF Calm, Resting
<1>. HIDE DEF n, c, c1, c2
<1>5. Given(c, "EXIT", n, n, nulled)  BY <1>3, <1>4 DEF Given, KeyNames
<1>6. Wakes(c, c1, c2) /\ Fine(c2, n, nulled)
  BY <1>2, <1>3, <1>4, <1>5, AwakeFine
<1>7. c2 \in CoreState(0 .. n) /\ c2.work \in Nat  BY <1>6 DEF Fine, CoreState
<1>8. CASE core.pause
  <2>1. c1.pause /\ ~c1.shift  BY <1>4, <1>6, <1>8, Zenon DEF Quiet, Wakes
  <2>2. r.core = c2  BY <1>1, <1>2, <2>1, CoreKeydownCases
  <2>3. ~c2.running  BY <1>4, <1>6, <1>8, Zenon DEF Wakes
  <2>4. c2.work = 0  BY <1>4, <1>6, <1>8, Zenon DEF Calm, Wakes
  <2>. QED  BY <1>1, <2>2, <2>3, <2>4
<1>9. CASE ~core.pause
  <2>1. r \in Awake(c2, "EXIT", n)
    BY <1>1, <1>2, <1>4, <1>6, <1>9, CoreKeydownCases DEF Quiet, Wakes
  <2>2. CASE c2.work > 0
    <3>. DEFINE f == [c2 EXCEPT !.buf = << >>]
    <3>1. r = Reply(stop_interruptible(f), FALSE, TRUE, FALSE)
      BY <2>1, <2>2 DEF Awake, KeydownWorking, NoKey
    <3>2. stop_interruptible(f).running = FALSE /\ stop_interruptible(f).work = 0
      BY <1>7 DEF CoreState, stop_interruptible
    <3>. HIDE DEF f
    <3>3. r.core = stop_interruptible(f)  BY <3>1 DEF Reply
    <3>. QED  BY <1>1, <3>2, <3>3
  <2>3. CASE ~(c2.work > 0)
    <3>. DEFINE f == [c2 EXCEPT !.buf = << >>, !.running = FALSE]
                g == [[f EXCEPT !.shift = FALSE] EXCEPT !.pending = "CANCELLED"]
    <3>1. c2.running /\ ~c2.getkey /\ c2.work = 0
      <4>1. ~(core.work > 0)  BY <1>4, <1>6, <2>3, Zenon DEF Wakes
      <4>2. c2.running /\ ~c2.getkey  BY <1>4, <1>6, <1>9, <4>1, Zenon DEF Wakes
      <4>. QED  BY <1>7, <2>3, <4>2
    <3>2. r \in KeydownRunning(c2, "EXIT", n)
      BY <2>1, <2>3, <3>1 DEF Awake
    <3>3. r = Reply(g, FALSE, FALSE, FALSE)
      BY <3>2 DEF KeydownRunning, NoKey, Unshifted
    <3>4. f.running = FALSE /\ f.work = 0
      BY <1>7, <3>1 DEF CoreState
    <3>5. g.running = f.running /\ g.work = f.work
      BY <1>7 DEF CoreState
    <3>. HIDE DEF f, g
    <3>6. r.core = g  BY <3>3 DEF Reply
    <3>. QED  BY <1>1, <3>4, <3>5, <3>6
  <2>. QED  BY <2>2, <2>3
<1>. QED  BY <1>8, <1>9

\* EXIT stops a program or a long operation, in whichever branch of core_keydown()
\* it is handled: for operations of any length.
THEOREM ExitAlwaysStops == Spec => ExitStops
<1>. DEFINE Stops == Press(<<"EXIT">>) /\ ~core.shift
                         /\ (core.work > 0 \/ (core.running /\ ~core.getkey))
                       => ~core'.running /\ core'.work = 0
<1>1. Inv /\ Resting(core) => Stops
  BY ExitStep
<1>2. Inv /\ Resting(core) /\ [Next]_vars => [Stops]_vars
  BY <1>1
<1>. HIDE DEF Stops
<1>3. Spec => [][Stops]_vars
  BY <1>2, RestingInvariance, PTL DEF Spec
<1>. QED  BY <1>3 DEF ExitStops, Stops

-----------------------------------------------------------------------------
(***************************************************************************)
(* The idle callback.  What a call of the core returns tells the shell to  *)
(* call again whenever there is something to go on with, save where the    *)
(* release of the key that is down will tell it.                           *)
(***************************************************************************)
Scheduled(c, again) == ~c.quit /\ ~c.pause /\ (Advances(c) \/ Queued(c)) => again

LEMMA StartPendingSchedules ==
    ASSUME NEW S, NEW c \in CoreState(S), NEW commands \in SUBSET AllCommands,
           NEW v \in StartPending(c, commands), c.handled \in S
    PROVE  Scheduled(v.core, v.again)
<1>. DEFINE c1 == [c EXCEPT !.ran = c.handled, !.running = @ \/ c.pending = "SST"]
            Returned(r) == [r.core EXCEPT !.pause = FALSE,
                                          !.running = @ /\ c.pending # "SST"]
<1>1. c1 \in CoreState(S)
  <2>1. (c.running \/ c.pending = "SST") \in BOOLEAN  OBVIOUS
  <2>. QED  BY <2>1 DEF CoreState
<1>2. PICK r \in Handlers(c1, commands) :
          \/ r.error = "INTERRUPTIBLE" /\ v = Keyup(Returned(r), TRUE)
          \/ /\ r.error # "INTERRUPTIBLE"
             /\ \E o \in handle_error(Returned(r), r.error) :
                    v = Keyup([o.core EXCEPT !.pending = "NONE"], Advances(o.core) \/ Queued(o.core))
  BY DEF StartPending
<1>. HIDE DEF c1
<1>3. r.core \in CoreState(S) /\ r.error \in Errors \cup {"INTERRUPTIBLE"}
  <2>1. PICK command \in commands : r \in Handler(c1, command)  BY DEF Handlers
  <2>. QED  BY <1>1, <2>1, HandlerSame
<1>4. Returned(r) \in CoreState(S) /\ ~Returned(r).pause
  <2>1. (r.core.running /\ c.pending # "SST") \in BOOLEAN  OBVIOUS
  <2>. QED  BY <1>3, <2>1 DEF CoreState
<1>. HIDE DEF Returned
<1>5. CASE v = Keyup(Returned(r), TRUE)
  BY <1>5 DEF Keyup, Scheduled
<1>6. CASE /\ r.error # "INTERRUPTIBLE"
           /\ \E o \in handle_error(Returned(r), r.error) :
                  v = Keyup([o.core EXCEPT !.pending = "NONE"], Advances(o.core) \/ Queued(o.core))
  <2>1. PICK o \in handle_error(Returned(r), r.error) :
                  v = Keyup([o.core EXCEPT !.pending = "NONE"], Advances(o.core) \/ Queued(o.core))
    BY <1>6
  <2>2. o.core \in CoreState(S)  BY <1>3, <1>4, <1>6, HandleErrorSame
  <2>. DEFINE d == [o.core EXCEPT !.pending = "NONE"]
  <2>3. /\ d.running = o.core.running /\ d.getkey = o.core.getkey
        /\ d.pause = o.core.pause /\ d.buf = o.core.buf
    BY <2>2 DEF CoreState
  <2>4. v.core = d /\ v.again = (Advances(o.core) \/ Queued(o.core))  BY <2>1 DEF Keyup
  <2>. HIDE DEF d
  <2>. QED  BY <2>3, <2>4, Zenon DEF Scheduled, Advances, Queued
<1>. QED  BY <1>2, <1>5, <1>6

LEMMA KeyupSchedules ==
    ASSUME NEW S, NEW c \in CoreState(S), NEW v \in core_keyup(c)
    PROVE  Scheduled(v.core, v.again)
<1>. DEFINE done == [c EXCEPT !.pending = "NONE"]
            lingers == [c EXCEPT !.pending = "LINGER2"]
            off == [done EXCEPT !.quit = TRUE]
            runs == [done EXCEPT !.running = TRUE, !.ran = c.handled]
            idle == Keyup(done, c.running \/ Queued(c))
<1>1. done.running = c.running /\ done.buf = c.buf /\ lingers.running = c.running
      /\ lingers.buf = c.buf /\ off.quit = TRUE
  BY DEF CoreState
<1>. HIDE DEF done, lingers, off, runs
<1>2. CASE v = idle
  <2>1. v.core = done /\ v.again = (c.running \/ Queued(c))  BY <1>2 DEF Keyup
  <2>. QED  BY <1>1, <2>1, Zenon DEF Scheduled, Advances, Queued
<1>3. CASE v = Keyup(lingers, c.running \/ Queued(c))
  <2>1. v.core = lingers /\ v.again = (c.running \/ Queued(c))  BY <1>3 DEF Keyup
  <2>. QED  BY <1>1, <2>1, Zenon DEF Scheduled, Advances, Queued
<1>4. CASE v = Keyup(off, FALSE)
  BY <1>1, <1>4 DEF Keyup, Scheduled
<1>5. CASE v = Keyup(runs, TRUE)
  BY <1>5 DEF Keyup, Scheduled
<1>6. CASE c.pause
  <2>1. v = Keyup(c, FALSE)  BY <1>6 DEF core_keyup
  <2>. QED  BY <1>6, <2>1 DEF Keyup, Scheduled
<1>7. CASE ~c.pause /\ c.pending \notin {"SST", "COMMAND"}
  <2>1. c.pending \in PendingCommands  BY DEF CoreState
  <2>2. CASE c.pending \in {"LINGER1", "LINGER2"}
    <3>1. v = Keyup(lingers, c.running \/ Queued(c))  BY <1>7, <2>2 DEF core_keyup, lingers
    <3>. QED  BY <1>3, <3>1
  <2>3. CASE c.pending = "SILENT_OFF"
    <3>1. v = Keyup(off, FALSE)  BY <1>7, <2>3 DEF core_keyup, off, done
    <3>. QED  BY <1>4, <3>1
  <2>4. CASE c.pending \in {"NONE", "CANCELLED"}
    <3>1. v = idle  BY <1>7, <2>4 DEF core_keyup, done
    <3>. QED  BY <1>2, <3>1
  <2>5. CASE c.pending = "RUN"
    <3>1. v \in {Keyup(runs, TRUE), idle}  BY <1>7, <2>5 DEF core_keyup, done, runs
    <3>. QED  BY <1>2, <1>5, <3>1
  <2>. QED  BY <1>7, <2>1, <2>2, <2>3, <2>4, <2>5 DEF PendingCommands
<1>8. CASE ~c.pause /\ c.pending \in {"SST", "COMMAND"}
  <2>. DEFINE commands == IF c.pending = "COMMAND" /\ c.work > 0 THEN {"LONG"} ELSE Commands
  <2>1. v \in StartPending(c, commands) \/ v = idle
    <3>1. CASE c.pending = "SST"  BY <1>8, <3>1 DEF core_keyup, done
    <3>2. CASE c.pending = "COMMAND"  BY <1>8, <3>2 DEF core_keyup
    <3>. QED  BY <1>8, <3>1, <3>2
  <2>2. commands \in SUBSET AllCommands
    BY KeyboardCoreAssumption DEF AllCommands
  <2>3. c.handled \in S  BY DEF CoreState
  <2>. HIDE DEF commands
  <2>. QED  BY <1>2, <2>1, <2>2, <2>3, StartPendingSchedules
<1>. QED  BY <1>6, <1>7, <1>8

\* A reply that core_keydown() gives to the idle callback, or to a key whose release
\* will not reach the core (enqueued), counts; and a key that repeats reaches it.
Answers(key, r) ==
    /\ key = NoKey \/ r.enqueued => Scheduled(r.core, r.again)
    /\ r.repeat => ~r.enqueued

LEMMA WorkerStepSchedules ==
    ASSUME NEW c, NEW queued \in BOOLEAN, NEW r \in WorkerStep(c, queued)
    PROVE  Scheduled(r.core, r.again) /\ ~r.repeat
<1>. DEFINE d == [c EXCEPT !.work = 0]
            Finished(o) == IF d.running THEN [o.core EXCEPT !.running = @ /\ o.continue]
                                        ELSE [o.core EXCEPT !.pending = "NONE"]
<1>1. CASE c.work > 1
  <2>1. r = Reply([c EXCEPT !.work = @ - 1], TRUE, queued, FALSE)
    BY <1>1 DEF WorkerStep
  <2>. QED  BY <2>1 DEF Reply, Scheduled
<1>2. CASE ~(c.work > 1)
  <2>1. r \in {WorkerReply(Finished(o), queued) :
                  o \in UNION {handle_error(d, error) : error \in {"NONE", "FAIL"}}}
    BY <1>2 DEF WorkerStep
  <2>. HIDE DEF Finished
  <2>2. PICK o : r = WorkerReply(Finished(o), queued)  BY <2>1
  <2>3. /\ r.core = Finished(o) /\ r.repeat = FALSE
        /\ r.again = (Finished(o).running \/ Queued(Finished(o)))
    BY <2>2 DEF WorkerReply, Reply
  <2>. QED  BY <2>3, Zenon DEF Scheduled, Advances
<1>. QED  BY <1>1, <1>2

LEMMA AwakeSchedules ==
    ASSUME NEW S, NEW c \in CoreState(S), NEW key, NEW n, NEW r \in Awake(c, key, n)
    PROVE  Answers(key, r)
<1>1. CASE r \in KeydownWorking(c, key, n)
  <2>1. CASE key = NoKey
    <3>1. r \in WorkerStep(c, FALSE)  BY <1>1, <2>1 DEF KeydownWorking
    <3>. QED  BY <3>1, WorkerStepSchedules DEF Answers
  <2>2. CASE key # NoKey /\ (key = "EXIT" \/ (c.stoppable /\ ~c.shift /\ key = "RUN"))
    <3>. DEFINE f == [c EXCEPT !.buf = << >>]
                d == stop_interruptible(f)
    <3>1. r = Reply(d, FALSE, TRUE, FALSE)  BY <1>1, <2>2 DEF KeydownWorking
    <3>2. d.running = FALSE /\ d.buf = << >>
      BY DEF CoreState, stop_interruptible
    <3>. HIDE DEF d
    <3>3. r.core = d /\ r.repeat = FALSE  BY <3>1 DEF Reply
    <3>. QED  BY <3>2, <3>3 DEF Answers, Scheduled, Advances, Queued
  <2>3. CASE key # NoKey /\ ~(key = "EXIT" \/ (c.stoppable /\ ~c.shift /\ key = "RUN"))
    <3>1. r \in WorkerStep(Enqueue(c, key, n), TRUE)  BY <1>1, <2>3 DEF KeydownWorking
    <3>. QED  BY <3>1, WorkerStepSchedules DEF Answers
  <2>. QED  BY <2>1, <2>2, <2>3
<1>2. CASE r \in KeydownRunning(c, key, n)
  <2>. DEFINE stopped == [c EXCEPT !.buf = << >>, !.running = FALSE]
  <2>1. stopped.running = FALSE /\ stopped.buf = << >>
    BY DEF CoreState
  <2>2. CASE key = "EXIT"
    <3>1. r.enqueued = FALSE /\ r.repeat = FALSE
      BY <1>2, <2>2 DEF KeydownRunning, NoKey, Reply
    <3>. QED  BY <2>2, <3>1 DEF Answers, NoKey
  <2>3. CASE key = "RUN" /\ ~c.shift
    <3>1. r.core = stopped /\ r.repeat = FALSE
      BY <1>2, <2>3 DEF KeydownRunning, NoKey, Reply
    <3>. HIDE DEF stopped
    <3>. QED  BY <2>1, <3>1 DEF Answers, Scheduled, Advances, Queued
  <2>4. CASE key # "EXIT" /\ ~(key = "RUN" /\ ~c.shift)
    <3>. DEFINE d == IF key = NoKey THEN c ELSE Enqueue(c, key, n)
    <3>1. r \in {Reply(e, Advances(e) \/ Queued(e), key # NoKey, FALSE) : e \in continue_running(d)}
      BY <1>2, <2>4 DEF KeydownRunning
    <3>. HIDE DEF d
    <3>2. PICK e \in continue_running(d) : r = Reply(e, Advances(e) \/ Queued(e), key # NoKey, FALSE)
      BY <3>1
    <3>3. r.core = e /\ r.again = (Advances(e) \/ Queued(e)) /\ r.repeat = FALSE
      BY <3>2 DEF Reply
    <3>. QED  BY <3>3, Zenon DEF Answers, Scheduled
  <2>. QED  BY <2>2, <2>3, <2>4
<1>3. CASE r \in KeydownQueued(c, key, n)
  <2>1. PICK d : r = QueuedReply(d)  BY <1>3 DEF KeydownQueued
  <2>2. r.core = d /\ r.again = ((d.running /\ ~d.getkey) \/ Queued(d)) /\ r.repeat = FALSE
    BY <2>1 DEF QueuedReply, Reply
  <2>. QED  BY <2>2, Zenon DEF Answers, Scheduled, Advances
<1>4. CASE key # NoKey /\ r \in KeydownDirect(c, key, n)
  <2>1. r.enqueued = FALSE  BY <1>4 DEF KeydownDirect, Reply
  <2>. QED  BY <1>4, <2>1 DEF Answers
<1>5. CASE r = Reply(c, FALSE, FALSE, FALSE) /\ ~(c.running /\ ~c.getkey) /\ ~Queued(c)
  <2>1. r.core = c /\ r.repeat = FALSE  BY <1>5 DEF Reply
  <2>. QED  BY <1>5, <2>1 DEF Answers, Scheduled, Advances
<1>. QED  BY <1>1, <1>2, <1>3, <1>4, <1>5 DEF Awake

LEMMA CoreKeydownSchedules ==
    ASSUME NEW S, NEW c \in CoreState(S), NEW key, NEW n, NEW r \in core_keydown(c, key, n)
    PROVE  Answers(key, r)
<1>. DEFINE c1 == [c EXCEPT !.fresh = @ /\ key = NoKey]
            c2 == [c1 EXCEPT !.pause = FALSE, !.running = @ /\ ~c1.pause]
<1>1. c2 \in CoreState(S)
  <2>1. (c.fresh /\ key = NoKey) \in BOOLEAN  OBVIOUS
  <2>2. c1 \in CoreState(S)  BY <2>1 DEF CoreState
  <2>. HIDE DEF c1
  <2>3. (c1.running /\ ~c1.pause) \in BOOLEAN  OBVIOUS
  <2>. QED  BY <2>2, <2>3 DEF CoreState
<1>2. \/ key # NoKey /\ r.enqueued = FALSE
      \/ r \in Awake(c2, key, n)
  <2>1. CASE key = "SHIFT"
    <3>1. r.enqueued = FALSE  BY <2>1 DEF core_keydown, Reply
    <3>. QED  BY <2>1, <3>1 DEF NoKey
  <2>2. CASE key # "SHIFT" /\ c1.pause /\ ~c1.shift /\ key \in {"RUN", "EXIT"}
    <3>1. r = Reply(c2, FALSE, FALSE, FALSE)  BY <2>2 DEF core_keydown
    <3>. QED  BY <2>2, <3>1 DEF Reply, NoKey
  <2>3. CASE key # "SHIFT" /\ ~(c1.pause /\ ~c1.shift /\ key \in {"RUN", "EXIT"})
    BY <2>3 DEF core_keydown, Awake
  <2>. QED  BY <2>1, <2>2, <2>3
<1>. HIDE DEF c1, c2
<1>. QED  BY <1>1, <1>2, AwakeSchedules DEF Answers

\* A key is down whose release reaches the core, or the idle callback is installed
\* if there is work; a timer of the shell runs only for such a key.
Covered ==
    /\ held = NoKey \/ enqueued => Scheduled(core, reminder)
    /\ timer # "none" => held # NoKey /\ ~enqueued

LEMMA PressCovers ==
    ASSUME Inv, NEW stroke \in Strokes, NEW r \in Keydowns(stroke)
    PROVE  \E key \in KeyNames : Answers(key, r)
<1>. DEFINE n == typed + 1
            c == TimerCancelled(stroke)
<1>1. Fine(c, n, nulled) /\ c \in CoreState(0 .. n) /\ n \in Nat /\ nulled \in Nat
  <2>1. core \in CoreState(0 .. typed) /\ Fine(core, typed, nulled) /\ typed \in Nat
        /\ nulled \in Nat /\ nulled <= typed
    BY DEF Inv, Fine
  <2>2. Fine(c, typed, nulled)
    <3>1. CASE c = core  BY <2>1, <3>1
    <3>2. CASE c = [core_timeout3(core, FALSE).core EXCEPT !.timer3 = FALSE]
      <4>1. c \in CoreState(0 .. typed) /\ Keeps(core, c)
        BY <2>1, <3>2, Timeout3Keeps
      <4>. HIDE DEF c
      <4>. QED  BY <2>1, <4>1, KeepsFine
    <3>. QED  BY <3>1, <3>2 DEF TimerCancelled
  <2>. HIDE DEF c
  <2>. QED  BY <2>1, <2>2, FineGrows DEF Fine
<1>. HIDE DEF c
<1>2. CASE \E key \in Keys : stroke = <<key>>
  <2>1. PICK key \in Keys : stroke = <<key>>  BY <1>2
  <2>2. r \in core_keydown(c, key, n)
    BY <2>1 DEF Keydowns, c
  <2>3. Answers(key, r)  BY <1>1, <2>2, CoreKeydownSchedules
  <2>. QED  BY <2>3, RunLoopAssumption
<1>3. CASE \E key \in Keys : stroke = <<"SHIFT", key>>
  <2>1. PICK key \in Keys : stroke = <<"SHIFT", key>>  BY <1>3
  <2>2. Len(stroke) # 1 /\ stroke[2] = key  BY <2>1
  <2>3. r \in UNION {core_keydown(v.core, key, n) :
                        v \in UNION {core_keyup(q.core) : q \in core_keydown(c, "SHIFT", n)}}
    BY <2>2 DEF Keydowns, c
  <2>4. PICK v \in UNION {core_keyup(q.core) : q \in core_keydown(c, "SHIFT", n)} :
              r \in core_keydown(v.core, key, n)
    BY <2>3
  <2>5. PICK q \in core_keydown(c, "SHIFT", n) : v \in core_keyup(q.core)
    BY <2>4
  <2>6. Fine(q.core, n, nulled)  BY <1>1, <2>5, ShiftKeeps, KeepsFine
  <2>7. v.core \in CoreState(0 .. n)  BY <1>1, <2>5, <2>6, KeyupStarts DEF Fine
  <2>8. Answers(key, r)  BY <2>4, <2>7, CoreKeydownSchedules
  <2>. QED  BY <2>8, RunLoopAssumption
<1>. QED  BY <1>2, <1>3 DEF Strokes

LEMMA StepCovers == Inv /\ Covered /\ [Next]_vars => Covered'
<1>. SUFFICES ASSUME Inv, Covered, [Next]_vars PROVE Covered'
  OBVIOUS
<1>1. core \in CoreState(0 .. typed)  BY DEF Inv, Fine
<1>2. CASE Reminder
  <2>1. PICK r \in core_keydown(core, NoKey, 0) : core' = r.core /\ reminder' = r.again
    BY <1>2 DEF Reminder
  <2>2. Answers(NoKey, r)  BY <1>1, <2>1, CoreKeydownSchedules
  <2>3. Scheduled(core', reminder')  BY <2>1, <2>2 DEF Answers
  <2>. QED  BY <1>2, <2>3, Zenon DEF Reminder, Covered
<1>3. CASE Repeater
  <2>1. held' # NoKey /\ ~enqueued'  BY <1>3, Zenon DEF Repeater, Covered
  <2>. QED  BY <2>1 DEF Covered
<1>4. CASE Timeout1
  BY <1>4 DEF Timeout1, Covered
<1>5. CASE Timeout2
  <2>1. held' # NoKey /\ ~enqueued'  BY <1>5, Zenon DEF Timeout2, Covered
  <2>. QED  BY <2>1 DEF Covered
<1>6. CASE Timeout3
  <2>. DEFINE u == core_timeout3(core, TRUE)
              p == CASE core.pending = "LINGER1" -> "CANCELLED"
                     [] core.pending = "LINGER2" -> "NONE"
                     [] OTHER -> core.pending
  <2>1. /\ core' = [u.core EXCEPT !.timer3 = FALSE]
        /\ reminder' = (reminder \/ u.again)
        /\ timer' = IF u.again THEN "none" ELSE timer
    BY <1>6 DEF Timeout3
  <2>2. CASE core.pause
    <3>1. u.again = TRUE  BY <2>2 DEF core_timeout3, Keyup
    <3>. HIDE DEF u
    <3>2. reminder' /\ timer' = "none"  BY <2>1, <3>1
    <3>. QED  BY <3>2 DEF Covered, Scheduled
  <2>3. CASE ~core.pause
    <3>1. u = Keyup([core EXCEPT !.pending = p], FALSE)
      BY <2>3 DEF core_timeout3
    <3>. HIDE DEF u, p
    <3>2. u.core = [core EXCEPT !.pending = p] /\ u.again = FALSE  BY <3>1 DEF Keyup
    <3>3. core' = [[core EXCEPT !.pending = p] EXCEPT !.timer3 = FALSE]  BY <2>1, <3>2
    <3>4. /\ core'.running = core.running /\ core'.getkey = core.getkey
          /\ core'.pause = core.pause /\ core'.buf = core.buf /\ core'.quit = core.quit
      BY <1>1, <3>3 DEF CoreState
    <3>5. Scheduled(core, reminder) => Scheduled(core', reminder')
      BY <2>1, <3>2, <3>4, Zenon DEF Scheduled, Advances, Queued
    <3>6. timer' = timer /\ held' = held /\ enqueued' = enqueued
      BY <1>6, <2>1, <3>2 DEF Timeout3
    <3>. QED  BY <3>5, <3>6, Zenon DEF Covered
  <2>. QED  BY <2>2, <2>3
<1>7. CASE \E stroke \in Strokes : Press(stroke)
  <2>1. PICK stroke \in Strokes : Press(stroke)  BY <1>7
  <2>2. PICK r \in Keydowns(stroke) :
            /\ core' = r.core /\ enqueued' = r.enqueued /\ reminder' = r.again
            /\ timer' # "none" => r.repeat \/ ~r.enqueued
    BY <2>1 DEF Press
  <2>3. PICK key \in KeyNames : Answers(key, r)  BY <2>2, PressCovers
  <2>4. held' # NoKey
    <3>1. \A key1, key2 \in KeyNames : <<key1>>[Len(<<key1>>)] = key1
                                       /\ <<key1, key2>>[Len(<<key1, key2>>)] = key2
      OBVIOUS
    <3>2. "SHIFT" \in KeyNames  BY DEF KeyNames
    <3>3. stroke[Len(stroke)] \in KeyNames
      BY <3>1, <3>2, RunLoopAssumption DEF Strokes
    <3>. QED  BY <2>1, <3>3 DEF Press, KeyNames, NoKey
  <2>. QED  BY <2>2, <2>3, <2>4, Zenon DEF Answers, Covered
<1>8. CASE Release
  <2>1. held' = NoKey /\ timer' = "none"  BY <1>8 DEF Release
  <2>2. Scheduled(core', reminder')
    <3>1. CASE enqueued
      BY <1>8, <3>1, Zenon DEF Release, Covered
    <3>2. CASE ~enqueued
      <4>1. PICK v \in core_keyup(core) : core' = v.core /\ reminder' = v.again
        BY <1>8, <3>2 DEF Release
      <4>. QED  BY <1>1, <4>1, KeyupSchedules
    <3>. QED  BY <3>1, <3>2
  <2>. QED  BY <2>1, <2>2 DEF Covered
<1>9. CASE ImportPrograms
  <2>1. core' = [core EXCEPT !.running = FALSE]
    BY <1>9 DEF ImportPrograms, core_import_programs
  <2>2. /\ core'.running = FALSE /\ core'.pause = core.pause /\ core'.buf = core.buf
        /\ core'.quit = core.quit
    BY <1>1, <2>1 DEF CoreState
  <2>3. held = NoKey /\ held' = held /\ timer' = timer /\ reminder' = reminder
        /\ enqueued' = enqueued
    BY <1>9 DEF ImportPrograms, shell
  <2>4. Scheduled(core, reminder) => Scheduled(core', reminder')
    BY <2>2, <2>3, Zenon DEF Scheduled, Advances, Queued
  <2>. QED  BY <2>3, <2>4, Zenon DEF Covered
<1>10. CASE NewProcess
  <2>1. PICK auto_exec \in BOOLEAN : core' = core_powercycle(core, auto_exec)
    BY <1>10 DEF NewProcess
  <2>2. core'.buf = << >>
    BY <1>1, <2>1 DEF core_powercycle, CoreState
  <2>3. timer' = "none" /\ reminder' = core'.running  BY <1>10 DEF NewProcess
  <2>. QED  BY <2>2, <2>3 DEF Covered, Scheduled, Advances, Queued
<1>11. CASE UNCHANGED vars
  BY <1>11 DEF vars, Covered
<1>. QED
  BY <1>2, <1>3, <1>4, <1>5, <1>6, <1>7, <1>8, <1>9, <1>10, <1>11
  DEF Next, Callbacks, User, CloseWindow, Restart

\* The shell never forgets a program or a keystroke that waits, and a pause has its
\* timer: whatever the order of keys, releases, timers and slices.
THEOREM NothingIsForgotten == Spec => []WorkIsScheduled
<1>1. Init => Covered
  <2>. SUFFICES ASSUME Init PROVE Covered
    OBVIOUS
  <2>1. PICK auto_exec \in BOOLEAN : core = core_powercycle(Off, auto_exec)
    BY DEF Init
  <2>2. core.buf = << >>
    BY <2>1 DEF core_powercycle, Off
  <2>. QED  BY <2>2 DEF Init, Covered, Scheduled, Advances, Queued
<1>2. Resting(core) /\ Covered => WorkIsScheduled
  BY DEF Resting, Covered, Scheduled, WorkIsScheduled, Alive
<1>. QED  BY <1>1, <1>2, Invariance, RestingInvariance, StepCovers, PTL DEF Spec

=============================================================================
