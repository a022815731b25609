-------------------------------- MODULE KeyEntry --------------------------------
(***************************************************************************)
(* The calculator as the keyboard sees it: a key goes down (keydown()),    *)
(* the pending command is executed when it comes up (core_keyup()), the    *)
(* timers of a key held down pass, a program runs, the power goes and      *)
(* comes back (core_powercycle()).                                         *)
(*                                                                         *)
(* Of the commands, what they do to the menus and modes is modelled; what  *)
(* they do to values is left open.  The queue of keys and the repetition   *)
(* of a key held down are in KeyboardCore, operations done in slices in    *)
(* RunLoop.                                                                *)
(***************************************************************************)
EXTENDS NormalKeys

CONSTANTS
    Presses,        \* the keys that are pressed: pairs of Shift and a key
    Steps,          \* the commands the program consists of
    MaxExits        \* bound: how many times in a row EXIT is counted

VARIABLES
    k,              \* the state of the calculator
    exits           \* how many times in a row EXIT has been pressed, up to MaxExits

vars == <<k, exits>>

-----------------------------------------------------------------------------
\* The commands.

Failed(s) == [display_error(s) EXCEPT !.running = FALSE]
OrFails(s, t) == {Failed(s), t}

\* Whether X can be stored matters only in the matrix editor.
Values(s) == IF s.callback = 1 THEN {[s EXCEPT !.storable = b] : b \in BOOLEAN}
             ELSE {[s EXCEPT !.storable = TRUE]}

appmenu(s, m, c) == [set_appmenu(s, m, FALSE) EXCEPT !.callback = c]

set_flag_custom(s) == IF s.menu["plain"] \in CustomMenus THEN s ELSE Show(s, "plain", "CUSTOM1")
docmd_custom(s) ==
    Show(s, "plain", IF s.menu["plain"] \in CustomMenus THEN None ELSE "CUSTOM1")

docmd_aon(s) == Show([s EXCEPT !.alpha_mode = TRUE, !.alpha_entry = FALSE], "alpha", "ALPHA1")
docmd_aoff(s) == AlphaOff(s)
docmd_arcl(s) == [s EXCEPT !.alpha_entry = @ \/ (s.alpha_mode /\ ~s.running)]
docmd_menu(s) == [Show(s, "plain", "PROGRAMMABLE") EXCEPT !.sticky = TRUE]
docmd_exitall(s) == IF Refuses(s, None) THEN Failed(s) ELSE set_appmenu(s, None, TRUE)

\* An editor that is open is left before another is opened.
docmd_edit(s) ==
    IF s.editing /\ Refuses(s, None) THEN {Failed(s)}
    ELSE LET f == IF s.editing THEN set_appmenu(s, None, FALSE) ELSE s
             m == f.menu["app"]
         IN  OrFails(f, appmenu([f EXCEPT !.editing = TRUE, !.storable = TRUE,
                                          !.prevmenu = IF m \in MatrixMenus THEN m ELSE None],
                                "EDIT1", 1))

docmd_mata(s) ==
    OrFails(s, appmenu([s EXCEPT !.editing = TRUE, !.storable = TRUE, !.prevmenu = "SIMQ"], "EDIT1", 1))

docmd_simq(s) == OrFails(s, IF Refuses(s, "SIMQ") THEN Failed(s) ELSE set_appmenu(s, "SIMQ", FALSE))

docmd_varmenu(s) ==
    OrFails(s, IF Refuses(s, "VARMENU") \/ ~s.mvars THEN Failed(s)
               ELSE set_appmenu([s EXCEPT !.role = 0], "VARMENU", FALSE))

docmd_pgmslvi(s) == [appmenu(s, "VARMENU", 3) EXCEPT !.role = 1]
docmd_pgminti(s) ==
    [display_error(appmenu(s, "VARMENU", 4)) EXCEPT !.role = 2, !.varmenu_active = TRUE]

base_helper(s, b) ==
    IF ~s.running THEN set_base(s, b)
    ELSE IF Refuses(s, "BASE") THEN Failed(s)
    ELSE set_base([appmenu(s, "BASE", 2) EXCEPT !.baseapp = TRUE], b)

docmd_clall(s) ==
    update_catalog([set_menu([s EXCEPT !.storable = TRUE], "app", None)
                        EXCEPT !.prgm_mode = FALSE, !.lines = 0, !.pc = 0, !.vars = {"mat"},
                               !.mvars = FALSE])

\* A variable is stored or deleted; the catalog that shows may close.
VariableStored(s) ==
    {Failed(s)} \cup {update_catalog([s EXCEPT !.vars = @ \cup {v}]) : v \in Kinds}
VariableDeleted(s) ==
    {s} \cup {update_catalog([s EXCEPT !.vars = @ \ {v}]) : v \in s.vars}
ProgramDeleted(s) ==
    OrFails(s, update_catalog([s EXCEPT !.lines = 0, !.pc = 0, !.mvars = FALSE]))

GoesTo(s) == {Failed(s)} \cup {[s EXCEPT !.pc = n] : n \in 0 .. s.lines}
ProgramStarts(s) == OrFails(s, [s EXCEPT !.running = TRUE])

Handler(s, c) ==
    CASE c = "AON" -> {docmd_aon(s)}
      [] c = "AOFF" -> {docmd_aoff(s)}
      [] c = "CUSTOM" -> {docmd_custom(s)}
      [] c = "SF" -> {s, set_flag_custom(s)}
      [] c = "MENU" -> {docmd_menu(s)}
      [] c = "EXITALL" -> {docmd_exitall(s)}
      [] c \in {"EDIT", "EDITN"} -> docmd_edit(s)
      [] c = "MATA" -> docmd_mata(s)
      [] c = "SIMQ" -> docmd_simq(s)
      [] c = "VARMENU" -> docmd_varmenu(s)
      [] c = "PGMSLVi" -> {docmd_pgmslvi(s)}
      [] c = "PGMINTi" -> {docmd_pgminti(s)}
      [] c = "HEXM" -> {base_helper(s, 16)}
      [] c = "DECM" -> {base_helper(s, 10)}
      [] c = "CLALLb" -> {docmd_clall(s)}
      [] c \in {"STO", "STO_ADD", "DIM", "ASTO"} -> VariableStored(s)
      [] c \in {"VMSTO", "VMSTO2"} -> {[t EXCEPT !.varmenu_active = ~t.message] : t \in VariableStored(s)}
      [] c = "CLV" -> VariableDeleted(s)
      [] c = "CLP" -> ProgramDeleted(s)
      [] c = "ARCL" -> OrFails(s, docmd_arcl(s))
      [] c = "CLA" -> {[s EXCEPT !.alpha_entry = FALSE]}
      [] c = "GETKEY" -> {[s EXCEPT !.getkey = TRUE]}
      [] c \in {"GTO", "GTODOT"} -> GoesTo(s)
      [] c = "GTODOTDOT" -> {[s EXCEPT !.lines = 0, !.pc = 0]}
      [] c = "DEL" -> {[s EXCEPT !.lines = n, !.pc = IF @ > n THEN n ELSE @] : n \in 0 .. s.lines}
      [] c \in {"XEQ", "VMSOLVE", "INTEG", "SOLVE"} -> ProgramStarts(s)
      [] c \in {"ADD", "RCL", "RCL_ADD", "CLX"} -> Values(s)
      [] OTHER -> {s}

-----------------------------------------------------------------------------
\* What happens when the key comes up.

Lingers(c) == c \in {"LINGER1", "LINGER2"}

Done(s) == IF s.getkey THEN Pend(s, None, None) ELSE redisplay(Pend(s, None, None))

\* SST and a running program execute a line of the program.
Line(s) == UNION {Handler([s EXCEPT !.running = TRUE], c) : c \in Steps}

Execute(s) ==
    LET c == s.pending
        e == [s EXCEPT !.varmenu_active = c \in {"VMSTO", "VMSTO2", "VMSOLVE", "VMEXEC"}]
    IN  CASE c \in {"RUN", "VMEXEC"} ->
                {[Pend(e, None, None) EXCEPT !.running = TRUE, !.pc = IF @ = 0 THEN 1 ELSE @]}
          [] c = "SST" -> {Done([l EXCEPT !.running = FALSE]) : l \in Line(e)}
          [] c \notin {"RUN", "VMEXEC", "SST"} -> {Done(l) : l \in Handler(e, c)}

CatalogLeft(s) ==
    IF ~s.leaving THEN s
    ELSE [CASE s.menu["transient"] = "CATALOG" -> Show(s, "transient", None)
            [] s.menu["transient"] # "CATALOG" /\ s.menu["plain"] = "CATALOG" -> Show(s, "plain", None)
            [] OTHER -> s EXCEPT !.leaving = FALSE]

core_keyup(s) ==
    CASE Lingers(s.pending) -> {[s EXCEPT !.pending = "LINGER2"]}
      [] s.pending = "SILENT_OFF" -> {[s EXCEPT !.pending = None]}
      [] s.pending \in {"CANCELLED", "NULL"} -> {Done(CatalogLeft(s))}
      [] OTHER -> Execute(CatalogLeft(s))

core_keytimeout2(s) ==
    [s EXCEPT !.leaving = FALSE,
              !.pending = IF @ \in {"CANCELLED", "SILENT_OFF"} THEN @ ELSE "CANCELLED"]

core_timeout3(s) ==
    IF s.pending = "LINGER1" THEN Pend(s, "CANCELLED", None)
    ELSE redisplay(Pend([s EXCEPT !.message = FALSE], None, None))

\* With flag 11 the program starts: an entry is given up and PRGM mode is left.
AutoStart(s) ==
    LET f == IF s.command_entry THEN finish_command_entry(s) ELSE s
        p == CASE f.prgm_mode /\ f.alpha_entry -> [f EXCEPT !.pc = f.saved_pc]
               [] f.prgm_mode /\ ~f.alpha_entry /\ f.number -> store_command(f, "NUMBER")
               [] OTHER -> f
    IN  AlphaOff([p EXCEPT !.prgm_mode = FALSE, !.alpha_entry = FALSE, !.number = FALSE,
                           !.running = TRUE])

core_powercycle(s, auto) ==
    LET o == [s EXCEPT !.pending = None, !.getkey = FALSE]
    IN  IF auto THEN AutoStart(o)
        ELSE IF s.running THEN redisplay([o EXCEPT !.running = FALSE])
        ELSE IF s.getkey THEN redisplay(o)
        ELSE o

-----------------------------------------------------------------------------
\* The behaviours.

Init ==
    /\ k = [menu |-> [l \in Levels |-> None], sticky |-> FALSE, callback |-> 0, baseapp |-> FALSE,
            base |-> 10, section |-> [l \in Levels |-> "TOP"], role |-> 0, editing |-> FALSE,
            prevmenu |-> None, vars |-> {"mat"}, mvars |-> TRUE, storable |-> TRUE,
            message |-> FALSE, running |-> FALSE, alpha_mode |-> FALSE, alpha_entry |-> FALSE,
            varmenu_active |-> FALSE, prgm_mode |-> FALSE, command_entry |-> FALSE, clall |-> FALSE,
            local_label |-> TRUE, command |-> None, argtype |-> None, ind |-> FALSE,
            alpha |-> FALSE, length |-> 0, maxdigits |-> 2, pc |-> 0, saved_pc |-> 0, lines |-> 1,
            stored |-> Nothing, pending |-> None, arg |-> None, leaving |-> FALSE, fault |-> FALSE,
            number |-> FALSE, digits |-> 0, minus |-> FALSE, text |-> 0, getkey |-> FALSE]
    /\ exits = 0

\* What is not read again before it is set is not remembered.
Remembered(s) ==
    LET e == IF s.command_entry \/ s.pending = "ASSIGNa" THEN s
             ELSE [s EXCEPT !.command = None, !.argtype = None, !.ind = FALSE, !.alpha = FALSE,
                            !.length = 0, !.maxdigits = 2]
        n == IF s.number THEN e ELSE [e EXCEPT !.digits = 0, !.minus = FALSE]
        p == IF s.prgm_mode /\ (s.command_entry \/ s.alpha_entry) THEN n ELSE [n EXCEPT !.saved_pc = 0]
        t == IF s.prgm_mode /\ s.alpha_entry THEN p ELSE [p EXCEPT !.text = 0]
        c == IF s.menu["app"] \in {"VARMENU", "INTEG_PARAMS"} THEN t ELSE [t EXCEPT !.role = 0]
    IN  [c EXCEPT !.arg = IF c.command_entry \/ c.pending # None THEN @ ELSE None,
                  !.section = [l \in Levels |-> IF c.menu[l] = "CATALOG" THEN @[l] ELSE "TOP"],
                  !.sticky = @ /\ c.menu["plain"] # None,
                  !.prevmenu = IF c.editing THEN @ ELSE None]

Becomes(s, n) == k' = Remembered(s) /\ exits' = n

now == [k EXCEPT !.stored = Nothing]

ExitKey == <<FALSE, "EXIT">>

\* The program that is being edited may grow by two lines beyond the bound.
Keydown ==
    /\ k.pending \in {None, "LINGER2"} /\ (~k.running \/ k.getkey)
    /\ \E p \in Presses :
          /\ k.lines <= MaxLines \/ p = ExitKey
          /\ \E s \in keydown(now, p[1], p[2]) :
                Becomes(s, IF p # ExitKey THEN 0 ELSE IF exits < MaxExits THEN exits + 1 ELSE exits)

\* EXIT and R/S stop a program.
Stop == k.running /\ ~k.getkey /\ \E c \in {None, "CANCELLED"} :
            Becomes(redisplay(Pend([now EXCEPT !.running = FALSE], c, None)), 0)

Keyup == k.pending \notin {None, "LINGER2"} /\ \E s \in core_keyup(now) : Becomes(s, exits)

HeldTooLong ==
    k.pending # None /\ ~Lingers(k.pending) /\ Becomes(core_keytimeout2(now), exits)

Lingered == Lingers(k.pending) /\ Becomes(core_timeout3(now), exits)

RunLine ==
    /\ k.running /\ ~k.getkey
    /\ \E s \in {redisplay([now EXCEPT !.running = FALSE])} \cup Line(now) : Becomes(s, 0)

Powercycle == \E auto \in BOOLEAN : Becomes(core_powercycle(now, auto), 0)

\* After a read or a write out of bounds nothing more is said.
Undefined == k.fault /\ UNCHANGED vars

Next ==
    \/ ~k.fault /\ (Keydown \/ Stop \/ Keyup \/ HeldTooLong \/ Lingered \/ RunLine \/ Powercycle)
    \/ Undefined

Spec == Init /\ [][Next]_vars
================================================================================
