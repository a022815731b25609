------------------------------- MODULE NormalKeys -------------------------------
(***************************************************************************)
(* The keys in the normal mode (keydown_normal_mode()), and where a key    *)
(* goes (keydown()).                                                       *)
(***************************************************************************)
EXTENDS KeyModes

\* What the keys of a menu stand for, where that matters; else any command with a name.
MenuItems ==
    [BASE |-> {"A_THRU_F", "HEXM", "DECM"}, LOGIC |-> {"ADD"}, EDIT1 |-> {"GOTOROW"}, EDIT2 |-> {"ADD"},
     MATRIX1 |-> {"SIMQ", "DIM"}, MATRIX2 |-> {"EDIT", "EDITN"}, MATRIX3 |-> {"ADD"}, SIMQ |-> {"MATA"},
     SOLVE |-> {"MVAR", "PGMSLV", "SOLVE"}, INTEG |-> {"MVAR"}]

Items(m) == IF m \in DOMAIN MenuItems THEN MenuItems[m] \cap Commands ELSE WithName

\* A plain menu is left with the first command, unless it is sticky.
LeftWith(k, level) == level = "transient" \/ (level = "plain" /\ ~k.sticky)
Leave(k, level) == IF LeftWith(k, level) THEN set_menu(k, level, None) ELSE k

Stored(k, c) == redisplay(Pend(store_command_after(k, c), None, None))

send_it_off(k, level) ==
    IF k.prgm_mode /\ k.pending \notin Immediate
    THEN redisplay(Leave(Pend(store_command_after(k, k.pending), None, None), level))
    ELSE k

\* view_helper() may fail.
view(k) == {[k EXCEPT !.pending = "LINGER1", !.message = TRUE], display_error(k)}

-----------------------------------------------------------------------------
\* The keys of the menus that are not plain tables.

\* The key has a program or not, and docmd_gto() finds its label or not.
do_prgm_menu_key(k, key) ==
    LET s == IF key = "EXIT" THEN Show(k, "plain", None) ELSE k
    IN  {CASE key \in MenuKeys -> Pend(s, "NULL", None)
           [] key = "EXIT" -> Pend(s, "CANCELLED", None)
           [] OTHER -> s,
         [s EXCEPT !.running = TRUE],
         display_error(s)}

VariableTo(k, shift, c) ==
    IF shift /\ ~k.prgm_mode THEN view(k)
    ELSE IF k.prgm_mode THEN {Stored(k, IF shift THEN "VIEW" ELSE "STO")}
    ELSE {Pend(k, c, "STR")}

VariableKey(k, shift) ==
    IF k.role = 2 /\ k.varmenu_active /\ ~k.prgm_mode /\ ~shift
    THEN {redisplay([set_menu(k, "app", "INTEG_PARAMS") EXCEPT !.callback = 5])}
    ELSE VariableTo(k, shift,
            CASE k.role = 0 -> IF k.varmenu_active THEN "VMEXEC" ELSE "VMSTO"
              [] k.role = 1 -> IF k.varmenu_active THEN "VMSOLVE" ELSE "VMSTO2"
              [] k.role = 2 -> "VMSTO")

VarmenuKey(k, shift, key) ==
    CASE key \in MenuKeys -> {Pend(k, "NULL", None)} \cup VariableKey(k, shift)
      [] Arrow(shift, key) -> {k, Pend(k, "CANCELLED", None)}
      [] key = "EXIT" -> {Pend(set_menu(k, "app", None), "CANCELLED", None)}

ParameterKey(k, shift, key) ==
    CASE key \in {"SIGMA", "INV", "SQRT"} -> VariableTo(k, shift, "VMSTO")
      [] key = "XEQ" -> {Pend(k, "INTEG", "STR")}
      [] OTHER -> {Pend(k, "NULL", None)}

\* A name assigned to a key: of a label, of a variable, of a command.
CustomName(k, c) ==
    CASE c = "CLALLa" -> redisplay([k EXCEPT !.clall = TRUE])
      [] c = "SST" /\ k.prgm_mode -> redisplay(sst(k))
      [] c = "BST" -> redisplay(Pend(bst(k), IF k.prgm_mode THEN None ELSE "CANCELLED", None))
      [] c \notin {"CLALLa", "SST", "BST"} /\ argtype(c) # "NONE" -> do_interactive(k, c)
      [] OTHER -> send_it_off(Pend(k, c, None), "plain")

CustomKey(k, shift, key) ==
    IF k.local_label
    THEN IF key = "XEQ" THEN {do_interactive(k, IF shift THEN "GTO" ELSE "XEQ")}
         ELSE IF k.prgm_mode THEN {Show(Stored(k, "XEQ"), "command", None)}
         ELSE {Pend(k, "XEQ", "LCLBL")}
    ELSE {k} \cup {send_it_off(Pend(k, c, "STR"), "plain") : c \in {"XEQ", "RCL"}}
             \cup {CustomName(k, c) : c \in WithName}

\* The catalog of programs stays until the program runs, when it is not sticky.
ProgramChosen(k, level) ==
    LET s == get_cat_section(k)
        p == Pend(k, "XEQ", "LBLINDEX")
        t == IF level = "plain"
             THEN set_cat_section(Show(Show(p, "plain", None), "transient", "CATALOG"), s)
             ELSE p
    IN  IF ~k.prgm_mode /\ LeftWith(k, level) THEN [t EXCEPT !.leaving = TRUE] ELSE p

CatalogItem(k, level) ==
    LET s == get_cat_section(k)
        absent == Pend(k, "NULL", None)
    IN  CASE s \in {"PGM", "PGM_ONLY"} ->
                {absent, send_it_off(ProgramChosen(k, level), level)}
                \cup (IF k.prgm_mode THEN {display_error(k)} ELSE {})
          [] s = "PGM_SOLVE" ->
                {absent, send_it_off(Pend(k, IF k.prgm_mode THEN "PGMSLV" ELSE "PGMSLVi", "STR"), level)}
          [] s = "PGM_INTEG" ->
                {absent, send_it_off(Pend(k, IF k.prgm_mode THEN "PGMINT" ELSE "PGMINTi", "STR"), level)}
          [] s = "FCN" ->
                {IF k.prgm_mode THEN absent ELSE Pend(Leave(k, level), "NULL", None)}
                \cup {do_interactive(Leave(k, level), c) : c \in WithName}
          [] OTHER -> {absent, send_it_off(Leave(Pend(k, "RCL", "STR"), level), level)}

CatalogKey(k, level, key) ==
    IF get_cat_section(k) # "TOP" THEN CatalogItem(k, level)
    ELSE IF Section[key] = None THEN {[k EXCEPT !.pending = "LINGER1"]}
    ELSE IF Empty(k, Section[key]) THEN {display_error(k)}
    ELSE {redisplay(set_cat_section(k, Section[key]))}

TableKey(k, level) ==
    LET m == k.menu[level]
    IN  {redisplay(set_menu(k, level, n)) : n \in Kids(m)}
        \cup {Pend(Leave(k, level), "NULL", None)}
        \cup {do_interactive(Leave(k, level), c) : c \in Items(m)}

MenuKey(k, level, shift, key) ==
    LET m == k.menu[level]
    IN  CASE m \in CustomMenus -> CustomKey(k, shift, key)
          [] m = "CATALOG" -> CatalogKey(k, level, key)
          [] m = "INTEG_PARAMS" -> ParameterKey(k, shift, key)
          [] OTHER -> TableKey(k, level)

MenuPage(k, level) ==
    LET m == k.menu[level]
        near == Neighbours(m) \ (IF k.local_label THEN {"CUSTOM3"} ELSE {})
    IN  IF m = "CATALOG" THEN {redisplay(k)}
        ELSE IF near = {} THEN {k}
        ELSE {redisplay(set_menu(k, level, n)) : n \in near \cap Shown}

MenuExit(k, level) ==
    LET m == k.menu[level]
        s == IF m = "CATALOG" /\ get_cat_section(k) \in Submenu THEN set_cat_section(k, "TOP")
             ELSE set_menu(k, level, IF m = "CATALOG" THEN None ELSE parent(m))
    IN  {Pend(s, "CANCELLED", None)}

-----------------------------------------------------------------------------
\* The keys that no menu takes.

OwnCommand == [XEQ |-> "XEQ", STO |-> "STO", RCL |-> "RCL", SIGMA |-> "ADD", RUN |-> "RUN",
               ADD |-> "ADD", DOWN |-> "SST", ENTER |-> "ADD", BSP |-> "CLX"]
ShiftedKeys ==
    [x \in {"XEQ", "DOWN", "1"} |->
        CASE x = "XEQ" -> "GTO" [] x = "DOWN" -> "SST" [] x = "1" -> "ASSIGNa"]

OwnKey(k, shift, key) ==
    CASE shift /\ key = "ENTER" ->
            {redisplay(Show([k EXCEPT !.alpha_mode = TRUE, !.alpha_entry = FALSE],
                                "alpha", "ALPHA1"))}
      [] key = "EXIT" -> {Pend([k EXCEPT !.prgm_mode = FALSE], "CANCELLED", None)}
      [] shift /\ key = "DOT" -> {[k EXCEPT !.pending = "LINGER1"]}
      [] shift /\ key \in DOMAIN PlainKeys \cup AppKeys -> {MenuSwitch(k, key)}
      [] shift /\ key \in DOMAIN ShiftedKeys -> {do_interactive(k, ShiftedKeys[key])}
      [] ~shift /\ key \in DOMAIN OwnCommand -> {do_interactive(k, OwnCommand[key])}
      [] OTHER -> {k}

keydown_normal_mode(k, shift, key) ==
    LET level == FrontLevel(k)
        menu == level \in {"transient", "plain", "app"}
        m == IF menu THEN k.menu[level] ELSE None
        programmed == m = "PROGRAMMABLE"
                      /\ (key \in MenuKeys \/ (~shift /\ key \in {"UP", "DOWN", "EXIT"}))
    IN  CASE is_number_key(k, shift, key) -> NumberStarts(k, shift, key)
          [] k.prgm_mode /\ Back(shift, key) -> {redisplay(LineDeleted(k))}
          [] programmed -> do_prgm_menu_key(k, key)
          [] m = "VARMENU" /\ (key \in MenuKeys \cup {"EXIT"} \/ Arrow(shift, key)) ->
                VarmenuKey(k, shift, key)
          [] menu /\ m \notin {"PROGRAMMABLE", "VARMENU"} /\ key \in MenuKeys
             /\ ~is_number_key(k, shift, key) -> MenuKey(k, level, shift, key)
          [] menu /\ ~programmed /\ m # "VARMENU" /\ Arrow(shift, key) -> MenuPage(k, level)
          [] menu /\ ~programmed /\ m # "VARMENU" /\ key = "EXIT" -> MenuExit(k, level)
          [] OTHER -> OwnKey(k, shift, key)

-----------------------------------------------------------------------------
\* Where a key goes.

\* GETKEY takes any key; EXIT and R/S also stop its program, and so does a number
\* of the key that cannot be made.
GetkeyOver(k) ==
    LET s == [k EXCEPT !.getkey = FALSE] IN IF s.running THEN s ELSE redisplay(s)

KeyGot(k, shift, key) ==
    {GetkeyOver([k EXCEPT !.storable = TRUE,
                          !.running = @ /\ key # "EXIT" /\ (shift \/ key # "RUN")]),
     GetkeyOver([display_error(k) EXCEPT !.running = FALSE])}

ProgramMode(k) ==
    LET e == IF k.prgm_mode /\ ~k.alpha_entry /\ k.number THEN NumberEntered(k) ELSE AlphaEntered(k)
        t == [e EXCEPT !.alpha_entry = FALSE, !.number = FALSE, !.prgm_mode = ~@,
                       !.varmenu_active = FALSE, !.message = FALSE]
    IN  redisplay(IF t.prgm_mode /\ t.menu["app"] = "A_THRU_F" THEN set_menu(t, "app", "BASE")
                  ELSE IF t.prgm_mode /\ t.menu["plain"] = "PROGRAMMABLE"
                  THEN Show(t, "plain", None)
                  ELSE t)

\* A number goes on with its own keys, the change of sign, and the one that rubs out.
Continues(k, shift, key) ==
    \/ is_number_key(k, shift, key)
    \/ key = "CHS" /\ ~shift /\ ~basekeys(k) /\ k.base = 10
    \/ Back(shift, key)

Stepping(k, shift, key) == key \in {"UP", "DOWN"} /\ (shift \/ get_front_menu(k) = None)

ModeKey(k, shift, key) ==
    CASE k.number -> keydown_number_entry(k, shift, key)
      [] ~k.number /\ k.command_entry -> keydown_command_entry(k, shift, key)
      [] ~k.number /\ ~k.command_entry /\ k.alpha_mode -> keydown_alpha_mode(k, shift, key)
      [] OTHER -> keydown_normal_mode(k, shift, key)

EditingKey(k, shift, key) ==
    LET n == IF k.number /\ ~Continues(k, shift, key) THEN NumberEntered(k) ELSE k
    IN  CASE n.command_entry /\ shift /\ key \in {"UP", "DOWN"} -> {n}
          [] n.prgm_mode /\ ~(n.command_entry /\ shift) /\ Stepping(n, shift, key) ->
                LET a == AlphaEntered(n)
                IN  {redisplay(IF key = "UP" THEN bst(a) ELSE sst(a))}
          [] ~n.prgm_mode /\ ~(n.command_entry /\ shift) /\ key = "UP" /\ Stepping(n, shift, key) ->
                {Pend(redisplay(bst([n EXCEPT !.alpha_entry = FALSE])), "CANCELLED", None)}
          [] OTHER -> ModeKey(n, shift, key)

ClallAnswered(k, shift, key) ==
    Pend([k EXCEPT !.clall = FALSE],
         CASE key = "SIGMA" /\ ~shift -> "CLALLb"
           [] key = "EXIT" -> "CANCELLED"
           [] OTHER -> "NULL", None)

keydown(key0, shift, key) ==
    LET k == [key0 EXCEPT !.pending = None]
        front == get_front_menu(k)
        fresh == [k EXCEPT !.message = FALSE]
    IN  IF key \in Typed /\ front \notin AlphaMenus THEN {k}
        ELSE IF k.clall THEN {ClallAnswered(k, shift, key)}
        ELSE IF k.getkey THEN KeyGot(k, shift, key)
        ELSE CASE shift /\ key = "EXIT" -> {[k EXCEPT !.pending = "SILENT_OFF"]}
               [] shift /\ key = "RUN" -> {IF k.command_entry THEN k ELSE ProgramMode(k)}
               [] k.message /\ Back(shift, key) -> {redisplay(fresh)}
               [] k.number /\ k.base = 16 /\ key = "SIGMA" /\ front = "BASE" ->
                     {redisplay(set_menu(fresh, "app", "A_THRU_F"))}
               [] OTHER -> EditingKey(fresh, shift, key)
================================================================================
