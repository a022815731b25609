-------------------------------- MODULE KeyModes --------------------------------
(***************************************************************************)
(* The keys in the other modes (keydown() of common/core_keydown.cc): the  *)
(* entry of a number, of letters in ALPHA mode, and the normal mode, where *)
(* a key is that of a menu or stands for a command.                        *)
(*                                                                         *)
(* Of the record k it uses, besides what CommandKeys uses,                 *)
(*   number       mode_number_entry                                        *)
(*   digits       cmdline_length, separators of thousands not counted; it  *)
(*                is not followed below -1                                 *)
(*   minus        the number starts with a minus sign                      *)
(*   text         entered_string_length, of a line of letters in a program *)
(*   getkey       mode_getkey: a program waits for a key                   *)
(* The printer, the values on the stack and INPUT are left out.            *)
(***************************************************************************)
EXTENDS CommandKeys, TLC

CONSTANT MaxDigits      \* bound: how long the numbers are that are typed

basekeys(k) == k.baseapp /\ get_front_menu(k) \in BaseMenus

is_number_key(k, shift, key) ==
    \/ get_front_menu(k) = "A_THRU_F" /\ key \in MenuKeys
    \/ ~shift /\ key \in Digits \cup {"DOT", "E"}

set_solve_integ(k, menu, section) ==
    redisplay(
        IF k.prgm_mode THEN set_menu(k, "app", menu)
        ELSE IF ~k.mvars THEN display_error(set_menu(k, "app", menu))
        ELSE IF Refuses(k, "CATALOG") THEN display_error(k)
        ELSE display_error(set_cat_section(set_appmenu(k, "CATALOG", FALSE), section)))

\* The shifted keys that bring up a menu.
PlainKeys ==
    [CHS |-> "MODES1", E |-> "DISP", BSP |-> "CLEAR1", MUL |-> "PROB", SUB |-> "PRINT1",
     ADD |-> "CATALOG"] @@
    "5" :> "CONVERT1" @@ "6" :> "FLAGS" @@ "2" :> "CUSTOM1" @@ "3" :> "PGM_FCN1" @@ "0" :> "TOP_FCN"

AppKeys == {"4", "7", "8", "9", "DIV"}

MenuSwitch(k, key) ==
    CASE key \in DOMAIN PlainKeys -> set_plainmenu(k, PlainKeys[key])
      [] key = "7" -> set_solve_integ(k, "SOLVE", "PGM_SOLVE")
      [] key = "8" -> set_solve_integ(k, "INTEG", "PGM_INTEG")
      [] key = "9" -> redisplay(set_menu(k, "app", "MATRIX1"))
      [] key = "DIV" -> redisplay(set_menu(k, "app", "STAT1"))
      [] key = "4" -> LET b == set_menu(k, "app", "BASE")
                      IN  IF b.menu["app"] = "BASE"
                          THEN redisplay([b EXCEPT !.callback = 2, !.baseapp = TRUE])
                          ELSE b

-----------------------------------------------------------------------------
\* A number is entered.

LineBefore(k) == [k EXCEPT !.number = FALSE, !.pc = IF @ = 0 THEN 0 ELSE @ - 1]

NumberGone(k) ==
    IF k.prgm_mode THEN redisplay(LineBefore(k))
    ELSE Pend([k EXCEPT !.number = FALSE], "CLX", None)

\* The number goes to X, in a program to entered_number.
NumberIs(k, n) == [k EXCEPT !.digits = n, !.storable = @ \/ ~k.prgm_mode]
NumberGrows(k) == {NumberIs(k, n) : n \in {k.digits} \cup ({k.digits + 1} \cap (1 .. MaxDigits))}

\* A zero goes before the point, and an exponent turns zeros into a one.
PointOrExponent(k) ==
    {NumberIs(k, n) : n \in (IF k.digits = 0 THEN {2} ELSE {k.digits} \cup (2 .. MaxDigits))}

\* The sign is that of the exponent, if there is one.
ChangeSign(k) ==
    {NumberIs(k, n) : n \in {n \in {k.digits - 1, k.digits, k.digits + 1} :
                                k.digits > 1 /\ n \in 2 .. MaxDigits}}
    \cup {IF k.minus
          THEN IF k.digits = 1 THEN NumberGone([k EXCEPT !.minus = FALSE])
               ELSE NumberIs([k EXCEPT !.minus = FALSE], k.digits - 1)
          ELSE NumberIs([k EXCEPT !.minus = TRUE], k.digits + 1)}

keydown_number_entry(k, shift, key) ==
    CASE k.base # 10 /\ key \in {"E", "DOT"} -> {k}
      [] key = "BSP" -> {IF k.digits = 1 THEN NumberGone([k EXCEPT !.minus = FALSE])
                         ELSE NumberIs(k, IF k.digits < 0 THEN k.digits ELSE k.digits - 1)}
      [] key = "CHS" -> ChangeSign(k)
      [] k.base = 10 /\ key \in {"E", "DOT"} -> PointOrExponent(k)
      [] key \in Digits \cup MenuKeys ->
            CASE k.digits < 0 -> {[k EXCEPT !.fault = TRUE]}
              [] k.base = 10 /\ k.digits = 0 -> {NumberIs(k, 1)}
              [] OTHER -> NumberGrows(k)

NumberStarts(k, shift, key) ==
    LET n == [k EXCEPT !.number = TRUE, !.digits = 0, !.minus = FALSE]
        s == IF k.prgm_mode THEN [n EXCEPT !.pc = NextLine(k)]
             ELSE redisplay([n EXCEPT !.varmenu_active = FALSE])
    IN  keydown_number_entry(s, shift, key)

NumberEntered(k) ==
    LET n == [k EXCEPT !.number = FALSE]
    IN  IF k.prgm_mode THEN store_command(n, "NUMBER") ELSE n

-----------------------------------------------------------------------------
\* Letters are entered.

start_alpha_prgm_line(k) ==
    [k EXCEPT !.saved_pc = k.pc, !.pc = NextLine(k), !.text = 0, !.alpha_entry = TRUE]

finish_alpha_prgm_line(k) ==
    LET e == [k EXCEPT !.alpha_entry = FALSE]
    IN  IF k.text = 0 THEN [e EXCEPT !.pc = k.saved_pc] ELSE store_command(e, "STRING")

AlphaEntered(k) ==
    IF k.alpha_entry /\ k.prgm_mode THEN finish_alpha_prgm_line(k)
    ELSE [k EXCEPT !.alpha_entry = FALSE]

AlphaOff_KeepsMenu(k) == [k EXCEPT !.alpha_mode = FALSE]

AlphaOff(k) == Show([k EXCEPT !.alpha_mode = FALSE], "alpha", None)

AlphaLetter(k) ==
    LET s == IF k.prgm_mode /\ ~k.alpha_entry THEN start_alpha_prgm_line(k)
             ELSE [k EXCEPT !.alpha_entry = TRUE]
    IN  IF k.prgm_mode /\ s.text < MaxText THEN [s EXCEPT !.text = @ + 1] ELSE s

\* The keys of the ALPHA menu; with none up, menus[-1] is read.
AlphaMenuKey(k, shift, key) ==
    LET m == k.menu["alpha"]
    IN  CASE m = None -> {[k EXCEPT !.fault = TRUE]}
          [] m # None /\ key \in MenuKeys /\ m \in DOMAIN Below ->
                {redisplay(Show(k, "alpha", n)) : n \in Kids(m)}
          [] m # None /\ key \in MenuKeys /\ m \notin DOMAIN Below ->
                {redisplay(Show(AlphaLetter(k), "alpha", parent(m)))}
          [] m # None /\ Arrow(shift, key) ->
                {redisplay(Show(k, "alpha", n)) : n \in Neighbours(m) \cap Shown}
                \cup (IF Neighbours(m) = {} THEN {k} ELSE {})
          [] m # None /\ key = "EXIT" ->
                {IF parent(m) # None THEN redisplay(Show(k, "alpha", parent(m)))
                 ELSE Pend(AlphaOff(AlphaEntered(Show(k, "alpha", None))), "CANCELLED", None)}

\* A line of the program goes; the last END cannot.
LineDeleted(k) ==
    IF k.pc = 0 THEN k
    ELSE [k EXCEPT !.lines = IF k.pc <= k.lines THEN @ - 1 ELSE @, !.pc = @ - 1]

AlphaBack(k) ==
    LET up == k.menu["alpha"] \notin {"ALPHA1", "ALPHA2"}
        d == LineDeleted(k)
    IN  CASE k.prgm_mode /\ k.alpha_entry ->
                {redisplay(IF k.text > 0 THEN [k EXCEPT !.text = @ - 1]
                           ELSE finish_alpha_prgm_line(k))}
          [] k.prgm_mode /\ ~k.alpha_entry ->
                IF k.menu["alpha"] = None THEN {[d EXCEPT !.fault = TRUE]}
                ELSE {redisplay(IF up THEN Show(d, "alpha", parent(k.menu["alpha"])) ELSE d)}
          [] ~k.prgm_mode ->
                {Pend(k, "CLA", None)} \cup (IF k.alpha_entry THEN {redisplay(k)} ELSE {})

AlphaEnter(k, shift) ==
    {redisplay(IF shift \/ k.alpha_entry THEN AlphaOff(AlphaEntered(k))
               ELSE IF k.prgm_mode THEN [start_alpha_prgm_line(k) EXCEPT !.text = 1]
               ELSE [k EXCEPT !.alpha_entry = TRUE])}

AlphaCommands == [STO |-> "ASTO", RCL |-> "ARCL", RUN |-> "RUN"]

AlphaOther(k, shift, key) ==
    CASE shift /\ key = "DOT" -> {[k EXCEPT !.pending = "LINGER1"]}
      [] shift /\ key \in DOMAIN PlainKeys \cup AppKeys ->
            {redisplay(AlphaOff(AlphaEntered(MenuSwitch(k, key))))}
      [] shift /\ key = "DOWN" -> {do_interactive(AlphaEntered(k), "SST")}
      [] ~shift /\ key \in DOMAIN AlphaCommands ->
            {do_interactive(AlphaEntered(k), AlphaCommands[key])}
      [] OTHER -> {k}

keydown_alpha_mode(k, shift, key) ==
    CASE key \in Typed -> {redisplay(AlphaLetter(k))}
      [] CharKey(shift, key) -> {redisplay(AlphaLetter(k))}
      [] key \in MenuKeys \cup {"EXIT"} \/ Arrow(shift, key) -> AlphaMenuKey(k, shift, key)
      [] Back(shift, key) -> AlphaBack(k)
      [] key = "ENTER" -> AlphaEnter(k, shift)
      [] OTHER -> AlphaOther(k, shift, key)
================================================================================
