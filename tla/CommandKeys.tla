------------------------------ MODULE CommandKeys ------------------------------
(***************************************************************************)
(* The keys pressed while a command waits for its argument                 *)
(* (keydown_command_entry() of common/core_keydown.cc).  Each operator     *)
(* gives the set of the outcomes of a key: which item of a catalog, which  *)
(* letter or which command it stands for is left open.                     *)
(***************************************************************************)
EXTENDS CommandEntry

MenuKeys == {"SIGMA", "INV", "SQRT", "LOG", "LN", "XEQ"}
Digits == {"0", "1", "2", "3", "4", "5", "6", "7", "8", "9"}
Typed == {"CHAR", "CHAR_DIGIT"}                     \* keys of a keyboard: 1024 + a character
Unshifted == Digits \cup {"DOT", "E", "DIV", "MUL", "SUB", "ADD"}
CharKey(shift, key) == key \in (IF shift THEN {"RCL", "RDN"} ELSE Unshifted)
Arrow(shift, key) == ~shift /\ key \in {"UP", "DOWN"}
Back(shift, key) == ~shift /\ key = "BSP"

Submenu == {"FCN", "PGM", "REAL", "CPX", "MAT"}     \* the sections below the top one
InAlphaMenu(k) == k.menu["command"] \in AlphaMenus
KeysOf(c) == IF c = "KEY1G" THEN "KEYG" ELSE "KEYX"

Indirect == [STR |-> "IND_STR", NUM |-> "IND_NUM", STK |-> "IND_STK"]
Chosen(k, arg) == Pend(k, k.command, IF k.ind THEN Indirect[arg] ELSE arg)
Named(k) == IF ~k.ind /\ k.command = "XEQ" THEN finish_xeq(Chosen(k, "STR"))
            ELSE {finish_command_entry(Chosen(k, "STR"))}

-----------------------------------------------------------------------------
\* The menus of the entry.

StackMenu(k, shift, key) ==
    CASE Back(shift, key) -> {Nulled(k)}
      [] key = "EXIT" -> {Cancelled(k)}
      [] ~shift /\ key = "SIGMA" /\ k.menu["command"] = "IND_ST" ->
            {redisplay(set_catalog_menu([k EXCEPT !.ind = TRUE, !.maxdigits = 2], "REAL_ONLY"))}
      [] ~shift /\ key \in MenuKeys /\ key # (IF k.menu["command"] = "ST" THEN "XEQ" ELSE "SIGMA") ->
            {finish_command_entry(Chosen(k, "STK"))}
      [] OTHER -> {k}

CustomMenu(k, shift, key) ==
    CASE key \in MenuKeys -> {finish_command_entry(Pend(k, "ASGN01", k.arg))}
      [] Back(shift, key) -> {Nulled(k)}
      [] key = "EXIT" -> {Cancelled(k)}
      [] Arrow(shift, key) -> {redisplay(Show(k, "command", m)) :
                                  m \in Neighbours(k.menu["command"]) \cap Shown}
      [] OTHER -> {k}

WhichKey(k, shift, key) ==
    CASE ~shift /\ key \in MenuKeys \cup (Digits \ {"0"}) \cup {"UP", "DOWN", "EXIT"} ->
            {start_incomplete_command(k, IF k.command = "KEYG" THEN "KEY1G" ELSE "KEY1X")}
      [] Back(shift, key) -> {Nulled(k)}
      [] OTHER -> {k}

\* The section behind a menu key of the top of the catalog, None for the display of memory.
Section == [SIGMA |-> "FCN", INV |-> "PGM", SQRT |-> "REAL", LOG |-> "CPX", LN |-> "MAT",
            XEQ |-> None]

CatalogMenu(k, shift, key) ==
    LET s == get_cat_section(k)
    IN  CASE key \in MenuKeys /\ s = "TOP" ->
                IF Section[key] = None THEN {[k EXCEPT !.pending = "LINGER1"]}
                ELSE IF Empty(k, Section[key]) THEN {k}
                ELSE {redisplay(set_cat_section(k, Section[key]))}
          [] key \in MenuKeys /\ s \in {"PGM", "PGM_ONLY"} ->
                {k, finish_command_entry(IF k.command \in WithLabelIndex
                                         THEN Pend(k, k.command, "LBLINDEX")
                                         ELSE Chosen(k, "STR"))}
          [] key \in MenuKeys /\ s \notin {"TOP", "PGM", "PGM_ONLY"} -> {k} \cup Named(k)
          [] Arrow(shift, key) -> {redisplay(k)}
          [] key = "EXIT" -> {IF s \in Submenu THEN redisplay(set_cat_section(k, "TOP"))
                              ELSE Cancelled(k)}

VariablesMenu(k, shift, key) ==
    CASE key \in MenuKeys -> {k, finish_command_entry(Pend(k, k.command, "STR"))}
      [] Arrow(shift, key) /\ k.menu["command"] = "VARMENU" -> {redisplay(k)}
      [] key = "EXIT" -> {Cancelled(k)}

-----------------------------------------------------------------------------
\* A number, or what precedes it.

Menu(k, m) == {redisplay(Show(k, "command", m))}
Catalog(k, s) == {redisplay(set_catalog_menu(k, s))}

Point_OfLabels(k) ==
    IF k.ind THEN Menu(k, "ST")
    ELSE CASE k.argtype \in {"VAR", "REAL", "LBL"} -> Menu(k, "IND_ST")
           [] k.argtype \in {"NUM9", "NUM11", "NUM99"} ->
                 Catalog([k EXCEPT !.ind = TRUE, !.maxdigits = 2], "REAL_ONLY")
           [] OTHER -> {k}

Point(k) ==
    IF k.ind
    THEN IF k.argtype \in {"VAR", "REAL", "MAT", "RVAR", "NAMED", "LBL", "PRGM",
                           "NUM9", "NUM11", "NUM99"}
         THEN Menu(k, "ST") ELSE {k}
    ELSE CASE k.argtype \in {"VAR", "REAL"} -> Menu(k, "IND_ST")
           [] k.argtype \in {"NUM9", "NUM11", "NUM99", "LBL"} ->
                 Catalog([k EXCEPT !.ind = TRUE, !.maxdigits = 2], "REAL_ONLY")
           [] OTHER -> {k}

\* matedit_goto() may report that there is no such element.
NumberEnds(k) ==
    CASE k.command = "GOTOROW" -> {start_incomplete_command(k, "GOTOCOLUMN")}
      [] k.command = "GOTOCOLUMN" ->
            {finish_command_entry(Pend(e, None, k.arg)) : e \in {k, display_error(k)}}
      [] OTHER -> {finish_command_entry(Chosen(k, "NUM"))}

Digit(k) ==
    LET d == [k EXCEPT !.length = @ + 1]
    IN  IF d.length = k.maxdigits THEN NumberEnds(d) ELSE Menu(d, None)

\* The menu that belongs to a command without its number.
MenuAgain(k) ==
    CASE k.argtype = "VAR" -> VariableMenu(k, "VARS_ONLY")
      [] k.argtype # "VAR" /\ k.ind -> set_catalog_menu(k, "REAL_ONLY")
      [] k.argtype = "REAL" /\ ~k.ind -> VariableMenu(k, "REAL_ONLY")
      [] k.argtype = "LBL" /\ ~k.ind -> set_catalog_menu(k, "PGM_ONLY")
      [] k.command = "GTODOT" /\ k.argtype # "LBL" /\ ~k.ind -> Show(k, "command", "IND")
      [] k.command = "LBL" /\ ~k.ind -> Show(k, "command", "ALPHA1")
      [] OTHER -> k

DigitBack(k) ==
    IF k.length = 0 THEN {Nulled(k)}
    ELSE LET d == [k EXCEPT !.length = @ - 1]
         IN  {redisplay(IF d.length > 0 THEN d
                        ELSE IF d.command \in KeyCommands
                        THEN start_incomplete_command(d, KeysOf(d.command))
                        ELSE MenuAgain(d))}

Enter(k, shift) ==
    CASE k.length > 0 -> IF shift THEN {k} ELSE NumberEnds(k)
      [] OTHER ->
            IF (k.ind /\ ~k.prgm_mode /\ ~vars_exist(k, {"real"}))
               \/ (~k.ind /\ k.argtype \notin {"VAR", "REAL", "NAMED", "LBL", "PRGM"})
            THEN {k}
            ELSE Menu([k EXCEPT !.alpha = TRUE], "ALPHA1")

\* STO and RCL become one of their arithmetic forms, GTO becomes GTO . and then GTO . .
Arithmetic(k, shift, key) ==
    k.command \in {"STO", "RCL"} /\ ~shift /\ k.length = 0 /\ key \in {"DIV", "MUL", "SUB", "ADD"}

NumberKey(k, shift, key) ==
    LET empty == k.length = 0
        point == ~shift /\ empty /\ key = "DOT"
        indirect == k.menu["command"] = "IND"
    IN  CASE key = "EXIT" -> {Cancelled(k)}
          [] indirect /\ ~shift /\ key = "SIGMA" ->
                Catalog([k EXCEPT !.command = "GTO", !.argtype = "LBL", !.ind = TRUE,
                                  !.maxdigits = 2], "REAL_ONLY")
          [] indirect /\ key = "ENTER" ->
                Menu([k EXCEPT !.argtype = "LBL", !.alpha = TRUE], "ALPHA1")
          [] Arithmetic(k, shift, key) ->
                {redisplay([k EXCEPT !.command = IF @ = "STO" THEN "STO_ADD" ELSE "RCL_ADD"])}
          [] point /\ k.command = "GTO" /\ ~k.ind ->
                Menu([k EXCEPT !.command = "GTODOT", !.argtype = "OTHER", !.maxdigits = 4], "IND")
          [] point /\ k.command = "GTODOT" ->
                {finish_command_entry(Pend(k, "GTODOTDOT", None))}
          [] point /\ k.command # "GTODOT" /\ (k.command # "GTO" \/ k.ind) -> Point(k)
          [] ~indirect /\ key = "ENTER" -> Enter(k, shift)
          [] ~shift /\ key \in Digits /\ k.length < k.maxdigits -> Digit(k)
          [] Back(shift, key) /\ k.length < k.maxdigits -> DigitBack(k)
          [] OTHER -> {k}

-----------------------------------------------------------------------------
\* A name.

Letter(k) == [k EXCEPT !.length = IF @ < MaxText THEN @ + 1 ELSE @, !.alpha = TRUE]

LetterMenu(k) ==
    LET m == k.menu["command"]
    IN  IF m \in DOMAIN Below THEN {redisplay(Show(k, "command", n)) : n \in Kids(m)}
        ELSE Menu(Letter(k), parent(m))

\* With no menu up, menus[-1] is read.
PageMenu(k) ==
    LET m == k.menu["command"]
    IN  IF m = None THEN {[k EXCEPT !.fault = TRUE]}
        ELSE {redisplay(Show(k, "command", n)) : n \in (Neighbours(m) \cap Shown)}
             \cup (IF Neighbours(m) = {} THEN {k} ELSE {})

LeaveMenu(k) ==
    LET m == k.menu["command"]
    IN  IF m = None \/ parent(m) = None THEN {Cancelled(Show(k, "command", None))}
        ELSE Menu(k, parent(m))

OutOfAlpha(k) ==
    LET a == [k EXCEPT !.alpha = ~k.ind /\ k.argtype = "RVAR"]
        s == MenuAgain(a)
    IN  IF k.ind THEN set_catalog_menu(a, "REAL_ONLY")
        ELSE IF k.argtype \in {"VAR", "REAL", "LBL"} \/ k.command \in {"GTODOT", "LBL"} THEN s
        ELSE Show(a, "command", None)

NumberAgain(k) ==
    Show([k EXCEPT !.argtype = "OTHER", !.maxdigits = 4, !.alpha = FALSE], "command", "IND")

\* The last letter has gone (typed), or there was none and the letters are given up.
NoName(k, typed) ==
    LET again == set_catalog_menu(k, IF k.command = "ASSIGNa" THEN "TOP" ELSE "VARS_ONLY")
    IN  CASE k.command = "GTODOT" -> NumberAgain(k)
          [] k.command # "GTODOT" /\ k.argtype = "NAMED" -> IF k.ind THEN OutOfAlpha(k) ELSE again
          [] k.argtype = "RVAR" /\ typed ->
                IF vars_exist(k, {"real"}) THEN set_catalog_menu(k, "REAL_ONLY") ELSE k
          [] k.argtype = "RVAR" /\ ~typed ->
                IF k.command = "MVAR" THEN Nulled(k) ELSE OutOfAlpha(k)
          [] k.argtype = "MAT" ->
                IF vars_exist(k, {"mat"}) THEN set_catalog_menu(k, "MAT_ONLY")
                ELSE IF typed THEN k ELSE Show(k, "command", None)
          [] k.argtype = "PRGM" -> set_catalog_menu(k, "PGM_ONLY")
          [] OTHER -> OutOfAlpha(k)

LetterBack(k) ==
    LET l == [k EXCEPT !.length = @ - 1]
        below == k.menu["command"] = "CATALOG" /\ get_cat_section(k) \in Submenu
    IN  {CASE k.length > 1 \/ (k.length = 1 /\ k.command \in KeyCommands) -> redisplay(l)
           [] k.length = 1 /\ k.command \notin KeyCommands -> redisplay(NoName(l, TRUE))
           [] k.length = 0 /\ InAlphaMenu(k) ->
                 IF k.command \in KeyCommands
                 THEN start_incomplete_command(k, KeysOf(k.command))
                 ELSE redisplay(NoName(k, FALSE))
           [] k.length = 0 /\ below /\ k.command \notin KeyCommands ->
                 redisplay(set_catalog_menu(k, "TOP"))
           [] OTHER -> Nulled(k)}

\* A name of one letter may be a local label.
LocalLabel(k) ==
    IF ~k.ind /\ k.command \in WithLocalLabel /\ k.length = 1
    THEN {finish_command_entry(Pend(Show(redisplay([k EXCEPT !.command_entry = FALSE]),
                                             "command", None), k.command, "LCLBL"))}
    ELSE {}

NameEnter(k) ==
    LET m == k.menu["command"]
        ask == m = None \/ (m = "CATALOG" /\ get_cat_section(k) \notin Submenu)
    IN  CASE k.length = 0 /\ ask -> Menu(k, "ALPHA1")
          [] k.length = 0 /\ ~ask /\ ~(k.command \in {"ASSIGNa", "CLP", "PRP"} /\ InAlphaMenu(k)) -> {k}
          [] OTHER -> LocalLabel(k) \cup Named(k)

TurnsIndirect(k, shift, key) ==
    /\ ~shift /\ key = "DOT" /\ ~k.ind /\ k.length = 0
    /\ k.argtype \in {"NAMED", "PRGM", "RVAR", "MAT"}
    /\ k.command \notin {"ASSIGNa", "CLP", "PRP", "MVAR"}
    /\ ~InAlphaMenu(k)

NameKey(k, shift, key) ==
    LET catalog == k.menu["command"] = "CATALOG"
        open == key \notin Typed /\ ~(key \in MenuKeys /\ k.menu["command"] # None)
                /\ ~TurnsIndirect(k, shift, key)
    IN  CASE key \in Typed -> {redisplay(Letter(k))}
          [] key \in MenuKeys /\ k.menu["command"] # None -> LetterMenu(k)
          [] TurnsIndirect(k, shift, key) ->
                Catalog([k EXCEPT !.ind = TRUE, !.alpha = FALSE], "REAL_ONLY")
          [] open /\ k.length = 0 /\ shift /\ key = "ADD" ->
                IF catalog THEN {k} ELSE Catalog(k, "TOP")
          [] open /\ CharKey(shift, key) /\ ~catalog -> {redisplay(Letter(k))}
          [] open /\ Arrow(shift, key) -> PageMenu(k)
          [] open /\ key = "EXIT" -> LeaveMenu(k)
          [] open /\ Back(shift, key) -> LetterBack(k)
          [] open /\ key = "ENTER" -> NameEnter(k)
          [] OTHER -> {k}

-----------------------------------------------------------------------------
\* LBL takes a number or a name until the first key; numbers typed on a keyboard are numbers.

LabelStarts(k) == k.command = "LBL" /\ k.length = 0 /\ k.menu["command"] # "CATALOG"

AsDigit(k, key) ==
    IF key = "CHAR_DIGIT"
       /\ \/ LabelStarts(k) /\ k.menu["command"] \in {"ALPHA1", "ALPHA2"}
          \/ k.command \in {"ASTO", "ARCL"} /\ k.length = 1 /\ k.menu["command"] = None
             /\ k.menu["alpha"] \in AlphaMenus
    THEN "1" ELSE key

StartsName(k, shift, key) ==
    \/ key \in Typed \cup MenuKeys
    \/ ~shift /\ key \in {"E", "UP", "DOWN", "DIV", "MUL", "SUB", "ADD", "DOT"}
    \/ shift /\ key \in {"RCL", "RDN"}
    \/ k.menu["command"] \in AlphaSubmenus /\ key \in Digits

\* The keys a catalog or a menu of variables does not leave to the entry.
MenuTakes(k, shift, key) ==
    \/ key \in MenuKeys \/ key = "EXIT"
    \/ Arrow(shift, key) /\ k.menu["command"] # "INTEG_PARAMS"

EntryKey(k, shift, key) ==
    LET m == k.menu["command"]
    IN  CASE m = "CATALOG" /\ MenuTakes(k, shift, key) -> CatalogMenu(k, shift, key)
          [] m \in {"VARMENU", "INTEG_PARAMS"} /\ MenuTakes(k, shift, key) ->
                VariablesMenu(k, shift, key)
          [] OTHER -> IF k.alpha THEN NameKey(k, shift, key) ELSE NumberKey(k, shift, key)

keydown_command_entry(k, shift, typed) ==
    LET key == AsDigit(k, typed)
    IN  CASE k.menu["command"] \in {"ST", "IND_ST"} -> StackMenu(k, shift, typed)
          [] LabelStarts(k) /\ StartsName(k, shift, key) -> NameKey(k, shift, key)
          [] LabelStarts(k) /\ shift /\ key = "ADD" -> Catalog([k EXCEPT !.alpha = TRUE], "TOP")
          [] LabelStarts(k) /\ key = "EXIT" /\ k.menu["command"] \in AlphaSubmenus ->
                Menu(k, parent(k.menu["command"]))
          [] k.argtype = "CKEY" -> CustomMenu(k, shift, key)
          [] k.argtype = "MKEY" -> WhichKey(k, shift, key)
          [] OTHER -> EntryKey(k, shift, key)
================================================================================
