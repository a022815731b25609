------------------------------ MODULE KeyEntryProps ------------------------------
(***************************************************************************)
(* Properties of KeyEntry.                                                 *)
(***************************************************************************)
EXTENDS KeyEntry

\* The exit callback of the application menu is that of the application that shows, its
\* state (matedit_mode, baseapp, varmenu_role) that of the menu: an editor that has lost
\* its menu could not be left, one whose menu stays could not store.  The menu can be
\* replaced by the user, by a program, by a command and by the menu's own redisplay.
CallbackFits ==
    LET m == k.menu["app"]
    IN  /\ k.editing <=> m \in EditMenus
        /\ k.callback = 1 <=> m \in EditMenus
        /\ k.callback = 2 => m \in BaseMenus
        /\ k.callback \in {3, 4} => m = "VARMENU" /\ k.role = k.callback - 2
        /\ k.callback = 5 <=> m = "INTEG_PARAMS"
        /\ k.baseapp <=> k.callback = 2
        /\ (m = "VARMENU" /\ k.role # 0) => k.callback = k.role + 2

\* While the menu with the digits A to F shows, numbers are in base 16, so that its keys
\* are digits of the number.  The base is changed by commands, by leaving the application
\* and by a program that runs while the menu is up.
HexKeysMeanHex == k.menu["app"] = "A_THRU_F" => k.base = 16

\* The letters of ALPHA are entered, and its menu shows, in ALPHA mode only, and a menu
\* on the level of the commands only while a command waits for its argument.  A key has
\* one meaning: of the entry of a command, of a number, of a text, of the answer to CLALL
\* and of GETKEY at most one goes on.
ModesMatchMenus ==
    /\ Cardinality({e \in {"command_entry", "number", "alpha_entry", "clall", "getkey"} : k[e]}) <= 1
    /\ k.alpha_entry \/ k.menu["alpha"] # None => k.alpha_mode
    /\ k.menu["command"] # None => k.command_entry

\* A type of argument that the handler of a command knows.
ArgSuits(c, arg) ==
    LET t == argtype(c)
    IN  CASE arg = "LBLINDEX" -> c \in {"GTO", "GTODOT", "XEQ", "CLP", "PRP"}
          [] arg = "LCLBL" -> c \in {"GTO", "XEQ", "LBL", "KEY1G", "KEY1X"}
          [] arg = "STK" -> t \in {"VAR", "REAL"}
          [] arg = "NUM" -> t \in {"VAR", "REAL", "LBL", "OTHER", "COUNT", "NUM9", "NUM11", "NUM99"}
          [] arg = "STR" -> t \notin {"NUM9", "NUM11", "NUM99", "COUNT"}
          [] arg \in {"IND_STK", "IND_NUM", "IND_STR"} -> t \notin {"COUNT", "OTHER", "CKEY", "MKEY"}
          [] OTHER -> FALSE

\* A command gets an argument of a type its handler knows: the type changes during the
\* entry, with IND, ST, a label of the catalog, a name instead of a number.
ArgFits == k.pending \in DOMAIN ArgType => ArgSuits(k.pending, k.arg)

AtHome ==
    /\ \A l \in Levels : k.menu[l] = None
    /\ ~(k.command_entry \/ k.prgm_mode \/ k.alpha_mode \/ k.number)

\* Whatever was going on, after MaxExits times EXIT the calculator shows no menu and is in
\* no mode, unless a program was started or the matrix editor cannot store X.
ExitLeadsHome ==
    exits = MaxExits => AtHome \/ k.running \/ k.fault \/ (k.editing /\ ~k.storable)

\* HISTORY:1735: a program line is not left in the middle of the entry of its command ("I
\* plugged the SST/BST hole"): what is entered goes after the line it was begun at.
\* (The code violates it: see the README; no run checks it.)
EntryKeepsItsLine ==
    k.command_entry /\ k.prgm_mode =>
        k.pc = IF k.command \in Immediate THEN k.saved_pc
               ELSE NextLine([k EXCEPT !.pc = k.saved_pc])

\* HISTORY:2057: when the power comes back with flag 11 set, the command that was being
\* entered is cancelled: nothing without a command gets into the program.
\* (The code violates it: see the README; no run checks it.)
CommandsAreStored == k.stored # None

-----------------------------------------------------------------------------
\* The instance for TLC: the keys that are pressed.
Plain == {FALSE} \X {"SIGMA", "INV", "XEQ", "RCL", "5", "UP", "BSP", "ENTER", "EXIT", "DOT", "CHS"}
Shifted == {TRUE} \X {"8", "4", "ENTER", "RUN", "UP"}
KeysPressed == Plain \cup Shifted
================================================================================
