------------------------------ MODULE CommandEntry ------------------------------
(***************************************************************************)
(* The entry of a command with its argument (keydown_command_entry() of    *)
(* common/core_keydown.cc, and do_interactive(), start_incomplete_command,*)
(* finish_command_entry() and finish_xeq() of common/core_main.cc).        *)
(*                                                                         *)
(* Of the record k it uses, besides what Menus uses,                       *)
(*   prgm_mode, command_entry, clall, local_label   the modes of the names *)
(*   command, argtype, ind, alpha, length, maxdigits   the incomplete_...  *)
(*   pc           the line of the program, 0 before the first              *)
(*   saved_pc     incomplete_saved_pc                                      *)
(*   lines        the number of lines, the END comes after them            *)
(*   stored       what this key stored into the program, or Nothing        *)
(*   pending      pending_command                                          *)
(*   arg          the type of pending_command_arg                          *)
(*   leaving      remove_program_catalog                                   *)
(*   fault        menus[MENU_NONE] was read, or cmdline[-1] written        *)
(***************************************************************************)
EXTENDS Menus

CONSTANTS
    Commands,       \* the commands that can be chosen by their name
    MaxText,        \* bound: how many characters of a text are typed, 7 in the code
    MaxLines        \* bound: how many lines the program has

\* The type of the argument of the commands the entry has something special for, and of
\* one command of each other kind.
ArgType ==
    [GTO |-> "LBL", XEQ |-> "LBL", KEY1G |-> "LBL", KEY1X |-> "LBL",
     LBL |-> "OTHER", GTODOT |-> "OTHER", ASGN01 |-> "OTHER",
     STO |-> "VAR", STO_ADD |-> "VAR", RCL |-> "VAR", RCL_ADD |-> "VAR",
     ASTO |-> "VAR", ARCL |-> "VAR", VIEW |-> "VAR", ISG |-> "REAL",
     ASSIGNa |-> "NAMED", CLV |-> "NAMED", PRV |-> "NAMED", ASSIGNb |-> "CKEY",
     KEYG |-> "MKEY", KEYX |-> "MKEY", MVAR |-> "RVAR", SOLVE |-> "RVAR",
     DIM |-> "MAT", EDITN |-> "MAT", CLP |-> "PRGM", PRP |-> "PRGM", PGMSLV |-> "PRGM",
     SIZE |-> "COUNT", DEL |-> "COUNT", SIMQ |-> "COUNT", GOTOROW |-> "COUNT",
     GOTOCOLUMN |-> "COUNT", TONE |-> "NUM9", FIX |-> "NUM11", SF |-> "NUM99",
     VARMENU |-> "PRGM", PGMINT |-> "PRGM", PGMSLVi |-> "PRGM", PGMINTi |-> "PRGM"]

argtype(c) == IF c \in DOMAIN ArgType THEN ArgType[c] ELSE "NONE"

Immediate == {"DEL", "PRP", "GTODOT", "GTODOTDOT", "CLALLa", "QUIET"}
ProgramOnly == {"DEL", "LBL", "MENU"}
NotInProgram == {"SIMQ", "MATA", "A_THRU_F"}

\* Commands that only a menu or a key can start.
Hidden == NotInProgram \cup {"GOTOROW", "GOTOCOLUMN", "RUN", "ASSIGNb"}
WithName == Commands \ Hidden

Restricted(k, c) == c \in (IF k.prgm_mode THEN NotInProgram ELSE ProgramOnly)

\* Commands whose argument can be a local label, or the entry of a label in the catalog.
KeyCommands == {"KEY1G", "KEY1X"}
WithLocalLabel == {"GTO", "XEQ", "LBL"} \cup KeyCommands
WithLabelIndex == {"GTO", "GTODOT", "XEQ", "CLP", "PRP"}

-----------------------------------------------------------------------------
\* The program.

Nothing == "nothing"

\* The line after the current one, where what is entered will be stored.
NextLine(k) == IF k.pc = 0 THEN 1 ELSE IF k.pc <= k.lines THEN k.pc + 1 ELSE k.pc

store_command(k, c) ==
    [k EXCEPT !.lines = IF c = "END" THEN k.lines - k.pc + 1 ELSE k.lines + 1,
              !.pc = IF c = "END" THEN 1 ELSE IF k.pc = 0 THEN 1 ELSE k.pc,
              !.stored = c]

store_command_after(k, c) == store_command([k EXCEPT !.pc = NextLine(k)], c)

sst(k) == [k EXCEPT !.pc = IF k.pc > k.lines THEN 0 ELSE k.pc + 1]
bst(k) == [k EXCEPT !.pc = IF k.pc = 0 THEN k.lines + 1 ELSE k.pc - 1]

Pend(k, c, arg) == [k EXCEPT !.pending = c, !.arg = arg]

-----------------------------------------------------------------------------
\* The entry begins.

VariableMenu(k, section) ==
    IF k.menu["app"] \in {"VARMENU", "INTEG_PARAMS"}
    THEN [k EXCEPT !.menu["command"] = k.menu["app"]]
    ELSE set_catalog_menu(k, section)

\* The command with the record s waits for its argument, and the menu that helps to give
\* it shows; some that need a variable are not begun when there is none.
EntryMenu(s, c) ==
    LET t == s.argtype
        ends == display_error([s EXCEPT !.command_entry = FALSE])
    IN  CASE c = "ASSIGNa" -> [set_catalog_menu(s, "TOP") EXCEPT !.local_label = FALSE]
          [] t = "CKEY" -> Show(s, "command", "CUSTOM1")
          [] t = "MKEY" -> Show(s, "command", "BLANK")
          [] t = "VAR" -> VariableMenu(s, "VARS_ONLY")
          [] t = "NAMED" /\ c # "ASSIGNa" -> set_catalog_menu(s, "VARS_ONLY")
          [] t = "REAL" -> VariableMenu(s, "REAL_ONLY")
          [] t = "RVAR" ->
                IF vars_exist(s, {"real"}) THEN set_catalog_menu(s, "REAL_ONLY")
                ELSE IF ~s.prgm_mode THEN ends
                ELSE IF c = "MVAR" THEN [s EXCEPT !.menu["command"] = "ALPHA1"]
                ELSE s
          [] t = "MAT" ->
                IF s.prgm_mode \/ vars_exist(s, {"mat"}) THEN set_catalog_menu(s, "MAT_ONLY")
                ELSE IF c # "DIM" THEN ends ELSE s
          [] t \in {"LBL", "PRGM"} -> set_catalog_menu(s, "PGM_ONLY")
          [] c = "LBL" -> Show(s, "command", "ALPHA1")
          [] OTHER -> s

Incomplete(k, c, t) ==
    [k EXCEPT !.command = c, !.argtype = t, !.ind = FALSE, !.length = 0,
              !.alpha = t \in {"NAMED", "PRGM", "RVAR", "MAT"},
              !.maxdigits = CASE t = "NUM9" -> 1
                              [] t = "COUNT" /\ c # "SIMQ" -> 4
                              [] OTHER -> 2,
              !.command_entry = TRUE]

start_incomplete_command(k, c) ==
    redisplay(IF ~k.prgm_mode /\ c \in ProgramOnly THEN display_error(k)
              ELSE EntryMenu(Incomplete(k, c, argtype(c)), c))

do_interactive(k, c) ==
    CASE Restricted(k, c) -> redisplay(display_error(k))
      [] c = "GOTOROW" /\ ~k.storable -> redisplay(display_error(k))
      [] c = "A_THRU_F" /\ ~k.prgm_mode -> redisplay(set_menu(set_base(k, 16), "app", "A_THRU_F"))
      [] c = "CLALLa" -> redisplay([k EXCEPT !.clall = TRUE])
      [] c \in {"CLV", "PRV"} /\ ~k.prgm_mode /\ k.vars = {} -> redisplay(display_error(k))
      [] c = "SST" /\ k.prgm_mode -> redisplay(sst(k))
      [] c = "BST" -> redisplay(Pend(bst(k), IF k.prgm_mode THEN k.pending ELSE "CANCELLED", None))
      [] OTHER ->
           IF k.prgm_mode /\ c \notin Immediate
           THEN IF argtype(c) = "NONE"
                THEN redisplay(store_command_after(k, IF c = "RUN" THEN "STOP" ELSE c))
                ELSE start_incomplete_command(
                        [k EXCEPT !.saved_pc = k.pc, !.pc = NextLine(k)], c)
           ELSE IF argtype(c) = "NONE" THEN Pend(k, c, None)
           ELSE start_incomplete_command(
                    [k EXCEPT !.saved_pc = IF k.prgm_mode THEN k.pc ELSE @], c)

-----------------------------------------------------------------------------
\* The entry ends: k.pending says how.

do_it_now(k) ==
    LET s == get_cat_section(k)
        programs == k.menu["command"] = "CATALOG" /\ k.pending \in {"GTO", "XEQ"}
                    /\ s \in {"PGM", "PGM_ONLY"}
        left == IF programs
                THEN [set_cat_section(Show(k, "transient", "CATALOG"), s)
                          EXCEPT !.leaving = TRUE]
                ELSE k
        assigned == IF k.pending \in {"ASSIGNb", "ASGN01"}
                    THEN [Show(left, "plain", left.menu["command"]) EXCEPT !.sticky = TRUE]
                    ELSE left
        bare == Show(assigned, "command", None)
    IN  IF k.pending = "BST" THEN Pend(redisplay(bst(bare)), "CANCELLED", None) ELSE bare

FinishesInProgram(k) ==
    CASE k.pending \in {"NULL", "CANCELLED"} -> [k EXCEPT !.pc = k.saved_pc]
      [] k.pending = "SST" -> redisplay(Pend(sst([k EXCEPT !.pc = k.saved_pc]), None, None))
      [] k.pending = "BST" -> redisplay(Pend(bst([k EXCEPT !.pc = k.saved_pc]), None, None))
      [] k.pending \in Immediate -> do_it_now(k)
      [] OTHER -> redisplay(Pend(store_command(k, k.pending), None, None))

finish_command_entry(k) ==
    LET e == [k EXCEPT !.command_entry = FALSE]
    IN  IF k.pending = "ASSIGNa"
        THEN start_incomplete_command([k EXCEPT !.pending = None], "ASSIGNb")
        ELSE IF k.prgm_mode THEN FinishesInProgram(Show(e, "command", None))
        ELSE do_it_now(e)

Cancelled(k) == finish_command_entry(Pend(k, "CANCELLED", k.arg))
Nulled(k) == finish_command_entry(Pend(k, "NULL", k.arg))

\* A name for XEQ is that of a label (None), or of a command.
finish_xeq(k) ==
    {finish_command_entry(k)} \cup
    {LET e == [k EXCEPT !.command_entry = FALSE, !.pending = None]
     IN  CASE c = "CLALLa" -> redisplay([e EXCEPT !.clall = TRUE])
           [] c # "CLALLa" /\ argtype(c) = "NONE" ->
                 finish_command_entry(Pend([k EXCEPT !.command_entry = FALSE], c, None))
           [] OTHER ->
                 LET b == Show(e, "command", None)
                 IN  IF c \in {"CLV", "PRV"} /\ ~k.prgm_mode /\ k.vars = {}
                     THEN redisplay(display_error(b))
                     ELSE start_incomplete_command(b, c) : c \in WithName}
================================================================================
