--------------------------------- MODULE Menus ---------------------------------
(***************************************************************************)
(* The menus of the calculator (common/core_display.cc): five levels, of   *)
(* which the foremost shows, the applications that want to be told when    *)
(* they are left, the catalog, and the commands that change them.          *)
(*                                                                         *)
(* A state of the calculator is a record k.  Of it this module uses        *)
(*   menu         what is shown on each level, None when nothing is        *)
(*   sticky       mode_plainmenu_sticky                                    *)
(*   callback     appmenu_exitcallback                                     *)
(*   baseapp      baseapp                                                  *)
(*   base         get_base()                                               *)
(*   section      catalogmenu_section, of each level                       *)
(*   role         varmenu_role                                             *)
(*   editing      matedit_mode is 2 or 3: the matrix editor is active      *)
(*   prevmenu     matedit_prev_appmenu                                     *)
(*   vars         the kinds of variables there are                         *)
(*   mvars        there is a program with MVAR for its variable menu       *)
(*   storable     X can be stored into an element of a matrix              *)
(*   message      flags.f.message                                          *)
(*   running      mode_running                                             *)
(*   alpha_mode, alpha_entry, varmenu_active   the modes of these names    *)
(***************************************************************************)
EXTENDS Integers, FiniteSets, Sequences

CONSTANTS
    Shown,          \* the menus of the instance: it never enters another submenu or page
    Kinds           \* the kinds of variables of the instance: real, cpx and mat in the code

None == "none"

\* The levels, the foremost first.
Order == <<"command", "alpha", "transient", "plain", "app">>

Levels == {Order[i] : i \in DOMAIN Order}

\* set_menu() on a level clears those in front of it.
InFrontOf(l) == {i \in DOMAIN Order : \E j \in DOMAIN Order : i < j /\ Order[j] = l}
InFront == [l \in Levels |-> {Order[i] : i \in InFrontOf(l)}]

\* The table of menus: the pages one steps through, and the menus below another.
Pages ==
    {<<"ALPHA1", "ALPHA2">>, <<"ABCDE1", "ABCDE2">>, <<"MODES1", "MODES2">>,
     <<"CLEAR1", "CLEAR2">>, <<"CONVERT1", "CONVERT2">>, <<"CUSTOM1", "CUSTOM2", "CUSTOM3">>,
     <<"PGM_FCN1", "PGM_FCN2", "PGM_FCN3", "PGM_FCN4">>, <<"PRINT1", "PRINT2", "PRINT3">>,
     <<"STAT1", "STAT2">>, <<"MATRIX1", "MATRIX2", "MATRIX3">>, <<"EDIT1", "EDIT2">>}

Below ==
    [ALPHA1 |-> {"ABCDE1", "FGHI", "WXYZ"}, ALPHA2 |-> {"PAREN", "MISC1"},
     PGM_FCN2 |-> {"XCOMP0", "XCOMPY"}, STAT1 |-> {"CFIT"}, CFIT |-> {"MODL"},
     MATRIX1 |-> {"SIMQ"}, BASE |-> {"A_THRU_F", "LOGIC"}]

Single == {"ST", "IND_ST", "IND", "DISP", "FLAGS", "PROB", "TOP_FCN", "CATALOG", "BLANK",
           "PROGRAMMABLE", "VARMENU", "SOLVE", "INTEG", "INTEG_PARAMS"}

Paged == UNION {{p[i] : i \in DOMAIN p} : p \in Pages}
Menus == Paged \cup Single \cup DOMAIN Below \cup UNION {Below[m] : m \in DOMAIN Below}

\* menus[m].next and .prev
Beside(p, i) == {p[1 + (i % Len(p))], p[1 + ((i + Len(p) - 2) % Len(p))]}
Neighbours(m) == UNION {UNION {Beside(p, i) : i \in {i \in DOMAIN p : p[i] = m}} : p \in Pages}

\* menus[m].parent.  The second page of a submenu has the parent of the first.
parent(m) ==
    LET n == {m} \cup Neighbours(m)
        up == {u \in DOMAIN Below : Below[u] \cap n # {}}
    IN  IF up = {} THEN None ELSE CHOOSE u \in up : TRUE

\* The submenus behind a menu's keys; SIMQ and A...F are entered by commands.
Kids(m) == IF m \in DOMAIN Below THEN (Below[m] \ {"SIMQ", "A_THRU_F"}) \cap Shown ELSE {}

CustomMenus == {"CUSTOM1", "CUSTOM2", "CUSTOM3"}
BaseMenus == {"BASE", "A_THRU_F", "LOGIC"}
EditMenus == {"EDIT1", "EDIT2"}
MatrixMenus == {"MATRIX1", "MATRIX2", "MATRIX3", "SIMQ"}
AlphaSubmenus == {"ABCDE1", "ABCDE2", "FGHI", "WXYZ", "PAREN", "MISC1"}
AlphaMenus == {"ALPHA1", "ALPHA2"} \cup AlphaSubmenus

-----------------------------------------------------------------------------
\* The foremost menu, and the level it is on.

FrontLevel(k) ==
    LET shown == {i \in DOMAIN Order : k.menu[Order[i]] # None}
    IN  IF shown = {} THEN None
        ELSE Order[CHOOSE i \in shown : \A j \in shown : i <= j]

get_front_menu(k) == IF FrontLevel(k) = None THEN None ELSE k.menu[FrontLevel(k)]

get_cat_section(k) == IF FrontLevel(k) = None THEN "TOP" ELSE k.section[FrontLevel(k)]

set_cat_section(k, s) ==
    IF FrontLevel(k) = None THEN k ELSE [k EXCEPT !.section[FrontLevel(k)] = s]

display_error(k) == [k EXCEPT !.message = TRUE]

vars_exist(k, kinds) == k.vars \cap kinds # {}

\* A section of the catalog that shows variables, and the kinds it shows.
SectionKinds ==
    [REAL |-> {"real"}, CPX |-> {"cpx"}, MAT |-> {"mat"},
     REAL_ONLY |-> {"real"}, MAT_ONLY |-> {"mat"}, VARS_ONLY |-> Kinds]

Empty(k, s) == s \in DOMAIN SectionKinds /\ ~vars_exist(k, SectionKinds[s])

-----------------------------------------------------------------------------
\* Showing a menu.

Show(k, level, m) ==
    [k EXCEPT !.menu = [l \in Levels |-> IF l = level THEN m
                                         ELSE IF l \in InFront[level] THEN None
                                         ELSE @[l]]]

App(k, m, c) == [Show(k, "app", m) EXCEPT !.callback = c]

\* The matrix editor is left only when X can be stored.
Refuses(k, m) == k.menu["app"] # None /\ k.callback = 1 /\ m \notin EditMenus /\ ~k.storable

appmenu_exitcallback_1(k, m, exitall) ==
    IF m \in EditMenus THEN App(k, m, 1)
    ELSE [App(k, IF m = None /\ ~exitall THEN k.prevmenu ELSE m, 0)
             EXCEPT !.editing = FALSE]

set_base(k, base) ==
    LET b == [k EXCEPT !.base = base]
    IN  IF k.menu["app"] = "A_THRU_F" THEN App(b, "BASE", IF b.callback = 2 THEN 2 ELSE 0)
        ELSE b

appmenu_exitcallback_2_BaseFirst(k, m, exitall) ==
    LET b == set_base([k EXCEPT !.callback = 0], 10)
    IN  IF m \in BaseMenus /\ ~exitall THEN App(b, m, 2)
        ELSE [App(b, m, 0) EXCEPT !.baseapp = FALSE]

appmenu_exitcallback_2(k, m, exitall) ==
    IF m \in BaseMenus /\ ~exitall THEN App(k, m, 2)
    ELSE [App(set_base([k EXCEPT !.callback = 0], 10), m, 0) EXCEPT !.baseapp = FALSE]

ToPrograms_KeepsCallback(k, m, exitall, section) ==
    IF m = None /\ ~exitall
    THEN [App(k, "CATALOG", k.callback) EXCEPT !.section["app"] = section]
    ELSE App(k, m, 0)

ToPrograms(k, m, exitall, section) ==
    IF m = None /\ ~exitall
    THEN [App(k, "CATALOG", 0) EXCEPT !.section["app"] = section]
    ELSE App(k, m, 0)

appmenu_exitcallback_3(k, m, exitall) == ToPrograms(k, m, exitall, "PGM_SOLVE")
appmenu_exitcallback_4(k, m, exitall) == ToPrograms(k, m, exitall, "PGM_INTEG")

appmenu_exitcallback_5_NoCallback(k, m, exitall) ==
    IF m = None /\ ~exitall
    THEN [App(k, "VARMENU", 0) EXCEPT !.role = 2]
    ELSE App(k, m, 0)

appmenu_exitcallback_5(k, m, exitall) ==
    IF m = None /\ ~exitall
    THEN [App(k, "VARMENU", 4) EXCEPT !.role = 2]
    ELSE App(k, m, 0)

set_appmenu(k, m, exitall) ==
    LET c == IF k.menu["app"] = None THEN 0 ELSE k.callback
    IN  CASE c = 0 -> App(k, m, 0)
          [] c = 1 -> appmenu_exitcallback_1(k, m, exitall)
          [] c = 2 -> appmenu_exitcallback_2(k, m, exitall)
          [] c = 3 -> appmenu_exitcallback_3(k, m, exitall)
          [] c = 4 -> appmenu_exitcallback_4(k, m, exitall)
          [] c = 5 -> appmenu_exitcallback_5(k, m, exitall)

set_menu_return_err(k, level, m, exitall) ==
    IF level # "app" THEN Show(k, level, m)
    ELSE IF Refuses(k, m) THEN k
    ELSE set_appmenu(k, m, exitall)

set_menu(k, level, m) ==
    LET s == set_menu_return_err(k, level, m, FALSE)
    IN  IF level = "app" /\ Refuses(k, m) THEN display_error(s) ELSE s

\* The same group: one is reached from the other by leaving submenus and turning pages.
Top(m) == LET u == IF parent(m) = None THEN m ELSE parent(m)
          IN  IF parent(u) = None THEN u ELSE parent(u)

SameGroup(m, n) ==
    \/ Top(m) = Top(n)
    \/ \E p \in Pages : \E i, j \in DOMAIN p : p[i] = Top(m) /\ p[j] = Top(n)

set_catalog_menu(k, s) ==
    LET c == [k EXCEPT !.menu["command"] = "CATALOG", !.section["command"] = s]
    IN  IF Empty(k, s) THEN [c EXCEPT !.menu["command"] = None] ELSE c

\* draw_varmenu() leaves the menu when its program has gone, draw_catalog() moves up from
\* a section that has become empty.
draw_varmenu(k) ==
    IF k.menu["app"] = "VARMENU" /\ ~k.mvars THEN set_appmenu(k, None, FALSE) ELSE k

draw_catalog(k) == IF Empty(k, get_cat_section(k)) THEN set_cat_section(k, "TOP") ELSE k

redisplay(k) ==
    IF k.clall THEN k
    ELSE CASE get_front_menu(k) = "CATALOG" -> draw_catalog(k)
           [] get_front_menu(k) = "VARMENU" -> draw_varmenu(k)
           [] OTHER -> k

set_plainmenu(k, m) ==
    LET bare == [k EXCEPT !.menu = [l \in Levels |-> IF l \in InFront["plain"] THEN None ELSE @[l]]]
        old == k.menu["plain"]
    IN  IF m = old THEN [bare EXCEPT !.sticky = TRUE]
        ELSE IF m \in CustomMenus
        THEN redisplay([bare EXCEPT !.menu["plain"] = m, !.sticky = TRUE])
        ELSE IF old # None /\ SameGroup(old, m) THEN [bare EXCEPT !.sticky = TRUE]
        ELSE redisplay([bare EXCEPT !.menu["plain"] = m, !.sticky = FALSE,
                                    !.section["plain"] = IF m = "CATALOG" THEN "TOP" ELSE @])

\* After a variable or a program has come or gone.
update_catalog(k) ==
    LET l == FrontLevel(k)
        s == get_cat_section(k)
    IN  IF get_front_menu(k) # "CATALOG" THEN k
        ELSE CASE s \in {"REAL", "CPX", "MAT"} /\ Empty(k, s) -> set_cat_section(k, "TOP")
               [] s \in {"REAL_ONLY", "MAT_ONLY", "VARS_ONLY"} /\ Empty(k, s) ->
                     redisplay([k EXCEPT !.menu[l] = None])
               [] s \in {"PGM_SOLVE", "PGM_INTEG"} /\ ~k.mvars ->
                     redisplay(display_error([k EXCEPT !.menu[l] = None]))
               [] OTHER -> draw_catalog(k)
================================================================================
