----------------------------- MODULE KeyEntryProofs -----------------------------
(***************************************************************************)
(* Proofs about KeyEntry: the application menu has the exit callback and   *)
(* the state of its application, a key has one meaning, and a command gets *)
(* an argument that suits it, whatever keys there are, menus, commands and *)
(* programs, and however long what is typed and the program are.           *)
(***************************************************************************)
EXTENDS KeyEntryProps, FiniteSetTheorems, TLAPS

Fields ==
    {"menu", "sticky", "callback", "baseapp", "base", "section", "role", "editing", "prevmenu",
     "vars", "mvars", "storable", "message", "running", "alpha_mode", "alpha_entry",
     "varmenu_active", "prgm_mode", "command_entry", "clall", "local_label", "command",
     "argtype", "ind", "alpha", "length", "maxdigits", "pc", "saved_pc", "lines", "stored",
     "pending", "arg", "leaving", "fault", "number", "digits", "minus", "text", "getkey"}

FiveLevels == {"command", "alpha", "transient", "plain", "app"}
Record(c) == DOMAIN c = Fields /\ DOMAIN c.menu = FiveLevels

LEMMA LevelsAreFive == Levels = FiveLevels
<1>1. DOMAIN Order = 1 .. 5 /\ Order[1] = "command" /\ Order[2] = "alpha"
      /\ Order[3] = "transient" /\ Order[4] = "plain" /\ Order[5] = "app"
  BY DEF Order
<1>2. 1 .. 5 = {1, 2, 3, 4, 5}  OBVIOUS
<1>. QED  BY <1>1, <1>2, Zenon DEF Levels, FiveLevels

\* The levels in front of each.
LEMMA LevelsInFront ==
    /\ DOMAIN InFront = FiveLevels
    /\ InFront["command"] = {}
    /\ InFront["alpha"] = {"command"}
    /\ InFront["transient"] = {"command", "alpha"}
    /\ InFront["plain"] = {"command", "alpha", "transient"}
    /\ InFront["app"] = {"command", "alpha", "transient", "plain"}
<1>1. DOMAIN Order = 1 .. 5 /\ Order[1] = "command" /\ Order[2] = "alpha"
      /\ Order[3] = "transient" /\ Order[4] = "plain" /\ Order[5] = "app"
  BY DEF Order
<1>2. DOMAIN InFront = FiveLevels
      /\ \A l \in FiveLevels : InFront[l] = {Order[i] : i \in InFrontOf(l)}
  BY LevelsAreFive, Zenon DEF InFront
<1>3. /\ InFrontOf("command") = {} /\ InFrontOf("alpha") = {1} /\ InFrontOf("transient") = {1, 2}
      /\ InFrontOf("plain") = {1, 2, 3} /\ InFrontOf("app") = {1, 2, 3, 4}
  BY <1>1 DEF InFrontOf
<1>. QED  BY <1>1, <1>2, <1>3 DEF FiveLevels

-----------------------------------------------------------------------------
(***************************************************************************)
(* The application menu.  Fits is CallbackFits of a state; with it go what *)
(* the editor returns to, and what a callback and a role can be.           *)
(***************************************************************************)
Fits(c) ==
    LET m == c.menu["app"]
    IN  /\ c.editing <=> m \in EditMenus
        /\ c.callback = 1 <=> m \in EditMenus
        /\ c.callback = 2 => m \in BaseMenus
        /\ c.callback \in {3, 4} => m = "VARMENU" /\ c.role = c.callback - 2
        /\ c.callback = 5 <=> m = "INTEG_PARAMS"
        /\ c.baseapp <=> c.callback = 2
        /\ (m = "VARMENU" /\ c.role # 0) => c.callback = c.role + 2

Apt(c) ==
    /\ Record(c) /\ Fits(c)
    /\ c.menu["app"] = "A_THRU_F" => c.base = 16
    /\ c.callback \in {0, 1, 2, 3, 4, 5} /\ c.role \in {0, 1, 2}
    /\ c.prevmenu \in MatrixMenus \cup {None}

\* What has nothing to do with the application menu changes.
SameApp(c, d) ==
    /\ Record(d)
    /\ d.menu["app"] = c.menu["app"] /\ d.callback = c.callback /\ d.baseapp = c.baseapp
    /\ d.base = c.base /\ d.role = c.role /\ d.editing = c.editing /\ d.prevmenu = c.prevmenu

LEMMA SameAppApt == ASSUME NEW c, NEW d, Apt(c), SameApp(c, d) PROVE Apt(d)
BY DEF Apt, SameApp, Fits

LEMMA SameAppItself == ASSUME NEW c, Record(c) PROVE SameApp(c, c)
BY DEF SameApp

LEMMA SameAppChain ==
    ASSUME NEW c, NEW d, NEW e, SameApp(c, d), SameApp(d, e) PROVE SameApp(c, e)
BY DEF SameApp

\* What is shown on a level.
LEMMA ShowRecord ==
    ASSUME NEW c, Record(c), NEW l \in FiveLevels, NEW m
    PROVE  /\ Record(Show(c, l, m))
           /\ \A f \in Fields \ {"menu"} : Show(c, l, m)[f] = c[f]
           /\ \A n \in FiveLevels : Show(c, l, m).menu[n] = IF n = l THEN m
                                                           ELSE IF n \in InFront[l] THEN None
                                                           ELSE c.menu[n]
<1>. DEFINE menu == [n \in Levels |-> IF n = l THEN m
                                      ELSE IF n \in InFront[l] THEN None ELSE c.menu[n]]
<1>1. Show(c, l, m) = [c EXCEPT !.menu = menu]  BY DEF Show
<1>2. DOMAIN menu = FiveLevels
      /\ \A n \in FiveLevels : menu[n] = IF n = l THEN m
                                         ELSE IF n \in InFront[l] THEN None ELSE c.menu[n]
  BY LevelsAreFive
<1>. HIDE DEF menu
<1>3. "menu" \in Fields  BY DEF Fields
<1>. QED  BY <1>1, <1>2, <1>3 DEF Record

LEMMA ShowSameApp ==
    ASSUME NEW c, Record(c), NEW l \in FiveLevels \ {"app"}, NEW m
    PROVE  SameApp(c, Show(c, l, m))
<1>1. "app" \in FiveLevels /\ "app" \notin InFront[l]  BY LevelsInFront DEF FiveLevels
<1>2. {"callback", "baseapp", "base", "role", "editing", "prevmenu"} \subseteq Fields \ {"menu"}
  BY DEF Fields
<1>. QED  BY <1>1, <1>2, ShowRecord DEF SameApp

LEMMA AppRecord ==
    ASSUME NEW c, Record(c), NEW m, NEW n
    PROVE  LET d == App(c, m, n)
           IN  /\ Record(d) /\ d.menu["app"] = m /\ d.callback = n
               /\ \A f \in Fields \ {"menu", "callback"} : d[f] = c[f]
               /\ \A l \in FiveLevels \ {"app"} : d.menu[l] = None
<1>. DEFINE s == Show(c, "app", m)
<1>1. /\ Record(s) /\ s.menu["app"] = m
      /\ \A f \in Fields \ {"menu"} : s[f] = c[f]
      /\ \A l \in FiveLevels \ {"app"} : s.menu[l] = None
  BY ShowRecord, LevelsInFront DEF FiveLevels
<1>2. App(c, m, n) = [s EXCEPT !.callback = n]  BY DEF App
<1>. HIDE DEF s
<1>. QED  BY <1>1, <1>2 DEF Record, Fields

\* Another menu takes the place of the application menu, whose callback is told.
LEMMA SetBaseApt ==
    ASSUME NEW c, Record(c), NEW b
    PROVE  LET d == set_base(c, b)
           IN  /\ Record(d) /\ d.base = b
               /\ d.menu["app"] = IF c.menu["app"] = "A_THRU_F" THEN "BASE" ELSE c.menu["app"]
               /\ d.callback = IF c.menu["app"] = "A_THRU_F" /\ c.callback # 2 THEN 0 ELSE c.callback
               /\ \A f \in Fields \ {"menu", "callback", "base"} : d[f] = c[f]
<1>. DEFINE e == [c EXCEPT !.base = b]
<1>1. /\ Record(e) /\ e.base = b /\ e.menu = c.menu /\ e.callback = c.callback
      /\ \A f \in Fields \ {"base"} : e[f] = c[f]
  BY DEF Record, Fields
<1>2. set_base(c, b) = IF c.menu["app"] = "A_THRU_F"
                       THEN App(e, "BASE", IF e.callback = 2 THEN 2 ELSE 0) ELSE e
  BY DEF set_base, Record, Fields
<1>. HIDE DEF e
<1>3. CASE c.menu["app"] = "A_THRU_F"
  <2>1. set_base(c, b) = App(e, "BASE", IF e.callback = 2 THEN 2 ELSE 0)  BY <1>2, <1>3
  <2>2. "base" \in Fields  BY DEF Fields
  <2>. QED  BY <1>1, <1>3, <2>1, <2>2, AppRecord
<1>4. CASE c.menu["app"] # "A_THRU_F"
  BY <1>1, <1>2, <1>4
<1>. QED  BY <1>3, <1>4

\* The matrix editor and the base application when they are left for a menu m.
EditorLeftFor(c, m) == [App(c, m, 0) EXCEPT !.editing = FALSE]
BaseLeftFor(c, m) ==
    [App(set_base([c EXCEPT !.callback = 0], 10), m, 0) EXCEPT !.baseapp = FALSE]

LEMMA EditorLeft ==
    ASSUME NEW c, Record(c), NEW m
    PROVE  LET d == EditorLeftFor(c, m)
           IN  /\ Record(d) /\ d.callback = 0 /\ ~d.editing /\ d.menu["app"] = m
               /\ \A l \in FiveLevels \ {"app"} : d.menu[l] = None
               /\ \A f \in Fields \ {"menu", "callback", "editing"} : d[f] = c[f]
<1>. DEFINE a == App(c, m, 0)
<1>1. EditorLeftFor(c, m) = [a EXCEPT !.editing = FALSE]  BY DEF EditorLeftFor
<1>2. /\ Record(a) /\ a.menu["app"] = m /\ a.callback = 0
      /\ \A l \in FiveLevels \ {"app"} : a.menu[l] = None
      /\ \A f \in Fields \ {"menu", "callback"} : a[f] = c[f]
  BY AppRecord
<1>. HIDE DEF a
<1>. QED  BY <1>1, <1>2 DEF Record, Fields

LEMMA BaseLeft ==
    ASSUME NEW c, Record(c), NEW m
    PROVE  LET d == BaseLeftFor(c, m)
           IN  /\ Record(d) /\ d.callback = 0 /\ ~d.baseapp /\ d.base = 10
               /\ d.menu["app"] = m
               /\ \A l \in FiveLevels \ {"app"} : d.menu[l] = None
               /\ \A f \in Fields \ {"menu", "callback", "baseapp", "base"} : d[f] = c[f]
<1>. DEFINE e == [c EXCEPT !.callback = 0]
            b == set_base(e, 10)
            a == App(b, m, 0)
<1>1. BaseLeftFor(c, m) = [a EXCEPT !.baseapp = FALSE]  BY DEF BaseLeftFor
<1>2. Record(e) /\ \A f \in Fields \ {"callback"} : e[f] = c[f]
  BY DEF Record, Fields
<1>. HIDE DEF e
<1>3. Record(b) /\ b.base = 10 /\ \A f \in Fields \ {"menu", "callback", "base"} : b[f] = e[f]
  BY <1>2, SetBaseApt
<1>. HIDE DEF b
<1>4. /\ Record(a) /\ a.menu["app"] = m /\ a.callback = 0
      /\ \A l \in FiveLevels \ {"app"} : a.menu[l] = None
      /\ \A f \in Fields \ {"menu", "callback"} : a[f] = b[f]
  BY <1>3, AppRecord
<1>. HIDE DEF a
<1>. QED  BY <1>1, <1>2, <1>3, <1>4 DEF Record, Fields

\* The callback that is told when the application menu changes.
Told(c) == IF c.menu["app"] = None THEN 0 ELSE c.callback

\* What remains of the application that is left for a menu m.
Enters(c, d, m) ==
    /\ Record(d) /\ d.menu["app"] = m /\ d.role = c.role /\ d.prevmenu = c.prevmenu
    /\ d.callback = IF Told(c) = 1 /\ m \in EditMenus THEN 1
                    ELSE IF Told(c) = 2 /\ m \in BaseMenus THEN 2 ELSE 0
    /\ d.editing <=> c.editing /\ ~(Told(c) = 1 /\ m \notin EditMenus)
    /\ d.baseapp <=> c.baseapp /\ ~(Told(c) = 2 /\ m \notin BaseMenus)
    /\ d.base = IF Told(c) = 2 /\ m \notin BaseMenus THEN 10 ELSE c.base

LEMMA SetAppmenuEnters ==
    ASSUME NEW c, Record(c), c.callback \in {0, 1, 2, 3, 4, 5}, NEW m, m # None
    PROVE  Enters(c, set_appmenu(c, m, FALSE), m)
<1>. DEFINE d == set_appmenu(c, m, FALSE)
<1>. SUFFICES Enters(c, d, m)  OBVIOUS
<1>0. {"menu", "callback", "editing", "baseapp", "base", "role", "prevmenu"} \subseteq Fields
  BY DEF Fields
<1>1. /\ Told(c) \in {0, 3, 4, 5} => d = App(c, m, 0)
      /\ Told(c) = 1 => d = IF m \in EditMenus THEN App(c, m, 1) ELSE EditorLeftFor(c, m)
      /\ Told(c) = 2 => d = IF m \in BaseMenus THEN App(c, m, 2) ELSE BaseLeftFor(c, m)
  BY DEF set_appmenu, Told, appmenu_exitcallback_1, appmenu_exitcallback_2, appmenu_exitcallback_3,
         appmenu_exitcallback_4, appmenu_exitcallback_5, ToPrograms, EditorLeftFor, BaseLeftFor
<1>2. Told(c) \in {0, 1, 2, 3, 4, 5}  BY DEF Told
<1>. HIDE DEF d
<1>3. ASSUME NEW n, d = App(c, m, n)
      PROVE  /\ Record(d) /\ d.menu["app"] = m /\ d.callback = n /\ d.role = c.role
             /\ d.prevmenu = c.prevmenu /\ d.editing = c.editing /\ d.baseapp = c.baseapp
             /\ d.base = c.base
  BY <1>0, <1>3, AppRecord
<1>4. CASE Told(c) \in {0, 3, 4, 5}
  <2>1. d = App(c, m, 0)  BY <1>1, <1>4
  <2>. QED  BY <1>3, <1>4, <2>1 DEF Enters
<1>5. CASE Told(c) = 1 /\ m \in EditMenus
  <2>1. d = App(c, m, 1)  BY <1>1, <1>5
  <2>. QED  BY <1>3, <1>5, <2>1 DEF Enters
<1>6. CASE Told(c) = 2 /\ m \in BaseMenus
  <2>1. d = App(c, m, 2)  BY <1>1, <1>6
  <2>. QED  BY <1>3, <1>6, <2>1 DEF Enters
<1>7. CASE Told(c) = 1 /\ m \notin EditMenus
  <2>1. d = EditorLeftFor(c, m)  BY <1>1, <1>7
  <2>2. /\ Record(d) /\ d.menu["app"] = m /\ d.callback = 0 /\ d.role = c.role
        /\ d.prevmenu = c.prevmenu /\ ~d.editing /\ d.baseapp = c.baseapp
        /\ d.base = c.base
    BY <1>0, <2>1, EditorLeft
  <2>. QED  BY <1>7, <2>2 DEF Enters
<1>8. CASE Told(c) = 2 /\ m \notin BaseMenus
  <2>1. d = BaseLeftFor(c, m)  BY <1>1, <1>8
  <2>2. /\ Record(d) /\ d.menu["app"] = m /\ d.callback = 0 /\ d.role = c.role
        /\ d.prevmenu = c.prevmenu /\ d.editing = c.editing /\ ~d.baseapp
        /\ d.base = 10
    BY <1>0, <2>1, BaseLeft
  <2>. QED  BY <1>8, <2>2 DEF Enters
<1>. QED  BY <1>2, <1>4, <1>5, <1>6, <1>7, <1>8

\* The menus that may take the place of the application menu like that.
Admits(c, m) ==
    /\ m \in EditMenus => c.menu["app"] \in EditMenus
    /\ m # "INTEG_PARAMS"
    /\ m = "A_THRU_F" => c.base = 16
    /\ m = "VARMENU" => c.role = 0

LEMMA EntersApt ==
    ASSUME NEW c, Apt(c), NEW m, m # None, Admits(c, m)
    PROVE  /\ Apt(set_appmenu(c, m, FALSE))
           /\ set_appmenu(c, m, FALSE).menu["app"] = m
<1>. DEFINE d == set_appmenu(c, m, FALSE)
<1>1. Enters(c, d, m)  BY SetAppmenuEnters DEF Apt
<1>. HIDE DEF d
<1>2. Apt(d)  BY <1>1 DEF Apt, Fits, Admits, Enters, Told, EditMenus, BaseMenus, MatrixMenus, None
<1>. QED  BY <1>1, <1>2 DEF Enters, d

\* The application menu is left, for the one that the application returns to or for none.
LEMMA LeavesApt ==
    ASSUME NEW c, Apt(c)
    PROVE  /\ Apt(set_appmenu(c, None, FALSE))
           /\ c.editing => set_appmenu(c, None, FALSE).menu["app"] \in MatrixMenus \cup {None}
<1>. DEFINE d == set_appmenu(c, None, FALSE)
            e == App(c, "CATALOG", 0)
            v == App(c, "VARMENU", 4)
<1>. SUFFICES Apt(d) /\ (c.editing => d.menu["app"] \in MatrixMenus \cup {None})  OBVIOUS
<1>0. {"menu", "callback", "editing", "baseapp", "base", "role", "prevmenu", "section"} \subseteq Fields
  BY DEF Fields
<1>1. /\ Record(c) /\ c.callback \in {0, 1, 2, 3, 4, 5} /\ c.prevmenu \in MatrixMenus \cup {None}
      /\ c.role \in {0, 1, 2}
  BY DEF Apt
<1>2. None \notin EditMenus /\ None \notin BaseMenus  BY DEF None, EditMenus, BaseMenus
<1>3. /\ Told(c) = 0 => d = App(c, None, 0)
      /\ Told(c) = 1 => d = EditorLeftFor(c, c.prevmenu)
      /\ Told(c) = 2 => d = BaseLeftFor(c, None)
      /\ Told(c) = 3 => d = [e EXCEPT !.section["app"] = "PGM_SOLVE"]
      /\ Told(c) = 4 => d = [e EXCEPT !.section["app"] = "PGM_INTEG"]
      /\ Told(c) = 5 => d = [v EXCEPT !.role = 2]
  BY <1>2 DEF set_appmenu, Told, appmenu_exitcallback_1, appmenu_exitcallback_2, appmenu_exitcallback_3,
         appmenu_exitcallback_4, appmenu_exitcallback_5, ToPrograms, EditorLeftFor, BaseLeftFor
<1>4. Told(c) \in {0, 1, 2, 3, 4, 5}  BY <1>1 DEF Told
<1>. HIDE DEF d, e, v
<1>5. CASE Told(c) = 0
  <2>1. /\ Record(d) /\ d.menu["app"] = None /\ d.callback = 0 /\ d.role = c.role
        /\ d.prevmenu = c.prevmenu /\ d.editing = c.editing /\ d.baseapp = c.baseapp
        /\ d.base = c.base
    BY <1>0, <1>1, <1>3, <1>5, AppRecord
  <2>. QED  BY <1>2, <1>5, <2>1 DEF Apt, Fits, Told, None, EditMenus, BaseMenus
<1>6. CASE Told(c) = 1
  <2>1. /\ Record(d) /\ d.menu["app"] = c.prevmenu /\ d.callback = 0 /\ d.role = c.role
        /\ d.prevmenu = c.prevmenu /\ ~d.editing /\ d.baseapp = c.baseapp
        /\ d.base = c.base
    BY <1>0, <1>1, <1>3, <1>6, EditorLeft
  <2>. QED  BY <1>1, <1>2, <1>6, <2>1 DEF Apt, Fits, Told, None, EditMenus, MatrixMenus
<1>7. CASE Told(c) = 2
  <2>1. /\ Record(d) /\ d.menu["app"] = None /\ d.callback = 0 /\ d.role = c.role
        /\ d.prevmenu = c.prevmenu /\ d.editing = c.editing /\ ~d.baseapp
    BY <1>0, <1>1, <1>3, <1>7, BaseLeft
  <2>. QED  BY <1>1, <1>2, <1>7, <2>1 DEF Apt, Fits, Told, None, EditMenus
<1>8. CASE Told(c) \in {3, 4}
  <2>1. /\ Record(e) /\ e.menu["app"] = "CATALOG" /\ e.callback = 0 /\ e.role = c.role
        /\ e.prevmenu = c.prevmenu /\ e.editing = c.editing /\ e.baseapp = c.baseapp
        /\ e.base = c.base
    BY <1>0, <1>1, AppRecord DEF e
  <2>2. \E s : d = [e EXCEPT !.section["app"] = s]  BY <1>3, <1>8
  <2>3. SameApp(e, d)
    BY <1>0, <2>1, <2>2 DEF SameApp, Record
  <2>. QED  BY <1>1, <1>2, <1>8, <2>1, <2>3 DEF Apt, Fits, Told, SameApp, EditMenus, BaseMenus
<1>9. CASE Told(c) = 5
  <2>1. /\ Record(v) /\ v.menu["app"] = "VARMENU" /\ v.callback = 4
        /\ v.prevmenu = c.prevmenu /\ v.editing = c.editing /\ v.baseapp = c.baseapp
        /\ v.base = c.base
    BY <1>0, <1>1, AppRecord DEF v
  <2>2. /\ Record(d) /\ d.menu["app"] = "VARMENU" /\ d.callback = 4 /\ d.role = 2
        /\ d.prevmenu = c.prevmenu /\ d.editing = c.editing /\ d.baseapp = c.baseapp
        /\ d.base = c.base
    BY <1>0, <1>3, <1>9, <2>1 DEF Record
  <2>. QED  BY <1>1, <1>2, <1>9, <2>2 DEF Apt, Fits, Told, EditMenus, BaseMenus
<1>. QED  BY <1>4, <1>5, <1>6, <1>7, <1>8, <1>9

\* EXITALL leaves every menu.
LEMMA ExitAllApt ==
    ASSUME NEW c, Apt(c)
    PROVE  Apt(set_appmenu(c, None, TRUE))
<1>. DEFINE d == set_appmenu(c, None, TRUE)
<1>. SUFFICES Apt(d)  OBVIOUS
<1>0. {"menu", "callback", "editing", "baseapp", "base", "role", "prevmenu"} \subseteq Fields
  BY DEF Fields
<1>1. Record(c) /\ c.callback \in {0, 1, 2, 3, 4, 5} /\ c.role \in {0, 1, 2}
  BY DEF Apt
<1>2. None \notin EditMenus /\ None \notin BaseMenus  BY DEF None, EditMenus, BaseMenus
<1>3. /\ Told(c) \in {0, 3, 4, 5} => d = App(c, None, 0)
      /\ Told(c) = 1 => d = EditorLeftFor(c, None)
      /\ Told(c) = 2 => d = BaseLeftFor(c, None)
  BY <1>2 DEF set_appmenu, Told, appmenu_exitcallback_1, appmenu_exitcallback_2, appmenu_exitcallback_3,
         appmenu_exitcallback_4, appmenu_exitcallback_5, ToPrograms, EditorLeftFor, BaseLeftFor
<1>4. Told(c) \in {0, 1, 2, 3, 4, 5}  BY <1>1 DEF Told
<1>. HIDE DEF d
<1>5. CASE Told(c) \in {0, 3, 4, 5}
  <2>1. /\ Record(d) /\ d.menu["app"] = None /\ d.callback = 0 /\ d.role = c.role
        /\ d.prevmenu = c.prevmenu /\ d.editing = c.editing /\ d.baseapp = c.baseapp
        /\ d.base = c.base
    BY <1>0, <1>1, <1>3, <1>5, AppRecord
  <2>. QED  BY <1>2, <1>5, <2>1 DEF Apt, Fits, Told, None, EditMenus, BaseMenus
<1>6. CASE Told(c) = 1
  <2>1. /\ Record(d) /\ d.menu["app"] = None /\ d.callback = 0 /\ d.role = c.role
        /\ d.prevmenu = c.prevmenu /\ ~d.editing /\ d.baseapp = c.baseapp
        /\ d.base = c.base
    BY <1>0, <1>1, <1>3, <1>6, EditorLeft
  <2>. QED  BY <1>1, <1>2, <1>6, <2>1 DEF Apt, Fits, Told, None, EditMenus, MatrixMenus
<1>7. CASE Told(c) = 2
  <2>1. /\ Record(d) /\ d.menu["app"] = None /\ d.callback = 0 /\ d.role = c.role
        /\ d.prevmenu = c.prevmenu /\ d.editing = c.editing /\ ~d.baseapp
    BY <1>0, <1>1, <1>3, <1>7, BaseLeft
  <2>. QED  BY <1>1, <1>2, <1>7, <2>1 DEF Apt, Fits, Told, None, EditMenus
<1>. QED  BY <1>4, <1>5, <1>6, <1>7

-----------------------------------------------------------------------------
\* What only concerns the other levels, or the display, leaves the application menu alone.

LEMMA ShowApt ==
    ASSUME NEW c, Apt(c), NEW l \in FiveLevels \ {"app"}, NEW m
    PROVE  Apt(Show(c, l, m))
BY ShowSameApp, SameAppApt DEF Apt

LEMMA ErrorApt == ASSUME NEW c, Apt(c) PROVE Apt(display_error(c))
<1>1. SameApp(c, display_error(c))
  BY DEF display_error, Apt, SameApp, Record, Fields
<1>. QED  BY <1>1, SameAppApt

LEMMA PendApt == ASSUME NEW c, Apt(c), NEW p, NEW a PROVE Apt(Pend(c, p, a))
<1>1. SameApp(c, Pend(c, p, a))
  BY DEF Pend, Apt, SameApp, Record, Fields
<1>. QED  BY <1>1, SameAppApt

LEMMA SectionApt == ASSUME NEW c, Apt(c), NEW s PROVE Apt(set_cat_section(c, s))
<1>1. SameApp(c, set_cat_section(c, s))
  BY DEF set_cat_section, Apt, SameApp, Record, Fields
<1>. QED  BY <1>1, SameAppApt

LEMMA RedisplayApt == ASSUME NEW c, Apt(c) PROVE Apt(redisplay(c))
<1>1. Apt(draw_catalog(c))  BY SectionApt DEF draw_catalog
<1>2. Apt(draw_varmenu(c))  BY LeavesApt DEF draw_varmenu
<1>. QED  BY <1>1, <1>2 DEF redisplay

LEMMA SetMenuApt ==
    ASSUME NEW c, Apt(c), NEW l \in FiveLevels, NEW m, l = "app" => Admits(c, m)
    PROVE  Apt(set_menu(c, l, m))
<1>1. CASE l # "app"
  BY <1>1, ShowApt DEF set_menu, set_menu_return_err
<1>2. CASE l = "app"
  <2>1. Apt(set_appmenu(c, m, FALSE))  BY <1>2, EntersApt, LeavesApt
  <2>. QED  BY <1>2, <2>1, ErrorApt DEF set_menu, set_menu_return_err
<1>. QED  BY <1>1, <1>2

-----------------------------------------------------------------------------
\* Pages, submenus and the menus above them are none of the menus that only an application shows.
Special == EditMenus \cup {"A_THRU_F", "INTEG_PARAMS", "VARMENU"}

LEMMA PagesApart ==
    ASSUME NEW p \in Pages
    PROVE  /\ DOMAIN p = 1 .. Len(p) /\ Len(p) \in {2, 3, 4}
           /\ \/ \A i \in DOMAIN p : p[i] \in EditMenus
              \/ \A i \in DOMAIN p : p[i] \notin Special
<1>. DEFINE Fine == /\ DOMAIN p = 1 .. Len(p) /\ Len(p) \in {2, 3, 4}
                    /\ \/ \A i \in DOMAIN p : p[i] \in EditMenus
                       \/ \A i \in DOMAIN p : p[i] \notin Special
<1>1. ASSUME NEW a, NEW b, p = <<a, b>>,
             (a \in EditMenus /\ b \in EditMenus) \/ (a \notin Special /\ b \notin Special)
      PROVE  Fine
  <2>1. DOMAIN p = 1 .. 2 /\ Len(p) = 2 /\ p[1] = a /\ p[2] = b  BY <1>1
  <2>2. \A i \in 1 .. 2 : i = 1 \/ i = 2  OBVIOUS
  <2>. QED  BY <1>1, <2>1, <2>2
<1>2. ASSUME NEW a, NEW b, NEW e, p = <<a, b, e>>,
             a \notin Special, b \notin Special, e \notin Special
      PROVE  Fine
  <2>1. DOMAIN p = 1 .. 3 /\ Len(p) = 3 /\ p[1] = a /\ p[2] = b /\ p[3] = e  BY <1>2
  <2>2. \A i \in 1 .. 3 : i = 1 \/ i = 2 \/ i = 3  OBVIOUS
  <2>. QED  BY <1>2, <2>1, <2>2
<1>3. ASSUME NEW a, NEW b, NEW e, NEW f, p = <<a, b, e, f>>,
             a \notin Special, b \notin Special, e \notin Special, f \notin Special
      PROVE  Fine
  <2>1. DOMAIN p = 1 .. 4 /\ Len(p) = 4 /\ p[1] = a /\ p[2] = b /\ p[3] = e /\ p[4] = f
    BY <1>3
  <2>2. \A i \in 1 .. 4 : i = 1 \/ i = 2 \/ i = 3 \/ i = 4  OBVIOUS
  <2>. QED  BY <1>3, <2>1, <2>2
<1>. HIDE DEF Fine
<1>4. {"ALPHA1", "ALPHA2", "ABCDE1", "ABCDE2", "MODES1", "MODES2", "CLEAR1", "CLEAR2", "CONVERT1",
       "CONVERT2", "STAT1", "STAT2", "CUSTOM1", "CUSTOM2", "CUSTOM3", "PRINT1", "PRINT2", "PRINT3",
       "MATRIX1", "MATRIX2", "MATRIX3", "PGM_FCN1", "PGM_FCN2", "PGM_FCN3", "PGM_FCN4"}
        \cap Special = {}
      /\ "EDIT1" \in EditMenus /\ "EDIT2" \in EditMenus
  BY DEF Special, EditMenus
<1>5. Fine
  <2>1. CASE p = <<"ALPHA1", "ALPHA2">>  BY <1>1, <1>4, <2>1
  <2>2. CASE p = <<"ABCDE1", "ABCDE2">>  BY <1>1, <1>4, <2>2
  <2>3. CASE p = <<"MODES1", "MODES2">>  BY <1>1, <1>4, <2>3
  <2>4. CASE p = <<"CLEAR1", "CLEAR2">>  BY <1>1, <1>4, <2>4
  <2>5. CASE p = <<"CONVERT1", "CONVERT2">>  BY <1>1, <1>4, <2>5
  <2>6. CASE p = <<"CUSTOM1", "CUSTOM2", "CUSTOM3">>  BY <1>2, <1>4, <2>6
  <2>7. CASE p = <<"PGM_FCN1", "PGM_FCN2", "PGM_FCN3", "PGM_FCN4">>  BY <1>3, <1>4, <2>7
  <2>8. CASE p = <<"PRINT1", "PRINT2", "PRINT3">>  BY <1>2, <1>4, <2>8
  <2>9. CASE p = <<"STAT1", "STAT2">>  BY <1>1, <1>4, <2>9
  <2>10. CASE p = <<"MATRIX1", "MATRIX2", "MATRIX3">>  BY <1>2, <1>4, <2>10
  <2>11. CASE p = <<"EDIT1", "EDIT2">>  BY <1>1, <1>4, <2>11
  <2>. QED
    BY <2>1, <2>2, <2>3, <2>4, <2>5, <2>6, <2>7, <2>8, <2>9, <2>10, <2>11, Zenon DEF Pages
<1>. QED  BY <1>5 DEF Fine

LEMMA NeighboursApart ==
    ASSUME NEW m, NEW n \in Neighbours(m)
    PROVE  (n \in EditMenus /\ m \in EditMenus) \/ n \notin Special
<1>. PICK p \in Pages : n \in UNION {Beside(p, i) : i \in {i \in DOMAIN p : p[i] = m}}
  BY Zenon DEF Neighbours
<1>1. PICK i \in DOMAIN p : p[i] = m /\ n \in Beside(p, i)
  BY Zenon
<1>2. DOMAIN p = 1 .. Len(p) /\ Len(p) \in {2, 3, 4}  BY PagesApart
<1>3. i \in 1 .. Len(p)  BY <1>2
<1>4. \E j \in 1 .. Len(p) : n = p[j]
  <2>1. 1 + (i % Len(p)) \in 1 .. Len(p) /\ 1 + ((i + Len(p) - 2) % Len(p)) \in 1 .. Len(p)
    BY <1>2, <1>3
  <2>. QED  BY <1>1, <2>1 DEF Beside
<1>5. CASE \A j \in DOMAIN p : p[j] \in EditMenus
  BY <1>1, <1>2, <1>4, <1>5
<1>6. CASE \A j \in DOMAIN p : p[j] \notin Special
  BY <1>2, <1>4, <1>6
<1>. QED  BY <1>5, <1>6, PagesApart

LEMMA ParentApart == ASSUME NEW m PROVE parent(m) \notin Special
<1>1. parent(m) \in DOMAIN Below \cup {None}
  BY Zenon DEF parent
<1>2. DOMAIN Below = {"ALPHA1", "ALPHA2", "PGM_FCN2", "STAT1", "CFIT", "MATRIX1", "BASE"}
  BY DEF Below
<1>. QED  BY <1>1, <1>2 DEF Special, EditMenus, None

LEMMA KidsApart == ASSUME NEW m, NEW n \in Kids(m) PROVE n \notin Special
<1>1. m \in DOMAIN Below /\ n \in Below[m] /\ n \notin {"SIMQ", "A_THRU_F"}  BY DEF Kids
<1>. QED  BY <1>1 DEF Below, Special, EditMenus

LEMMA ApartAdmitted == ASSUME NEW c, NEW m, m \notin Special PROVE Admits(c, m)
BY DEF Admits, Special

LEMMA NoneApart == None \notin Special
BY DEF Special, EditMenus, None

LEMMA CatalogMenuApt == ASSUME NEW c, Apt(c), NEW s PROVE Apt(set_catalog_menu(c, s))
<1>1. SameApp(c, set_catalog_menu(c, s))
  BY DEF set_catalog_menu, Apt, SameApp, Record, Fields, FiveLevels
<1>. QED  BY <1>1, SameAppApt

LEMMA PlainmenuApt == ASSUME NEW c, Apt(c), NEW m PROVE Apt(set_plainmenu(c, m))
<1>. DEFINE menu == [l \in Levels |-> IF l \in InFront["plain"] THEN None ELSE c.menu[l]]
            bare == [c EXCEPT !.menu = menu]
            b == [bare EXCEPT !.sticky = TRUE]
            d == [bare EXCEPT !.menu["plain"] = m, !.sticky = TRUE]
            e == [bare EXCEPT !.menu["plain"] = m, !.sticky = FALSE,
                              !.section["plain"] = IF m = "CATALOG" THEN "TOP" ELSE @]
<1>1. /\ Record(bare) /\ bare.menu["app"] = c.menu["app"]
      /\ \A f \in Fields \ {"menu"} : bare[f] = c[f]
  <2>1. DOMAIN menu = FiveLevels /\ menu["app"] = c.menu["app"]
    BY LevelsAreFive, LevelsInFront DEF FiveLevels
  <2>. HIDE DEF menu
  <2>. QED  BY <2>1 DEF Apt, Record, Fields
<1>2. SameApp(c, bare)
  <2>1. {"callback", "editing", "baseapp", "base", "role", "prevmenu"} \subseteq Fields \ {"menu"}
    BY DEF Fields
  <2>. HIDE DEF bare
  <2>. QED  BY <1>1, <2>1 DEF SameApp
<1>3. set_plainmenu(c, m) \in {b, redisplay(d), redisplay(e)}
  BY Zenon DEF set_plainmenu
<1>. HIDE DEF bare
<1>4. SameApp(bare, b) /\ SameApp(bare, d) /\ SameApp(bare, e)
  BY <1>2 DEF SameApp, Record, Fields, FiveLevels
<1>. HIDE DEF b, d, e
<1>5. Apt(b) /\ Apt(d) /\ Apt(e)  BY <1>2, <1>4, SameAppChain, SameAppApt
<1>. QED  BY <1>3, <1>5, RedisplayApt

LEMMA CatalogUpdateApt == ASSUME NEW c, Apt(c) PROVE Apt(update_catalog(c))
<1>. DEFINE l == FrontLevel(c)
            d == [c EXCEPT !.menu[l] = None]
<1>1. CASE get_front_menu(c) # "CATALOG"
  BY <1>1 DEF update_catalog
<1>2. CASE get_front_menu(c) = "CATALOG"
  <2>1. c.menu[l] = "CATALOG"
    BY <1>2 DEF get_front_menu, None
  <2>. HIDE DEF l
  <2>2. Apt(d)
    <3>1. CASE l = "app"
      <4>1. /\ Record(d) /\ d.menu["app"] = None
            /\ \A f \in {"callback", "editing", "baseapp", "base", "role", "prevmenu"} : d[f] = c[f]
        BY <3>1 DEF Apt, Record, Fields, FiveLevels
      <4>. HIDE DEF d
      <4>. QED  BY <2>1, <3>1, <4>1 DEF Apt, Fits, EditMenus, BaseMenus, None
    <3>2. CASE l # "app"
      <4>1. SameApp(c, d)  BY <3>2 DEF Apt, SameApp, Record, Fields, FiveLevels
      <4>. QED  BY <4>1, SameAppApt
    <3>. QED  BY <3>1, <3>2
  <2>3. update_catalog(c) \in {set_cat_section(c, "TOP"), redisplay(d), redisplay(display_error(d)),
                               draw_catalog(c)}
    BY <1>2, Zenon DEF update_catalog, l
  <2>. HIDE DEF d
  <2>. QED  BY <2>2, <2>3, RedisplayApt, ErrorApt, SectionApt DEF draw_catalog
<1>. QED  BY <1>1, <1>2

-----------------------------------------------------------------------------
(***************************************************************************)
(* The entry of a command leaves the application menu alone, but for       *)
(* A...F and what a redisplay does.                                        *)
(***************************************************************************)

LEMMA StoreApt ==
    ASSUME NEW c, Apt(c), NEW x
    PROVE  /\ Apt(store_command(c, x)) /\ Apt(store_command_after(c, x))
           /\ Apt(sst(c)) /\ Apt(bst(c))
<1>1. \A d : Apt(d) => Apt(store_command(d, x))
  <2>. TAKE d
  <2>1. Apt(d) => SameApp(d, store_command(d, x))
    BY DEF store_command, Apt, SameApp, Record, Fields
  <2>. QED  BY <2>1, SameAppApt
<1>2. Apt([c EXCEPT !.pc = NextLine(c)])
  <2>1. SameApp(c, [c EXCEPT !.pc = NextLine(c)])
    BY DEF Apt, SameApp, Record, Fields
  <2>. QED  BY <2>1, SameAppApt
<1>3. SameApp(c, sst(c)) /\ SameApp(c, bst(c))
  BY DEF sst, bst, Apt, SameApp, Record, Fields
<1>. QED  BY <1>1, <1>2, <1>3, SameAppApt DEF store_command_after

LEMMA CommandMenuApt ==
    ASSUME NEW c, Apt(c), NEW m PROVE Apt([c EXCEPT !.menu["command"] = m])
<1>1. SameApp(c, [c EXCEPT !.menu["command"] = m])
  BY DEF Apt, SameApp, Record, Fields, FiveLevels
<1>. QED  BY <1>1, SameAppApt

\* A change of fields that the application menu has nothing to do with.
LEMMA FieldsApt ==
    ASSUME NEW c, Apt(c), NEW v
    PROVE  /\ Apt([c EXCEPT !.command_entry = v]) /\ Apt([c EXCEPT !.local_label = v])
           /\ Apt([c EXCEPT !.clall = v]) /\ Apt([c EXCEPT !.pending = v])
           /\ Apt([c EXCEPT !.pc = v]) /\ Apt([c EXCEPT !.saved_pc = v])
           /\ Apt([c EXCEPT !.alpha = v]) /\ Apt([c EXCEPT !.length = v])
           /\ Apt([c EXCEPT !.fault = v]) /\ Apt([c EXCEPT !.leaving = v])
           /\ Apt([c EXCEPT !.sticky = v]) /\ Apt([c EXCEPT !.command = v])
           /\ Apt([c EXCEPT !.number = v]) /\ Apt([c EXCEPT !.minus = v])
           /\ Apt([c EXCEPT !.alpha_entry = v]) /\ Apt([c EXCEPT !.alpha_mode = v])
           /\ Apt([c EXCEPT !.text = v]) /\ Apt([c EXCEPT !.running = v])
           /\ Apt([c EXCEPT !.getkey = v]) /\ Apt([c EXCEPT !.message = v])
           /\ Apt([c EXCEPT !.storable = v]) /\ Apt([c EXCEPT !.varmenu_active = v])
           /\ Apt([c EXCEPT !.prgm_mode = v]) /\ Apt([c EXCEPT !.stored = v])
           /\ Apt([c EXCEPT !.vars = v]) /\ Apt([c EXCEPT !.mvars = v])
           /\ Apt([c EXCEPT !.lines = v])
<1>1. ASSUME NEW f \in Fields \ {"menu", "callback", "baseapp", "base", "role", "editing", "prevmenu"}
      PROVE  Apt([c EXCEPT ![f] = v])
  <2>1. SameApp(c, [c EXCEPT ![f] = v])
    BY <1>1 DEF Apt, SameApp, Record, Fields
  <2>. QED  BY <2>1, SameAppApt
<1>2. {"command_entry", "local_label", "clall", "pending", "pc", "saved_pc", "alpha", "length", "fault",
       "leaving", "sticky", "command", "number", "minus", "alpha_entry", "alpha_mode", "text",
       "running", "getkey", "message", "storable", "varmenu_active", "prgm_mode", "stored", "vars",
       "mvars", "lines"}
         \subseteq Fields \ {"menu", "callback", "baseapp", "base", "role", "editing", "prevmenu"}
  BY DEF Fields
<1>. QED  BY <1>1, <1>2

LEMMA VariableMenuApt == ASSUME NEW c, Apt(c), NEW s PROVE Apt(VariableMenu(c, s))
BY CatalogMenuApt, CommandMenuApt DEF VariableMenu

LEMMA EntryMenuApt == ASSUME NEW s, Apt(s), NEW x PROVE Apt(EntryMenu(s, x))
<1>1. Apt([set_catalog_menu(s, "TOP") EXCEPT !.local_label = FALSE])
  BY CatalogMenuApt, FieldsApt
<1>2. Apt(display_error([s EXCEPT !.command_entry = FALSE]))  BY FieldsApt, ErrorApt
<1>3. \A m : Apt(Show(s, "command", m)) /\ Apt(set_catalog_menu(s, m)) /\ Apt(VariableMenu(s, m))
             /\ Apt([s EXCEPT !.menu["command"] = m])
  BY ShowApt, CatalogMenuApt, VariableMenuApt, CommandMenuApt DEF FiveLevels
<1>. QED  BY <1>1, <1>2, <1>3 DEF EntryMenu

LEMMA StartsApt == ASSUME NEW c, Apt(c), NEW x PROVE Apt(start_incomplete_command(c, x))
<1>1. Apt(Incomplete(c, x, argtype(x)))
  <2>1. SameApp(c, Incomplete(c, x, argtype(x)))
    BY DEF Incomplete, Apt, SameApp, Record, Fields
  <2>. QED  BY <2>1, SameAppApt
<1>. QED  BY <1>1, EntryMenuApt, ErrorApt, RedisplayApt DEF start_incomplete_command

LEMMA InteractiveApt == ASSUME NEW c, Apt(c), NEW x PROVE Apt(do_interactive(c, x))
<1>1. Apt(set_menu(set_base(c, 16), "app", "A_THRU_F"))
  <2>. DEFINE b == set_base(c, 16)
  <2>1. /\ Record(b) /\ b.base = 16
        /\ b.menu["app"] = IF c.menu["app"] = "A_THRU_F" THEN "BASE" ELSE c.menu["app"]
        /\ b.callback = IF c.menu["app"] = "A_THRU_F" /\ c.callback # 2 THEN 0 ELSE c.callback
        /\ b.role = c.role /\ b.editing = c.editing /\ b.baseapp = c.baseapp
        /\ b.prevmenu = c.prevmenu
    BY SetBaseApt DEF Apt, Fields
  <2>. HIDE DEF b
  <2>2. Apt(b)
    BY <2>1 DEF Apt, Fits, EditMenus, BaseMenus
  <2>3. Admits(b, "A_THRU_F")
    BY <2>1 DEF Admits, EditMenus
  <2>. QED  BY <2>2, <2>3, SetMenuApt DEF b, FiveLevels
<1>2. \A d : Apt(d) => Apt(redisplay(d)) /\ Apt(display_error(d)) /\ Apt(sst(d)) /\ Apt(bst(d))
  BY RedisplayApt, ErrorApt, StoreApt
<1>3. \A d, p, a : Apt(d) => Apt(Pend(d, p, a)) /\ Apt(store_command_after(d, p))
                             /\ Apt(start_incomplete_command(d, p))
  BY PendApt, StoreApt, StartsApt
<1>4. /\ Apt([c EXCEPT !.clall = TRUE])
      /\ Apt([c EXCEPT !.saved_pc = IF c.prgm_mode THEN c.pc ELSE @])
  BY FieldsApt
<1>5. Apt([c EXCEPT !.saved_pc = c.pc, !.pc = NextLine(c)])
  <2>1. SameApp(c, [c EXCEPT !.saved_pc = c.pc, !.pc = NextLine(c)])
    BY DEF Apt, SameApp, Record, Fields
  <2>. QED  BY <2>1, SameAppApt
<1>. QED  BY <1>1, <1>2, <1>3, <1>4, <1>5 DEF do_interactive

LEMMA ItNowApt == ASSUME NEW c, Apt(c) PROVE Apt(do_it_now(c))
<1>1. \A d, l, m : Apt(d) /\ l \in FiveLevels \ {"app"} => Apt(Show(d, l, m))
  BY ShowApt
<1>2. \A d, v : Apt(d) => Apt(set_cat_section(d, v)) /\ Apt([d EXCEPT !.leaving = v])
                          /\ Apt([d EXCEPT !.sticky = v]) /\ Apt(bst(d)) /\ Apt(redisplay(d))
  BY SectionApt, FieldsApt, StoreApt, RedisplayApt
<1>3. {"command", "transient", "plain"} \subseteq FiveLevels \ {"app"}  BY DEF FiveLevels
<1>. DEFINE s == get_cat_section(c)
            l == [set_cat_section(Show(c, "transient", "CATALOG"), s) EXCEPT !.leaving = TRUE]
            a(d) == [Show(d, "plain", d.menu["command"]) EXCEPT !.sticky = TRUE]
            b(d) == Show(d, "command", None)
            e(d) == Pend(redisplay(bst(d)), "CANCELLED", None)
<1>4. Apt(l)  BY <1>1, <1>2, <1>3
<1>5. \A d : Apt(d) => Apt(a(d)) /\ Apt(b(d)) /\ Apt(e(d))
  BY <1>1, <1>2, <1>3, PendApt
<1>6. \E d \in {c, l} : \E f \in {d, a(d)} : do_it_now(c) \in {b(f), e(b(f))}
  BY Zenon DEF do_it_now
<1>. HIDE DEF l, a, b, e
<1>. QED  BY <1>4, <1>5, <1>6

LEMMA InProgramApt == ASSUME NEW c, Apt(c) PROVE Apt(FinishesInProgram(c))
<1>1. Apt([c EXCEPT !.pc = c.saved_pc])  BY FieldsApt
<1>2. \A d, p, a : Apt(d) => Apt(Pend(d, p, a)) /\ Apt(redisplay(d)) /\ Apt(sst(d)) /\ Apt(bst(d))
                             /\ Apt(store_command(d, p))
  BY PendApt, StoreApt, RedisplayApt
<1>. QED  BY <1>1, <1>2, ItNowApt DEF FinishesInProgram

LEMMA FinishApt == ASSUME NEW c, Apt(c) PROVE Apt(finish_command_entry(c))
<1>1. Apt([c EXCEPT !.command_entry = FALSE]) /\ Apt([c EXCEPT !.pending = None])
  BY FieldsApt
<1>2. Apt(Show([c EXCEPT !.command_entry = FALSE], "command", None))
  BY <1>1, ShowApt DEF FiveLevels
<1>. QED  BY <1>1, <1>2, StartsApt, InProgramApt, ItNowApt DEF finish_command_entry

LEMMA FinishXeqApt == ASSUME NEW c, Apt(c), NEW d \in finish_xeq(c) PROVE Apt(d)
<1>. DEFINE e == [c EXCEPT !.command_entry = FALSE, !.pending = None]
            b == Show(e, "command", None)
<1>1. Apt(e)
  <2>1. SameApp(c, e)  BY DEF Apt, SameApp, Record, Fields
  <2>. QED  BY <2>1, SameAppApt
<1>. HIDE DEF e
<1>2. Apt(b)  BY <1>1, ShowApt DEF FiveLevels
<1>. HIDE DEF b
<1>3. Apt([e EXCEPT !.clall = TRUE])  BY <1>1, FieldsApt
<1>4. \A x : Apt(finish_command_entry(Pend([c EXCEPT !.command_entry = FALSE], x, None)))
  BY FieldsApt, PendApt, FinishApt
<1>5. \/ d = finish_command_entry(c)
      \/ \E x : d \in {redisplay([e EXCEPT !.clall = TRUE]),
                       finish_command_entry(Pend([c EXCEPT !.command_entry = FALSE], x, None)),
                       redisplay(display_error(b)), start_incomplete_command(b, x)}
  BY Zenon DEF finish_xeq, e, b
<1>. QED  BY <1>2, <1>3, <1>4, <1>5, FinishApt, RedisplayApt, ErrorApt, StartsApt

-----------------------------------------------------------------------------
(***************************************************************************)
(* So do the keys of the entry.                                            *)
(***************************************************************************)

\* What most keys do.
LEMMA EntryStepsApt ==
    ASSUME NEW c, Apt(c), NEW m
    PROVE  /\ Apt(Show(c, "command", m)) /\ Apt(redisplay(c)) /\ Apt(set_catalog_menu(c, m))
           /\ Apt(set_cat_section(c, m)) /\ Apt(display_error(c)) /\ Apt(VariableMenu(c, m))
           /\ Apt(Nulled(c)) /\ Apt(Cancelled(c)) /\ Apt(start_incomplete_command(c, m))
           /\ Apt(finish_command_entry(c)) /\ Apt(Chosen(c, m))
           /\ \A p : Apt(Pend(c, m, p)) /\ Apt(finish_command_entry(Pend(c, m, p)))
           /\ Apt(finish_command_entry(Chosen(c, m)))
           /\ \A d \in Menu(c, m) : Apt(d)
           /\ \A d \in Catalog(c, m) : Apt(d)
           /\ \A d \in Named(c) : Apt(d)
<1>1. \A n : Apt(Show(c, "command", n))  BY ShowApt DEF FiveLevels
<1>2. \A n, p : Apt(Pend(c, n, p))  BY PendApt
<1>3. Apt(set_catalog_menu(c, m))  BY CatalogMenuApt
<1>4. \A n : Apt(Chosen(c, n))  BY PendApt DEF Chosen
<1>5. Apt(Nulled(c)) /\ Apt(Cancelled(c))  BY <1>2, FinishApt DEF Nulled, Cancelled
<1>6. Apt(redisplay(Show(c, "command", m))) /\ Apt(redisplay(set_catalog_menu(c, m)))
  BY <1>1, <1>3, RedisplayApt
<1>7. \A d \in Named(c) : Apt(d)  BY <1>4, FinishApt, FinishXeqApt DEF Named
<1>. QED
  BY <1>1, <1>2, <1>3, <1>4, <1>5, <1>6, <1>7, RedisplayApt, SectionApt, ErrorApt, VariableMenuApt,
     StartsApt, FinishApt DEF Menu, Catalog

LEMMA StackMenuApt == ASSUME NEW c, Apt(c), NEW s, NEW x, NEW d \in StackMenu(c, s, x) PROVE Apt(d)
<1>1. Apt([c EXCEPT !.ind = TRUE, !.maxdigits = 2])
  <2>1. SameApp(c, [c EXCEPT !.ind = TRUE, !.maxdigits = 2])
    BY DEF Apt, SameApp, Record, Fields
  <2>. QED  BY <2>1, SameAppApt
<1>2. Apt(redisplay(set_catalog_menu([c EXCEPT !.ind = TRUE, !.maxdigits = 2], "REAL_ONLY")))
  BY <1>1, EntryStepsApt
<1>3. Apt(Nulled(c)) /\ Apt(Cancelled(c)) /\ Apt(finish_command_entry(Chosen(c, "STK")))
  BY EntryStepsApt
<1>. QED  BY <1>2, <1>3 DEF StackMenu

LEMMA CustomMenuApt == ASSUME NEW c, Apt(c), NEW s, NEW x, NEW d \in CustomMenu(c, s, x) PROVE Apt(d)
<1>1. Apt(Nulled(c)) /\ Apt(Cancelled(c)) /\ Apt(finish_command_entry(Pend(c, "ASGN01", c.arg)))
  BY EntryStepsApt
<1>2. \A m : Apt(redisplay(Show(c, "command", m)))  BY EntryStepsApt
<1>. QED  BY <1>1, <1>2 DEF CustomMenu

LEMMA WhichKeyApt == ASSUME NEW c, Apt(c), NEW s, NEW x, NEW d \in WhichKey(c, s, x) PROVE Apt(d)
<1>1. Apt(Nulled(c)) /\ \A y : Apt(start_incomplete_command(c, y))
  BY EntryStepsApt
<1>. QED  BY <1>1 DEF WhichKey

LEMMA CatalogKeysApt ==
    ASSUME NEW c, Apt(c), NEW s, NEW x, x \in MenuKeys \/ Arrow(s, x) \/ x = "EXIT",
           NEW d \in CatalogMenu(c, s, x)
    PROVE  Apt(d)
<1>1. Apt([c EXCEPT !.pending = "LINGER1"])  BY FieldsApt
<1>2. \A v : Apt(redisplay(set_cat_section(c, v)))  BY SectionApt, RedisplayApt
<1>3. /\ \A p : Apt(finish_command_entry(Pend(c, c.command, p)))
      /\ Apt(finish_command_entry(Chosen(c, "STR")))
      /\ \A e \in Named(c) : Apt(e)
      /\ Apt(redisplay(c)) /\ Apt(Cancelled(c))
  BY EntryStepsApt
<1>4. Apt(finish_command_entry(IF c.command \in WithLabelIndex
                               THEN Pend(c, c.command, "LBLINDEX")
                               ELSE Chosen(c, "STR")))
  BY <1>3
<1>. QED  BY <1>1, <1>2, <1>3, <1>4 DEF CatalogMenu

LEMMA VariablesMenuApt ==
    ASSUME NEW c, Apt(c), NEW s, NEW x, NEW d \in VariablesMenu(c, s, x),
           x \in MenuKeys \/ x = "EXIT" \/ (Arrow(s, x) /\ c.menu["command"] = "VARMENU")
    PROVE  Apt(d)
<1>1. /\ Apt(finish_command_entry(Pend(c, c.command, "STR")))
      /\ Apt(redisplay(c)) /\ Apt(Cancelled(c))
  BY EntryStepsApt
<1>. QED  BY <1>1 DEF VariablesMenu

\* The fields of the argument.
LEMMA ArgumentApt ==
    ASSUME NEW c, Apt(c), NEW a, NEW b, NEW m, NEW n
    PROVE  /\ Apt([c EXCEPT !.ind = a, !.maxdigits = m]) /\ Apt([c EXCEPT !.ind = a, !.alpha = b])
           /\ Apt([c EXCEPT !.argtype = a, !.alpha = b])
           /\ Apt([c EXCEPT !.length = n, !.alpha = b])
           /\ Apt([c EXCEPT !.argtype = a, !.maxdigits = m, !.alpha = b])
           /\ Apt([c EXCEPT !.command = n, !.argtype = a, !.maxdigits = m])
           /\ Apt([c EXCEPT !.command = n, !.argtype = a, !.ind = b, !.maxdigits = m])
<1>1. /\ SameApp(c, [c EXCEPT !.ind = a, !.maxdigits = m])
      /\ SameApp(c, [c EXCEPT !.ind = a, !.alpha = b])
      /\ SameApp(c, [c EXCEPT !.argtype = a, !.alpha = b])
      /\ SameApp(c, [c EXCEPT !.length = n, !.alpha = b])
  BY DEF Apt, SameApp, Record, Fields
<1>2. /\ SameApp(c, [c EXCEPT !.argtype = a, !.maxdigits = m, !.alpha = b])
      /\ SameApp(c, [c EXCEPT !.command = n, !.argtype = a, !.maxdigits = m])
      /\ SameApp(c, [c EXCEPT !.command = n, !.argtype = a, !.ind = b, !.maxdigits = m])
  BY DEF Apt, SameApp, Record, Fields
<1>. QED  BY <1>1, <1>2, SameAppApt

LEMMA PointApt == ASSUME NEW c, Apt(c), NEW d \in Point(c) PROVE Apt(d)
<1>1. Apt([c EXCEPT !.ind = TRUE, !.maxdigits = 2])  BY ArgumentApt
<1>2. \A m : \A e \in Menu(c, m) : Apt(e)  BY EntryStepsApt
<1>3. \A e \in Catalog([c EXCEPT !.ind = TRUE, !.maxdigits = 2], "REAL_ONLY") : Apt(e)
  BY <1>1, EntryStepsApt
<1>. QED  BY <1>2, <1>3 DEF Point

LEMMA NumberEndsApt == ASSUME NEW c, Apt(c), NEW d \in NumberEnds(c) PROVE Apt(d)
<1>1. \A e, p : Apt(e) => Apt(finish_command_entry(Pend(e, None, p)))  BY EntryStepsApt
<1>2. /\ Apt(display_error(c)) /\ Apt(finish_command_entry(Chosen(c, "NUM")))
      /\ Apt(start_incomplete_command(c, "GOTOCOLUMN"))
  BY EntryStepsApt
<1>. QED  BY <1>1, <1>2 DEF NumberEnds

LEMMA DigitApt == ASSUME NEW c, Apt(c), NEW d \in Digit(c) PROVE Apt(d)
<1>. DEFINE e == [c EXCEPT !.length = @ + 1]
<1>1. Apt(e)  BY FieldsApt
<1>2. d \in NumberEnds(e) \/ d \in Menu(e, None)  BY DEF Digit
<1>. HIDE DEF e
<1>. QED  BY <1>1, <1>2, NumberEndsApt, EntryStepsApt

LEMMA MenuAgainApt == ASSUME NEW c, Apt(c) PROVE Apt(MenuAgain(c))
<1>1. \A m : Apt(VariableMenu(c, m)) /\ Apt(set_catalog_menu(c, m)) /\ Apt(Show(c, "command", m))
  BY EntryStepsApt
<1>. QED  BY <1>1 DEF MenuAgain

LEMMA DigitBackApt == ASSUME NEW c, Apt(c), NEW d \in DigitBack(c) PROVE Apt(d)
<1>. DEFINE e == [c EXCEPT !.length = @ - 1]
<1>1. Apt(e)  BY FieldsApt
<1>2. d \in {Nulled(c), redisplay(e), redisplay(start_incomplete_command(e, KeysOf(e.command))),
             redisplay(MenuAgain(e))}
  BY DEF DigitBack
<1>. HIDE DEF e
<1>3. Apt(start_incomplete_command(e, KeysOf(e.command))) /\ Apt(MenuAgain(e)) /\ Apt(Nulled(c))
  BY <1>1, EntryStepsApt, MenuAgainApt
<1>. QED  BY <1>1, <1>2, <1>3, RedisplayApt

LEMMA EnterApt == ASSUME NEW c, Apt(c), NEW s, NEW d \in Enter(c, s) PROVE Apt(d)
<1>1. Apt([c EXCEPT !.alpha = TRUE])  BY FieldsApt
<1>2. \A e \in Menu([c EXCEPT !.alpha = TRUE], "ALPHA1") : Apt(e)  BY <1>1, EntryStepsApt
<1>. QED  BY <1>2, NumberEndsApt DEF Enter

LEMMA NumberKeyApt == ASSUME NEW c, Apt(c), NEW s, NEW x, NEW d \in NumberKey(c, s, x) PROVE Apt(d)
<1>. DEFINE a == [c EXCEPT !.command = "GTO", !.argtype = "LBL", !.ind = TRUE, !.maxdigits = 2]
            b == [c EXCEPT !.argtype = "LBL", !.alpha = TRUE]
            e == [c EXCEPT !.command = IF @ = "STO" THEN "STO_ADD" ELSE "RCL_ADD"]
            f == [c EXCEPT !.command = "GTODOT", !.argtype = "OTHER", !.maxdigits = 4]
<1>1. Apt(a) /\ Apt(b) /\ Apt(e) /\ Apt(f)  BY ArgumentApt, FieldsApt
<1>2. \/ d \in {Cancelled(c), redisplay(e), finish_command_entry(Pend(c, "GTODOTDOT", None)), c}
      \/ d \in Catalog(a, "REAL_ONLY") \/ d \in Menu(b, "ALPHA1") \/ d \in Menu(f, "IND")
      \/ d \in Point(c) \/ d \in Enter(c, s) \/ d \in Digit(c) \/ d \in DigitBack(c)
  BY Zenon DEF NumberKey
<1>. HIDE DEF a, b, e, f
<1>3. /\ \A g \in Catalog(a, "REAL_ONLY") : Apt(g)
      /\ \A g \in Menu(b, "ALPHA1") \cup Menu(f, "IND") : Apt(g)
      /\ Apt(Cancelled(c)) /\ Apt(redisplay(e)) /\ Apt(finish_command_entry(Pend(c, "GTODOTDOT", None)))
  BY <1>1, EntryStepsApt
<1>. QED  BY <1>2, <1>3, PointApt, EnterApt, DigitApt, DigitBackApt

LEMMA LetterApt == ASSUME NEW c, Apt(c) PROVE Apt(Letter(c))
BY ArgumentApt DEF Letter

LEMMA LetterMenuApt == ASSUME NEW c, Apt(c), NEW d \in LetterMenu(c) PROVE Apt(d)
<1>1. \A n : Apt(redisplay(Show(c, "command", n)))
  BY EntryStepsApt
<1>2. \A m : \A e \in Menu(Letter(c), m) : Apt(e)  BY LetterApt, EntryStepsApt
<1>. QED  BY <1>1, <1>2 DEF LetterMenu

LEMMA PageMenuApt == ASSUME NEW c, Apt(c), NEW d \in PageMenu(c) PROVE Apt(d)
<1>1. \A n : Apt(redisplay(Show(c, "command", n)))
  BY EntryStepsApt
<1>2. Apt([c EXCEPT !.fault = TRUE])  BY FieldsApt
<1>. QED  BY <1>1, <1>2 DEF PageMenu

LEMMA LeaveMenuApt == ASSUME NEW c, Apt(c), NEW d \in LeaveMenu(c) PROVE Apt(d)
<1>1. Apt(Cancelled(Show(c, "command", None)))
  BY EntryStepsApt
<1>2. \A m : \A e \in Menu(c, m) : Apt(e)  BY EntryStepsApt
<1>. QED  BY <1>1, <1>2 DEF LeaveMenu

LEMMA OutOfAlphaApt == ASSUME NEW c, Apt(c) PROVE Apt(OutOfAlpha(c))
<1>1. \A v : Apt([c EXCEPT !.alpha = v])  BY FieldsApt
<1>. DEFINE a == [c EXCEPT !.alpha = ~c.ind /\ c.argtype = "RVAR"]
<1>2. Apt(a)  BY <1>1
<1>3. OutOfAlpha(c) \in {set_catalog_menu(a, "REAL_ONLY"), MenuAgain(a), Show(a, "command", None)}
  BY Zenon DEF OutOfAlpha
<1>. HIDE DEF a
<1>4. \A m : Apt(Show(a, "command", m)) /\ Apt(set_catalog_menu(a, m))
  BY <1>2, EntryStepsApt
<1>. QED  BY <1>2, <1>3, <1>4, MenuAgainApt

LEMMA NoNameApt == ASSUME NEW c, Apt(c), NEW b PROVE Apt(NoName(c, b))
<1>1. Apt(NumberAgain(c))
  <2>1. Apt([c EXCEPT !.argtype = "OTHER", !.maxdigits = 4, !.alpha = FALSE])  BY ArgumentApt
  <2>. QED  BY <2>1, EntryStepsApt DEF NumberAgain
<1>2. Apt(OutOfAlpha(c))  BY OutOfAlphaApt
<1>3. \A m : Apt(set_catalog_menu(c, m)) /\ Apt(Show(c, "command", m)) /\ Apt(Nulled(c))
  BY EntryStepsApt
<1>. QED  BY <1>1, <1>2, <1>3 DEF NoName

LEMMA LetterBackApt == ASSUME NEW c, Apt(c), NEW d \in LetterBack(c) PROVE Apt(d)
<1>. DEFINE e == [c EXCEPT !.length = @ - 1]
<1>1. Apt(e)  BY FieldsApt
<1>2. d \in {redisplay(e), redisplay(NoName(e, TRUE)), start_incomplete_command(c, KeysOf(c.command)),
             redisplay(NoName(c, FALSE)), redisplay(set_catalog_menu(c, "TOP")), Nulled(c)}
  BY Zenon DEF LetterBack
<1>. HIDE DEF e
<1>3. Apt(NoName(e, TRUE)) /\ Apt(NoName(c, FALSE))  BY <1>1, NoNameApt
<1>4. \A m : Apt(set_catalog_menu(c, m)) /\ Apt(start_incomplete_command(c, m)) /\ Apt(Nulled(c))
  BY EntryStepsApt
<1>. QED  BY <1>1, <1>2, <1>3, <1>4, RedisplayApt

LEMMA LocalLabelApt == ASSUME NEW c, Apt(c), NEW d \in LocalLabel(c) PROVE Apt(d)
<1>1. Apt([c EXCEPT !.command_entry = FALSE])  BY FieldsApt
<1>2. Apt(Show(redisplay([c EXCEPT !.command_entry = FALSE]), "command", None))
  BY <1>1, EntryStepsApt
<1>. QED  BY <1>2, EntryStepsApt DEF LocalLabel

LEMMA NameEnterApt == ASSUME NEW c, Apt(c), NEW d \in NameEnter(c) PROVE Apt(d)
<1>1. \A m : \A e \in Menu(c, m) : Apt(e)  BY EntryStepsApt
<1>2. \A e \in LocalLabel(c) \cup Named(c) : Apt(e)  BY EntryStepsApt, LocalLabelApt
<1>. QED  BY <1>1, <1>2 DEF NameEnter

LEMMA NameKeyApt == ASSUME NEW c, Apt(c), NEW s, NEW x, NEW d \in NameKey(c, s, x) PROVE Apt(d)
<1>. DEFINE a == [c EXCEPT !.ind = TRUE, !.alpha = FALSE]
<1>1. Apt(a) /\ Apt(redisplay(Letter(c)))  BY ArgumentApt, LetterApt, RedisplayApt
<1>2. \/ d \in {redisplay(Letter(c)), c}
      \/ d \in LetterMenu(c) \/ d \in Catalog(a, "REAL_ONLY") \/ d \in Catalog(c, "TOP")
      \/ d \in PageMenu(c) \/ d \in LeaveMenu(c) \/ d \in LetterBack(c) \/ d \in NameEnter(c)
  BY Zenon DEF NameKey
<1>. HIDE DEF a
<1>3. /\ \A g \in Catalog(a, "REAL_ONLY") : Apt(g)
      /\ \A g \in Catalog(c, "TOP") : Apt(g)
  BY <1>1, EntryStepsApt
<1>. QED  BY <1>1, <1>2, <1>3, LetterMenuApt, PageMenuApt, LeaveMenuApt, LetterBackApt, NameEnterApt

LEMMA EntryKeyApt == ASSUME NEW c, Apt(c), NEW s, NEW x, NEW d \in EntryKey(c, s, x) PROVE Apt(d)
<1>1. CASE c.menu["command"] = "CATALOG" /\ MenuTakes(c, s, x)
  <2>1. d \in CatalogMenu(c, s, x)  BY <1>1 DEF EntryKey
  <2>. QED  BY <1>1, <2>1, CatalogKeysApt DEF MenuTakes
<1>2. CASE c.menu["command"] \in {"VARMENU", "INTEG_PARAMS"} /\ MenuTakes(c, s, x)
  <2>1. d \in VariablesMenu(c, s, x)  BY <1>2 DEF EntryKey
  <2>. QED  BY <1>2, <2>1, VariablesMenuApt DEF MenuTakes
<1>3. CASE d \in NameKey(c, s, x) \/ d \in NumberKey(c, s, x)
  BY <1>3, NameKeyApt, NumberKeyApt
<1>. QED  BY <1>1, <1>2, <1>3 DEF EntryKey

LEMMA CommandKeyApt ==
    ASSUME NEW c, Apt(c), NEW s, NEW x, NEW d \in keydown_command_entry(c, s, x)
    PROVE  Apt(d)
<1>. DEFINE y == AsDigit(c, x)
            a == [c EXCEPT !.alpha = TRUE]
<1>1. \A g \in Catalog(a, "TOP") : Apt(g)  BY FieldsApt, EntryStepsApt
<1>2. \A m : \A g \in Menu(c, m) : Apt(g)  BY EntryStepsApt
<1>3. \/ d \in StackMenu(c, s, x) \/ d \in NameKey(c, s, y) \/ d \in Catalog(a, "TOP")
      \/ d \in Menu(c, parent(c.menu["command"])) \/ d \in CustomMenu(c, s, y)
      \/ d \in WhichKey(c, s, y) \/ d \in EntryKey(c, s, y)
  BY Zenon DEF keydown_command_entry
<1>. HIDE DEF y, a
<1>. QED
  BY <1>1, <1>2, <1>3, StackMenuApt, NameKeyApt, CustomMenuApt, WhichKeyApt, EntryKeyApt

-----------------------------------------------------------------------------
(***************************************************************************)
(* The keys that bring up a menu, and the entry of numbers and letters.    *)
(***************************************************************************)

\* A menu that no application has of its own takes the place of the application menu.
LEMMA ApartApt ==
    ASSUME NEW c, Apt(c), NEW m, m \notin Special
    PROVE  Apt(set_menu(c, "app", m)) /\ Apt(set_appmenu(c, m, FALSE))
BY SetMenuApt, EntersApt, LeavesApt, ApartAdmitted DEF FiveLevels

LEMMA SolveIntegApt ==
    ASSUME NEW c, Apt(c), NEW m, m \notin Special, NEW s
    PROVE  Apt(set_solve_integ(c, m, s))
<1>1. Apt(set_menu(c, "app", m)) /\ Apt(set_appmenu(c, "CATALOG", FALSE))
  BY ApartApt DEF Special, EditMenus
<1>2. Apt(set_cat_section(set_appmenu(c, "CATALOG", FALSE), s))  BY <1>1, SectionApt
<1>3. Apt(display_error(set_menu(c, "app", m))) /\ Apt(display_error(c))
      /\ Apt(display_error(set_cat_section(set_appmenu(c, "CATALOG", FALSE), s)))
  BY <1>1, <1>2, ErrorApt
<1>. QED  BY <1>1, <1>3, RedisplayApt DEF set_solve_integ

\* The base application takes the BASE menu over.
LEMMA BaseAppApt ==
    ASSUME NEW c, Apt(c), c.menu["app"] = "BASE"
    PROVE  Apt([c EXCEPT !.callback = 2, !.baseapp = TRUE])
<1>. DEFINE d == [c EXCEPT !.callback = 2, !.baseapp = TRUE]
<1>1. /\ Record(d) /\ d.menu = c.menu /\ d.callback = 2 /\ d.baseapp /\ d.base = c.base
      /\ d.role = c.role /\ d.editing = c.editing /\ d.prevmenu = c.prevmenu
  BY DEF Apt, Record, Fields
<1>. HIDE DEF d
<1>2. Apt(d)  BY <1>1 DEF Apt, Fits, EditMenus, BaseMenus
<1>. QED  BY <1>2 DEF d

\* What the shifted keys bring up.
LEMMA MenuSwitchIs ==
    ASSUME NEW c, NEW x \in DOMAIN PlainKeys \cup AppKeys
    PROVE  LET b == set_menu(c, "app", "BASE")
               e == redisplay([b EXCEPT !.callback = 2, !.baseapp = TRUE])
           IN  \/ MenuSwitch(c, x) \in {set_plainmenu(c, PlainKeys[x]),
                                        set_solve_integ(c, "SOLVE", "PGM_SOLVE"),
                                        set_solve_integ(c, "INTEG", "PGM_INTEG"),
                                        redisplay(set_menu(c, "app", "MATRIX1")),
                                        redisplay(set_menu(c, "app", "STAT1")), b}
               \/ MenuSwitch(c, x) = e /\ b.menu["app"] = "BASE"
<1>. DEFINE b == set_menu(c, "app", "BASE")
            e == redisplay([b EXCEPT !.callback = 2, !.baseapp = TRUE])
<1>0. x \in DOMAIN PlainKeys \/ x \in {"7", "8", "9", "DIV", "4"}  BY DEF AppKeys
<1>. DEFINE PK == DOMAIN PlainKeys
<1>1. x \in PK \/ x \in {"7", "8", "9", "DIV", "4"}  BY <1>0
<1>. HIDE DEF PK
<1>2. MenuSwitch(c, x) =
          CASE x \in PK -> set_plainmenu(c, PlainKeys[x])
            [] x = "7" -> set_solve_integ(c, "SOLVE", "PGM_SOLVE")
            [] x = "8" -> set_solve_integ(c, "INTEG", "PGM_INTEG")
            [] x = "9" -> redisplay(set_menu(c, "app", "MATRIX1"))
            [] x = "DIV" -> redisplay(set_menu(c, "app", "STAT1"))
            [] x = "4" -> IF b.menu["app"] = "BASE" THEN e ELSE b
  BY Zenon DEF MenuSwitch, PK
<1>. DEFINE F == MenuSwitch(c, x)
            p == set_plainmenu(c, PlainKeys[x])
            s7 == set_solve_integ(c, "SOLVE", "PGM_SOLVE")
            s8 == set_solve_integ(c, "INTEG", "PGM_INTEG")
            s9 == redisplay(set_menu(c, "app", "MATRIX1"))
            sd == redisplay(set_menu(c, "app", "STAT1"))
            home == b.menu["app"] = "BASE"
<1>3. F \in {p, s7, s8, s9, sd, b} \/ (F = e /\ home)
  <2>1. F = CASE x \in PK -> p [] x = "7" -> s7 [] x = "8" -> s8 [] x = "9" -> s9
              [] x = "DIV" -> sd [] x = "4" -> IF home THEN e ELSE b
    BY <1>2
  <2>. HIDE DEF F, p, s7, s8, s9, sd, home, b, e, PK
  <2>3. CASE x \in PK  BY <2>1, <2>3
  <2>4. CASE x = "7"  BY <2>1, <2>4
  <2>5. CASE x = "8"  BY <2>1, <2>5
  <2>6. CASE x = "9"  BY <2>1, <2>6
  <2>7. CASE x = "DIV"  BY <2>1, <2>7
  <2>8. CASE x = "4"  BY <2>1, <2>8
  <2>. QED  BY <1>1, <2>3, <2>4, <2>5, <2>6, <2>7, <2>8
<1>. QED  BY <1>3

LEMMA MenuSwitchApt ==
    ASSUME NEW c, Apt(c), NEW x \in DOMAIN PlainKeys \cup AppKeys
    PROVE  Apt(MenuSwitch(c, x))
<1>. DEFINE b == set_menu(c, "app", "BASE")
            e == redisplay([b EXCEPT !.callback = 2, !.baseapp = TRUE])
<1>1. {"SOLVE", "INTEG", "MATRIX1", "STAT1", "BASE"} \cap Special = {}  BY DEF Special, EditMenus
<1>2. /\ Apt(set_plainmenu(c, PlainKeys[x]))
      /\ Apt(set_solve_integ(c, "SOLVE", "PGM_SOLVE")) /\ Apt(set_solve_integ(c, "INTEG", "PGM_INTEG"))
      /\ Apt(redisplay(set_menu(c, "app", "MATRIX1"))) /\ Apt(redisplay(set_menu(c, "app", "STAT1")))
      /\ Apt(b)
  BY <1>1, PlainmenuApt, SolveIntegApt, ApartApt, RedisplayApt
<1>3. MenuSwitch(c, x) \in {set_plainmenu(c, PlainKeys[x]), set_solve_integ(c, "SOLVE", "PGM_SOLVE"),
                            set_solve_integ(c, "INTEG", "PGM_INTEG"),
                            redisplay(set_menu(c, "app", "MATRIX1")),
                            redisplay(set_menu(c, "app", "STAT1")), b}
      \/ (MenuSwitch(c, x) = e /\ b.menu["app"] = "BASE")
  BY MenuSwitchIs
<1>. HIDE DEF b
<1>. QED  BY <1>2, <1>3, BaseAppApt, RedisplayApt

LEMMA NumberIsApt == ASSUME NEW c, Apt(c), NEW n PROVE Apt(NumberIs(c, n))
<1>1. SameApp(c, NumberIs(c, n))  BY DEF NumberIs, Apt, SameApp, Record, Fields
<1>. QED  BY <1>1, SameAppApt

LEMMA NumberGoneApt == ASSUME NEW c, Apt(c) PROVE Apt(NumberGone(c))
<1>1. SameApp(c, LineBefore(c))  BY DEF LineBefore, Apt, SameApp, Record, Fields
<1>2. Apt(LineBefore(c)) /\ Apt([c EXCEPT !.number = FALSE])  BY <1>1, SameAppApt, FieldsApt
<1>. QED  BY <1>2, RedisplayApt, PendApt DEF NumberGone

LEMMA NumberEntryApt ==
    ASSUME NEW c, Apt(c), NEW s, NEW x \in MenuKeys \cup Digits \cup {"DOT", "E", "CHS", "BSP"},
           NEW d \in keydown_number_entry(c, s, x)
    PROVE  Apt(d)
<1>1. \A v : Apt([c EXCEPT !.minus = v]) /\ Apt([c EXCEPT !.fault = v])  BY FieldsApt
<1>2. \A n, v : Apt(NumberIs(c, n)) /\ Apt(NumberIs([c EXCEPT !.minus = v], n))
                /\ Apt(NumberGone([c EXCEPT !.minus = v]))
  BY <1>1, NumberIsApt, NumberGoneApt
<1>3. \A e \in ChangeSign(c) \cup PointOrExponent(c) \cup NumberGrows(c) : Apt(e)
  BY <1>2 DEF ChangeSign, PointOrExponent, NumberGrows
<1>. QED  BY <1>1, <1>2, <1>3 DEF keydown_number_entry

LEMMA NumberStartsApt ==
    ASSUME NEW c, Apt(c), NEW s, NEW x \in MenuKeys \cup Digits \cup {"DOT", "E"},
           NEW d \in NumberStarts(c, s, x)
    PROVE  Apt(d)
<1>. DEFINE n == [c EXCEPT !.number = TRUE, !.digits = 0, !.minus = FALSE]
            a == [n EXCEPT !.pc = NextLine(c)]
            b == redisplay([n EXCEPT !.varmenu_active = FALSE])
<1>1. SameApp(c, n)  BY DEF Apt, SameApp, Record, Fields
<1>2. Apt(n)  BY <1>1, SameAppApt
<1>. HIDE DEF n
<1>3. Apt(a) /\ Apt(b)  BY <1>2, FieldsApt, RedisplayApt
<1>4. d \in keydown_number_entry(a, s, x) \/ d \in keydown_number_entry(b, s, x)
  BY DEF NumberStarts, n
<1>. HIDE DEF a, b
<1>. QED  BY <1>3, <1>4, NumberEntryApt

LEMMA NumberEnteredApt == ASSUME NEW c, Apt(c) PROVE Apt(NumberEntered(c))
BY FieldsApt, StoreApt DEF NumberEntered

LEMMA LettersApt ==
    ASSUME NEW c, Apt(c)
    PROVE  /\ Apt(start_alpha_prgm_line(c)) /\ Apt(finish_alpha_prgm_line(c)) /\ Apt(AlphaEntered(c))
           /\ Apt(AlphaOff(c)) /\ Apt(AlphaLetter(c)) /\ Apt(LineDeleted(c))
<1>1. SameApp(c, start_alpha_prgm_line(c)) /\ SameApp(c, LineDeleted(c))
  BY DEF start_alpha_prgm_line, LineDeleted, Apt, SameApp, Record, Fields
<1>2. \A e, v : Apt(e) => Apt([e EXCEPT !.alpha_entry = v]) /\ Apt([e EXCEPT !.alpha_mode = v])
                          /\ Apt([e EXCEPT !.text = v]) /\ Apt([e EXCEPT !.pc = v])
                          /\ Apt(store_command(e, v))
  BY FieldsApt, StoreApt
<1>3. Apt(start_alpha_prgm_line(c)) /\ Apt(LineDeleted(c))  BY <1>1, SameAppApt
<1>4. Apt(finish_alpha_prgm_line(c))  BY <1>2 DEF finish_alpha_prgm_line
<1>5. Apt(AlphaEntered(c))  BY <1>2, <1>4 DEF AlphaEntered
<1>6. Apt(AlphaOff(c))
  <2>1. Apt([c EXCEPT !.alpha_mode = FALSE])  BY <1>2
  <2>. QED  BY <2>1, ShowApt DEF AlphaOff, FiveLevels
<1>7. Apt(AlphaLetter(c))  BY <1>2, <1>3 DEF AlphaLetter
<1>. QED  BY <1>3, <1>4, <1>5, <1>6, <1>7

LEMMA AlphaMenuKeyApt ==
    ASSUME NEW c, Apt(c), NEW s, NEW x, x \in MenuKeys \cup {"EXIT"} \/ Arrow(s, x),
           NEW d \in AlphaMenuKey(c, s, x)
    PROVE  Apt(d)
<1>1. \A e, n : Apt(e) => Apt(Show(e, "alpha", n)) /\ Apt(redisplay(Show(e, "alpha", n)))
  BY ShowApt, RedisplayApt DEF FiveLevels
<1>2. \A n : Apt(redisplay(Show(AlphaLetter(c), "alpha", n)))  BY <1>1, LettersApt
<1>3. Apt(Pend(AlphaOff(AlphaEntered(Show(c, "alpha", None))), "CANCELLED", None))
  BY <1>1, LettersApt, PendApt
<1>4. Apt([c EXCEPT !.fault = TRUE])  BY FieldsApt
<1>. QED  BY <1>1, <1>2, <1>3, <1>4 DEF AlphaMenuKey

LEMMA AlphaBackApt == ASSUME NEW c, Apt(c), NEW d \in AlphaBack(c) PROVE Apt(d)
<1>. DEFINE l == LineDeleted(c)
<1>1. Apt(l)  BY LettersApt
<1>2. \A n : Apt(redisplay(Show(l, "alpha", n))) /\ Apt(redisplay(l)) /\ Apt([l EXCEPT !.fault = TRUE])
  BY <1>1, ShowApt, RedisplayApt, FieldsApt DEF FiveLevels
<1>3. /\ Apt(redisplay([c EXCEPT !.text = @ - 1])) /\ Apt(redisplay(finish_alpha_prgm_line(c)))
      /\ Apt(redisplay(c)) /\ Apt(Pend(c, "CLA", None))
  BY RedisplayApt, FieldsApt, LettersApt, PendApt
<1>4. \/ d \in {redisplay([c EXCEPT !.text = @ - 1]), redisplay(finish_alpha_prgm_line(c)),
                redisplay(c), Pend(c, "CLA", None), [l EXCEPT !.fault = TRUE], redisplay(l)}
      \/ \E n : d = redisplay(Show(l, "alpha", n))
  BY DEF AlphaBack
<1>. HIDE DEF l
<1>. QED  BY <1>2, <1>3, <1>4

LEMMA AlphaEnterApt == ASSUME NEW c, Apt(c), NEW s, NEW d \in AlphaEnter(c, s) PROVE Apt(d)
<1>1. /\ Apt(AlphaOff(AlphaEntered(c))) /\ Apt([start_alpha_prgm_line(c) EXCEPT !.text = 1])
      /\ Apt([c EXCEPT !.alpha_entry = TRUE])
  BY LettersApt, FieldsApt
<1>. QED  BY <1>1, RedisplayApt DEF AlphaEnter

LEMMA AlphaOtherApt == ASSUME NEW c, Apt(c), NEW s, NEW x, NEW d \in AlphaOther(c, s, x) PROVE Apt(d)
<1>1. Apt([c EXCEPT !.pending = "LINGER1"])  BY FieldsApt
<1>2. x \in DOMAIN PlainKeys \cup AppKeys => Apt(redisplay(AlphaOff(AlphaEntered(MenuSwitch(c, x)))))
  BY MenuSwitchApt, LettersApt, RedisplayApt
<1>3. \A y : Apt(do_interactive(AlphaEntered(c), y))  BY LettersApt, InteractiveApt
<1>. QED  BY <1>1, <1>2, <1>3 DEF AlphaOther

LEMMA AlphaModeApt ==
    ASSUME NEW c, Apt(c), NEW s, NEW x, NEW d \in keydown_alpha_mode(c, s, x) PROVE Apt(d)
<1>1. Apt(redisplay(AlphaLetter(c)))  BY LettersApt, RedisplayApt
<1>2. \/ d \in {redisplay(AlphaLetter(c))}
      \/ (x \in MenuKeys \cup {"EXIT"} \/ Arrow(s, x)) /\ d \in AlphaMenuKey(c, s, x)
      \/ d \in AlphaBack(c) \/ d \in AlphaEnter(c, s) \/ d \in AlphaOther(c, s, x)
  BY Zenon DEF keydown_alpha_mode
<1>. QED  BY <1>1, <1>2, AlphaMenuKeyApt, AlphaBackApt, AlphaEnterApt, AlphaOtherApt

-----------------------------------------------------------------------------
(***************************************************************************)
(* The keys in the normal mode.  Of the state in which a key goes down it  *)
(* is also known that only the menus of variables have a role.             *)
(***************************************************************************)

Fresh(c) == Apt(c) /\ (c.role # 0 => c.menu["app"] \in {"VARMENU", "INTEG_PARAMS"})

LEMMA SameAppFresh == ASSUME NEW c, NEW d, Fresh(c), SameApp(c, d) PROVE Fresh(d)
BY SameAppApt DEF Fresh, SameApp

LEMMA LeaveApt == ASSUME NEW c, Apt(c), NEW l PROVE Apt(Leave(c, l))
<1>1. CASE LeftWith(c, l)
  <2>1. l \in {"transient", "plain"}  BY <1>1 DEF LeftWith
  <2>2. Apt(set_menu(c, l, None))  BY <2>1, SetMenuApt DEF FiveLevels
  <2>. QED  BY <2>2 DEF Leave
<1>2. CASE ~LeftWith(c, l)
  BY <1>2 DEF Leave
<1>. QED  BY <1>1, <1>2

LEMMA SendsApt ==
    ASSUME NEW c, Apt(c), NEW x, NEW l
    PROVE  Apt(Stored(c, x)) /\ Apt(send_it_off(c, l)) /\ \A d \in view(c) : Apt(d)
<1>1. \A y : Apt(Pend(store_command_after(c, y), None, None))  BY StoreApt, PendApt
<1>2. Apt([c EXCEPT !.pending = "LINGER1", !.message = TRUE])
  <2>1. SameApp(c, [c EXCEPT !.pending = "LINGER1", !.message = TRUE])
    BY DEF Apt, SameApp, Record, Fields
  <2>. QED  BY <2>1, SameAppApt
<1>3. Apt(Stored(c, x))  BY <1>1, RedisplayApt DEF Stored
<1>4. Apt(send_it_off(c, l))  BY <1>1, LeaveApt, RedisplayApt DEF send_it_off
<1>5. \A d \in view(c) : Apt(d)  BY <1>2, ErrorApt DEF view
<1>. QED  BY <1>3, <1>4, <1>5

LEMMA ProgrammableApt ==
    ASSUME NEW c, Apt(c), NEW x, NEW d \in do_prgm_menu_key(c, x) PROVE Apt(d)
<1>. DEFINE s == IF x = "EXIT" THEN Show(c, "plain", None) ELSE c
<1>1. Apt(s)  BY ShowApt DEF FiveLevels
<1>2. d \in {Pend(s, "NULL", None), Pend(s, "CANCELLED", None), s, [s EXCEPT !.running = TRUE],
             display_error(s)}
  BY DEF do_prgm_menu_key
<1>. HIDE DEF s
<1>3. Apt([s EXCEPT !.running = TRUE])  BY <1>1, FieldsApt
<1>. QED  BY <1>1, <1>2, <1>3, PendApt, ErrorApt

LEMMA VariableToApt ==
    ASSUME NEW c, Apt(c), NEW s, NEW x, NEW d \in VariableTo(c, s, x) PROVE Apt(d)
<1>1. \A y : Apt(Stored(c, y)) /\ \A e \in view(c) : Apt(e)  BY SendsApt
<1>2. Apt(Pend(c, x, "STR"))  BY PendApt
<1>. QED  BY <1>1, <1>2 DEF VariableTo

\* The parameters of an integration are entered from its menu of variables.
LEMMA ParametersApt ==
    ASSUME NEW c, Fresh(c), c.role = 2
    PROVE  Apt([set_menu(c, "app", "INTEG_PARAMS") EXCEPT !.callback = 5])
<1>. DEFINE s == set_appmenu(c, "INTEG_PARAMS", FALSE)
            d == [s EXCEPT !.callback = 5]
<1>1. c.menu["app"] \in {"VARMENU", "INTEG_PARAMS"} /\ c.callback \notin {1, 2} /\ ~c.editing
      /\ ~c.baseapp
  BY DEF Fresh, Apt, Fits, EditMenus, BaseMenus
<1>2. set_menu(c, "app", "INTEG_PARAMS") = s
  BY <1>1 DEF set_menu, set_menu_return_err, Refuses
<1>3. Enters(c, s, "INTEG_PARAMS")  BY SetAppmenuEnters DEF Fresh, Apt, None
<1>4. c.menu["app"] # None  BY <1>1 DEF None
<1>. HIDE DEF s
<1>5. /\ Record(d) /\ d.menu["app"] = "INTEG_PARAMS" /\ d.callback = 5 /\ ~d.editing /\ ~d.baseapp
      /\ d.role = c.role /\ d.prevmenu = c.prevmenu
  BY <1>1, <1>3, <1>4 DEF Enters, Told, Record, Fields
<1>. HIDE DEF d
<1>6. Apt(d)  BY <1>5 DEF Fresh, Apt, Fits, EditMenus, BaseMenus
<1>. QED  BY <1>2, <1>6 DEF d

LEMMA VarmenuKeyApt ==
    ASSUME NEW c, Fresh(c), NEW s, NEW x, x \in MenuKeys \cup {"EXIT"} \/ Arrow(s, x),
           NEW d \in VarmenuKey(c, s, x)
    PROVE  Apt(d)
<1>1. Apt(c)  BY DEF Fresh
<1>2. \A e, y : Apt(e) => Apt(Pend(e, y, None))  BY PendApt
<1>3. Apt(set_menu(c, "app", None))  BY <1>1, NoneApart, ApartApt
<1>4. \A e \in VariableKey(c, s) : Apt(e)
  <2>. DEFINE p == [set_menu(c, "app", "INTEG_PARAMS") EXCEPT !.callback = 5]
  <2>. TAKE e \in VariableKey(c, s)
  <2>1. (c.role = 2 /\ e = redisplay(p)) \/ \E y : e \in VariableTo(c, s, y)
    BY DEF VariableKey
  <2>2. c.role = 2 => Apt(p)  BY ParametersApt
  <2>. HIDE DEF p
  <2>. QED  BY <1>1, <2>1, <2>2, VariableToApt, RedisplayApt
<1>. QED  BY <1>1, <1>2, <1>3, <1>4 DEF VarmenuKey

LEMMA ParameterKeyApt ==
    ASSUME NEW c, Apt(c), NEW s, NEW x, NEW d \in ParameterKey(c, s, x) PROVE Apt(d)
BY VariableToApt, PendApt DEF ParameterKey

LEMMA CustomKeyApt ==
    ASSUME NEW c, Apt(c), NEW s, NEW x, NEW d \in CustomKey(c, s, x) PROVE Apt(d)
<1>1. \A y, a, l : /\ Apt(Pend(c, y, a)) /\ Apt(send_it_off(Pend(c, y, a), l))
                   /\ Apt(do_interactive(c, y))
  BY PendApt, SendsApt, InteractiveApt
<1>2. Apt(Show(Stored(c, "XEQ"), "command", None))  BY SendsApt, EntryStepsApt
<1>3. \A y : Apt(CustomName(c, y))
  <2>1. /\ Apt(redisplay([c EXCEPT !.clall = TRUE])) /\ Apt(redisplay(sst(c)))
        /\ \A y : Apt(redisplay(Pend(bst(c), y, None)))
    BY FieldsApt, StoreApt, PendApt, RedisplayApt
  <2>. QED  BY <1>1, <2>1 DEF CustomName
<1>. QED  BY <1>1, <1>2, <1>3 DEF CustomKey

LEMMA ProgramChosenApt == ASSUME NEW c, Apt(c), NEW l PROVE Apt(ProgramChosen(c, l))
<1>. DEFINE s == get_cat_section(c)
            p == Pend(c, "XEQ", "LBLINDEX")
            u == set_cat_section(Show(Show(p, "plain", None), "transient", "CATALOG"), s)
            t == IF l = "plain" THEN u ELSE p
<1>1. Apt(p)  BY PendApt
<1>2. Apt(u)
  <2>1. Apt(Show(p, "plain", None))  BY <1>1, ShowApt DEF FiveLevels
  <2>2. Apt(Show(Show(p, "plain", None), "transient", "CATALOG"))  BY <2>1, ShowApt DEF FiveLevels
  <2>. QED  BY <2>2, SectionApt
<1>3. ProgramChosen(c, l) \in {p, [t EXCEPT !.leaving = TRUE]}
  BY Zenon DEF ProgramChosen
<1>. HIDE DEF p, u
<1>4. Apt(t)  BY <1>1, <1>2
<1>. HIDE DEF t
<1>5. Apt([t EXCEPT !.leaving = TRUE])  BY <1>4, FieldsApt
<1>. QED  BY <1>1, <1>3, <1>5

LEMMA CatalogKeyApt ==
    ASSUME NEW c, Apt(c), NEW l, NEW x \in MenuKeys, NEW d \in CatalogKey(c, l, x) PROVE Apt(d)
<1>1. \A y, a : Apt(Pend(c, y, a)) /\ Apt(send_it_off(Pend(c, y, a), l))
  BY PendApt, SendsApt
<1>2. /\ Apt(send_it_off(ProgramChosen(c, l), l)) /\ Apt(display_error(c))
      /\ Apt(Pend(Leave(c, l), "NULL", None)) /\ \A y : Apt(do_interactive(Leave(c, l), y))
      /\ Apt(send_it_off(Leave(Pend(c, "RCL", "STR"), l), l))
  BY <1>1, ProgramChosenApt, SendsApt, ErrorApt, LeaveApt, PendApt, InteractiveApt
<1>3. ASSUME NEW e \in CatalogItem(c, l) PROVE Apt(e)
  <2>1. Apt(send_it_off(Pend(c, IF c.prgm_mode THEN "PGMSLV" ELSE "PGMSLVi", "STR"), l))
        /\ Apt(send_it_off(Pend(c, IF c.prgm_mode THEN "PGMINT" ELSE "PGMINTi", "STR"), l))
        /\ Apt(Pend(c, "NULL", None))
    BY <1>1
  <2>. QED  BY <1>2, <2>1 DEF CatalogItem
<1>4. Apt([c EXCEPT !.pending = "LINGER1"])  BY FieldsApt
<1>5. \A v : Apt(redisplay(set_cat_section(c, v)))  BY SectionApt, RedisplayApt
<1>. QED  BY <1>2, <1>3, <1>4, <1>5 DEF CatalogKey

\* The menu m of the level l gives way to another of its table.
LEMMA TableKeyApt ==
    ASSUME NEW c, Apt(c), NEW l \in FiveLevels, NEW d \in TableKey(c, l) PROVE Apt(d)
<1>1. \A n \in Kids(c.menu[l]) : Apt(redisplay(set_menu(c, l, n)))
  BY KidsApart, ApartAdmitted, SetMenuApt, RedisplayApt
<1>2. Apt(Pend(Leave(c, l), "NULL", None)) /\ \A y : Apt(do_interactive(Leave(c, l), y))
  BY LeaveApt, PendApt, InteractiveApt
<1>. QED  BY <1>1, <1>2 DEF TableKey

LEMMA MenuKeyApt ==
    ASSUME NEW c, Apt(c), NEW l \in FiveLevels, NEW s, NEW x \in MenuKeys,
           NEW d \in MenuKey(c, l, s, x)
    PROVE  Apt(d)
<1>1. \/ d \in CustomKey(c, s, x) \/ d \in CatalogKey(c, l, x) \/ d \in ParameterKey(c, s, x)
      \/ d \in TableKey(c, l)
  BY Zenon DEF MenuKey
<1>. QED  BY <1>1, CustomKeyApt, CatalogKeyApt, ParameterKeyApt, TableKeyApt

LEMMA MenuPageApt ==
    ASSUME NEW c, Apt(c), NEW l \in FiveLevels, NEW d \in MenuPage(c, l) PROVE Apt(d)
<1>1. ASSUME NEW n \in Neighbours(c.menu[l]) PROVE Apt(set_menu(c, l, n))
  <2>1. l = "app" => Admits(c, n)
    BY <1>1, NeighboursApart, ApartAdmitted DEF Admits, EditMenus
  <2>. QED  BY <2>1, SetMenuApt
<1>2. d \in {redisplay(c), c} \/ \E n \in Neighbours(c.menu[l]) : d = redisplay(set_menu(c, l, n))
  BY DEF MenuPage
<1>. QED  BY <1>1, <1>2, RedisplayApt

LEMMA MenuExitApt ==
    ASSUME NEW c, Apt(c), NEW l \in FiveLevels, NEW d \in MenuExit(c, l) PROVE Apt(d)
<1>1. \A m : m \notin Special => Apt(set_menu(c, l, m))  BY ApartAdmitted, SetMenuApt
<1>2. Apt(set_cat_section(c, "TOP"))  BY SectionApt
<1>. QED  BY <1>1, <1>2, NoneApart, ParentApart, PendApt DEF MenuExit

LEMMA OwnKeyApt == ASSUME NEW c, Apt(c), NEW s, NEW x, NEW d \in OwnKey(c, s, x) PROVE Apt(d)
<1>1. Apt(redisplay(Show([c EXCEPT !.alpha_mode = TRUE, !.alpha_entry = FALSE], "alpha", "ALPHA1")))
  <2>1. SameApp(c, [c EXCEPT !.alpha_mode = TRUE, !.alpha_entry = FALSE])
    BY DEF Apt, SameApp, Record, Fields
  <2>2. Apt([c EXCEPT !.alpha_mode = TRUE, !.alpha_entry = FALSE])  BY <2>1, SameAppApt
  <2>. QED  BY <2>2, ShowApt, RedisplayApt DEF FiveLevels
<1>2. Apt(Pend([c EXCEPT !.prgm_mode = FALSE], "CANCELLED", None)) /\ Apt([c EXCEPT !.pending = "LINGER1"])
  BY FieldsApt, PendApt
<1>3. x \in DOMAIN PlainKeys \cup AppKeys => Apt(MenuSwitch(c, x))  BY MenuSwitchApt
<1>4. \A y : Apt(do_interactive(c, y))  BY InteractiveApt
<1>. QED  BY <1>1, <1>2, <1>3, <1>4 DEF OwnKey

LEMMA NumberKeysAre ==
    ASSUME NEW c, NEW s, NEW x, is_number_key(c, s, x) PROVE x \in MenuKeys \cup Digits \cup {"DOT", "E"}
BY DEF is_number_key

LEMMA NormalModeApt ==
    ASSUME NEW c, Fresh(c), NEW s, NEW x, NEW d \in keydown_normal_mode(c, s, x) PROVE Apt(d)
<1>. DEFINE l == FrontLevel(c)
            app == l \in {"transient", "plain", "app"}
<1>1. \/ is_number_key(c, s, x) /\ d \in NumberStarts(c, s, x)
      \/ d = redisplay(LineDeleted(c))
      \/ d \in do_prgm_menu_key(c, x)
      \/ (x \in MenuKeys \cup {"EXIT"} \/ Arrow(s, x)) /\ d \in VarmenuKey(c, s, x)
      \/ app /\ x \in MenuKeys /\ d \in MenuKey(c, l, s, x)
      \/ app /\ d \in MenuPage(c, l)
      \/ app /\ d \in MenuExit(c, l)
      \/ d \in OwnKey(c, s, x)
  BY Zenon DEF keydown_normal_mode
<1>2. app => l \in FiveLevels  BY DEF FiveLevels
<1>. HIDE DEF l, app
<1>3. Apt(c)  BY DEF Fresh
<1>4. Apt(redisplay(LineDeleted(c)))  BY <1>3, LettersApt, RedisplayApt
<1>5. is_number_key(c, s, x) /\ d \in NumberStarts(c, s, x) => Apt(d)
  BY <1>3, NumberKeysAre, NumberStartsApt
<1>6. d \in do_prgm_menu_key(c, x) \/ d \in OwnKey(c, s, x) => Apt(d)
  BY <1>3, ProgrammableApt, OwnKeyApt
<1>7. (x \in MenuKeys \cup {"EXIT"} \/ Arrow(s, x)) /\ d \in VarmenuKey(c, s, x) => Apt(d)
  BY VarmenuKeyApt
<1>8. ASSUME l \in FiveLevels,
             (x \in MenuKeys /\ d \in MenuKey(c, l, s, x)) \/ d \in MenuPage(c, l) \/ d \in MenuExit(c, l)
      PROVE  Apt(d)
  BY <1>3, <1>8, MenuKeyApt, MenuPageApt, MenuExitApt
<1>. QED  BY <1>1, <1>2, <1>4, <1>5, <1>6, <1>7, <1>8

LEMMA KeyGotApt ==
    ASSUME NEW c, Apt(c), NEW s, NEW x, NEW d \in KeyGot(c, s, x) PROVE Apt(d)
<1>. DEFINE a == [c EXCEPT !.storable = TRUE,
                           !.running = @ /\ x # "EXIT" /\ (s \/ x # "RUN")]
            b == [display_error(c) EXCEPT !.running = FALSE]
<1>1. SameApp(c, a)  BY DEF Apt, SameApp, Record, Fields
<1>2. d \in {GetkeyOver(a), GetkeyOver(b)}  BY DEF KeyGot
<1>. HIDE DEF a
<1>3. Apt(a) /\ Apt(b)  BY <1>1, SameAppApt, ErrorApt, FieldsApt
<1>. HIDE DEF b
<1>4. \A e : Apt(e) => Apt(GetkeyOver(e))  BY FieldsApt, RedisplayApt DEF GetkeyOver
<1>. QED  BY <1>2, <1>3, <1>4

LEMMA ProgramModeApt == ASSUME NEW c, Apt(c) PROVE Apt(ProgramMode(c))
<1>. DEFINE e == IF c.prgm_mode /\ ~c.alpha_entry /\ c.number THEN NumberEntered(c) ELSE AlphaEntered(c)
            t == [e EXCEPT !.alpha_entry = FALSE, !.number = FALSE, !.prgm_mode = ~@,
                           !.varmenu_active = FALSE, !.message = FALSE]
<1>1. Apt(e)  BY NumberEnteredApt, LettersApt
<1>2. ProgramMode(c) \in {redisplay(set_menu(t, "app", "BASE")), redisplay(Show(t, "plain", None)),
                          redisplay(t)}
  BY DEF ProgramMode
<1>. HIDE DEF e
<1>3. SameApp(e, t)  BY <1>1 DEF Apt, SameApp, Record, Fields
<1>. HIDE DEF t
<1>4. Apt(t)  BY <1>1, <1>3, SameAppApt
<1>5. Apt(set_menu(t, "app", "BASE"))  BY <1>4, ApartApt DEF Special, EditMenus
<1>6. Apt(Show(t, "plain", None))  BY <1>4, ShowApt DEF FiveLevels
<1>. QED  BY <1>2, <1>4, <1>5, <1>6, RedisplayApt

\* The entry of a number or of letters ends.
LEMMA EntryEndsSame ==
    ASSUME NEW c, Record(c)
    PROVE  SameApp(c, NumberEntered(c)) /\ SameApp(c, [c EXCEPT !.alpha_entry = FALSE])
BY DEF NumberEntered, store_command, SameApp, Record, Fields

LEMMA EditingKeyApt ==
    ASSUME NEW c, Fresh(c), NEW s, NEW x, NEW d \in EditingKey(c, s, x) PROVE Apt(d)
<1>. DEFINE n == IF c.number /\ ~Continues(c, s, x) THEN NumberEntered(c) ELSE c
<1>1. Record(c)  BY DEF Fresh, Apt
<1>2. Fresh(n)  BY <1>1, EntryEndsSame, SameAppFresh
<1>3. n.number => x \in MenuKeys \cup Digits \cup {"DOT", "E", "CHS", "BSP"}
  <2>1. ~NumberEntered(c).number
    BY <1>1 DEF NumberEntered, store_command, Record, Fields
  <2>2. n.number => Continues(c, s, x)  BY <2>1
  <2>. QED  BY <2>2, NumberKeysAre DEF Continues, Back
<1>4. d \in {n, redisplay(bst(AlphaEntered(n))), redisplay(sst(AlphaEntered(n))),
             Pend(redisplay(bst([n EXCEPT !.alpha_entry = FALSE])), "CANCELLED", None)}
      \/ d \in ModeKey(n, s, x)
  BY DEF EditingKey
<1>. HIDE DEF n
<1>5. Apt(n)  BY <1>2 DEF Fresh
<1>6. /\ Apt(redisplay(bst(AlphaEntered(n)))) /\ Apt(redisplay(sst(AlphaEntered(n))))
      /\ Apt(Pend(redisplay(bst([n EXCEPT !.alpha_entry = FALSE])), "CANCELLED", None))
  BY <1>5, LettersApt, FieldsApt, StoreApt, RedisplayApt, PendApt
<1>7. ASSUME d \in ModeKey(n, s, x) PROVE Apt(d)
  <2>1. \/ n.number /\ d \in keydown_number_entry(n, s, x)
        \/ d \in keydown_command_entry(n, s, x) \/ d \in keydown_alpha_mode(n, s, x)
        \/ d \in keydown_normal_mode(n, s, x)
    BY <1>7, Zenon DEF ModeKey
  <2>. QED  BY <1>2, <1>3, <1>5, <2>1, NumberEntryApt, CommandKeyApt, AlphaModeApt, NormalModeApt
<1>. QED  BY <1>4, <1>5, <1>6, <1>7

\* A key goes down.
LEMMA KeydownApt == ASSUME NEW c0, Fresh(c0), NEW s, NEW x, NEW d \in keydown(c0, x, s) PROVE Apt(d)
<1>. DEFINE c == [c0 EXCEPT !.pending = None]
            e == [c EXCEPT !.message = FALSE]
            a(y) == Pend([c EXCEPT !.clall = FALSE], y, None)
<1>1. SameApp(c0, c) /\ SameApp(c, e)
  BY DEF Fresh, Apt, SameApp, Record, Fields
<1>2. \/ d = c \/ \E y : d = a(y)
      \/ d \in KeyGot(c, x, s) \/ d = [c EXCEPT !.pending = "SILENT_OFF"] \/ d = ProgramMode(c)
      \/ d = redisplay(e)
      \/ c.base = 16 /\ d = redisplay(set_menu(e, "app", "A_THRU_F"))
      \/ d \in EditingKey(e, x, s)
  BY Zenon DEF keydown, ClallAnswered
<1>3. e.base = c.base  BY <1>1 DEF SameApp
<1>. HIDE DEF c, e
<1>4. Fresh(c) /\ Fresh(e)  BY <1>1, SameAppFresh
<1>5. Apt(c) /\ Apt(e)  BY <1>4 DEF Fresh
<1>6. \A y : Apt(a(y))  BY <1>5, FieldsApt, PendApt
<1>7. Apt([c EXCEPT !.pending = "SILENT_OFF"])  BY <1>5, FieldsApt
<1>8. c.base = 16 => Apt(set_menu(e, "app", "A_THRU_F"))
  <2>1. c.base = 16 => Admits(e, "A_THRU_F")  BY <1>3 DEF Admits, EditMenus
  <2>. QED  BY <1>5, <2>1, SetMenuApt DEF FiveLevels
<1>. HIDE DEF a
<1>. QED
  BY <1>2, <1>4, <1>5, <1>6, <1>7, <1>8, KeyGotApt, ProgramModeApt, RedisplayApt, EditingKeyApt

-----------------------------------------------------------------------------
(***************************************************************************)
(* The commands.                                                           *)
(***************************************************************************)

LEMMA FailedApt ==
    ASSUME NEW c, Apt(c) PROVE Apt(Failed(c)) /\ \A e : Apt(e) => \A d \in OrFails(c, e) : Apt(d)
<1>1. Apt([display_error(c) EXCEPT !.running = FALSE])  BY ErrorApt, FieldsApt
<1>. QED  BY <1>1 DEF Failed, OrFails

LEMMA ValuesApt == ASSUME NEW c, Apt(c), NEW d \in Values(c) PROVE Apt(d)
<1>1. \A b : Apt([c EXCEPT !.storable = b])  BY FieldsApt
<1>. QED  BY <1>1 DEF Values

\* An application enters its menu and gives it its callback n.
LEMMA AppmenuEnters ==
    ASSUME NEW c, Record(c), c.callback \in {0, 1, 2, 3, 4, 5}, NEW m, m # None, NEW n
    PROVE  LET d == appmenu(c, m, n)
           IN  /\ Record(d) /\ d.menu["app"] = m /\ d.callback = n /\ d.role = c.role
               /\ d.prevmenu = c.prevmenu
               /\ d.editing <=> c.editing /\ ~(Told(c) = 1 /\ m \notin EditMenus)
               /\ d.baseapp <=> c.baseapp /\ ~(Told(c) = 2 /\ m \notin BaseMenus)
<1>. DEFINE s == set_appmenu(c, m, FALSE)
<1>1. Enters(c, s, m)  BY SetAppmenuEnters
<1>2. appmenu(c, m, n) = [s EXCEPT !.callback = n]  BY DEF appmenu
<1>. HIDE DEF s
<1>. QED  BY <1>1, <1>2 DEF Enters, Record, Fields

LEMMA EditorOpensApt ==
    ASSUME NEW c, Apt(c), NEW p \in MatrixMenus \cup {None}
    PROVE  Apt(appmenu([c EXCEPT !.editing = TRUE, !.storable = TRUE, !.prevmenu = p], "EDIT1", 1))
<1>. DEFINE g == [c EXCEPT !.editing = TRUE, !.storable = TRUE, !.prevmenu = p]
            d == appmenu(g, "EDIT1", 1)
<1>1. /\ Record(g) /\ g.editing /\ g.prevmenu = p /\ g.menu = c.menu /\ g.callback = c.callback
      /\ g.baseapp = c.baseapp /\ g.base = c.base /\ g.role = c.role
  BY DEF Apt, Record, Fields
<1>. HIDE DEF g
<1>2. "EDIT1" \in EditMenus /\ "EDIT1" \notin BaseMenus /\ "EDIT1" # None /\ None \notin BaseMenus
  BY DEF EditMenus, BaseMenus, None
<1>3. g.callback \in {0, 1, 2, 3, 4, 5} /\ (g.baseapp => Told(g) = 2)
  BY <1>1, <1>2 DEF Apt, Fits, Told
<1>4. /\ Record(d) /\ d.menu["app"] = "EDIT1" /\ d.callback = 1 /\ d.role = g.role
      /\ d.prevmenu = g.prevmenu /\ d.editing /\ ~d.baseapp
  BY <1>1, <1>2, <1>3, AppmenuEnters
<1>. HIDE DEF d
<1>5. Apt(d)  BY <1>1, <1>2, <1>4 DEF Apt, Fits
<1>. QED  BY <1>5 DEF d, g

LEMMA EditApt == ASSUME NEW c, Apt(c), NEW d \in docmd_edit(c) PROVE Apt(d)
<1>. DEFINE f == IF c.editing THEN set_appmenu(c, None, FALSE) ELSE c
            p == IF f.menu["app"] \in MatrixMenus THEN f.menu["app"] ELSE None
            g == appmenu([f EXCEPT !.editing = TRUE, !.storable = TRUE, !.prevmenu = p], "EDIT1", 1)
<1>1. Apt(f)  BY LeavesApt
<1>2. d = Failed(c) \/ d \in OrFails(f, g)  BY DEF docmd_edit
<1>. HIDE DEF f
<1>3. Apt(g)  BY <1>1, EditorOpensApt
<1>. HIDE DEF g
<1>. QED  BY <1>1, <1>2, <1>3, FailedApt

LEMMA MataApt == ASSUME NEW c, Apt(c), NEW d \in docmd_mata(c) PROVE Apt(d)
<1>1. Apt(appmenu([c EXCEPT !.editing = TRUE, !.storable = TRUE, !.prevmenu = "SIMQ"], "EDIT1", 1))
  BY EditorOpensApt DEF MatrixMenus
<1>. QED  BY <1>1, FailedApt DEF docmd_mata

LEMMA SimqApt == ASSUME NEW c, Apt(c), NEW d \in docmd_simq(c) PROVE Apt(d)
<1>1. Apt(set_appmenu(c, "SIMQ", FALSE)) /\ Apt(Failed(c))
  BY ApartApt, FailedApt DEF Special, EditMenus
<1>. QED  BY <1>1, FailedApt DEF docmd_simq

\* The variables of a program show: for themselves, for SOLVE, for INTEG.
LEMMA VariablesShow ==
    ASSUME NEW c, Apt(c), NEW r \in {0, 1, 2}, NEW d, NEW n, n = (IF r = 0 THEN 0 ELSE r + 2),
           Record(d), d.menu["app"] = "VARMENU", d.callback = n, d.role = r, d.prevmenu = c.prevmenu,
           d.editing <=> c.editing /\ ~(Told(c) = 1), d.baseapp <=> c.baseapp /\ ~(Told(c) = 2)
    PROVE  Apt(d)
<1>1. (c.editing => Told(c) = 1) /\ (c.baseapp => Told(c) = 2)
  BY DEF Apt, Fits, Told, EditMenus, BaseMenus, None
<1>. QED  BY <1>1 DEF Apt, Fits, EditMenus, BaseMenus

LEMMA VarmenuApt == ASSUME NEW c, Apt(c), NEW d \in docmd_varmenu(c) PROVE Apt(d)
<1>. DEFINE g == [c EXCEPT !.role = 0]
            v == set_appmenu(g, "VARMENU", FALSE)
<1>1. /\ Record(g) /\ g.role = 0 /\ g.menu = c.menu /\ g.callback = c.callback
      /\ g.editing = c.editing /\ g.baseapp = c.baseapp /\ g.prevmenu = c.prevmenu
  BY DEF Apt, Record, Fields
<1>2. d \in OrFails(c, v) \/ d \in OrFails(c, Failed(c))  BY DEF docmd_varmenu
<1>. HIDE DEF g
<1>3. g.callback \in {0, 1, 2, 3, 4, 5}  BY <1>1 DEF Apt
<1>4. Enters(g, v, "VARMENU")  BY <1>1, <1>3, SetAppmenuEnters DEF None
<1>. HIDE DEF v
<1>5. "VARMENU" \notin EditMenus /\ "VARMENU" \notin BaseMenus  BY DEF EditMenus, BaseMenus
<1>6. Apt(v)  BY <1>1, <1>4, <1>5, VariablesShow DEF Enters, Told
<1>. QED  BY <1>2, <1>6, FailedApt

LEMMA ProgramVariablesApt == ASSUME NEW c, Apt(c) PROVE Apt(docmd_pgmslvi(c)) /\ Apt(docmd_pgminti(c))
<1>. DEFINE a(n) == appmenu(c, "VARMENU", n)
            b == [a(3) EXCEPT !.role = 1]
            e == [display_error(a(4)) EXCEPT !.role = 2, !.varmenu_active = TRUE]
<1>1. \A n : /\ Record(a(n)) /\ a(n).menu["app"] = "VARMENU" /\ a(n).callback = n
             /\ a(n).prevmenu = c.prevmenu
             /\ a(n).editing <=> c.editing /\ ~(Told(c) = 1)
             /\ a(n).baseapp <=> c.baseapp /\ ~(Told(c) = 2)
  <2>1. "VARMENU" \notin EditMenus /\ "VARMENU" \notin BaseMenus /\ "VARMENU" # None
    BY DEF EditMenus, BaseMenus, None
  <2>. QED  BY <2>1, AppmenuEnters DEF Apt
<1>. HIDE DEF a
<1>2. /\ Record(b) /\ b.menu["app"] = "VARMENU" /\ b.callback = 3 /\ b.role = 1
      /\ b.prevmenu = c.prevmenu
      /\ b.editing <=> c.editing /\ ~(Told(c) = 1)
      /\ b.baseapp <=> c.baseapp /\ ~(Told(c) = 2)
  BY <1>1 DEF Record, Fields
<1>3. /\ Record(e) /\ e.menu["app"] = "VARMENU" /\ e.callback = 4 /\ e.role = 2
      /\ e.prevmenu = c.prevmenu
      /\ e.editing <=> c.editing /\ ~(Told(c) = 1)
      /\ e.baseapp <=> c.baseapp /\ ~(Told(c) = 2)
  BY <1>1 DEF display_error, Record, Fields
<1>4. docmd_pgmslvi(c) = b /\ docmd_pgminti(c) = e  BY DEF docmd_pgmslvi, docmd_pgminti, a
<1>. HIDE DEF b, e
<1>5. Apt(b)  BY <1>2, VariablesShow
<1>6. Apt(e)  BY <1>3, VariablesShow
<1>. QED  BY <1>4, <1>5, <1>6

LEMMA BaseSetApt == ASSUME NEW c, Apt(c), NEW b PROVE Apt(set_base(c, b))
<1>. DEFINE d == set_base(c, b)
<1>1. /\ Record(d) /\ d.base = b
      /\ d.menu["app"] = IF c.menu["app"] = "A_THRU_F" THEN "BASE" ELSE c.menu["app"]
      /\ d.callback = IF c.menu["app"] = "A_THRU_F" /\ c.callback # 2 THEN 0 ELSE c.callback
      /\ d.role = c.role /\ d.editing = c.editing /\ d.baseapp = c.baseapp
      /\ d.prevmenu = c.prevmenu
  BY SetBaseApt DEF Apt, Fields
<1>. HIDE DEF d
<1>2. Apt(d)  BY <1>1 DEF Apt, Fits, EditMenus, BaseMenus
<1>. QED  BY <1>2 DEF d

LEMMA BaseHelperApt == ASSUME NEW c, Apt(c), NEW b PROVE Apt(base_helper(c, b))
<1>. DEFINE s == set_appmenu(c, "BASE", FALSE)
            a == [s EXCEPT !.callback = 2, !.baseapp = TRUE]
<1>1. Apt(s) /\ s.menu["app"] = "BASE"
  BY EntersApt, ApartAdmitted DEF Special, EditMenus, None
<1>2. base_helper(c, b) \in {set_base(c, b), Failed(c), set_base(a, b)}
  BY DEF base_helper, appmenu
<1>. HIDE DEF s
<1>3. Apt(a)  BY <1>1, BaseAppApt
<1>. HIDE DEF a
<1>. QED  BY <1>2, <1>3, BaseSetApt, FailedApt

LEMMA ClallApt == ASSUME NEW c, Apt(c) PROVE Apt(docmd_clall(c))
<1>. DEFINE s == set_menu([c EXCEPT !.storable = TRUE], "app", None)
            d == [s EXCEPT !.prgm_mode = FALSE, !.lines = 0, !.pc = 0, !.vars = {"mat"}, !.mvars = FALSE]
<1>1. Apt(s)  BY FieldsApt, ApartApt, NoneApart
<1>. HIDE DEF s
<1>2. SameApp(s, d)  BY <1>1 DEF Apt, SameApp, Record, Fields
<1>. HIDE DEF d
<1>3. Apt(d)  BY <1>1, <1>2, SameAppApt
<1>. QED  BY <1>3, CatalogUpdateApt DEF docmd_clall, d, s

LEMMA VariablesApt ==
    ASSUME NEW c, Apt(c)
    PROVE  /\ \A d \in VariableStored(c) : Apt(d) /\ Apt([d EXCEPT !.varmenu_active = ~d.message])
           /\ \A d \in VariableDeleted(c) : Apt(d)
           /\ \A d \in ProgramDeleted(c) : Apt(d)
<1>1. \A v : Apt(update_catalog([c EXCEPT !.vars = v]))  BY FieldsApt, CatalogUpdateApt
<1>2. \A d \in VariableStored(c) : Apt(d)  BY <1>1, FailedApt DEF VariableStored
<1>3. \A d, v : Apt(d) => Apt([d EXCEPT !.varmenu_active = v])  BY FieldsApt
<1>4. \A d \in VariableDeleted(c) : Apt(d)  BY <1>1 DEF VariableDeleted
<1>5. \A d \in ProgramDeleted(c) : Apt(d)
  <2>. DEFINE e == [c EXCEPT !.lines = 0, !.pc = 0, !.mvars = FALSE]
  <2>1. SameApp(c, e)  BY DEF Apt, SameApp, Record, Fields
  <2>. HIDE DEF e
  <2>2. Apt(update_catalog(e))  BY <2>1, SameAppApt, CatalogUpdateApt
  <2>. QED  BY <2>2, FailedApt DEF ProgramDeleted, e
<1>. QED  BY <1>2, <1>3, <1>4, <1>5

\* The commands that show or leave another menu, or a mode.
LEMMA ModeCommandsApt ==
    ASSUME NEW c, Apt(c)
    PROVE  /\ Apt(docmd_aon(c)) /\ Apt(docmd_aoff(c)) /\ Apt(docmd_custom(c)) /\ Apt(set_flag_custom(c))
           /\ Apt(docmd_menu(c)) /\ Apt(docmd_exitall(c)) /\ Apt(docmd_arcl(c))
<1>1. {"alpha", "plain"} \subseteq FiveLevels \ {"app"}  BY DEF FiveLevels
<1>2. SameApp(c, [c EXCEPT !.alpha_mode = TRUE, !.alpha_entry = FALSE])
  BY DEF Apt, SameApp, Record, Fields
<1>3. Apt([c EXCEPT !.alpha_mode = TRUE, !.alpha_entry = FALSE])  BY <1>2, SameAppApt
<1>4. \A m : Apt(Show(c, "plain", m)) /\ Apt([Show(c, "plain", m) EXCEPT !.sticky = TRUE])
  BY <1>1, ShowApt, FieldsApt
<1>5. Apt(docmd_aon(c))  BY <1>1, <1>3, ShowApt DEF docmd_aon
<1>6. Apt(docmd_aoff(c))  BY LettersApt DEF docmd_aoff
<1>7. Apt(docmd_exitall(c))  BY ExitAllApt, FailedApt DEF docmd_exitall
<1>8. Apt(docmd_arcl(c))  BY FieldsApt DEF docmd_arcl
<1>. QED  BY <1>4, <1>5, <1>6, <1>7, <1>8 DEF docmd_custom, set_flag_custom, docmd_menu

LEMMA HandlerApt == ASSUME NEW c, Apt(c), NEW x, NEW d \in Handler(c, x) PROVE Apt(d)
<1>1. \A v : /\ Apt([c EXCEPT !.alpha_entry = v]) /\ Apt([c EXCEPT !.getkey = v])
             /\ Apt([c EXCEPT !.pc = v]) /\ Apt([c EXCEPT !.running = v])
  BY FieldsApt
<1>2. \A m, n : Apt([c EXCEPT !.lines = m, !.pc = n])
  <2>1. \A m, n : SameApp(c, [c EXCEPT !.lines = m, !.pc = n])
    BY DEF Apt, SameApp, Record, Fields
  <2>. QED  BY <2>1, SameAppApt
<1>3. \A e \in GoesTo(c) \cup ProgramStarts(c) \cup OrFails(c, docmd_arcl(c)) : Apt(e)
  BY <1>1, FailedApt, ModeCommandsApt DEF GoesTo, ProgramStarts
<1>4. \A e \in docmd_edit(c) \cup docmd_mata(c) \cup docmd_simq(c) \cup docmd_varmenu(c) \cup Values(c) :
          Apt(e)
  BY EditApt, MataApt, SimqApt, VarmenuApt, ValuesApt
<1>5. \/ d \in {docmd_aon(c), docmd_aoff(c), docmd_custom(c), set_flag_custom(c), docmd_menu(c),
                docmd_exitall(c), docmd_pgmslvi(c), docmd_pgminti(c), base_helper(c, 16),
                base_helper(c, 10), docmd_clall(c), [c EXCEPT !.alpha_entry = FALSE],
                [c EXCEPT !.getkey = TRUE], [c EXCEPT !.lines = 0, !.pc = 0], c}
      \/ \E m : d = [c EXCEPT !.lines = m, !.pc = IF @ > m THEN m ELSE @]
      \/ \E t \in VariableStored(c) : d \in {t, [t EXCEPT !.varmenu_active = ~t.message]}
      \/ d \in VariableDeleted(c) \cup ProgramDeleted(c)
      \/ d \in GoesTo(c) \cup ProgramStarts(c) \cup OrFails(c, docmd_arcl(c))
      \/ d \in docmd_edit(c) \cup docmd_mata(c) \cup docmd_simq(c) \cup docmd_varmenu(c) \cup Values(c)
  BY Zenon DEF Handler
<1>6. Apt(docmd_pgmslvi(c)) /\ Apt(docmd_pgminti(c)) /\ Apt(base_helper(c, 16)) /\ Apt(base_helper(c, 10))
      /\ Apt(docmd_clall(c))
  BY ProgramVariablesApt, BaseHelperApt, ClallApt
<1>7. \A m : Apt([c EXCEPT !.lines = m, !.pc = IF @ > m THEN m ELSE @])  BY <1>2
<1>8. /\ \A t \in VariableStored(c) : Apt(t) /\ Apt([t EXCEPT !.varmenu_active = ~t.message])
      /\ \A e \in VariableDeleted(c) \cup ProgramDeleted(c) : Apt(e)
  BY VariablesApt
<1>9. /\ Apt(docmd_aon(c)) /\ Apt(docmd_aoff(c)) /\ Apt(docmd_custom(c)) /\ Apt(set_flag_custom(c))
      /\ Apt(docmd_menu(c)) /\ Apt(docmd_exitall(c)) /\ Apt([c EXCEPT !.lines = 0, !.pc = 0])
      /\ Apt([c EXCEPT !.alpha_entry = FALSE]) /\ Apt([c EXCEPT !.getkey = TRUE])
  BY <1>1, <1>2, ModeCommandsApt
<1>. QED  BY <1>3, <1>4, <1>5, <1>6, <1>7, <1>8, <1>9, Zenon

-----------------------------------------------------------------------------
(***************************************************************************)
(* The key comes up, the timers pass, the power comes back.                *)
(***************************************************************************)

LEMMA DoneApt == ASSUME NEW c, Apt(c) PROVE Apt(Done(c))
BY PendApt, RedisplayApt DEF Done

LEMMA LineApt == ASSUME NEW c, Apt(c), NEW d \in Line(c) PROVE Apt(d)
<1>1. Apt([c EXCEPT !.running = TRUE])  BY FieldsApt
<1>. QED  BY <1>1, HandlerApt DEF Line

LEMMA ExecuteApt == ASSUME NEW c, Apt(c), NEW d \in Execute(c) PROVE Apt(d)
<1>. DEFINE e == [c EXCEPT !.varmenu_active = c.pending \in {"VMSTO", "VMSTO2", "VMSOLVE", "VMEXEC"}]
            p == Pend(e, None, None)
            r == [p EXCEPT !.running = TRUE, !.pc = IF @ = 0 THEN 1 ELSE @]
<1>1. Apt(e)  BY FieldsApt
<1>2. \/ d = r
      \/ \E l \in Line(e) : d = Done([l EXCEPT !.running = FALSE])
      \/ \E l \in Handler(e, c.pending) : d = Done(l)
  BY DEF Execute
<1>. HIDE DEF e
<1>3. Apt(p)  BY <1>1, PendApt
<1>. HIDE DEF p
<1>4. SameApp(p, r)  BY <1>3 DEF Apt, SameApp, Record, Fields
<1>. HIDE DEF r
<1>5. Apt(r)  BY <1>3, <1>4, SameAppApt
<1>6. \A l \in Line(e) : Apt(Done([l EXCEPT !.running = FALSE]))
  BY <1>1, LineApt, FieldsApt, DoneApt
<1>7. \A l \in Handler(e, c.pending) : Apt(Done(l))  BY <1>1, HandlerApt, DoneApt
<1>. QED  BY <1>2, <1>5, <1>6, <1>7

LEMMA KeyupApt == ASSUME NEW c, Apt(c), NEW d \in core_keyup(c) PROVE Apt(d)
<1>1. Apt(CatalogLeft(c))
  <2>1. \A e : Apt(e) => Apt([e EXCEPT !.leaving = FALSE])  BY FieldsApt
  <2>2. Apt(Show(c, "transient", None)) /\ Apt(Show(c, "plain", None))  BY ShowApt DEF FiveLevels
  <2>. QED  BY <2>1, <2>2 DEF CatalogLeft
<1>2. \A v : Apt([c EXCEPT !.pending = v])  BY FieldsApt
<1>3. Apt(Done(CatalogLeft(c))) /\ \A e \in Execute(CatalogLeft(c)) : Apt(e)
  BY <1>1, DoneApt, ExecuteApt
<1>. QED  BY <1>2, <1>3 DEF core_keyup

LEMMA TimersApt == ASSUME NEW c, Apt(c) PROVE Apt(core_keytimeout2(c)) /\ Apt(core_timeout3(c))
<1>1. SameApp(c, core_keytimeout2(c))
  BY DEF core_keytimeout2, Apt, SameApp, Record, Fields
<1>2. Apt(redisplay(Pend([c EXCEPT !.message = FALSE], None, None))) /\ Apt(Pend(c, "CANCELLED", None))
  BY FieldsApt, PendApt, RedisplayApt
<1>. QED  BY <1>1, <1>2, SameAppApt DEF core_timeout3

LEMMA AutoStartApt == ASSUME NEW c, Apt(c) PROVE Apt(AutoStart(c))
<1>. DEFINE f == IF c.command_entry THEN finish_command_entry(c) ELSE c
            p == CASE f.prgm_mode /\ f.alpha_entry -> [f EXCEPT !.pc = f.saved_pc]
                   [] f.prgm_mode /\ ~f.alpha_entry /\ f.number -> store_command(f, "NUMBER")
                   [] OTHER -> f
            r == [p EXCEPT !.prgm_mode = FALSE, !.alpha_entry = FALSE, !.number = FALSE,
                           !.running = TRUE]
<1>1. Apt(f)  BY FinishApt
<1>2. AutoStart(c) = AlphaOff(r)  BY DEF AutoStart
<1>. HIDE DEF f
<1>3. Apt([f EXCEPT !.pc = f.saved_pc]) /\ Apt(store_command(f, "NUMBER"))
  BY <1>1, FieldsApt, StoreApt
<1>4. Apt(p)  BY <1>1, <1>3
<1>. HIDE DEF p
<1>5. SameApp(p, r)  BY <1>4 DEF Apt, SameApp, Record, Fields
<1>. HIDE DEF r
<1>. QED  BY <1>2, <1>4, <1>5, SameAppApt, LettersApt

LEMMA PowercycleApt == ASSUME NEW c, Apt(c), NEW b PROVE Apt(core_powercycle(c, b))
<1>. DEFINE o == [c EXCEPT !.pending = None, !.getkey = FALSE]
<1>1. SameApp(c, o)  BY DEF Apt, SameApp, Record, Fields
<1>2. core_powercycle(c, b) \in {AutoStart(o), redisplay([o EXCEPT !.running = FALSE]), redisplay(o), o}
  BY DEF core_powercycle
<1>. HIDE DEF o
<1>3. Apt(o)  BY <1>1, SameAppApt
<1>4. Apt([o EXCEPT !.running = FALSE])  BY <1>3, FieldsApt
<1>. QED  BY <1>2, <1>3, <1>4, AutoStartApt, RedisplayApt

LEMMA RememberedFresh == ASSUME NEW c, Apt(c) PROVE Fresh(Remembered(c))
<1>. DEFINE e == IF c.command_entry \/ c.pending = "ASSIGNa" THEN c
                 ELSE [c EXCEPT !.command = None, !.argtype = None, !.ind = FALSE, !.alpha = FALSE,
                                !.length = 0, !.maxdigits = 2]
            n == IF c.number THEN e ELSE [e EXCEPT !.digits = 0, !.minus = FALSE]
            p == IF c.prgm_mode /\ (c.command_entry \/ c.alpha_entry) THEN n ELSE [n EXCEPT !.saved_pc = 0]
            t == IF c.prgm_mode /\ c.alpha_entry THEN p ELSE [p EXCEPT !.text = 0]
            g == IF c.menu["app"] \in {"VARMENU", "INTEG_PARAMS"} THEN t ELSE [t EXCEPT !.role = 0]
            r == [g EXCEPT !.arg = IF g.command_entry \/ g.pending # None THEN @ ELSE None,
                           !.section = [l \in Levels |-> IF g.menu[l] = "CATALOG" THEN @[l] ELSE "TOP"],
                           !.sticky = @ /\ g.menu["plain"] # None,
                           !.prevmenu = IF g.editing THEN @ ELSE None]
<1>1. Remembered(c) = r  BY DEF Remembered
<1>2. Record(c) /\ SameApp(c, c)  BY SameAppItself DEF Apt
<1>3. SameApp(c, e)  BY <1>2 DEF SameApp, Record, Fields
<1>. HIDE DEF e
<1>4. SameApp(c, n)  BY <1>3 DEF SameApp, Record, Fields
<1>. HIDE DEF n
<1>5. SameApp(c, p)  BY <1>4 DEF SameApp, Record, Fields
<1>. HIDE DEF p
<1>6. SameApp(c, t)  BY <1>5 DEF SameApp, Record, Fields
<1>. HIDE DEF t
<1>7. Apt(t) /\ t.menu["app"] = c.menu["app"]  BY <1>6, SameAppApt DEF SameApp
<1>8. /\ Record(g) /\ g.menu = t.menu /\ g.callback = t.callback /\ g.baseapp = t.baseapp
      /\ g.base = t.base /\ g.editing = t.editing /\ g.prevmenu = t.prevmenu
      /\ g.role = IF t.menu["app"] \in {"VARMENU", "INTEG_PARAMS"} THEN t.role ELSE 0
  BY <1>7 DEF Apt, Record, Fields
<1>. HIDE DEF g
<1>9. /\ Record(r) /\ r.menu = g.menu /\ r.callback = g.callback /\ r.baseapp = g.baseapp
      /\ r.base = g.base /\ r.editing = g.editing /\ r.role = g.role
      /\ r.prevmenu = IF g.editing THEN g.prevmenu ELSE None
  BY <1>8 DEF Record, Fields
<1>. HIDE DEF r
<1>10. Fresh(r)  BY <1>7, <1>8, <1>9 DEF Fresh, Apt, Fits
<1>. QED  BY <1>1, <1>10

-----------------------------------------------------------------------------
\* Init shows no menu.
LEMMA InitFresh == Init => Fresh(k)
<1>. SUFFICES ASSUME Init PROVE Fresh(k)  OBVIOUS
<1>1. Record(k) /\ k.menu["app"] = None /\ k.callback = 0 /\ ~k.baseapp /\ k.base = 10 /\ k.role = 0
      /\ ~k.editing /\ k.prevmenu = None
  BY LevelsAreFive DEF Init, Record, Fields, FiveLevels
<1>. QED  BY <1>1 DEF Fresh, Apt, Fits, EditMenus, BaseMenus, None

\* Every step ends in a state that is remembered.
LEMMA BecomesFresh == ASSUME NEW s, Apt(s), NEW n, Becomes(s, n) PROVE Fresh(k')
BY RememberedFresh DEF Becomes

LEMMA NextFresh == ASSUME Fresh(k), [Next]_vars PROVE Fresh(k')
<1>1. Fresh(now) /\ Apt(now)
  <2>1. SameApp(k, now)  BY DEF now, Fresh, Apt, SameApp, Record, Fields
  <2>. QED  BY <2>1, SameAppFresh DEF Fresh
<1>2. CASE Keydown
  <2>1. PICK p \in Presses : \E s \in keydown(now, p[1], p[2]) : \E n : Becomes(s, n)
    BY <1>2 DEF Keydown
  <2>2. PICK s \in keydown(now, p[1], p[2]) : \E n : Becomes(s, n)  BY <2>1
  <2>3. Apt(s)  BY <1>1, KeydownApt
  <2>. QED  BY <2>2, <2>3, BecomesFresh
<1>3. CASE Stop
  <2>1. \A c : Apt(redisplay(Pend([now EXCEPT !.running = FALSE], c, None)))
    BY <1>1, FieldsApt, PendApt, RedisplayApt
  <2>. QED  BY <1>3, <2>1, BecomesFresh DEF Stop
<1>4. CASE Keyup
  BY <1>1, <1>4, KeyupApt, BecomesFresh DEF Keyup
<1>5. CASE HeldTooLong
  BY <1>1, <1>5, TimersApt, BecomesFresh DEF HeldTooLong
<1>6. CASE Lingered
  BY <1>1, <1>6, TimersApt, BecomesFresh DEF Lingered
<1>7. CASE RunLine
  <2>1. Apt(redisplay([now EXCEPT !.running = FALSE]))  BY <1>1, FieldsApt, RedisplayApt
  <2>. QED  BY <1>1, <1>7, <2>1, LineApt, BecomesFresh DEF RunLine
<1>8. CASE Powercycle
  BY <1>1, <1>8, PowercycleApt, BecomesFresh DEF Powercycle
<1>9. CASE Undefined \/ UNCHANGED vars
  BY <1>9 DEF Undefined, vars
<1>. QED  BY <1>2, <1>3, <1>4, <1>5, <1>6, <1>7, <1>8, <1>9 DEF Next

AppmenuInv == Fresh(k)

THEOREM AppmenuInvAlways == Spec => []AppmenuInv
<1>1. Init => AppmenuInv  BY InitFresh DEF AppmenuInv
<1>2. AppmenuInv /\ [Next]_vars => AppmenuInv'  BY NextFresh DEF AppmenuInv
<1>. QED  BY <1>1, <1>2, PTL DEF Spec

\* appmenu_exitcallback, matedit_mode, baseapp and varmenu_role always fit the application
\* menu that shows: whatever replaces it, the editor is never left without its menu, nor
\* its menu without the editor.
THEOREM CallbackAlwaysFits == Spec => []CallbackFits
<1>1. AppmenuInv => CallbackFits  BY DEF AppmenuInv, Fresh, Apt, Fits, CallbackFits
<1>. QED  BY <1>1, AppmenuInvAlways, PTL

\* The menu A...F never shows in another base than 16.
THEOREM HexKeysAlwaysMeanHex == Spec => []HexKeysMeanHex
<1>1. AppmenuInv => HexKeysMeanHex  BY DEF AppmenuInv, Fresh, Apt, HexKeysMeanHex
<1>. QED  BY <1>1, AppmenuInvAlways, PTL

-----------------------------------------------------------------------------
(***************************************************************************)
(* The modes.  Where CLALL can be asked for by its name the question stays *)
(* in front of a menu of the command entry, and remains when the power     *)
(* comes back with flag 11 set; what is said of menus and of the question  *)
(* is said of the other instances.                                         *)
(***************************************************************************)
Asked == "CLALLa" \in Commands

\* The commands that are pending without being executed.
Passive == {None, "LINGER1", "LINGER2", "CANCELLED", "NULL", "SILENT_OFF"}

Shape(c) == Record(c) /\ c.callback \in {0, 1, 2, 3, 4, 5}

\* The modes stay what they are; the menus of commands and of ALPHA are left, or stay.
Calm(c, d) ==
    /\ Shape(d)
    /\ d.menu["alpha"] \in {c.menu["alpha"], None} /\ d.menu["command"] \in {c.menu["command"], None}
    /\ d.command_entry = c.command_entry /\ d.number = c.number /\ d.alpha_entry = c.alpha_entry
    /\ d.clall = c.clall /\ d.getkey = c.getkey /\ d.running = c.running
    /\ d.alpha_mode = c.alpha_mode /\ d.pending = c.pending

ModeFields ==
    {"command_entry", "number", "alpha_entry", "clall", "getkey", "running", "alpha_mode", "pending"}

LEMMA CalmChain == ASSUME NEW c, NEW d, NEW e, Calm(c, d), Calm(d, e) PROVE Calm(c, e)
BY DEF Calm

LEMMA CalmShape == ASSUME NEW c, NEW d, Calm(c, d) PROVE Shape(d)
BY DEF Calm

LEMMA CalmItself == ASSUME NEW c, Shape(c) PROVE Calm(c, c)
BY DEF Calm

\* The fields that are neither modes nor menus.
LEMMA FieldCalm ==
    ASSUME NEW c, Shape(c), NEW f \in Fields \ (ModeFields \cup {"menu", "callback"}), NEW v
    PROVE  Calm(c, [c EXCEPT ![f] = v])
BY DEF Calm, Shape, Record, Fields, ModeFields

\* Only the application menu remains.
LEMMA BareCalm ==
    ASSUME NEW c, NEW d, Shape(d), \A l \in FiveLevels \ {"app"} : d.menu[l] = None,
           \A f \in ModeFields : d[f] = c[f]
    PROVE  Calm(c, d)
BY DEF Calm, FiveLevels, ModeFields

LEMMA AppCalm ==
    ASSUME NEW c, Record(c), NEW m, NEW n \in {0, 1, 2, 3, 4, 5}
    PROVE  Calm(c, App(c, m, n))
<1>. DEFINE d == App(c, m, n)
<1>1. /\ Record(d) /\ d.callback = n /\ \A l \in FiveLevels \ {"app"} : d.menu[l] = None
      /\ \A f \in Fields \ {"menu", "callback"} : d[f] = c[f]
  BY AppRecord
<1>. HIDE DEF d
<1>2. ModeFields \subseteq Fields \ {"menu", "callback"}  BY DEF ModeFields, Fields
<1>3. Calm(c, d)  BY <1>1, <1>2, BareCalm DEF Shape
<1>. QED  BY <1>3 DEF d

LEMMA SetBaseCalm == ASSUME NEW c, Shape(c), NEW b PROVE Calm(c, set_base(c, b))
<1>. DEFINE e == [c EXCEPT !.base = b]
<1>1. Calm(c, e)  BY FieldCalm DEF Fields, ModeFields
<1>2. set_base(c, b) \in {App(e, "BASE", 2), App(e, "BASE", 0), e}  BY DEF set_base
<1>. HIDE DEF e
<1>3. Calm(e, App(e, "BASE", 2)) /\ Calm(e, App(e, "BASE", 0))  BY <1>1, AppCalm DEF Calm, Shape
<1>. QED  BY <1>1, <1>2, <1>3, CalmChain

LEMMA AppmenuCalm ==
    ASSUME NEW c, Shape(c), NEW m, NEW x \in BOOLEAN
    PROVE  Calm(c, set_appmenu(c, m, x))
<1>. DEFINE s == [App(c, "CATALOG", 0) EXCEPT !.section["app"] = "PGM_SOLVE"]
            i == [App(c, "CATALOG", 0) EXCEPT !.section["app"] = "PGM_INTEG"]
            v == [App(c, "VARMENU", 4) EXCEPT !.role = 2]
            p == IF m = None /\ ~x THEN c.prevmenu ELSE m
<1>1. set_appmenu(c, m, x) \in {App(c, m, 0), App(c, m, 1), App(c, m, 2), s, i, v, EditorLeftFor(c, p),
                                BaseLeftFor(c, m)}
  <2>1. Told(c) \in {0, 1, 2, 3, 4, 5}  BY DEF Told, Shape
  <2>2. /\ Told(c) = 0 => set_appmenu(c, m, x) = App(c, m, 0)
        /\ Told(c) = 1 => set_appmenu(c, m, x) \in {App(c, m, 1), EditorLeftFor(c, p)}
        /\ Told(c) = 2 => set_appmenu(c, m, x) \in {App(c, m, 2), BaseLeftFor(c, m)}
        /\ Told(c) = 3 => set_appmenu(c, m, x) \in {s, App(c, m, 0)}
        /\ Told(c) = 4 => set_appmenu(c, m, x) \in {i, App(c, m, 0)}
        /\ Told(c) = 5 => set_appmenu(c, m, x) \in {v, App(c, m, 0)}
    BY DEF set_appmenu, Told, appmenu_exitcallback_1, appmenu_exitcallback_2, appmenu_exitcallback_3,
           appmenu_exitcallback_4, appmenu_exitcallback_5, ToPrograms, EditorLeftFor, BaseLeftFor
  <2>. HIDE DEF s, i, v, p
  <2>. QED  BY <2>1, <2>2
<1>2. Record(c)  BY DEF Shape
<1>3. \A y : Calm(c, App(c, y, 0)) /\ Calm(c, App(c, y, 1)) /\ Calm(c, App(c, y, 2)) /\ Calm(c, App(c, y, 4))
  BY <1>2, AppCalm
<1>4. \A d, y : Calm(c, d) => /\ Calm(c, [d EXCEPT !.section["app"] = y])
                              /\ Calm(c, [d EXCEPT !.role = y])
  BY FieldCalm, CalmChain DEF Calm, Shape, Record, Fields, ModeFields
<1>5. Calm(c, s) /\ Calm(c, i) /\ Calm(c, v)  BY <1>3, <1>4
<1>6. ModeFields \subseteq Fields \ {"menu", "callback", "editing", "baseapp", "base"}
  BY DEF ModeFields, Fields
<1>7. Calm(c, EditorLeftFor(c, p))
  <2>. DEFINE d == EditorLeftFor(c, p)
  <2>1. /\ Record(d) /\ d.callback = 0 /\ \A l \in FiveLevels \ {"app"} : d.menu[l] = None
        /\ \A f \in Fields \ {"menu", "callback", "editing"} : d[f] = c[f]
    BY <1>2, EditorLeft
  <2>. HIDE DEF d
  <2>2. Calm(c, d)  BY <1>6, <2>1, BareCalm DEF Shape
  <2>. QED  BY <2>2 DEF d
<1>8. Calm(c, BaseLeftFor(c, m))
  <2>. DEFINE d == BaseLeftFor(c, m)
  <2>1. /\ Record(d) /\ d.callback = 0 /\ \A l \in FiveLevels \ {"app"} : d.menu[l] = None
        /\ \A f \in Fields \ {"menu", "callback", "baseapp", "base"} : d[f] = c[f]
    BY <1>2, BaseLeft
  <2>. HIDE DEF d
  <2>2. Calm(c, d)  BY <1>6, <2>1, BareCalm DEF Shape
  <2>. QED  BY <2>2 DEF d
<1>. HIDE DEF s, i, v, p
<1>. QED  BY <1>1, <1>3, <1>5, <1>7, <1>8

LEMMA ShowModes ==
    ASSUME NEW c, Shape(c), NEW l \in FiveLevels \ {"app"}, NEW m
    PROVE  LET d == Show(c, l, m)
           IN  /\ Shape(d) /\ \A f \in ModeFields : d[f] = c[f]
               /\ d.menu["command"] = IF l = "command" THEN m ELSE None
               /\ d.menu["alpha"] = IF l = "command" THEN c.menu["alpha"]
                                    ELSE IF l = "alpha" THEN m ELSE None
<1>. DEFINE d == Show(c, l, m)
<1>1. /\ Record(d) /\ \A f \in Fields \ {"menu"} : d[f] = c[f]
      /\ \A n \in FiveLevels : d.menu[n] = IF n = l THEN m
                                           ELSE IF n \in InFront[l] THEN None ELSE c.menu[n]
  BY ShowRecord DEF Shape
<1>. HIDE DEF d
<1>2. ModeFields \cup {"callback"} \subseteq Fields \ {"menu"}  BY DEF ModeFields, Fields
<1>3. "command" \in FiveLevels /\ "alpha" \in FiveLevels /\ l \in {"command", "alpha", "transient", "plain"}
  BY DEF FiveLevels
<1>4. d.menu["command"] = IF l = "command" THEN m ELSE None
  <2>1. l # "command" => "command" \in InFront[l]  BY <1>3, LevelsInFront
  <2>. QED  BY <1>1, <1>3, <2>1
<1>5. d.menu["alpha"] = IF l = "command" THEN c.menu["alpha"] ELSE IF l = "alpha" THEN m ELSE None
  <2>1. /\ l = "command" => "alpha" \notin InFront[l]
        /\ l \in {"transient", "plain"} => "alpha" \in InFront[l]
    BY LevelsInFront
  <2>. QED  BY <1>1, <1>3, <2>1
<1>6. Shape(d) /\ \A f \in ModeFields : d[f] = c[f]  BY <1>1, <1>2 DEF Shape
<1>. QED  BY <1>4, <1>5, <1>6 DEF d

LEMMA ShowCalm ==
    ASSUME NEW c, Shape(c), NEW l \in FiveLevels \ {"app"}, NEW m,
           l \in {"command", "alpha"} => m = None
    PROVE  Calm(c, Show(c, l, m))
<1>. DEFINE d == Show(c, l, m)
<1>1. /\ Shape(d) /\ \A f \in ModeFields : d[f] = c[f]
      /\ d.menu["command"] = IF l = "command" THEN m ELSE None
      /\ d.menu["alpha"] = IF l = "command" THEN c.menu["alpha"] ELSE IF l = "alpha" THEN m ELSE None
  BY ShowModes
<1>. HIDE DEF d
<1>2. Calm(c, d)  BY <1>1 DEF Calm, ModeFields
<1>. QED  BY <1>2 DEF d

LEMMA DisplayCalm ==
    ASSUME NEW c, Shape(c)
    PROVE  /\ Calm(c, display_error(c)) /\ \A s : Calm(c, set_cat_section(c, s))
           /\ Calm(c, redisplay(c))
<1>1. Calm(c, display_error(c))
  BY DEF display_error, Calm, Shape, Record, Fields
<1>2. \A s : Calm(c, set_cat_section(c, s))
  BY DEF set_cat_section, Calm, Shape, Record, Fields
<1>3. Calm(c, draw_catalog(c))  BY <1>2, CalmItself DEF draw_catalog
<1>4. Calm(c, draw_varmenu(c))  BY AppmenuCalm, CalmItself DEF draw_varmenu
<1>. QED  BY <1>1, <1>2, <1>3, <1>4, CalmItself DEF redisplay

LEMMA SetMenuCalm ==
    ASSUME NEW c, Shape(c), NEW l \in {"transient", "plain", "app"}, NEW m
    PROVE  Calm(c, set_menu(c, l, m))
<1>1. CASE l # "app"
  BY <1>1, ShowCalm DEF set_menu, set_menu_return_err, FiveLevels
<1>2. CASE l = "app"
  <2>1. set_menu(c, l, m) \in {display_error(c), set_appmenu(c, m, FALSE)}
    BY <1>2 DEF set_menu, set_menu_return_err
  <2>. QED  BY <2>1, DisplayCalm, AppmenuCalm
<1>. QED  BY <1>1, <1>2

LEMMA PlainmenuCalm == ASSUME NEW c, Shape(c), NEW m PROVE Calm(c, set_plainmenu(c, m))
<1>. DEFINE menu == [l \in Levels |-> IF l \in InFront["plain"] THEN None ELSE c.menu[l]]
            bare == [c EXCEPT !.menu = menu]
            b == [bare EXCEPT !.sticky = TRUE]
            d == [bare EXCEPT !.menu["plain"] = m, !.sticky = TRUE]
            e == [bare EXCEPT !.menu["plain"] = m, !.sticky = FALSE,
                              !.section["plain"] = IF m = "CATALOG" THEN "TOP" ELSE @]
<1>1. Calm(c, bare)
  <2>1. DOMAIN menu = FiveLevels /\ menu["alpha"] = None /\ menu["command"] = None
    BY LevelsAreFive, LevelsInFront DEF FiveLevels
  <2>. HIDE DEF menu
  <2>. QED  BY <2>1 DEF Calm, Shape, Record, Fields
<1>2. set_plainmenu(c, m) \in {b, redisplay(d), redisplay(e)}
  BY Zenon DEF set_plainmenu
<1>. HIDE DEF bare
<1>3. Calm(bare, b) /\ Calm(bare, d) /\ Calm(bare, e)
  BY <1>1 DEF Calm, Shape, Record, Fields, FiveLevels
<1>. HIDE DEF b, d, e
<1>4. Calm(c, b) /\ Calm(c, d) /\ Calm(c, e)  BY <1>1, <1>3, CalmChain
<1>5. Calm(d, redisplay(d)) /\ Calm(e, redisplay(e))  BY <1>4, DisplayCalm DEF Calm
<1>. QED  BY <1>2, <1>4, <1>5, CalmChain

LEMMA CatalogUpdateCalm == ASSUME NEW c, Shape(c) PROVE Calm(c, update_catalog(c))
<1>. DEFINE l == FrontLevel(c)
            d == [c EXCEPT !.menu[l] = None]
<1>1. Calm(c, d)  BY DEF Calm, Shape, Record, Fields, FiveLevels
<1>2. update_catalog(c) \in {c, set_cat_section(c, "TOP"), redisplay(d), redisplay(display_error(d)),
                             draw_catalog(c)}
  BY Zenon DEF update_catalog
<1>. HIDE DEF d
<1>3. \A e : Shape(e) => Calm(e, redisplay(e)) /\ Calm(e, display_error(e))  BY DisplayCalm
<1>4. Calm(c, display_error(d)) /\ Calm(d, redisplay(d))  BY <1>1, <1>3, CalmChain DEF Calm
<1>5. Calm(c, redisplay(display_error(d)))  BY <1>3, <1>4, CalmChain DEF Calm
<1>6. Calm(c, draw_catalog(c))  BY DisplayCalm, CalmItself DEF draw_catalog
<1>. QED  BY <1>1, <1>2, <1>4, <1>5, <1>6, CalmItself, CalmChain, DisplayCalm

LEMMA StoreCalm ==
    ASSUME NEW c, Shape(c), NEW x
    PROVE  /\ Calm(c, store_command(c, x)) /\ Calm(c, store_command_after(c, x))
           /\ Calm(c, sst(c)) /\ Calm(c, bst(c)) /\ Calm(c, LineDeleted(c))
<1>1. Calm(c, store_command(c, x)) /\ Calm(c, store_command_after(c, x))
  BY DEF store_command_after, store_command, Calm, Shape, Record, Fields
<1>2. Calm(c, sst(c)) /\ Calm(c, bst(c)) /\ Calm(c, LineDeleted(c))
  BY DEF sst, bst, LineDeleted, Calm, Shape, Record, Fields
<1>. QED  BY <1>1, <1>2

-----------------------------------------------------------------------------
(***************************************************************************)
(* The states between the steps of a key: no entry but perhaps that of a   *)
(* command goes on (Still), none (Shut), that of a command (Open), the     *)
(* question of CLALL is asked (Asks).                                      *)
(***************************************************************************)
Still(c) ==
    /\ Shape(c) /\ ~c.number /\ ~c.alpha_entry /\ ~c.getkey /\ ~c.clall /\ ~c.running
    /\ c.menu["alpha"] # None => c.alpha_mode

Shut(c) == Still(c) /\ ~c.command_entry /\ (Asked \/ c.menu["command"] = None)
Open(c) == Still(c) /\ c.command_entry /\ c.pending \in Passive
Asks(c) ==
    /\ Asked /\ Shape(c) /\ c.clall /\ ~c.command_entry /\ ~c.number /\ ~c.alpha_entry /\ ~c.getkey
    /\ ~c.running /\ c.pending = None
    /\ c.menu["alpha"] # None => c.alpha_mode

Settled(c) == Shut(c) \/ Open(c)
Ended(c) == Settled(c) \/ Asks(c)

LEMMA StatesShape ==
    ASSUME NEW c
    PROVE  /\ Still(c) => Shape(c)
           /\ Shut(c) => Still(c) /\ Shape(c) /\ ~c.command_entry
           /\ Open(c) => Still(c) /\ Shape(c) /\ c.command_entry
           /\ Settled(c) => Shape(c)
           /\ Ended(c) => Shape(c)
BY DEF Ended, Settled, Asks, Open, Shut, Still

LEMMA CalmKeeps ==
    ASSUME NEW c, NEW d, Calm(c, d)
    PROVE  /\ Still(c) => Still(d)
           /\ Shut(c) => Shut(d)
           /\ Open(c) => Open(d)
           /\ Settled(c) => Settled(d)
           /\ Asks(c) => Asks(d)
           /\ Ended(c) => Ended(d)
<1>1. Still(c) => Still(d)  BY DEF Still, Calm
<1>2. (Shut(c) => Shut(d)) /\ (Open(c) => Open(d))  BY <1>1 DEF Shut, Open, Calm
<1>3. Asks(c) => Asks(d)  BY DEF Asks, Calm
<1>. QED  BY <1>1, <1>2, <1>3 DEF Settled, Ended

LEMMA RedisplayKeeps ==
    ASSUME NEW c, Shape(c)
    PROVE  LET d == redisplay(c)
           IN  /\ Shape(d) /\ (Still(c) => Still(d)) /\ (Shut(c) => Shut(d)) /\ (Open(c) => Open(d))
               /\ (Settled(c) => Settled(d)) /\ (Asks(c) => Asks(d)) /\ (Ended(c) => Ended(d))
BY DisplayCalm, CalmKeeps DEF Calm

\* How an entry goes on.
LEMMA PendKeeps ==
    ASSUME NEW c, NEW p, NEW a
    PROVE  /\ Shape(c) => Shape(Pend(c, p, a))
           /\ Still(c) => Still(Pend(c, p, a))
           /\ Shut(c) => Shut(Pend(c, p, a))
           /\ Open(c) /\ p \in Passive => Open(Pend(c, p, a))
<1>1. Shape(c) => /\ Shape(Pend(c, p, a)) /\ Pend(c, p, a).menu = c.menu /\ Pend(c, p, a).pending = p
                  /\ \A f \in ModeFields \ {"pending"} : Pend(c, p, a)[f] = c[f]
  BY DEF Pend, Shape, Record, Fields, ModeFields
<1>2. Still(c) => Still(Pend(c, p, a))  BY <1>1 DEF Still, ModeFields
<1>. QED  BY <1>1, <1>2 DEF Shut, Open, Still, ModeFields

LEMMA PendingKeeps ==
    ASSUME NEW c, NEW p
    PROVE  /\ Still(c) => Still([c EXCEPT !.pending = p]) /\ [c EXCEPT !.pending = p].pending = p
           /\ Shut(c) => Shut([c EXCEPT !.pending = p])
           /\ Open(c) /\ p \in Passive => Open([c EXCEPT !.pending = p])
<1>. DEFINE d == [c EXCEPT !.pending = p]
<1>1. Shape(c) => /\ Shape(d) /\ d.menu = c.menu /\ d.pending = p
                  /\ \A f \in ModeFields \ {"pending"} : d[f] = c[f]
  BY DEF Shape, Record, Fields, ModeFields
<1>. HIDE DEF d
<1>2. Still(c) => Still(d) /\ d.pending = p  BY <1>1 DEF Still, ModeFields
<1>3. (Shut(c) => Shut(d)) /\ (Open(c) /\ p \in Passive => Open(d))
  BY <1>1, <1>2 DEF Shut, Open, Still, ModeFields
<1>. QED  BY <1>2, <1>3 DEF d

\* The entry of a command is left as it is (not settled): its menu may still show.
LEMMA EntryLeftStill ==
    ASSUME NEW c, Still(c)
    PROVE  LET d == [c EXCEPT !.command_entry = FALSE]
           IN  Still(d) /\ ~d.command_entry /\ d.menu = c.menu /\ d.pending = c.pending
<1>. DEFINE d == [c EXCEPT !.command_entry = FALSE]
<1>1. /\ Shape(d) /\ d.menu = c.menu /\ ~d.command_entry
      /\ \A f \in ModeFields \ {"command_entry"} : d[f] = c[f]
  BY DEF Still, Shape, Record, Fields, ModeFields
<1>. HIDE DEF d
<1>2. Still(d) /\ d.pending = c.pending  BY <1>1 DEF Still, ModeFields
<1>. QED  BY <1>1, <1>2 DEF d

LEMMA CommandMenuModes ==
    ASSUME NEW c, NEW m
    PROVE  /\ Still(c) => Still(Show(c, "command", m)) /\ Still([c EXCEPT !.menu["command"] = m])
           /\ Open(c) => Open(Show(c, "command", m)) /\ Open([c EXCEPT !.menu["command"] = m])
           /\ Still(c) => Show(c, "command", m).menu["command"] = m
                          /\ Show(c, "command", m).command_entry = c.command_entry
                          /\ Show(c, "command", m).pending = c.pending
<1>. DEFINE d == Show(c, "command", m)
            e == [c EXCEPT !.menu["command"] = m]
<1>1. Shape(c) => /\ Shape(d) /\ \A f \in ModeFields : d[f] = c[f]
                  /\ d.menu["command"] = m /\ d.menu["alpha"] = c.menu["alpha"]
  BY ShowModes DEF FiveLevels
<1>2. Shape(c) => /\ Shape(e) /\ \A f \in ModeFields : e[f] = c[f]
                  /\ e.menu["alpha"] = c.menu["alpha"]
  BY DEF Shape, Record, Fields, FiveLevels, ModeFields
<1>. HIDE DEF d, e
<1>3. Still(c) => Still(d) /\ Still(e)  BY <1>1, <1>2 DEF Still, ModeFields
<1>4. Open(c) => Open(d) /\ Open(e)  BY <1>1, <1>2, <1>3 DEF Open, Still, ModeFields
<1>5. Still(c) => d.menu["command"] = m /\ d.command_entry = c.command_entry /\ d.pending = c.pending
  BY <1>1 DEF Still, ModeFields
<1>. QED  BY <1>3, <1>4, <1>5 DEF d, e

\* A change of fields that are neither modes nor menus.
LEMMA FieldsCalm ==
    ASSUME NEW c, Shape(c), NEW v
    PROVE  /\ Calm(c, [c EXCEPT !.local_label = v]) /\ Calm(c, [c EXCEPT !.pc = v])
           /\ Calm(c, [c EXCEPT !.saved_pc = v]) /\ Calm(c, [c EXCEPT !.alpha = v])
           /\ Calm(c, [c EXCEPT !.length = v]) /\ Calm(c, [c EXCEPT !.fault = v])
           /\ Calm(c, [c EXCEPT !.leaving = v]) /\ Calm(c, [c EXCEPT !.sticky = v])
           /\ Calm(c, [c EXCEPT !.command = v]) /\ Calm(c, [c EXCEPT !.minus = v])
           /\ Calm(c, [c EXCEPT !.text = v]) /\ Calm(c, [c EXCEPT !.message = v])
           /\ Calm(c, [c EXCEPT !.storable = v]) /\ Calm(c, [c EXCEPT !.varmenu_active = v])
           /\ Calm(c, [c EXCEPT !.prgm_mode = v]) /\ Calm(c, [c EXCEPT !.stored = v])
           /\ Calm(c, [c EXCEPT !.vars = v]) /\ Calm(c, [c EXCEPT !.mvars = v])
           /\ Calm(c, [c EXCEPT !.lines = v]) /\ Calm(c, [c EXCEPT !.role = v])
<1>1. {"local_label", "pc", "saved_pc", "alpha", "length", "fault", "leaving", "sticky", "command",
       "minus", "text", "message", "storable", "varmenu_active", "prgm_mode", "stored", "vars", "mvars",
       "lines", "role"}
         \subseteq Fields \ (ModeFields \cup {"menu", "callback"})
  BY DEF Fields, ModeFields
<1>. QED  BY <1>1, FieldCalm

LEMMA CatalogMenuModes ==
    ASSUME NEW c, Still(c), NEW s
    PROVE  LET d == set_catalog_menu(c, s)
           IN  /\ Still(d) /\ d.command_entry = c.command_entry /\ d.pending = c.pending
               /\ Open(c) => Open(d)
<1>. DEFINE d == [c EXCEPT !.menu["command"] = "CATALOG", !.section["command"] = s]
            e == [d EXCEPT !.menu["command"] = None]
<1>1. /\ Shape(d) /\ \A f \in ModeFields : d[f] = c[f]
      /\ d.menu["alpha"] = c.menu["alpha"]
  BY DEF Still, Shape, Record, Fields, FiveLevels, ModeFields
<1>2. set_catalog_menu(c, s) \in {d, e}  BY DEF set_catalog_menu
<1>. HIDE DEF d
<1>3. /\ Shape(e) /\ \A f \in ModeFields : e[f] = c[f]
      /\ e.menu["alpha"] = c.menu["alpha"]
  BY <1>1 DEF Shape, Record, Fields, FiveLevels, ModeFields
<1>. HIDE DEF e
<1>4. Still(d) /\ Still(e)  BY <1>1, <1>3 DEF Still, ModeFields
<1>5. Open(c) => Open(d) /\ Open(e)  BY <1>1, <1>3, <1>4 DEF Open, ModeFields
<1>6. /\ d.command_entry = c.command_entry /\ d.pending = c.pending
      /\ e.command_entry = c.command_entry /\ e.pending = c.pending
  BY <1>1, <1>3 DEF ModeFields
<1>. QED  BY <1>2, <1>4, <1>5, <1>6

LEMMA VariableMenuOpen == ASSUME NEW c, Open(c), NEW s PROVE Open(VariableMenu(c, s))
BY CatalogMenuModes, CommandMenuModes DEF VariableMenu, Open

\* A command that needs a variable is not begun when there is none.
LEMMA EntryMenuSettled ==
    ASSUME NEW s, Open(s), NEW x
    PROVE  /\ s.argtype \notin {"RVAR", "MAT"} => Open(EntryMenu(s, x))
           /\ Asked \/ s.menu["command"] = None => Settled(EntryMenu(s, x))
<1>. DEFINE e == [s EXCEPT !.command_entry = FALSE]
            a == [set_catalog_menu(s, "TOP") EXCEPT !.local_label = FALSE]
<1>1. Open(a)
  <2>1. Open(set_catalog_menu(s, "TOP"))  BY CatalogMenuModes DEF Open
  <2>. QED  BY <2>1, FieldsCalm, CalmKeeps DEF Open, Still
<1>2. Asked \/ s.menu["command"] = None => Shut(display_error(e))
  <2>1. Still(e) /\ ~e.command_entry /\ e.menu = s.menu  BY EntryLeftStill DEF Open
  <2>. HIDE DEF e
  <2>2. Asked \/ s.menu["command"] = None => Shut(e)  BY <2>1 DEF Shut
  <2>3. Calm(e, display_error(e))  BY <2>1, DisplayCalm DEF Still
  <2>. QED  BY <2>2, <2>3, CalmKeeps
<1>3. \A m : Open(Show(s, "command", m)) /\ Open(set_catalog_menu(s, m)) /\ Open(VariableMenu(s, m))
             /\ Open([s EXCEPT !.menu["command"] = m])
  BY CommandMenuModes, CatalogMenuModes, VariableMenuOpen DEF Open
<1>. DEFINE menus == {a, s, Show(s, "command", "CUSTOM1"), Show(s, "command", "BLANK"),
                      VariableMenu(s, "VARS_ONLY"), set_catalog_menu(s, "VARS_ONLY"),
                      VariableMenu(s, "REAL_ONLY"), set_catalog_menu(s, "REAL_ONLY"),
                      [s EXCEPT !.menu["command"] = "ALPHA1"], set_catalog_menu(s, "MAT_ONLY"),
                      set_catalog_menu(s, "PGM_ONLY"), Show(s, "command", "ALPHA1")}
<1>4. EntryMenu(s, x) \in menus \cup {display_error(e)}  BY Zenon DEF EntryMenu
<1>5. s.argtype \notin {"RVAR", "MAT"} => EntryMenu(s, x) \in menus  BY Zenon DEF EntryMenu
<1>6. \A d \in menus : Open(d)  BY <1>1, <1>3
<1>. HIDE DEF e, menus
<1>. QED  BY <1>2, <1>4, <1>5, <1>6 DEF Settled

LEMMA StartsSettled ==
    ASSUME NEW c, Still(c), c.pending \in Passive, NEW x
    PROVE  /\ Shut(c) => Settled(start_incomplete_command(c, x))
           /\ argtype(x) \notin {"RVAR", "MAT"} /\ x \notin ProgramOnly
              => Open(start_incomplete_command(c, x))
<1>. DEFINE t == argtype(x)
            s == Incomplete(c, x, t)
            m == EntryMenu(s, x)
<1>1. Open(s) /\ s.menu = c.menu /\ s.argtype = t
  <2>1. /\ Shape(s) /\ s.menu = c.menu /\ s.argtype = t /\ s.command_entry
        /\ \A f \in ModeFields \ {"command_entry"} : s[f] = c[f]
    BY DEF Incomplete, Still, Shape, Record, Fields, ModeFields
  <2>. HIDE DEF s
  <2>2. Still(s)  BY <2>1 DEF Still, ModeFields
  <2>. QED  BY <2>1, <2>2 DEF Open, ModeFields
<1>2. start_incomplete_command(c, x) =
          redisplay(IF ~c.prgm_mode /\ x \in ProgramOnly THEN display_error(c) ELSE m)
  BY DEF start_incomplete_command
<1>. HIDE DEF s, t
<1>3. /\ t \notin {"RVAR", "MAT"} => Open(m)
      /\ Shut(c) => Settled(m)
  <2>1. Shut(c) => Asked \/ s.menu["command"] = None  BY <1>1 DEF Shut
  <2>. QED  BY <1>1, <2>1, EntryMenuSettled
<1>. HIDE DEF m
<1>4. Shut(c) => Settled(display_error(c))
  BY DisplayCalm, CalmKeeps DEF Still, Settled
<1>5. /\ Shut(c) => Settled(start_incomplete_command(c, x))
      /\ t \notin {"RVAR", "MAT"} /\ x \notin ProgramOnly => Open(start_incomplete_command(c, x))
  <2>1. \A d : (Settled(d) => Settled(redisplay(d))) /\ (Open(d) => Open(redisplay(d)))
    BY RedisplayKeeps DEF Settled, Shut, Open, Still
  <2>. QED  BY <1>2, <1>3, <1>4, <2>1
<1>. QED  BY <1>5 DEF t

LEMMA InteractiveEnded ==
    ASSUME NEW c, Shut(c), c.pending = None, NEW x, x = "CLALLa" => Asked
    PROVE  Ended(do_interactive(c, x))
<1>. DEFINE a == [c EXCEPT !.clall = TRUE]
            e == [c EXCEPT !.saved_pc = c.pc, !.pc = NextLine(c)]
            f == [c EXCEPT !.saved_pc = IF c.prgm_mode THEN c.pc ELSE @]
            b == set_menu(set_base(c, 16), "app", "A_THRU_F")
<1>1. Shape(c) /\ Still(c)  BY DEF Shut, Still
<1>2. Calm(c, b)
  <2>1. Calm(c, set_base(c, 16))  BY <1>1, SetBaseCalm
  <2>2. Calm(set_base(c, 16), b)  BY <2>1, SetMenuCalm DEF Calm
  <2>. QED  BY <2>1, <2>2, CalmChain
<1>3. Asked => Asks(a)
  <2>1. Shape(a) /\ a.menu = c.menu /\ a.clall /\ \A g \in ModeFields \ {"clall"} : a[g] = c[g]
    BY <1>1 DEF Shape, Record, Fields, ModeFields
  <2>. HIDE DEF a
  <2>. QED  BY <2>1 DEF Asks, Shut, Still, ModeFields
<1>4. Calm(c, e) /\ Calm(c, f)
  BY <1>1 DEF Calm, Shape, Record, Fields
<1>5. \A y : Shut(display_error(c)) /\ Shut(sst(c)) /\ Shut(bst(c)) /\ Shut(store_command_after(c, y))
  BY <1>1, DisplayCalm, StoreCalm, CalmKeeps
<1>. HIDE DEF a, b, e, f
<1>6. Shut(b) /\ Shut(e) /\ Shut(f)  BY <1>2, <1>4, CalmKeeps
<1>7. e.pending = None /\ f.pending = None  BY <1>4 DEF Calm
<1>8. \A d, p : Shut(d) => Ended(d) /\ Ended(redisplay(d)) /\ Shut(Pend(d, p, None))
                           /\ Ended(redisplay(Pend(d, p, None)))
  BY RedisplayKeeps, PendKeeps DEF Ended, Settled, Shut, Still
<1>9. \A y : Ended(start_incomplete_command(e, y)) /\ Ended(start_incomplete_command(f, y))
  BY <1>6, <1>7, StartsSettled DEF Ended, Shut, Passive
<1>10. Asked => Ended(redisplay(a))  BY <1>3, RedisplayKeeps DEF Ended, Asks
<1>. DEFINE ends == {redisplay(display_error(c)), redisplay(b), redisplay(sst(c)), Pend(c, x, None),
                     redisplay(Pend(bst(c), IF c.prgm_mode THEN c.pending ELSE "CANCELLED", None)),
                     redisplay(store_command_after(c, IF x = "RUN" THEN "STOP" ELSE x)),
                     start_incomplete_command(e, x), start_incomplete_command(f, x)}
<1>11. do_interactive(c, x) \in ends \cup {redisplay(a)}
  BY Zenon DEF do_interactive, a, b, e, f
<1>12. x # "CLALLa" => do_interactive(c, x) \in ends
  BY Zenon DEF do_interactive, b, e, f
<1>13. \A d \in ends : Ended(d)
  BY <1>5, <1>6, <1>8, <1>9
<1>. HIDE DEF ends
<1>. QED  BY <1>10, <1>11, <1>12, <1>13

LEMMA CommandMenuShut ==
    ASSUME NEW c, Still(c), ~c.command_entry
    PROVE  Shut(Show(c, "command", None)) /\ Show(c, "command", None).pending = c.pending
<1>. DEFINE d == Show(c, "command", None)
<1>1. Still(d)  BY CommandMenuModes
<1>2. d.menu["command"] = None /\ d.command_entry = c.command_entry /\ d.pending = c.pending
  BY CommandMenuModes
<1>. HIDE DEF d
<1>3. Shut(d) /\ d.pending = c.pending  BY <1>1, <1>2 DEF Shut
<1>. QED  BY <1>3 DEF d

\* The end of an entry.
LEMMA ItNowShut == ASSUME NEW c, Still(c), ~c.command_entry PROVE Shut(do_it_now(c))
<1>. DEFINE Bare(d) == Still(d) /\ ~d.command_entry
            s == get_cat_section(c)
            l == [set_cat_section(Show(c, "transient", "CATALOG"), s) EXCEPT !.leaving = TRUE]
            a(d) == [Show(d, "plain", d.menu["command"]) EXCEPT !.sticky = TRUE]
            b(d) == Show(d, "command", None)
            e(d) == Pend(redisplay(bst(d)), "CANCELLED", None)
<1>1. \A d, f : Bare(d) /\ Calm(d, f) => Bare(f)
  <2>. TAKE d, f
  <2>1. Still(d) /\ Calm(d, f) => Still(f)  BY CalmKeeps
  <2>. QED  BY <2>1 DEF Calm
<1>2. \A d, v : Shape(d) => /\ Calm(d, set_cat_section(d, v)) /\ Calm(d, [d EXCEPT !.leaving = v])
                            /\ Calm(d, [d EXCEPT !.sticky = v])
                            /\ Calm(d, Show(d, "transient", v)) /\ Calm(d, Show(d, "plain", v))
  BY DisplayCalm, FieldsCalm, ShowCalm DEF FiveLevels
<1>3. Bare(l)
  <2>. DEFINE p == Show(c, "transient", "CATALOG")
              q == set_cat_section(p, s)
  <2>1. Calm(c, p)  BY <1>2 DEF Still
  <2>. HIDE DEF p
  <2>2. Calm(p, q)  BY <1>2, <2>1, CalmShape
  <2>. HIDE DEF q
  <2>3. Calm(q, [q EXCEPT !.leaving = TRUE])  BY <1>2, <2>2, CalmShape
  <2>4. Bare(p) /\ Bare(q)  BY <1>1, <2>1, <2>2
  <2>. QED  BY <1>1, <2>3, <2>4 DEF p, q
<1>4. \A d : Bare(d) => Bare(a(d))
  <2>. SUFFICES ASSUME NEW d, Bare(d) PROVE Bare(a(d))  OBVIOUS
  <2>. DEFINE p == Show(d, "plain", d.menu["command"])
  <2>1. Calm(d, p)  BY <1>2 DEF Still
  <2>. HIDE DEF p
  <2>2. Calm(p, [p EXCEPT !.sticky = TRUE])  BY <1>2, <2>1, CalmShape
  <2>. QED  BY <1>1, <2>1, <2>2 DEF p
<1>5. \A d : Bare(d) => Shut(b(d))
  BY CommandMenuShut
<1>6. \A d : Shut(d) => Shut(e(d))
  <2>. SUFFICES ASSUME NEW d, Shut(d) PROVE Shut(e(d))  OBVIOUS
  <2>1. Shut(bst(d))  BY StoreCalm, CalmKeeps DEF Shut, Still
  <2>2. Shut(redisplay(bst(d)))  BY <2>1, RedisplayKeeps DEF Shut, Still
  <2>. QED  BY <2>2, PendKeeps
<1>7. \E d \in {c, l} : \E f \in {d, a(d)} : do_it_now(c) \in {b(f), e(b(f))}
  BY Zenon DEF do_it_now
<1>8. Bare(c)  OBVIOUS
<1>. HIDE DEF Bare, l, a, b, e
<1>. QED  BY <1>3, <1>4, <1>5, <1>6, <1>7, <1>8

LEMMA InProgramShut == ASSUME NEW c, Shut(c) PROVE Shut(FinishesInProgram(c))
<1>. DEFINE e == [c EXCEPT !.pc = c.saved_pc]
<1>1. Shut(e)
  <2>1. Calm(c, e)  BY FieldsCalm, StatesShape
  <2>. HIDE DEF e
  <2>. QED  BY <2>1, CalmKeeps
<1>2. FinishesInProgram(c) \in {e, redisplay(Pend(sst(e), None, None)), redisplay(Pend(bst(e), None, None)),
                                do_it_now(c), redisplay(Pend(store_command(c, c.pending), None, None))}
  BY Zenon DEF FinishesInProgram
<1>. HIDE DEF e
<1>3. \A d, y : Shut(d) => /\ Shut(sst(d)) /\ Shut(bst(d)) /\ Shut(store_command(d, y))
                           /\ Shut(redisplay(Pend(d, None, None)))
  <2>. SUFFICES ASSUME NEW d, NEW y, Shut(d)
                PROVE  /\ Shut(sst(d)) /\ Shut(bst(d)) /\ Shut(store_command(d, y))
                       /\ Shut(redisplay(Pend(d, None, None)))
    OBVIOUS
  <2>1. Shape(d)  BY DEF Shut, Still
  <2>2. Shut(Pend(d, None, None))  BY PendKeeps
  <2>3. Shut(redisplay(Pend(d, None, None)))  BY <2>2, RedisplayKeeps DEF Shut, Still
  <2>. QED  BY <2>1, <2>3, StoreCalm, CalmKeeps
<1>4. Shut(do_it_now(c))  BY ItNowShut DEF Shut
<1>. QED  BY <1>1, <1>2, <1>3, <1>4

LEMMA FinishSettled ==
    ASSUME NEW c, Still(c)
    PROVE  /\ Settled(finish_command_entry(c))
           /\ c.pending # "ASSIGNa" => Shut(finish_command_entry(c))
<1>. DEFINE e == [c EXCEPT !.command_entry = FALSE]
            n == [c EXCEPT !.pending = None]
<1>1. Still(e) /\ ~e.command_entry /\ e.pending = c.pending  BY EntryLeftStill
<1>2. Open(start_incomplete_command(n, "ASSIGNb"))
  <2>1. Still(n) /\ n.pending \in Passive  BY PendingKeeps DEF Passive
  <2>. HIDE DEF n
  <2>2. argtype("ASSIGNb") = "CKEY"  BY DEF argtype, ArgType
  <2>. QED  BY <2>1, <2>2, StartsSettled DEF ProgramOnly
<1>3. finish_command_entry(c) = IF c.pending = "ASSIGNa" THEN start_incomplete_command(n, "ASSIGNb")
                                ELSE IF c.prgm_mode THEN FinishesInProgram(Show(e, "command", None))
                                ELSE do_it_now(e)
  BY DEF finish_command_entry
<1>. HIDE DEF e, n
<1>4. Shut(do_it_now(e))  BY <1>1, ItNowShut
<1>5. Shut(Show(e, "command", None))  BY <1>1, CommandMenuShut
<1>6. Shut(FinishesInProgram(Show(e, "command", None)))  BY <1>5, InProgramShut
<1>. QED  BY <1>2, <1>3, <1>4, <1>6 DEF Settled

LEMMA FinishXeqEnded == ASSUME NEW c, Still(c), NEW d \in finish_xeq(c) PROVE Ended(d)
<1>. DEFINE e == [c EXCEPT !.command_entry = FALSE, !.pending = None]
            a == [e EXCEPT !.clall = TRUE]
            b == Show(e, "command", None)
            f == [c EXCEPT !.command_entry = FALSE]
<1>1. /\ Still(e) /\ ~e.command_entry /\ e.pending = None
  <2>1. /\ Shape(e) /\ e.menu = c.menu /\ ~e.command_entry /\ e.pending = None
        /\ \A g \in ModeFields \ {"command_entry", "pending"} : e[g] = c[g]
    BY DEF Still, Shape, Record, Fields, ModeFields
  <2>. HIDE DEF e
  <2>. QED  BY <2>1 DEF Still, ModeFields
<1>2. Still(f)  BY EntryLeftStill
<1>3. \/ d = finish_command_entry(c)
      \/ "CLALLa" \in WithName /\ d = redisplay(a)
      \/ \E x : d \in {finish_command_entry(Pend(f, x, None)), redisplay(display_error(b)),
                       start_incomplete_command(b, x)}
  <2>1. CASE d = finish_command_entry(c)  BY <2>1
  <2>2. CASE \E x \in WithName :
                d = CASE x = "CLALLa" -> redisplay(a)
                      [] x # "CLALLa" /\ argtype(x) = "NONE" -> finish_command_entry(Pend(f, x, None))
                      [] OTHER -> IF x \in {"CLV", "PRV"} /\ ~c.prgm_mode /\ c.vars = {}
                                  THEN redisplay(display_error(b))
                                  ELSE start_incomplete_command(b, x)
    <3>. HIDE DEF a, b, f
    <3>. QED  BY <2>2, Zenon
  <2>. QED  BY <2>1, <2>2, Zenon DEF finish_xeq
<1>. HIDE DEF e, f
<1>4. "CLALLa" \in WithName => Asks(a)
  <2>1. Shape(a) /\ a.menu = e.menu /\ a.clall /\ \A g \in ModeFields \ {"clall"} : a[g] = e[g]
    BY <1>1 DEF Still, Shape, Record, Fields, ModeFields
  <2>. HIDE DEF a
  <2>2. "CLALLa" \in WithName => Asked  BY DEF WithName, Asked
  <2>. QED  BY <1>1, <2>1, <2>2 DEF Asks, Still, ModeFields
<1>5. Shut(b) /\ b.pending = None  BY <1>1, CommandMenuShut
<1>. HIDE DEF a, b
<1>6. \A x : Still(Pend(f, x, None))  BY <1>2, PendKeeps
<1>7. \A x : Ended(start_incomplete_command(b, x))  BY <1>5, StartsSettled DEF Ended, Shut, Passive
<1>8. Ended(redisplay(display_error(b)))
  <2>1. Shut(display_error(b))  BY <1>5, DisplayCalm, CalmKeeps DEF Shut, Still
  <2>. QED  BY <2>1, RedisplayKeeps DEF Shut, Still, Ended, Settled
<1>9. "CLALLa" \in WithName => Ended(redisplay(a))  BY <1>4, RedisplayKeeps DEF Ended, Asks
<1>. QED  BY <1>3, <1>6, <1>7, <1>8, <1>9, FinishSettled DEF Ended

-----------------------------------------------------------------------------
(***************************************************************************)
(* The keys of the entry of a command: it goes on, or ends, or the         *)
(* question of CLALL is asked.                                             *)
(***************************************************************************)

LEMMA StatesEnded ==
    ASSUME NEW c
    PROVE  /\ Open(c) \/ Shut(c) => Settled(c) /\ Ended(c)
           /\ Settled(c) \/ Asks(c) => Ended(c)
           /\ Ended(c) => Ended(redisplay(c))
           /\ Settled(c) => Settled(redisplay(c))
           /\ Open(c) => Open(redisplay(c))
           /\ Shut(c) => Shut(redisplay(c))
<1>1. /\ Open(c) \/ Shut(c) => Settled(c) /\ Ended(c)
      /\ Settled(c) \/ Asks(c) => Ended(c)
  BY DEF Ended, Settled
<1>. QED  BY <1>1, StatesShape, RedisplayKeeps

\* The fields of the argument.
LEMMA ArgumentOpen ==
    ASSUME NEW c, Open(c), NEW a, NEW b, NEW m, NEW n
    PROVE  /\ Open([c EXCEPT !.alpha = a]) /\ Open([c EXCEPT !.length = n])
           /\ Open([c EXCEPT !.fault = a]) /\ Open([c EXCEPT !.command = n])
           /\ Open([c EXCEPT !.ind = a, !.maxdigits = m]) /\ Open([c EXCEPT !.ind = a, !.alpha = b])
           /\ Open([c EXCEPT !.argtype = a, !.alpha = b])
           /\ Open([c EXCEPT !.length = n, !.alpha = b])
           /\ Open([c EXCEPT !.argtype = a, !.maxdigits = m, !.alpha = b])
           /\ Open([c EXCEPT !.command = n, !.argtype = a, !.maxdigits = m])
           /\ Open([c EXCEPT !.command = n, !.argtype = a, !.ind = b, !.maxdigits = m])
<1>. DEFINE c1 == [c EXCEPT !.ind = a, !.maxdigits = m]
            c2 == [c EXCEPT !.ind = a, !.alpha = b]
            c3 == [c EXCEPT !.argtype = a, !.alpha = b]
            c4 == [c EXCEPT !.length = n, !.alpha = b]
            c5 == [c EXCEPT !.argtype = a, !.maxdigits = m, !.alpha = b]
            c6 == [c EXCEPT !.command = n, !.argtype = a, !.maxdigits = m]
            c7 == [c EXCEPT !.command = n, !.argtype = a, !.ind = b, !.maxdigits = m]
<1>1. Shape(c)  BY StatesShape
<1>2. Calm(c, c1) /\ Calm(c, c2) /\ Calm(c, c3) /\ Calm(c, c4)
  BY <1>1 DEF Calm, Shape, Record, Fields
<1>3. Calm(c, c5) /\ Calm(c, c6) /\ Calm(c, c7)
  BY <1>1 DEF Calm, Shape, Record, Fields
<1>4. /\ Calm(c, [c EXCEPT !.alpha = a]) /\ Calm(c, [c EXCEPT !.length = n])
      /\ Calm(c, [c EXCEPT !.fault = a]) /\ Calm(c, [c EXCEPT !.command = n])
  BY <1>1, FieldsCalm
<1>5. \A d : Calm(c, d) => Open(d)  BY CalmKeeps
<1>6. /\ Open([c EXCEPT !.alpha = a]) /\ Open([c EXCEPT !.length = n])
      /\ Open([c EXCEPT !.fault = a]) /\ Open([c EXCEPT !.command = n])
  BY <1>4, <1>5
<1>. HIDE DEF c1, c2, c3, c4, c5, c6, c7
<1>7. Open(c1) /\ Open(c2) /\ Open(c3) /\ Open(c4) /\ Open(c5) /\ Open(c6) /\ Open(c7)
  BY <1>2, <1>3, <1>5
<1>. QED  BY <1>6, <1>7 DEF c1, c2, c3, c4, c5, c6, c7

\* What most keys do.
LEMMA EntrySteps ==
    ASSUME NEW c, Open(c), NEW m
    PROVE  /\ Open(Show(c, "command", m)) /\ Open(redisplay(c)) /\ Open(set_catalog_menu(c, m))
           /\ Open(set_cat_section(c, m)) /\ Open(display_error(c)) /\ Open(VariableMenu(c, m))
           /\ Shut(Nulled(c)) /\ Shut(Cancelled(c))
           /\ argtype(m) \notin {"RVAR", "MAT"} /\ m \notin ProgramOnly
                 => Open(start_incomplete_command(c, m))
           /\ \A p : Settled(finish_command_entry(Pend(c, m, p)))
           /\ Settled(finish_command_entry(Chosen(c, m)))
           /\ \A d \in Menu(c, m) : Open(d)
           /\ \A d \in Catalog(c, m) : Open(d)
           /\ \A d \in Named(c) : Ended(d)
<1>1. Still(c) /\ Shape(c) /\ c.pending \in Passive  BY StatesShape DEF Open
<1>2. Open(Show(c, "command", m)) /\ Open(VariableMenu(c, m)) /\ Open(redisplay(c))
  BY CommandMenuModes, VariableMenuOpen, StatesEnded
<1>3. Open(set_catalog_menu(c, m))  BY <1>1, CatalogMenuModes
<1>4. Open(set_cat_section(c, m)) /\ Open(display_error(c))  BY <1>1, DisplayCalm, CalmKeeps
<1>5. \A n, p : Still(Pend(c, n, p)) /\ Pend(c, n, p).pending = n
  <2>1. \A n, p : Still(Pend(c, n, p))  BY <1>1, PendKeeps
  <2>2. \A n, p : Pend(c, n, p).pending = n
    BY <1>1 DEF Pend, Shape, Record, Fields
  <2>. QED  BY <2>1, <2>2
<1>6. \A n, p : Settled(finish_command_entry(Pend(c, n, p)))  BY <1>5, FinishSettled
<1>7. Shut(Nulled(c)) /\ Shut(Cancelled(c))
  BY <1>5, FinishSettled DEF Nulled, Cancelled
<1>8. \A n : Still(Chosen(c, n)) /\ Settled(finish_command_entry(Chosen(c, n)))
  BY <1>5, <1>6 DEF Chosen
<1>9. \A d \in Named(c) : Ended(d)
  <2>1. \A d \in finish_xeq(Chosen(c, "STR")) : Ended(d)  BY <1>8, FinishXeqEnded
  <2>2. Ended(finish_command_entry(Chosen(c, "STR")))  BY <1>8, StatesEnded
  <2>. QED  BY <2>1, <2>2 DEF Named
<1>10. argtype(m) \notin {"RVAR", "MAT"} /\ m \notin ProgramOnly => Open(start_incomplete_command(c, m))
  BY <1>1, StartsSettled
<1>11. Open(redisplay(Show(c, "command", m))) /\ Open(redisplay(set_catalog_menu(c, m)))
  BY <1>2, <1>3, StatesEnded
<1>12. (\A d \in Menu(c, m) : Open(d)) /\ (\A d \in Catalog(c, m) : Open(d))
  BY <1>11 DEF Menu, Catalog
<1>. QED  BY <1>2, <1>3, <1>4, <1>6, <1>7, <1>8, <1>9, <1>10, <1>12

LEMMA StackMenuEnded == ASSUME NEW c, Open(c), NEW s, NEW x, NEW d \in StackMenu(c, s, x) PROVE Ended(d)
<1>1. Open([c EXCEPT !.ind = TRUE, !.maxdigits = 2])  BY ArgumentOpen
<1>2. Open(set_catalog_menu([c EXCEPT !.ind = TRUE, !.maxdigits = 2], "REAL_ONLY"))
  BY <1>1, EntrySteps
<1>3. Ended(redisplay(set_catalog_menu([c EXCEPT !.ind = TRUE, !.maxdigits = 2], "REAL_ONLY")))
  BY <1>2, StatesEnded
<1>4. Ended(Nulled(c)) /\ Ended(Cancelled(c)) /\ Ended(finish_command_entry(Chosen(c, "STK"))) /\ Ended(c)
  BY EntrySteps, StatesEnded
<1>. QED  BY <1>3, <1>4 DEF StackMenu

LEMMA CustomMenuEnded == ASSUME NEW c, Open(c), NEW s, NEW x, NEW d \in CustomMenu(c, s, x) PROVE Ended(d)
<1>1. /\ Ended(c) /\ Ended(Nulled(c)) /\ Ended(Cancelled(c))
      /\ Ended(finish_command_entry(Pend(c, "ASGN01", c.arg)))
  BY EntrySteps, StatesEnded
<1>2. \A m : Ended(redisplay(Show(c, "command", m)))  BY EntrySteps, StatesEnded
<1>. QED  BY <1>1, <1>2 DEF CustomMenu

LEMMA WhichKeyEnded == ASSUME NEW c, Open(c), NEW s, NEW x, NEW d \in WhichKey(c, s, x) PROVE Ended(d)
<1>1. Ended(Nulled(c)) /\ Ended(c)  BY EntrySteps, StatesEnded
<1>2. argtype("KEY1G") = "LBL" /\ argtype("KEY1X") = "LBL"  BY DEF argtype, ArgType
<1>3. Ended(start_incomplete_command(c, "KEY1G")) /\ Ended(start_incomplete_command(c, "KEY1X"))
  BY <1>2, EntrySteps, StatesEnded DEF ProgramOnly
<1>4. d \in {Nulled(c), c, start_incomplete_command(c, "KEY1G"), start_incomplete_command(c, "KEY1X")}
  BY Zenon DEF WhichKey
<1>. QED  BY <1>1, <1>3, <1>4

LEMMA CatalogKeysEnded ==
    ASSUME NEW c, Open(c), NEW s, NEW x, x \in MenuKeys \/ Arrow(s, x) \/ x = "EXIT",
           NEW d \in CatalogMenu(c, s, x)
    PROVE  Ended(d)
<1>1. Ended([c EXCEPT !.pending = "LINGER1"])  BY PendingKeeps, StatesEnded DEF Passive
<1>2. \A v : Ended(redisplay(set_cat_section(c, v)))  BY EntrySteps, StatesEnded
<1>3. /\ \A p : Ended(finish_command_entry(Pend(c, c.command, p)))
      /\ Ended(finish_command_entry(Chosen(c, "STR")))
      /\ \A e \in Named(c) : Ended(e)
      /\ Ended(redisplay(c)) /\ Ended(Cancelled(c)) /\ Ended(c)
  BY EntrySteps, StatesEnded
<1>4. Ended(finish_command_entry(IF c.command \in WithLabelIndex
                                 THEN Pend(c, c.command, "LBLINDEX")
                                 ELSE Chosen(c, "STR")))
  BY <1>3
<1>. QED  BY <1>1, <1>2, <1>3, <1>4 DEF CatalogMenu

LEMMA VariablesMenuEnded ==
    ASSUME NEW c, Open(c), NEW s, NEW x, NEW d \in VariablesMenu(c, s, x),
           x \in MenuKeys \/ x = "EXIT" \/ (Arrow(s, x) /\ c.menu["command"] = "VARMENU")
    PROVE  Ended(d)
<1>1. /\ Ended(finish_command_entry(Pend(c, c.command, "STR")))
      /\ Ended(redisplay(c)) /\ Ended(Cancelled(c)) /\ Ended(c)
  BY EntrySteps, StatesEnded
<1>. QED  BY <1>1 DEF VariablesMenu

LEMMA PointEnded == ASSUME NEW c, Open(c), NEW d \in Point(c) PROVE Ended(d)
<1>1. Open([c EXCEPT !.ind = TRUE, !.maxdigits = 2])  BY ArgumentOpen
<1>2. \A m : \A e \in Menu(c, m) : Ended(e)  BY EntrySteps, StatesEnded
<1>3. \A e \in Catalog([c EXCEPT !.ind = TRUE, !.maxdigits = 2], "REAL_ONLY") : Ended(e)
  BY <1>1, EntrySteps, StatesEnded
<1>4. Ended(c)  BY StatesEnded
<1>. QED  BY <1>2, <1>3, <1>4 DEF Point

LEMMA NumberEndsEnded == ASSUME NEW c, Open(c), NEW d \in NumberEnds(c) PROVE Ended(d)
<1>1. \A e, p : Open(e) => Ended(finish_command_entry(Pend(e, None, p)))  BY EntrySteps, StatesEnded
<1>2. Open(display_error(c)) /\ Ended(finish_command_entry(Chosen(c, "NUM")))
  BY EntrySteps, StatesEnded
<1>3. argtype("GOTOCOLUMN") = "COUNT"  BY DEF argtype, ArgType
<1>4. Ended(start_incomplete_command(c, "GOTOCOLUMN"))
  BY <1>3, EntrySteps, StatesEnded DEF ProgramOnly
<1>. QED  BY <1>1, <1>2, <1>4 DEF NumberEnds

LEMMA DigitEnded == ASSUME NEW c, Open(c), NEW d \in Digit(c) PROVE Ended(d)
<1>. DEFINE e == [c EXCEPT !.length = @ + 1]
<1>1. Open(e)  BY ArgumentOpen
<1>2. d \in NumberEnds(e) \/ d \in Menu(e, None)  BY DEF Digit
<1>. HIDE DEF e
<1>. QED  BY <1>1, <1>2, NumberEndsEnded, EntrySteps, StatesEnded

LEMMA MenuAgainOpen == ASSUME NEW c, Open(c) PROVE Open(MenuAgain(c))
<1>1. \A m : Open(VariableMenu(c, m)) /\ Open(set_catalog_menu(c, m)) /\ Open(Show(c, "command", m))
  BY EntrySteps
<1>. QED  BY <1>1 DEF MenuAgain

LEMMA KeysOfOpen == ASSUME NEW c, Open(c), NEW x PROVE Open(start_incomplete_command(c, KeysOf(x)))
<1>1. argtype("KEYG") = "MKEY" /\ argtype("KEYX") = "MKEY"  BY DEF argtype, ArgType
<1>2. Open(start_incomplete_command(c, "KEYG")) /\ Open(start_incomplete_command(c, "KEYX"))
  BY <1>1, EntrySteps DEF ProgramOnly
<1>. QED  BY <1>2 DEF KeysOf

LEMMA DigitBackEnded == ASSUME NEW c, Open(c), NEW d \in DigitBack(c) PROVE Ended(d)
<1>. DEFINE e == [c EXCEPT !.length = @ - 1]
<1>1. Open(e)  BY ArgumentOpen
<1>2. d \in {Nulled(c), redisplay(e), redisplay(start_incomplete_command(e, KeysOf(e.command))),
             redisplay(MenuAgain(e))}
  BY DEF DigitBack
<1>. HIDE DEF e
<1>3. Open(start_incomplete_command(e, KeysOf(e.command))) /\ Open(MenuAgain(e)) /\ Shut(Nulled(c))
  BY <1>1, EntrySteps, KeysOfOpen, MenuAgainOpen
<1>. QED  BY <1>1, <1>2, <1>3, StatesEnded

LEMMA EnterEnded == ASSUME NEW c, Open(c), NEW s, NEW d \in Enter(c, s) PROVE Ended(d)
<1>1. Open([c EXCEPT !.alpha = TRUE])  BY ArgumentOpen
<1>2. \A e \in Menu([c EXCEPT !.alpha = TRUE], "ALPHA1") : Ended(e)  BY <1>1, EntrySteps, StatesEnded
<1>3. Ended(c)  BY StatesEnded
<1>. QED  BY <1>2, <1>3, NumberEndsEnded DEF Enter

LEMMA NumberKeyEnded == ASSUME NEW c, Open(c), NEW s, NEW x, NEW d \in NumberKey(c, s, x) PROVE Ended(d)
<1>. DEFINE a == [c EXCEPT !.command = "GTO", !.argtype = "LBL", !.ind = TRUE, !.maxdigits = 2]
            b == [c EXCEPT !.argtype = "LBL", !.alpha = TRUE]
            e == [c EXCEPT !.command = IF @ = "STO" THEN "STO_ADD" ELSE "RCL_ADD"]
            f == [c EXCEPT !.command = "GTODOT", !.argtype = "OTHER", !.maxdigits = 4]
<1>1. Open(a) /\ Open(b) /\ Open(e) /\ Open(f)  BY ArgumentOpen
<1>2. \/ d \in {Cancelled(c), redisplay(e), finish_command_entry(Pend(c, "GTODOTDOT", None)), c}
      \/ d \in Catalog(a, "REAL_ONLY") \/ d \in Menu(b, "ALPHA1") \/ d \in Menu(f, "IND")
      \/ d \in Point(c) \/ d \in Enter(c, s) \/ d \in Digit(c) \/ d \in DigitBack(c)
  BY Zenon DEF NumberKey
<1>. HIDE DEF a, b, e, f
<1>3. /\ \A g \in Catalog(a, "REAL_ONLY") : Ended(g)
      /\ \A g \in Menu(b, "ALPHA1") \cup Menu(f, "IND") : Ended(g)
  BY <1>1, EntrySteps, StatesEnded
<1>4. Ended(Cancelled(c)) /\ Ended(redisplay(e)) /\ Ended(finish_command_entry(Pend(c, "GTODOTDOT", None)))
      /\ Ended(c)
  BY <1>1, EntrySteps, StatesEnded
<1>. QED  BY <1>2, <1>3, <1>4, PointEnded, EnterEnded, DigitEnded, DigitBackEnded

LEMMA LetterOpen == ASSUME NEW c, Open(c) PROVE Open(Letter(c)) /\ Ended(redisplay(Letter(c)))
<1>1. Open(Letter(c))  BY ArgumentOpen DEF Letter
<1>. QED  BY <1>1, StatesEnded

LEMMA LetterMenuEnded == ASSUME NEW c, Open(c), NEW d \in LetterMenu(c) PROVE Ended(d)
<1>1. \A n : Ended(redisplay(Show(c, "command", n)))  BY EntrySteps, StatesEnded
<1>2. \A m : \A e \in Menu(Letter(c), m) : Ended(e)  BY LetterOpen, EntrySteps, StatesEnded
<1>. QED  BY <1>1, <1>2 DEF LetterMenu

LEMMA PageMenuEnded == ASSUME NEW c, Open(c), NEW d \in PageMenu(c) PROVE Ended(d)
<1>1. \A n : Ended(redisplay(Show(c, "command", n)))  BY EntrySteps, StatesEnded
<1>2. Ended([c EXCEPT !.fault = TRUE]) /\ Ended(c)  BY ArgumentOpen, StatesEnded
<1>. QED  BY <1>1, <1>2 DEF PageMenu

LEMMA LeaveMenuEnded == ASSUME NEW c, Open(c), NEW d \in LeaveMenu(c) PROVE Ended(d)
<1>1. Ended(Cancelled(Show(c, "command", None)))  BY EntrySteps, StatesEnded
<1>2. \A m : \A e \in Menu(c, m) : Ended(e)  BY EntrySteps, StatesEnded
<1>. QED  BY <1>1, <1>2 DEF LeaveMenu

LEMMA OutOfAlphaOpen == ASSUME NEW c, Open(c) PROVE Open(OutOfAlpha(c))
<1>. DEFINE a == [c EXCEPT !.alpha = ~c.ind /\ c.argtype = "RVAR"]
<1>1. Open(a)  BY ArgumentOpen
<1>2. OutOfAlpha(c) \in {set_catalog_menu(a, "REAL_ONLY"), MenuAgain(a), Show(a, "command", None)}
  BY Zenon DEF OutOfAlpha
<1>. HIDE DEF a
<1>3. \A m : Open(Show(a, "command", m)) /\ Open(set_catalog_menu(a, m))
  BY <1>1, EntrySteps
<1>. QED  BY <1>1, <1>2, <1>3, MenuAgainOpen

LEMMA NoNameSettled == ASSUME NEW c, Open(c), NEW b PROVE Settled(NoName(c, b))
<1>1. Open(NumberAgain(c))
  <2>1. Open([c EXCEPT !.argtype = "OTHER", !.maxdigits = 4, !.alpha = FALSE])  BY ArgumentOpen
  <2>. QED  BY <2>1, EntrySteps DEF NumberAgain
<1>2. Open(OutOfAlpha(c))  BY OutOfAlphaOpen
<1>3. \A m : Open(set_catalog_menu(c, m)) /\ Open(Show(c, "command", m)) /\ Shut(Nulled(c))
  BY EntrySteps
<1>4. NoName(c, b) \in {NumberAgain(c), OutOfAlpha(c), c, Nulled(c), Show(c, "command", None),
                        set_catalog_menu(c, IF c.command = "ASSIGNa" THEN "TOP" ELSE "VARS_ONLY"),
                        set_catalog_menu(c, "REAL_ONLY"), set_catalog_menu(c, "MAT_ONLY"),
                        set_catalog_menu(c, "PGM_ONLY")}
  BY Zenon DEF NoName
<1>. QED  BY <1>1, <1>2, <1>3, <1>4, StatesEnded

LEMMA LetterBackEnded == ASSUME NEW c, Open(c), NEW d \in LetterBack(c) PROVE Ended(d)
<1>. DEFINE e == [c EXCEPT !.length = @ - 1]
<1>1. Open(e)  BY ArgumentOpen
<1>2. d \in {redisplay(e), redisplay(NoName(e, TRUE)), start_incomplete_command(c, KeysOf(c.command)),
             redisplay(NoName(c, FALSE)), redisplay(set_catalog_menu(c, "TOP")), Nulled(c)}
  BY Zenon DEF LetterBack
<1>. HIDE DEF e
<1>3. Settled(NoName(e, TRUE)) /\ Settled(NoName(c, FALSE))  BY <1>1, NoNameSettled
<1>4. \A m : Open(set_catalog_menu(c, m)) /\ Open(start_incomplete_command(c, KeysOf(m))) /\ Shut(Nulled(c))
  BY EntrySteps, KeysOfOpen
<1>. QED  BY <1>1, <1>2, <1>3, <1>4, StatesEnded

LEMMA LocalLabelEnded == ASSUME NEW c, Open(c), NEW d \in LocalLabel(c) PROVE Ended(d)
<1>. DEFINE e == [c EXCEPT !.command_entry = FALSE]
            f == Show(redisplay(e), "command", None)
<1>1. Still(e)  BY EntryLeftStill DEF Open
<1>. HIDE DEF e
<1>2. Still(redisplay(e))  BY <1>1, StatesShape, RedisplayKeeps
<1>3. Still(f)  BY <1>2, CommandMenuModes
<1>4. d = finish_command_entry(Pend(f, c.command, "LCLBL"))  BY DEF LocalLabel, e
<1>. HIDE DEF f
<1>5. Still(Pend(f, c.command, "LCLBL"))  BY <1>3, PendKeeps
<1>. QED  BY <1>4, <1>5, FinishSettled, StatesEnded

LEMMA NameEnterEnded == ASSUME NEW c, Open(c), NEW d \in NameEnter(c) PROVE Ended(d)
<1>1. \A m : \A e \in Menu(c, m) : Ended(e)  BY EntrySteps, StatesEnded
<1>2. \A e \in LocalLabel(c) \cup Named(c) : Ended(e)  BY EntrySteps, LocalLabelEnded
<1>3. Ended(c)  BY StatesEnded
<1>. QED  BY <1>1, <1>2, <1>3 DEF NameEnter

LEMMA NameKeyEnded == ASSUME NEW c, Open(c), NEW s, NEW x, NEW d \in NameKey(c, s, x) PROVE Ended(d)
<1>. DEFINE a == [c EXCEPT !.ind = TRUE, !.alpha = FALSE]
<1>1. Open(a) /\ Ended(redisplay(Letter(c))) /\ Ended(c)  BY ArgumentOpen, LetterOpen, StatesEnded
<1>2. \/ d \in {redisplay(Letter(c)), c}
      \/ d \in LetterMenu(c) \/ d \in Catalog(a, "REAL_ONLY") \/ d \in Catalog(c, "TOP")
      \/ d \in PageMenu(c) \/ d \in LeaveMenu(c) \/ d \in LetterBack(c) \/ d \in NameEnter(c)
  BY Zenon DEF NameKey
<1>. HIDE DEF a
<1>3. /\ \A g \in Catalog(a, "REAL_ONLY") : Ended(g)
      /\ \A g \in Catalog(c, "TOP") : Ended(g)
  BY <1>1, EntrySteps, StatesEnded
<1>. QED
  BY <1>1, <1>2, <1>3, LetterMenuEnded, PageMenuEnded, LeaveMenuEnded, LetterBackEnded, NameEnterEnded

LEMMA EntryKeyEnded == ASSUME NEW c, Open(c), NEW s, NEW x, NEW d \in EntryKey(c, s, x) PROVE Ended(d)
<1>1. CASE c.menu["command"] = "CATALOG" /\ MenuTakes(c, s, x)
  <2>1. d \in CatalogMenu(c, s, x)  BY <1>1 DEF EntryKey
  <2>. QED  BY <1>1, <2>1, CatalogKeysEnded DEF MenuTakes
<1>2. CASE c.menu["command"] \in {"VARMENU", "INTEG_PARAMS"} /\ MenuTakes(c, s, x)
  <2>1. d \in VariablesMenu(c, s, x)  BY <1>2 DEF EntryKey
  <2>. QED  BY <1>2, <2>1, VariablesMenuEnded DEF MenuTakes
<1>3. CASE d \in NameKey(c, s, x) \/ d \in NumberKey(c, s, x)
  BY <1>3, NameKeyEnded, NumberKeyEnded
<1>. QED  BY <1>1, <1>2, <1>3 DEF EntryKey

LEMMA CommandKeyEnded ==
    ASSUME NEW c, Open(c), NEW s, NEW x, NEW d \in keydown_command_entry(c, s, x)
    PROVE  Ended(d)
<1>. DEFINE y == AsDigit(c, x)
            a == [c EXCEPT !.alpha = TRUE]
<1>1. \A g \in Catalog(a, "TOP") : Ended(g)  BY ArgumentOpen, EntrySteps, StatesEnded
<1>2. \A m : \A g \in Menu(c, m) : Ended(g)  BY EntrySteps, StatesEnded
<1>3. \/ d \in StackMenu(c, s, x) \/ d \in NameKey(c, s, y) \/ d \in Catalog(a, "TOP")
      \/ d \in Menu(c, parent(c.menu["command"])) \/ d \in CustomMenu(c, s, y)
      \/ d \in WhichKey(c, s, y) \/ d \in EntryKey(c, s, y)
  BY Zenon DEF keydown_command_entry
<1>. HIDE DEF y, a
<1>. QED
  BY <1>1, <1>2, <1>3, StackMenuEnded, NameKeyEnded, CustomMenuEnded, WhichKeyEnded, EntryKeyEnded

-----------------------------------------------------------------------------
(***************************************************************************)
(* The other modes.  A number is entered (Num), letters are entered or may *)
(* be (Text), a program runs that a key of its menu has started (Runs).    *)
(***************************************************************************)
Num(c) ==
    /\ Shape(c) /\ c.number /\ ~c.command_entry /\ ~c.alpha_entry /\ ~c.getkey /\ ~c.clall /\ ~c.running
    /\ c.pending = None /\ (c.menu["alpha"] # None => c.alpha_mode)
    /\ Asked \/ c.menu["command"] = None

Text(c) ==
    /\ Shape(c) /\ ~c.number /\ ~c.command_entry /\ ~c.getkey /\ ~c.clall /\ ~c.running
    /\ c.alpha_entry \/ c.menu["alpha"] # None => c.alpha_mode
    /\ c.alpha_entry => c.pending \in Passive \cup {"CLA"}
    /\ Asked \/ c.menu["command"] = None

Runs(c) ==
    /\ Shape(c) /\ c.running /\ ~c.number /\ ~c.command_entry /\ ~c.alpha_entry /\ ~c.getkey /\ ~c.clall
    /\ c.pending = None /\ (c.menu["alpha"] # None => c.alpha_mode)
    /\ Asked \/ c.menu["command"] = None

LEMMA CalmModes ==
    ASSUME NEW c, NEW d, Calm(c, d)
    PROVE  (Num(c) => Num(d)) /\ (Text(c) => Text(d)) /\ (Runs(c) => Runs(d))
<1>1. Num(c) => Num(d)  BY DEF Num, Calm
<1>2. Text(c) => Text(d)  BY DEF Text, Calm
<1>3. Runs(c) => Runs(d)  BY DEF Runs, Calm
<1>. QED  BY <1>1, <1>2, <1>3

LEMMA RedisplayCalm ==
    ASSUME NEW c, Shape(c)
    PROVE  Calm(c, redisplay(c)) /\ Calm(c, display_error(c)) /\ \A s : Calm(c, set_cat_section(c, s))
BY DisplayCalm

\* What is reached by several calm changes.
LEMMA CalmOn ==
    ASSUME NEW c, NEW d, Calm(c, d)
    PROVE  /\ Shape(d) /\ Calm(c, redisplay(d)) /\ Calm(c, display_error(d))
           /\ \A s : Calm(c, set_cat_section(d, s)) /\ Calm(c, store_command(d, s))
           /\ \A m : \A x \in BOOLEAN : Calm(c, set_appmenu(d, m, x))
           /\ \A m : \A l \in {"transient", "plain", "app"} : Calm(c, set_menu(d, l, m))
           /\ \A l \in FiveLevels \ {"app"} : Calm(c, Show(d, l, None))
           /\ Calm(c, sst(d)) /\ Calm(c, bst(d)) /\ Calm(c, update_catalog(d))
<1>1. Shape(d)  BY CalmShape
<1>2. \A e : Calm(d, e) => Calm(c, e)  BY CalmChain
<1>3. Calm(d, redisplay(d)) /\ Calm(d, display_error(d)) /\ \A s : Calm(d, set_cat_section(d, s))
  BY <1>1, DisplayCalm
<1>4. \A m : \A x \in BOOLEAN : Calm(d, set_appmenu(d, m, x))  BY <1>1, AppmenuCalm
<1>5. \A m : \A l \in {"transient", "plain", "app"} : Calm(d, set_menu(d, l, m))  BY <1>1, SetMenuCalm
<1>6. \A l \in FiveLevels \ {"app"} : Calm(d, Show(d, l, None))  BY <1>1, ShowCalm
<1>7. /\ \A s : Calm(d, store_command(d, s))
      /\ Calm(d, sst(d)) /\ Calm(d, bst(d)) /\ Calm(d, update_catalog(d))
  BY <1>1, StoreCalm, CatalogUpdateCalm
<1>. QED  BY <1>1, <1>2, <1>3, <1>4, <1>5, <1>6, <1>7

LEMMA SolveIntegCalm == ASSUME NEW c, Shape(c), NEW m, NEW s PROVE Calm(c, set_solve_integ(c, m, s))
<1>1. Calm(c, c)  BY CalmItself
<1>2. Calm(c, set_menu(c, "app", m)) /\ Calm(c, set_appmenu(c, "CATALOG", FALSE)) /\ Calm(c, display_error(c))
  BY <1>1, CalmOn
<1>3. /\ Calm(c, display_error(set_menu(c, "app", m)))
      /\ Calm(c, display_error(set_cat_section(set_appmenu(c, "CATALOG", FALSE), s)))
  BY <1>2, CalmOn
<1>4. set_solve_integ(c, m, s) \in
          {redisplay(set_menu(c, "app", m)), redisplay(display_error(set_menu(c, "app", m))),
           redisplay(display_error(c)),
           redisplay(display_error(set_cat_section(set_appmenu(c, "CATALOG", FALSE), s)))}
  BY Zenon DEF set_solve_integ
<1>. QED  BY <1>2, <1>3, <1>4, CalmOn

LEMMA MenuSwitchCalm ==
    ASSUME NEW c, Shape(c), NEW x \in DOMAIN PlainKeys \cup AppKeys PROVE Calm(c, MenuSwitch(c, x))
<1>. DEFINE b == set_menu(c, "app", "BASE")
            f == [b EXCEPT !.callback = 2, !.baseapp = TRUE]
<1>1. Calm(c, c)  BY CalmItself
<1>2. /\ Calm(c, b) /\ Calm(c, set_plainmenu(c, PlainKeys[x]))
      /\ Calm(c, redisplay(set_menu(c, "app", "MATRIX1"))) /\ Calm(c, redisplay(set_menu(c, "app", "STAT1")))
      /\ Calm(c, set_solve_integ(c, "SOLVE", "PGM_SOLVE"))
      /\ Calm(c, set_solve_integ(c, "INTEG", "PGM_INTEG"))
  BY <1>1, CalmOn, PlainmenuCalm, SolveIntegCalm
<1>3. MenuSwitch(c, x) \in {set_plainmenu(c, PlainKeys[x]), set_solve_integ(c, "SOLVE", "PGM_SOLVE"),
                            set_solve_integ(c, "INTEG", "PGM_INTEG"),
                            redisplay(set_menu(c, "app", "MATRIX1")),
                            redisplay(set_menu(c, "app", "STAT1")), b, redisplay(f)}
  BY MenuSwitchIs
<1>. HIDE DEF b
<1>4. Calm(b, f)
  <2>1. Shape(b)  BY <1>2, CalmShape
  <2>. QED  BY <2>1 DEF Calm, Shape, Record, Fields
<1>. HIDE DEF f
<1>5. Calm(c, redisplay(f))  BY <1>2, <1>4, CalmChain, CalmOn
<1>. QED  BY <1>2, <1>3, <1>5

LEMMA NumberLeft ==
    ASSUME NEW c, Num(c)
    PROVE  /\ Shut([c EXCEPT !.number = FALSE]) /\ [c EXCEPT !.number = FALSE].pending = None
           /\ Shut(LineBefore(c))
<1>. DEFINE d == [c EXCEPT !.number = FALSE]
            e == LineBefore(c)
<1>1. /\ Shape(d) /\ d.menu = c.menu /\ ~d.number /\ \A f \in ModeFields \ {"number"} : d[f] = c[f]
      /\ Shape(e) /\ e.menu = c.menu /\ ~e.number /\ \A f \in ModeFields \ {"number"} : e[f] = c[f]
  BY DEF LineBefore, Num, Shape, Record, Fields, ModeFields
<1>. HIDE DEF d, e
<1>2. Shut(d) /\ d.pending = None  BY <1>1 DEF Num, Shut, Still, ModeFields
<1>3. Shut(e)  BY <1>1 DEF Num, Shut, Still, ModeFields
<1>. QED  BY <1>2, <1>3 DEF d, e

LEMMA NumberGoneShut == ASSUME NEW c, Num(c) PROVE Shut(NumberGone(c))
<1>1. NumberGone(c) \in {redisplay(LineBefore(c)), Pend([c EXCEPT !.number = FALSE], "CLX", None)}
  BY Zenon DEF NumberGone
<1>2. Shut(redisplay(LineBefore(c)))  BY NumberLeft, StatesEnded
<1>3. Shut(Pend([c EXCEPT !.number = FALSE], "CLX", None))  BY NumberLeft, PendKeeps
<1>. QED  BY <1>1, <1>2, <1>3

LEMMA NumberEntryModes ==
    ASSUME NEW c, Num(c), NEW s, NEW x \in MenuKeys \cup Digits \cup {"DOT", "E", "CHS", "BSP"},
           NEW d \in keydown_number_entry(c, s, x)
    PROVE  Num(d) \/ Shut(d)
<1>1. \A e, f : Num(e) /\ Calm(e, f) => Num(f)  BY CalmModes
<1>2. \A e, n : Shape(e) => Calm(e, NumberIs(e, n))
  BY DEF NumberIs, Calm, Shape, Record, Fields
<1>3. \A e : Num(e) => Shape(e)  BY DEF Num
<1>4. \A v : Num([c EXCEPT !.minus = v]) /\ Num([c EXCEPT !.fault = v])
  BY <1>1, <1>3, FieldsCalm
<1>5. \A n, v : /\ Num(NumberIs(c, n)) /\ Num(NumberIs([c EXCEPT !.minus = v], n))
                /\ Shut(NumberGone([c EXCEPT !.minus = v]))
  BY <1>1, <1>2, <1>3, <1>4, NumberGoneShut
<1>6. \A e \in ChangeSign(c) \cup PointOrExponent(c) \cup NumberGrows(c) : Num(e) \/ Shut(e)
  BY <1>5 DEF ChangeSign, PointOrExponent, NumberGrows
<1>. QED  BY <1>4, <1>5, <1>6 DEF keydown_number_entry

LEMMA NumberStartsModes ==
    ASSUME NEW c, Shut(c), c.pending = None, NEW s, NEW x \in MenuKeys \cup Digits \cup {"DOT", "E"},
           NEW d \in NumberStarts(c, s, x)
    PROVE  Num(d) \/ Shut(d)
<1>. DEFINE n == [c EXCEPT !.number = TRUE, !.digits = 0, !.minus = FALSE]
            a == [n EXCEPT !.pc = NextLine(c)]
            e == [n EXCEPT !.varmenu_active = FALSE]
            b == redisplay(e)
<1>1. Num(n)
  <2>1. /\ Shape(n) /\ n.menu = c.menu /\ n.number /\ \A f \in ModeFields \ {"number"} : n[f] = c[f]
    BY StatesShape DEF Shape, Record, Fields, ModeFields
  <2>. HIDE DEF n
  <2>. QED  BY <2>1 DEF Num, Shut, Still, ModeFields
<1>. HIDE DEF n
<1>2. Calm(n, a) /\ Calm(n, e)  BY <1>1, FieldsCalm DEF Num
<1>. HIDE DEF a, e
<1>3. Num(a) /\ Num(b)  BY <1>1, <1>2, CalmModes, CalmOn
<1>4. d \in keydown_number_entry(a, s, x) \/ d \in keydown_number_entry(b, s, x)
  BY DEF NumberStarts, n, a, e
<1>. HIDE DEF b
<1>. QED  BY <1>3, <1>4, NumberEntryModes

LEMMA NumberEnteredShut ==
    ASSUME NEW c, Num(c) PROVE Shut(NumberEntered(c)) /\ NumberEntered(c).pending = None
<1>. DEFINE n == [c EXCEPT !.number = FALSE]
<1>1. Shut(n) /\ n.pending = None  BY NumberLeft
<1>2. NumberEntered(c) \in {n, store_command(n, "NUMBER")}  BY DEF NumberEntered
<1>. HIDE DEF n
<1>3. Calm(n, n) /\ Calm(n, store_command(n, "NUMBER"))  BY <1>1, StatesShape, StoreCalm, CalmItself
<1>4. \A d : Calm(n, d) => Shut(d) /\ d.pending = None
  <2>1. \A d : Calm(n, d) => d.pending = None  BY <1>1 DEF Calm
  <2>. QED  BY <1>1, <2>1, CalmKeeps
<1>. QED  BY <1>2, <1>3, <1>4

-----------------------------------------------------------------------------
\* The keys in ALPHA mode.

LEMMA TextOrShut == ASSUME NEW c PROVE (Shut(c) => Text(c)) /\ (Text(c) /\ ~c.alpha_entry => Shut(c))
BY DEF Text, Shut, Still

\* The entry of letters begins and ends.
LEMMA LettersText ==
    ASSUME NEW c, Text(c)
    PROVE  /\ c.alpha_mode /\ c.pending = None
              => /\ Text(start_alpha_prgm_line(c)) /\ start_alpha_prgm_line(c).pending = None
                 /\ Text([c EXCEPT !.alpha_entry = TRUE])
           /\ Shut([c EXCEPT !.alpha_entry = FALSE]) /\ [c EXCEPT !.alpha_entry = FALSE].pending = c.pending
<1>. DEFINE a == start_alpha_prgm_line(c)
            b == [c EXCEPT !.alpha_entry = TRUE]
            e == [c EXCEPT !.alpha_entry = FALSE]
<1>1. /\ Shape(a) /\ a.menu = c.menu /\ a.alpha_entry /\ \A f \in ModeFields \ {"alpha_entry"} : a[f] = c[f]
      /\ Shape(b) /\ b.menu = c.menu /\ b.alpha_entry /\ \A f \in ModeFields \ {"alpha_entry"} : b[f] = c[f]
      /\ Shape(e) /\ e.menu = c.menu /\ ~e.alpha_entry /\ \A f \in ModeFields \ {"alpha_entry"} : e[f] = c[f]
  BY DEF start_alpha_prgm_line, Text, Shape, Record, Fields, ModeFields
<1>. HIDE DEF a, b, e
<1>2. c.alpha_mode /\ c.pending = None => Text(a) /\ a.pending = None /\ Text(b)
  BY <1>1 DEF Text, ModeFields, Passive
<1>3. Shut(e) /\ e.pending = c.pending  BY <1>1 DEF Text, Shut, Still, ModeFields
<1>. QED  BY <1>2, <1>3 DEF a, b, e

LEMMA LettersEntered ==
    ASSUME NEW c, Text(c)
    PROVE  /\ Shut(finish_alpha_prgm_line(c)) /\ finish_alpha_prgm_line(c).pending = c.pending
           /\ Shut(AlphaEntered(c)) /\ AlphaEntered(c).pending = c.pending
<1>. DEFINE e == [c EXCEPT !.alpha_entry = FALSE]
            f == finish_alpha_prgm_line(c)
<1>1. Shut(e) /\ e.pending = c.pending  BY LettersText
<1>2. f \in {[e EXCEPT !.pc = c.saved_pc], store_command(e, "STRING")}  BY DEF finish_alpha_prgm_line
<1>3. AlphaEntered(c) \in {f, e}  BY DEF AlphaEntered
<1>. HIDE DEF e, f
<1>a. Shape(e)  BY <1>1, StatesShape
<1>b. Calm(e, [e EXCEPT !.pc = c.saved_pc])  BY <1>a, FieldsCalm
<1>c. Calm(e, store_command(e, "STRING"))  BY <1>a, StoreCalm
<1>4. Calm(e, f)  BY <1>2, <1>b, <1>c
<1>5. Shut(f)  BY <1>1, <1>4, CalmKeeps
<1>6. f.pending = c.pending  BY <1>1, <1>4 DEF Calm
<1>. QED  BY <1>1, <1>3, <1>5, <1>6 DEF f

LEMMA AlphaOffShut ==
    ASSUME NEW c, Shut(c) PROVE Shut(AlphaOff(c)) /\ AlphaOff(c).pending = c.pending
<1>. DEFINE e == [c EXCEPT !.alpha_mode = FALSE]
            d == Show(e, "alpha", None)
<1>1. /\ Shape(e) /\ \A f \in ModeFields \ {"alpha_mode"} : e[f] = c[f]
  BY StatesShape DEF Shape, Record, Fields, ModeFields
<1>. HIDE DEF e
<1>2. /\ Shape(d) /\ \A f \in ModeFields : d[f] = e[f]
      /\ d.menu["command"] = None /\ d.menu["alpha"] = None
  BY <1>1, ShowModes DEF FiveLevels
<1>. HIDE DEF d
<1>3. \A f \in ModeFields \ {"alpha_mode"} : d[f] = c[f]  BY <1>1, <1>2
<1>4. Shut(d) /\ d.pending = c.pending  BY <1>2, <1>3 DEF Shut, Still, ModeFields
<1>. QED  BY <1>4 DEF d, e, AlphaOff

LEMMA AlphaShown ==
    ASSUME NEW c, Text(c), c.alpha_mode, NEW m
    PROVE  LET d == Show(c, "alpha", m)
           IN  Text(d) /\ d.pending = c.pending /\ Text(redisplay(d))
<1>. DEFINE d == Show(c, "alpha", m)
<1>1. /\ Shape(d) /\ \A f \in ModeFields : d[f] = c[f]
      /\ d.menu["command"] = None
  BY ShowModes DEF Text, FiveLevels
<1>. HIDE DEF d
<1>2. Text(d)  BY <1>1 DEF Text, ModeFields
<1>3. Text(redisplay(d))  BY <1>1, <1>2, RedisplayCalm, CalmModes
<1>. QED  BY <1>1, <1>2, <1>3 DEF d, ModeFields

LEMMA AlphaLetterText ==
    ASSUME NEW c, Text(c), c.alpha_mode, c.pending = None
    PROVE  Text(AlphaLetter(c)) /\ AlphaLetter(c).alpha_mode /\ Text(redisplay(AlphaLetter(c)))
<1>. DEFINE a == start_alpha_prgm_line(c)
            b == [c EXCEPT !.alpha_entry = TRUE]
<1>1. Text(a) /\ Text(b)  BY LettersText
<1>2. a.alpha_mode = c.alpha_mode /\ b.alpha_mode = c.alpha_mode
  BY DEF start_alpha_prgm_line, Text, Shape, Record, Fields
<1>3. AlphaLetter(c) \in {a, b, [a EXCEPT !.text = @ + 1], [b EXCEPT !.text = @ + 1]}
  BY Zenon DEF AlphaLetter
<1>. HIDE DEF a, b
<1>4. \A s : Text(s) => Calm(s, s) /\ \A v : Calm(s, [s EXCEPT !.text = v])
  BY CalmItself, FieldsCalm DEF Text
<1>5. Calm(a, AlphaLetter(c)) \/ Calm(b, AlphaLetter(c))  BY <1>1, <1>3, <1>4
<1>6. Text(AlphaLetter(c))  BY <1>1, <1>5, CalmModes
<1>7. AlphaLetter(c).alpha_mode  BY <1>2, <1>5 DEF Calm
<1>8. Text(redisplay(AlphaLetter(c)))
  BY <1>6, RedisplayCalm, CalmModes DEF Text
<1>. QED  BY <1>6, <1>7, <1>8

LEMMA AlphaMenuKeyModes ==
    ASSUME NEW c, Text(c), c.alpha_mode, c.pending = None,
           NEW s, NEW x, x \in MenuKeys \cup {"EXIT"} \/ Arrow(s, x), NEW d \in AlphaMenuKey(c, s, x)
    PROVE  Text(d) \/ Shut(d)
<1>1. \A n : Text(redisplay(Show(c, "alpha", n))) /\ Text(redisplay(Show(AlphaLetter(c), "alpha", n)))
  BY AlphaShown, AlphaLetterText
<1>2. Shut(Pend(AlphaOff(AlphaEntered(Show(c, "alpha", None))), "CANCELLED", None))
  BY AlphaShown, LettersEntered, AlphaOffShut, PendKeeps
<1>3. Text([c EXCEPT !.fault = TRUE])  BY FieldsCalm, CalmModes DEF Text
<1>. QED  BY <1>1, <1>2, <1>3 DEF AlphaMenuKey

LEMMA AlphaBackModes ==
    ASSUME NEW c, Text(c), c.alpha_mode, c.pending = None, NEW d \in AlphaBack(c)
    PROVE  Text(d) \/ Shut(d)
<1>. DEFINE l == LineDeleted(c)
            t == [c EXCEPT !.text = @ - 1]
<1>1. Calm(c, l) /\ Calm(c, t)  BY StoreCalm, FieldsCalm DEF Text
<1>2. \/ d \in {redisplay(t), redisplay(finish_alpha_prgm_line(c)), redisplay(c), Pend(c, "CLA", None),
                [l EXCEPT !.fault = TRUE], redisplay(l)}
      \/ \E n : d = redisplay(Show(l, "alpha", n))
  BY DEF AlphaBack
<1>. HIDE DEF l, t
<1>3. Text(l) /\ Text(t)  BY <1>1, CalmModes
<1>4. l.alpha_mode  BY <1>1 DEF Calm
<1>5. Text(redisplay(l)) /\ Text(redisplay(t)) /\ Text(redisplay(c)) /\ Text([l EXCEPT !.fault = TRUE])
  BY <1>3, RedisplayCalm, FieldsCalm, CalmModes DEF Text
<1>6. \A n : Text(redisplay(Show(l, "alpha", n)))  BY <1>3, <1>4, AlphaShown
<1>7. Shut(redisplay(finish_alpha_prgm_line(c)))  BY LettersEntered, StatesEnded
<1>8. Text(Pend(c, "CLA", None))
  BY DEF Pend, Text, Shape, Record, Fields
<1>. QED  BY <1>2, <1>5, <1>6, <1>7, <1>8

LEMMA AlphaEnterModes ==
    ASSUME NEW c, Text(c), c.alpha_mode, c.pending = None, NEW s, NEW d \in AlphaEnter(c, s)
    PROVE  Text(d) \/ Shut(d)
<1>. DEFINE a == start_alpha_prgm_line(c)
            t == [a EXCEPT !.text = 1]
            b == [c EXCEPT !.alpha_entry = TRUE]
            o == AlphaOff(AlphaEntered(c))
<1>1. Text(a) /\ Text(b)  BY LettersText
<1>2. Shut(o)  BY LettersEntered, AlphaOffShut
<1>3. d \in {redisplay(o), redisplay(t), redisplay(b)}  BY DEF AlphaEnter
<1>. HIDE DEF a, b, o
<1>a. Shape(a)  BY <1>1 DEF Text
<1>b. Calm(a, t)  BY <1>a, FieldsCalm
<1>. HIDE DEF t
<1>4. Text(t)  BY <1>1, <1>b, CalmModes
<1>5. Text(redisplay(t)) /\ Text(redisplay(b))  BY <1>1, <1>4, RedisplayCalm, CalmModes DEF Text
<1>6. Shut(redisplay(o))  BY <1>2, StatesEnded
<1>. QED  BY <1>3, <1>5, <1>6

LEMMA AlphaOtherModes ==
    ASSUME NEW c, Text(c), c.pending = None, NEW s, NEW x, NEW d \in AlphaOther(c, s, x)
    PROVE  Text(d) \/ Ended(d)
<1>1. Text([c EXCEPT !.pending = "LINGER1"])
  BY DEF Text, Shape, Record, Fields, Passive
<1>2. x \in DOMAIN PlainKeys \cup AppKeys => Ended(redisplay(AlphaOff(AlphaEntered(MenuSwitch(c, x)))))
  <2>1. x \in DOMAIN PlainKeys \cup AppKeys => Text(MenuSwitch(c, x))
    BY MenuSwitchCalm, CalmModes DEF Text
  <2>. QED  BY <2>1, LettersEntered, AlphaOffShut, StatesEnded
<1>3. \A y : y # "CLALLa" => Ended(do_interactive(AlphaEntered(c), y))
  BY LettersEntered, InteractiveEnded
<1>4. \A y \in DOMAIN AlphaCommands : AlphaCommands[y] # "CLALLa"  BY DEF AlphaCommands
<1>. DEFINE P == DOMAIN PlainKeys \cup AppKeys
            Q == DOMAIN AlphaCommands
            l == [c EXCEPT !.pending = "LINGER1"]
            g == do_interactive(AlphaEntered(c), "SST")
            m == redisplay(AlphaOff(AlphaEntered(MenuSwitch(c, x))))
            o == do_interactive(AlphaEntered(c), AlphaCommands[x])
<1>5. d \in {c, l, g} \/ (x \in P /\ d = m) \/ (x \in Q /\ d = o)
  <2>1. d \in (CASE s /\ x = "DOT" -> {l}
                 [] s /\ x \in P -> {m}
                 [] s /\ x = "DOWN" -> {g}
                 [] ~s /\ x \in Q -> {o}
                 [] OTHER -> {c})
    BY Zenon DEF AlphaOther
  <2>. HIDE DEF P, Q, l, g, m, o
  <2>. QED  BY <2>1
<1>. QED  BY <1>1, <1>2, <1>3, <1>4, <1>5

LEMMA AlphaModeModes ==
    ASSUME NEW c, Text(c), c.alpha_mode, c.pending = None, NEW s, NEW x,
           NEW d \in keydown_alpha_mode(c, s, x)
    PROVE  Text(d) \/ Ended(d)
<1>1. Text(redisplay(AlphaLetter(c)))  BY AlphaLetterText
<1>2. \/ d \in {redisplay(AlphaLetter(c))}
      \/ (x \in MenuKeys \cup {"EXIT"} \/ Arrow(s, x)) /\ d \in AlphaMenuKey(c, s, x)
      \/ d \in AlphaBack(c) \/ d \in AlphaEnter(c, s) \/ d \in AlphaOther(c, s, x)
  BY Zenon DEF keydown_alpha_mode
<1>. QED
  BY <1>1, <1>2, AlphaMenuKeyModes, AlphaBackModes, AlphaEnterModes, AlphaOtherModes, StatesEnded

-----------------------------------------------------------------------------
(***************************************************************************)
(* The keys in the normal mode: the keys of the menus.                     *)
(***************************************************************************)

\* Between two keys, no mode is on.
Idle(c) == Shut(c) /\ c.pending = None

\* Where a key leads.
Moded(c) == Ended(c) \/ Num(c) \/ Text(c) \/ Runs(c)

LEMMA StatesModed == ASSUME NEW c, Ended(c) \/ Shut(c) \/ Num(c) \/ Text(c) \/ Runs(c) PROVE Moded(c)
BY DEF Moded, Ended, Settled

LEMMA IdleKeeps ==
    ASSUME NEW c, Idle(c)
    PROVE  Shut(c) /\ Shape(c) /\ Still(c) /\ c.pending = None /\ \A d : Calm(c, d) => Idle(d)
<1>1. Shut(c) /\ Shape(c) /\ Still(c) /\ c.pending = None  BY StatesShape DEF Idle
<1>2. \A d : Calm(c, d) => Shut(d)  BY <1>1, CalmKeeps
<1>3. \A d : Calm(c, d) => d.pending = None  BY <1>1 DEF Calm
<1>. QED  BY <1>1, <1>2, <1>3 DEF Idle

LEMMA LeaveCalm == ASSUME NEW c, Shape(c), NEW l PROVE Calm(c, Leave(c, l))
<1>1. LeftWith(c, l) => l \in {"transient", "plain", "app"}  BY DEF LeftWith
<1>2. LeftWith(c, l) => Calm(c, set_menu(c, l, None))  BY <1>1, SetMenuCalm
<1>. QED  BY <1>2, CalmItself DEF Leave

LEMMA SendsShut ==
    ASSUME NEW c, Shut(c), NEW x, NEW l
    PROVE  Shut(Stored(c, x)) /\ Shut(send_it_off(c, l)) /\ \A d \in view(c) : Shut(d)
<1>1. Shape(c)  BY StatesShape
<1>2. \A y : Shut(Pend(store_command_after(c, y), None, None))
  BY <1>1, StoreCalm, CalmKeeps, PendKeeps
<1>3. Shut(Stored(c, x))  BY <1>2, StatesEnded DEF Stored
<1>4. \A d : Shut(d) => Shut(Leave(d, l))  BY StatesShape, LeaveCalm, CalmKeeps
<1>5. Shut(send_it_off(c, l))  BY <1>2, <1>4, StatesEnded DEF send_it_off
<1>6. Shut([c EXCEPT !.pending = "LINGER1", !.message = TRUE])
  <2>. DEFINE d == [c EXCEPT !.pending = "LINGER1", !.message = TRUE]
  <2>1. /\ Shape(d) /\ d.menu = c.menu /\ \A f \in ModeFields \ {"pending"} : d[f] = c[f]
    BY <1>1 DEF Shape, Record, Fields, ModeFields
  <2>. HIDE DEF d
  <2>2. Shut(d)  BY <2>1 DEF Shut, Still, ModeFields
  <2>. QED  BY <2>2 DEF d
<1>7. Shut(display_error(c))  BY <1>1, DisplayCalm, CalmKeeps
<1>. QED  BY <1>3, <1>5, <1>6, <1>7 DEF view

\* A key of the programmable menu starts its program.
LEMMA ProgrammableModes ==
    ASSUME NEW c, Idle(c), NEW x, NEW d \in do_prgm_menu_key(c, x) PROVE Shut(d) \/ Runs(d)
<1>. DEFINE s == IF x = "EXIT" THEN Show(c, "plain", None) ELSE c
            r == [s EXCEPT !.running = TRUE]
<1>1. Idle(s)
  <2>1. Calm(c, Show(c, "plain", None))  BY IdleKeeps, ShowCalm DEF FiveLevels
  <2>. QED  BY <2>1, IdleKeeps
<1>2. d \in {Pend(s, "NULL", None), Pend(s, "CANCELLED", None), s, r, display_error(s)}
  BY DEF do_prgm_menu_key
<1>. HIDE DEF s
<1>3. Shut(s) /\ s.pending = None /\ Shape(s)  BY <1>1, IdleKeeps
<1>4. Runs(r)
  <2>1. /\ Shape(r) /\ r.menu = s.menu /\ r.running /\ \A f \in ModeFields \ {"running"} : r[f] = s[f]
    BY <1>3 DEF Shape, Record, Fields, ModeFields
  <2>. HIDE DEF r
  <2>. QED  BY <1>3, <2>1 DEF Runs, Shut, Still, ModeFields
<1>. HIDE DEF r
<1>5. Shut(display_error(s))  BY <1>3, DisplayCalm, CalmKeeps
<1>6. Shut(Pend(s, "NULL", None)) /\ Shut(Pend(s, "CANCELLED", None))  BY <1>3, PendKeeps
<1>. QED  BY <1>2, <1>3, <1>4, <1>5, <1>6

LEMMA VariableToShut ==
    ASSUME NEW c, Shut(c), NEW s, NEW x, NEW d \in VariableTo(c, s, x) PROVE Shut(d)
<1>1. \A y : Shut(Stored(c, y)) /\ \A e \in view(c) : Shut(e)  BY SendsShut
<1>2. Shut(Pend(c, x, "STR"))  BY PendKeeps
<1>. QED  BY <1>1, <1>2 DEF VariableTo

LEMMA VarmenuKeyShut ==
    ASSUME NEW c, Shut(c), NEW s, NEW x, x \in MenuKeys \cup {"EXIT"} \/ Arrow(s, x),
           NEW d \in VarmenuKey(c, s, x)
    PROVE  Shut(d)
<1>. DEFINE m == set_menu(c, "app", "INTEG_PARAMS")
            p == [m EXCEPT !.callback = 5]
<1>1. Shape(c)  BY StatesShape
<1>2. Calm(c, m) /\ Calm(c, set_menu(c, "app", None))  BY <1>1, SetMenuCalm
<1>3. Shut(m) /\ Shut(set_menu(c, "app", None))  BY <1>2, CalmKeeps
<1>. HIDE DEF m
<1>4. Calm(m, p)
  <2>1. Shape(m)  BY <1>2, CalmShape
  <2>. QED  BY <2>1 DEF Calm, Shape, Record, Fields
<1>. HIDE DEF p
<1>5. Shut(redisplay(p))  BY <1>3, <1>4, CalmKeeps, StatesEnded
<1>6. \A e \in VariableKey(c, s) : Shut(e)
  <2>. TAKE e \in VariableKey(c, s)
  <2>1. e = redisplay(p) \/ \E y : e \in VariableTo(c, s, y)
    BY DEF VariableKey, p, m
  <2>. QED  BY <1>5, <2>1, VariableToShut
<1>7. \A e, y : Shut(e) => Shut(Pend(e, y, None))  BY PendKeeps
<1>. QED  BY <1>3, <1>6, <1>7 DEF VarmenuKey

LEMMA ParameterKeyShut ==
    ASSUME NEW c, Shut(c), NEW s, NEW x, NEW d \in ParameterKey(c, s, x) PROVE Shut(d)
BY VariableToShut, PendKeeps DEF ParameterKey

\* A name assigned to a key: only that of CLALL asks its question.
LEMMA CustomNameEnded ==
    ASSUME NEW c, Idle(c), NEW x, x = "CLALLa" => Asked PROVE Ended(CustomName(c, x))
<1>. DEFINE q == [c EXCEPT !.clall = TRUE]
<1>1. Shut(c) /\ Shape(c) /\ c.pending = None  BY IdleKeeps
<1>2. CASE x = "CLALLa"
  <2>1. Shape(q) /\ q.menu = c.menu /\ q.clall /\ \A f \in ModeFields \ {"clall"} : q[f] = c[f]
    BY <1>1 DEF Shape, Record, Fields, ModeFields
  <2>2. CustomName(c, x) = redisplay(q)  BY <1>2 DEF CustomName
  <2>. HIDE DEF q
  <2>3. Asks(q)  BY <1>1, <1>2, <2>1 DEF Asks, Shut, Still, ModeFields
  <2>. QED  BY <2>2, <2>3, StatesEnded
<1>3. CASE x # "CLALLa"
  <2>1. CustomName(c, x) \in {redisplay(sst(c)), do_interactive(c, x), send_it_off(Pend(c, x, None), "plain"),
                              redisplay(Pend(bst(c), IF c.prgm_mode THEN None ELSE "CANCELLED", None))}
    BY <1>3, Zenon DEF CustomName
  <2>2. Ended(do_interactive(c, x))  BY <1>1, <1>3, InteractiveEnded
  <2>3. Shut(send_it_off(Pend(c, x, None), "plain"))  BY <1>1, PendKeeps, SendsShut
  <2>4. Shut(sst(c)) /\ Shut(bst(c))  BY <1>1, StoreCalm, CalmKeeps
  <2>5. \A y : Ended(redisplay(Pend(bst(c), y, None)))  BY <2>4, PendKeeps, StatesEnded
  <2>6. Ended(redisplay(sst(c)))  BY <2>4, StatesEnded
  <2>. QED  BY <2>1, <2>2, <2>3, <2>5, <2>6, StatesEnded
<1>. QED  BY <1>2, <1>3

LEMMA CustomKeyEnded ==
    ASSUME NEW c, Idle(c), NEW s, NEW x, NEW d \in CustomKey(c, s, x) PROVE Ended(d)
<1>1. Shut(c) /\ Shape(c) /\ c.pending = None  BY IdleKeeps
<1>2. \A y, a, l : Shut(Pend(c, y, a)) /\ Shut(send_it_off(Pend(c, y, a), l))
  BY <1>1, PendKeeps, SendsShut
<1>3. \A y \in {"XEQ", "GTO"} : Ended(do_interactive(c, y))  BY <1>1, InteractiveEnded
<1>4. Shut(Show(Stored(c, "XEQ"), "command", None))
  BY <1>1, SendsShut, StatesShape, CommandMenuShut
<1>5. \A y \in WithName : Ended(CustomName(c, y))  BY CustomNameEnded DEF WithName, Asked
<1>. QED  BY <1>1, <1>2, <1>3, <1>4, <1>5, StatesEnded DEF CustomKey

\* The catalog of programs stays in front until the program runs.
LEMMA ProgramChosenShut == ASSUME NEW c, Shut(c), NEW l PROVE Shut(ProgramChosen(c, l))
<1>. DEFINE s == get_cat_section(c)
            p == Pend(c, "XEQ", "LBLINDEX")
            a == Show(p, "plain", None)
            b == Show(a, "transient", "CATALOG")
            u == set_cat_section(b, s)
            t == IF l = "plain" THEN u ELSE p
            f == [t EXCEPT !.leaving = TRUE]
<1>1. Shut(p)  BY PendKeeps
<1>2. ProgramChosen(c, l) \in {p, f}
  BY Zenon DEF ProgramChosen
<1>. HIDE DEF p, s
<1>3. Calm(p, a)  BY <1>1, StatesShape, ShowCalm DEF FiveLevels
<1>. HIDE DEF a
<1>4. Calm(a, b)  BY <1>3, CalmShape, ShowCalm DEF FiveLevels
<1>. HIDE DEF b
<1>5. Calm(b, u)  BY <1>4, CalmShape, DisplayCalm
<1>. HIDE DEF u
<1>6. Shut(t)  BY <1>1, <1>3, <1>4, <1>5, CalmKeeps
<1>. HIDE DEF t
<1>7. Calm(t, f)  BY <1>6, StatesShape, FieldsCalm
<1>. HIDE DEF f
<1>. QED  BY <1>1, <1>2, <1>6, <1>7, CalmKeeps

\* A menu is left, and a command of the menu begun.
LEMMA LeftEnded ==
    ASSUME NEW c, Idle(c), NEW l
    PROVE  /\ Idle(Leave(c, l)) /\ \A y : Shut(Pend(Leave(c, l), y, None))
           /\ \A y \in Commands : Ended(do_interactive(Leave(c, l), y))
<1>1. Idle(Leave(c, l))  BY IdleKeeps, LeaveCalm
<1>2. \A y : Shut(Pend(Leave(c, l), y, None))  BY <1>1, IdleKeeps, PendKeeps
<1>3. \A y \in Commands : Ended(do_interactive(Leave(c, l), y))
  <2>. TAKE y \in Commands
  <2>1. y = "CLALLa" => Asked  BY DEF Asked
  <2>. QED  BY <1>1, <2>1, IdleKeeps, InteractiveEnded
<1>. QED  BY <1>1, <1>2, <1>3

LEMMA CatalogKeyEnded ==
    ASSUME NEW c, Idle(c), NEW l, NEW x \in MenuKeys, NEW d \in CatalogKey(c, l, x) PROVE Ended(d)
<1>1. Shut(c) /\ Shape(c)  BY IdleKeeps
<1>2. \A y, a : Shut(Pend(c, y, a)) /\ Shut(send_it_off(Pend(c, y, a), l))
  BY <1>1, PendKeeps, SendsShut
<1>3. Shut(send_it_off(ProgramChosen(c, l), l))  BY <1>1, ProgramChosenShut, SendsShut
<1>4. Shut(send_it_off(Leave(Pend(c, "RCL", "STR"), l), l))
  <2>1. Shut(Leave(Pend(c, "RCL", "STR"), l))  BY <1>2, StatesShape, LeaveCalm, CalmKeeps
  <2>. QED  BY <2>1, SendsShut
<1>5. Shut(display_error(c))  BY <1>1, DisplayCalm, CalmKeeps
<1>6. ASSUME NEW e \in CatalogItem(c, l) PROVE Ended(e)
  <2>1. Shut(send_it_off(Pend(c, IF c.prgm_mode THEN "PGMSLV" ELSE "PGMSLVi", "STR"), l))
        /\ Shut(send_it_off(Pend(c, IF c.prgm_mode THEN "PGMINT" ELSE "PGMINTi", "STR"), l))
        /\ Shut(Pend(c, "NULL", None)) /\ Shut(Pend(Leave(c, l), "NULL", None))
    BY <1>2, LeftEnded
  <2>2. \A y \in WithName : Ended(do_interactive(Leave(c, l), y))  BY LeftEnded DEF WithName
  <2>. QED  BY <1>3, <1>4, <1>5, <2>1, <2>2, StatesEnded DEF CatalogItem
<1>7. Shut([c EXCEPT !.pending = "LINGER1"])  BY <1>1, PendingKeeps
<1>8. \A v : Shut(redisplay(set_cat_section(c, v)))  BY <1>1, DisplayCalm, CalmKeeps, StatesEnded
<1>. QED  BY <1>5, <1>6, <1>7, <1>8, StatesEnded DEF CatalogKey

\* A menu gives way to another of its table, is left, or a command of it is begun.
LEMMA TableKeyEnded ==
    ASSUME NEW c, Idle(c), NEW l \in {"transient", "plain", "app"}, NEW d \in TableKey(c, l)
    PROVE  Ended(d)
<1>1. \A m : Ended(redisplay(set_menu(c, l, m)))
  BY IdleKeeps, SetMenuCalm, CalmKeeps, StatesEnded
<1>2. Items(c.menu[l]) \subseteq Commands  BY DEF Items, WithName
<1>. QED  BY <1>1, <1>2, LeftEnded, StatesEnded DEF TableKey

LEMMA MenuKeyEnded ==
    ASSUME NEW c, Idle(c), NEW l \in {"transient", "plain", "app"}, NEW s, NEW x \in MenuKeys,
           NEW d \in MenuKey(c, l, s, x)
    PROVE  Ended(d)
<1>1. \/ d \in CustomKey(c, s, x) \/ d \in CatalogKey(c, l, x) \/ d \in ParameterKey(c, s, x)
      \/ d \in TableKey(c, l)
  BY Zenon DEF MenuKey
<1>2. d \in ParameterKey(c, s, x) => Ended(d)  BY IdleKeeps, ParameterKeyShut, StatesEnded
<1>. QED  BY <1>1, <1>2, CustomKeyEnded, CatalogKeyEnded, TableKeyEnded

LEMMA MenuPageShut ==
    ASSUME NEW c, Shut(c), NEW l \in {"transient", "plain", "app"}, NEW d \in MenuPage(c, l)
    PROVE  Shut(d)
<1>1. \A m : Shut(redisplay(set_menu(c, l, m)))
  BY StatesShape, SetMenuCalm, CalmKeeps, StatesEnded
<1>2. Shut(redisplay(c))  BY StatesEnded
<1>. QED  BY <1>1, <1>2 DEF MenuPage

LEMMA MenuExitShut ==
    ASSUME NEW c, Shut(c), NEW l \in {"transient", "plain", "app"}, NEW d \in MenuExit(c, l)
    PROVE  Shut(d)
<1>1. \A m : Shut(set_menu(c, l, m))  BY StatesShape, SetMenuCalm, CalmKeeps
<1>2. Shut(set_cat_section(c, "TOP"))  BY StatesShape, DisplayCalm, CalmKeeps
<1>. QED  BY <1>1, <1>2, PendKeeps DEF MenuExit

LEMMA OwnKeyModes ==
    ASSUME NEW c, Idle(c), NEW s, NEW x, NEW d \in OwnKey(c, s, x) PROVE Ended(d)
<1>. DEFINE e == [c EXCEPT !.alpha_mode = TRUE, !.alpha_entry = FALSE]
            a == Show(e, "alpha", "ALPHA1")
            p == [c EXCEPT !.prgm_mode = FALSE]
            P == DOMAIN PlainKeys \cup AppKeys
<1>1. Shut(c) /\ Shape(c) /\ c.pending = None  BY IdleKeeps
<1>2. /\ Shape(e) /\ e.menu = c.menu /\ e.alpha_mode /\ ~e.alpha_entry
      /\ \A f \in ModeFields \ {"alpha_mode", "alpha_entry"} : e[f] = c[f]
  BY <1>1 DEF Shape, Record, Fields, ModeFields
<1>. HIDE DEF e
<1>3. /\ Shape(a) /\ \A f \in ModeFields : a[f] = e[f]
      /\ a.menu["command"] = None
  BY <1>2, ShowModes DEF FiveLevels
<1>. HIDE DEF a
<1>4. Shut(a)  BY <1>1, <1>2, <1>3 DEF Shut, Still, ModeFields
<1>5. Shut(Pend(p, "CANCELLED", None))
  <2>1. Calm(c, p)  BY <1>1, FieldsCalm
  <2>. HIDE DEF p
  <2>. QED  BY <1>1, <2>1, CalmKeeps, PendKeeps
<1>6. Shut([c EXCEPT !.pending = "LINGER1"])  BY <1>1, PendingKeeps
<1>7. x \in P => Shut(MenuSwitch(c, x))  BY <1>1, MenuSwitchCalm, CalmKeeps
<1>8. \A y : y # "CLALLa" => Ended(do_interactive(c, y))  BY <1>1, InteractiveEnded
<1>9. (\A y \in DOMAIN OwnCommand : OwnCommand[y] # "CLALLa")
      /\ \A y \in DOMAIN ShiftedKeys : ShiftedKeys[y] # "CLALLa"
  <2>1. \A y \in DOMAIN OwnCommand : OwnCommand[y] # "CLALLa"  BY DEF OwnCommand
  <2>2. \A y \in DOMAIN ShiftedKeys : ShiftedKeys[y] # "CLALLa"
    BY DEF ShiftedKeys
  <2>. QED  BY <2>1, <2>2
<1>10. d \in {redisplay(a), Pend(p, "CANCELLED", None), [c EXCEPT !.pending = "LINGER1"], c}
       \/ (x \in P /\ d = MenuSwitch(c, x))
       \/ (x \in DOMAIN ShiftedKeys /\ d = do_interactive(c, ShiftedKeys[x]))
       \/ (x \in DOMAIN OwnCommand /\ d = do_interactive(c, OwnCommand[x]))
  <2>. DEFINE Q == DOMAIN ShiftedKeys
              R == DOMAIN OwnCommand
              q == do_interactive(c, ShiftedKeys[x])
              r == do_interactive(c, OwnCommand[x])
              l == [c EXCEPT !.pending = "LINGER1"]
              g == Pend(p, "CANCELLED", None)
              m == MenuSwitch(c, x)
              b == redisplay(a)
  <2>1. d \in (CASE s /\ x = "ENTER" -> {b}
                 [] x = "EXIT" -> {g}
                 [] s /\ x = "DOT" -> {l}
                 [] s /\ x \in P -> {m}
                 [] s /\ x \in Q -> {q}
                 [] ~s /\ x \in R -> {r}
                 [] OTHER -> {c})
    BY Zenon DEF OwnKey, a, e
  <2>. HIDE DEF P, Q, R, q, r, l, g, m, b
  <2>2. d \in {b, g, l, c} \/ (x \in P /\ d = m) \/ (x \in Q /\ d = q) \/ (x \in R /\ d = r)  BY <2>1
  <2>. QED  BY <2>2 DEF Q, R, q, r, l, g, m, b
<1>11. Ended(redisplay(a))  BY <1>4, StatesEnded
<1>. HIDE DEF P, p
<1>. QED  BY <1>1, <1>5, <1>6, <1>7, <1>8, <1>9, <1>10, <1>11, StatesEnded

LEMMA NormalModeModes ==
    ASSUME NEW c, Idle(c), NEW s, NEW x, NEW d \in keydown_normal_mode(c, s, x) PROVE Moded(d)
<1>. DEFINE l == FrontLevel(c)
            app == l \in {"transient", "plain", "app"}
<1>1. \/ is_number_key(c, s, x) /\ d \in NumberStarts(c, s, x)
      \/ d = redisplay(LineDeleted(c))
      \/ d \in do_prgm_menu_key(c, x)
      \/ (x \in MenuKeys \cup {"EXIT"} \/ Arrow(s, x)) /\ d \in VarmenuKey(c, s, x)
      \/ app /\ x \in MenuKeys /\ d \in MenuKey(c, l, s, x)
      \/ app /\ d \in MenuPage(c, l)
      \/ app /\ d \in MenuExit(c, l)
      \/ d \in OwnKey(c, s, x)
  BY Zenon DEF keydown_normal_mode
<1>. HIDE DEF l
<1>2. Shut(c) /\ Shape(c) /\ c.pending = None  BY IdleKeeps
<1>3. Shut(redisplay(LineDeleted(c)))  BY <1>2, StoreCalm, CalmKeeps, StatesEnded
<1>4. is_number_key(c, s, x) /\ d \in NumberStarts(c, s, x) => Num(d) \/ Shut(d)
  BY <1>2, NumberKeysAre, NumberStartsModes
<1>5. d \in do_prgm_menu_key(c, x) => Shut(d) \/ Runs(d)  BY ProgrammableModes
<1>6. (x \in MenuKeys \cup {"EXIT"} \/ Arrow(s, x)) /\ d \in VarmenuKey(c, s, x) => Shut(d)
  BY <1>2, VarmenuKeyShut
<1>7. app /\ x \in MenuKeys /\ d \in MenuKey(c, l, s, x) => Ended(d)  BY MenuKeyEnded
<1>8. app /\ (d \in MenuPage(c, l) \/ d \in MenuExit(c, l)) => Shut(d)
  BY <1>2, MenuPageShut, MenuExitShut
<1>9. d \in OwnKey(c, s, x) => Ended(d)  BY OwnKeyModes
<1>. HIDE DEF app
<1>. QED  BY <1>1, <1>3, <1>4, <1>5, <1>6, <1>7, <1>8, <1>9, StatesModed

-----------------------------------------------------------------------------
(***************************************************************************)
(* What holds between the events: an entry excludes the others, a program  *)
(* that runs and the question of CLALL; a command that waits to be         *)
(* executed has left its entry behind.  The answer to CLALL may come while *)
(* a program waits for a key.                                              *)
(***************************************************************************)
End(c) ==
    /\ Shape(c)
    /\ c.alpha_entry \/ c.menu["alpha"] # None => c.alpha_mode
    /\ Asked \/ (~c.clall /\ (c.menu["command"] # None => c.command_entry))
    /\ c.command_entry => ~c.number /\ ~c.alpha_entry /\ ~c.getkey /\ ~c.clall /\ ~c.running
    /\ c.number => ~c.alpha_entry /\ ~c.getkey /\ ~c.clall /\ ~c.running
    /\ c.alpha_entry => ~c.getkey /\ ~c.clall /\ ~c.running
    /\ c.pending \notin Passive =>
           /\ ~c.command_entry /\ ~c.number /\ ~c.clall
           /\ c.running => c.getkey
           /\ c.getkey => c.pending = "CLALLb"
           /\ c.alpha_entry => c.pending = "CLA"

LEMMA ModedEnd == ASSUME NEW c, Moded(c) PROVE End(c)
<1>1. Shut(c) => End(c)  BY DEF End, Shut, Still
<1>2. Open(c) => End(c)  BY DEF End, Open, Still
<1>3. Asks(c) => End(c)  BY DEF End, Asks, Passive
<1>4. Num(c) => End(c)  BY DEF End, Num, Passive
<1>5. Text(c) => End(c)  BY DEF End, Text
<1>6. Runs(c) => End(c)  BY DEF End, Runs, Passive
<1>. QED  BY <1>1, <1>2, <1>3, <1>4, <1>5, <1>6 DEF Moded, Ended, Settled

LEMMA CalmEnd == ASSUME NEW c, NEW d, End(c), Calm(c, d) PROVE End(d)
BY DEF End, Calm

LEMMA PassiveEnd ==
    ASSUME NEW c, End(c), NEW p \in Passive, NEW a
    PROVE  End([c EXCEPT !.pending = p]) /\ End(Pend(c, p, a))
<1>. DEFINE d == [c EXCEPT !.pending = p]
            e == Pend(c, p, a)
<1>1. /\ Shape(d) /\ d.menu = c.menu /\ d.pending = p
      /\ \A f \in ModeFields \ {"pending"} : d[f] = c[f]
      /\ Shape(e) /\ e.menu = c.menu /\ e.pending = p
      /\ \A f \in ModeFields \ {"pending"} : e[f] = c[f]
  BY DEF End, Pend, Shape, Record, Fields, ModeFields
<1>. HIDE DEF d, e
<1>2. End(d)  BY <1>1 DEF End, ModeFields
<1>3. End(e)  BY <1>1 DEF End, ModeFields
<1>. QED  BY <1>2, <1>3 DEF d, e

LEMMA RedisplayEnd == ASSUME NEW c, End(c) PROVE End(redisplay(c))
<1>1. Calm(c, redisplay(c))  BY DisplayCalm DEF End
<1>. QED  BY <1>1, CalmEnd

\* Where the keys go that are not an answer.
Quiet(c) == End(c) /\ c.pending = None /\ ~c.getkey /\ ~c.clall /\ ~c.running

LEMMA QuietIs ==
    ASSUME NEW c
    PROVE  /\ Idle(c) => Quiet(c)
           /\ Quiet(c) => /\ Shape(c) /\ c.pending = None
                          /\ c.number => Num(c) /\ ~c.command_entry
                          /\ c.command_entry => Open(c)
                          /\ ~c.number /\ ~c.command_entry => Text(c)
                          /\ ~c.number /\ ~c.command_entry /\ ~c.alpha_entry => Idle(c)
<1>1. Idle(c) => Quiet(c)  BY DEF Idle, Shut, Still, Quiet, End, Passive
<1>. SUFFICES ASSUME Quiet(c)
              PROVE  /\ Shape(c) /\ c.pending = None
                     /\ c.number => Num(c) /\ ~c.command_entry
                     /\ c.command_entry => Open(c)
                     /\ ~c.number /\ ~c.command_entry => Text(c)
                     /\ ~c.number /\ ~c.command_entry /\ ~c.alpha_entry => Idle(c)
  BY <1>1
<1>2. c.number => Num(c) /\ ~c.command_entry  BY DEF Quiet, End, Num
<1>3. c.command_entry => Open(c)  BY DEF Quiet, End, Open, Still, Passive
<1>4. ~c.number /\ ~c.command_entry => Text(c)  BY DEF Quiet, End, Text, Passive
<1>5. ~c.number /\ ~c.command_entry /\ ~c.alpha_entry => Idle(c)  BY DEF Quiet, End, Idle, Shut, Still
<1>. QED  BY <1>2, <1>3, <1>4, <1>5 DEF Quiet, End

LEMMA CalmQuiet == ASSUME NEW c, NEW d, Quiet(c), Calm(c, d) PROVE Quiet(d)
<1>1. End(d)  BY CalmEnd DEF Quiet
<1>2. d.pending = None /\ ~d.getkey /\ ~d.clall /\ ~d.running  BY DEF Quiet, Calm
<1>. QED  BY <1>1, <1>2 DEF Quiet

\* The letters of a text are finished.
LEMMA LettersQuiet ==
    ASSUME NEW c, Quiet(c)
    PROVE  /\ Quiet(AlphaEntered(c)) /\ ~AlphaEntered(c).alpha_entry
           /\ AlphaEntered(c).command_entry => c.command_entry
           /\ Quiet([c EXCEPT !.alpha_entry = FALSE])
<1>. DEFINE e == [c EXCEPT !.alpha_entry = FALSE]
            a == AlphaEntered(c)
<1>1. CASE c.alpha_entry
  <2>1. Text(c)  BY <1>1, QuietIs DEF Quiet, End
  <2>2. Shut(e) /\ e.pending = None /\ Shut(a) /\ a.pending = None
    BY <2>1, LettersText, LettersEntered DEF Quiet
  <2>. HIDE DEF e, a
  <2>3. Idle(e) /\ Idle(a)  BY <2>2 DEF Idle
  <2>4. ~a.alpha_entry /\ ~a.command_entry  BY <2>2 DEF Shut, Still
  <2>. QED  BY <2>3, <2>4, QuietIs DEF e, a
<1>2. CASE ~c.alpha_entry
  <2>1. /\ Shape(e) /\ e.menu = c.menu /\ ~e.alpha_entry
        /\ \A f \in ModeFields \ {"alpha_entry"} : e[f] = c[f]
    BY <1>2 DEF Quiet, End, Shape, Record, Fields, ModeFields
  <2>2. a = e  BY <1>2 DEF AlphaEntered
  <2>. HIDE DEF e, a
  <2>3. End(e)  BY <1>2, <2>1 DEF Quiet, End, ModeFields
  <2>4. Quiet(e)  BY <2>1, <2>3 DEF Quiet, ModeFields
  <2>5. e.command_entry => c.command_entry  BY <2>1 DEF ModeFields
  <2>. QED  BY <2>1, <2>2, <2>4, <2>5 DEF e, a
<1>. QED  BY <1>1, <1>2

LEMMA ModeKeyModed ==
    ASSUME NEW c, Quiet(c), NEW s, NEW x,
           c.number => x \in MenuKeys \cup Digits \cup {"DOT", "E", "CHS", "BSP"},
           NEW d \in ModeKey(c, s, x)
    PROVE  Moded(d)
<1>1. \/ c.number /\ d \in keydown_number_entry(c, s, x)
      \/ c.command_entry /\ d \in keydown_command_entry(c, s, x)
      \/ ~c.number /\ ~c.command_entry /\ c.alpha_mode /\ d \in keydown_alpha_mode(c, s, x)
      \/ ~c.number /\ ~c.command_entry /\ ~c.alpha_mode /\ d \in keydown_normal_mode(c, s, x)
  BY Zenon DEF ModeKey
<1>2. CASE c.number /\ d \in keydown_number_entry(c, s, x)
  <2>1. Num(c)  BY <1>2, QuietIs
  <2>2. Num(d) \/ Shut(d)  BY <1>2, <2>1, NumberEntryModes
  <2>. QED  BY <2>2, StatesModed
<1>3. CASE c.command_entry /\ d \in keydown_command_entry(c, s, x)
  BY <1>3, QuietIs, CommandKeyEnded, StatesModed
<1>4. CASE ~c.number /\ ~c.command_entry /\ c.alpha_mode /\ d \in keydown_alpha_mode(c, s, x)
  <2>1. Text(c) /\ c.pending = None  BY <1>4, QuietIs
  <2>. QED  BY <1>4, <2>1, AlphaModeModes, StatesModed
<1>5. CASE ~c.number /\ ~c.command_entry /\ ~c.alpha_mode /\ d \in keydown_normal_mode(c, s, x)
  <2>1. ~c.alpha_entry  BY <1>5 DEF Quiet, End
  <2>2. Idle(c)  BY <1>5, <2>1, QuietIs
  <2>. QED  BY <1>5, <2>2, NormalModeModes
<1>. QED  BY <1>1, <1>2, <1>3, <1>4, <1>5

LEMMA EditingKeyEnd ==
    ASSUME NEW c, Quiet(c), NEW s, NEW x, NEW d \in EditingKey(c, s, x) PROVE End(d)
<1>. DEFINE n == IF c.number /\ ~Continues(c, s, x) THEN NumberEntered(c) ELSE c
            a == AlphaEntered(n)
            e == [n EXCEPT !.alpha_entry = FALSE]
<1>1. Quiet(n) /\ (n.number => Continues(c, s, x))
  <2>1. CASE c.number /\ ~Continues(c, s, x)
    <3>1. Idle(n)  BY <2>1, QuietIs, NumberEnteredShut DEF Idle
    <3>. HIDE DEF n
    <3>2. Quiet(n)  BY <3>1, QuietIs
    <3>3. ~n.number  BY <3>1 DEF Idle, Shut, Still
    <3>. QED  BY <3>2, <3>3
  <2>2. CASE ~(c.number /\ ~Continues(c, s, x))
    BY <2>2
  <2>. QED  BY <2>1, <2>2
<1>2. d \in {n, redisplay(bst(a)), redisplay(sst(a)), Pend(redisplay(bst(e)), "CANCELLED", None)}
      \/ d \in ModeKey(n, s, x)
  BY DEF EditingKey
<1>. HIDE DEF n
<1>3. n.number => x \in MenuKeys \cup Digits \cup {"DOT", "E", "CHS", "BSP"}
  BY <1>1, NumberKeysAre DEF Continues, Back
<1>4. Quiet(a) /\ Quiet(e)  BY <1>1, LettersQuiet
<1>. HIDE DEF a, e
<1>5. \A q : Quiet(q) => End(q) /\ End(redisplay(bst(q))) /\ End(redisplay(sst(q)))
  <2>. TAKE q
  <2>1. Quiet(q) => Shape(q) /\ End(q)  BY DEF Quiet, End
  <2>2. Quiet(q) => Calm(q, bst(q)) /\ Calm(q, sst(q))  BY <2>1, StoreCalm
  <2>. QED  BY <2>1, <2>2, CalmEnd, RedisplayEnd
<1>6. End(Pend(redisplay(bst(e)), "CANCELLED", None))  BY <1>4, <1>5, PassiveEnd DEF Passive
<1>7. d \in ModeKey(n, s, x) => End(d)  BY <1>1, <1>3, ModeKeyModed, ModedEnd
<1>. QED  BY <1>1, <1>2, <1>4, <1>5, <1>6, <1>7

LEMMA ProgramModeEnd == ASSUME NEW c, Quiet(c), ~c.command_entry PROVE End(ProgramMode(c))
<1>. DEFINE e == IF c.prgm_mode /\ ~c.alpha_entry /\ c.number THEN NumberEntered(c) ELSE AlphaEntered(c)
            t == [e EXCEPT !.alpha_entry = FALSE, !.number = FALSE, !.prgm_mode = ~@,
                           !.varmenu_active = FALSE, !.message = FALSE]
<1>1. Quiet(e) /\ ~e.command_entry
  <2>1. c.number => Idle(NumberEntered(c))  BY QuietIs, NumberEnteredShut DEF Idle
  <2>2. c.number => Quiet(NumberEntered(c)) /\ ~NumberEntered(c).command_entry
    BY <2>1, QuietIs DEF Idle, Shut, Still
  <2>. QED  BY <2>2, LettersQuiet
<1>2. ProgramMode(c) \in {redisplay(set_menu(t, "app", "BASE")), redisplay(Show(t, "plain", None)),
                          redisplay(t)}
  BY DEF ProgramMode
<1>. HIDE DEF e
<1>3. /\ Shape(t) /\ t.menu = e.menu /\ ~t.alpha_entry /\ ~t.number
      /\ \A f \in ModeFields \ {"alpha_entry", "number"} : t[f] = e[f]
  BY <1>1 DEF Quiet, End, Shape, Record, Fields, ModeFields
<1>. HIDE DEF t
<1>4. End(t)  BY <1>1, <1>3 DEF Quiet, End, ModeFields
<1>5. Calm(t, set_menu(t, "app", "BASE")) /\ Calm(t, Show(t, "plain", None))
  BY <1>3, SetMenuCalm, ShowCalm DEF FiveLevels
<1>. QED  BY <1>2, <1>4, <1>5, CalmEnd, RedisplayEnd

\* GETKEY has its key.
LEMMA KeyGotEnd ==
    ASSUME NEW c, End(c), c.pending = None, c.getkey, NEW s, NEW x, NEW d \in KeyGot(c, s, x)
    PROVE  End(d)
<1>. DEFINE m == display_error(c)
            v == c.running /\ x # "EXIT" /\ (s \/ x # "RUN")
            a == [c EXCEPT !.storable = TRUE, !.running = v]
            b == [m EXCEPT !.running = FALSE]
            o(h) == [h EXCEPT !.getkey = FALSE]
<1>1. Calm(c, m)  BY DisplayCalm DEF End
<1>2. End(m) /\ m.pending = None /\ m.getkey  BY <1>1, CalmEnd DEF Calm
<1>3. d \in {GetkeyOver(a), GetkeyOver(b)}  BY DEF KeyGot, End, Shape, Record, Fields
<1>4. ASSUME NEW h, h \in {a, b} PROVE End(o(h))
  <2>1. \E e \in {c, m} : /\ Shape(o(h)) /\ o(h).menu = e.menu /\ ~o(h).getkey
                          /\ \A f \in ModeFields \ {"getkey", "running"} : o(h)[f] = e[f]
    <3>1. /\ Shape(o(a)) /\ o(a).menu = c.menu /\ ~o(a).getkey
          /\ \A f \in ModeFields \ {"getkey", "running"} : o(a)[f] = c[f]
      BY DEF End, Shape, Record, Fields, ModeFields
    <3>. HIDE DEF m
    <3>2. /\ Shape(o(b)) /\ o(b).menu = m.menu /\ ~o(b).getkey
          /\ \A f \in ModeFields \ {"getkey", "running"} : o(b)[f] = m[f]
      BY <1>2 DEF End, Shape, Record, Fields, ModeFields
    <3>. HIDE DEF a, b, o
    <3>. QED  BY <1>4, <3>1, <3>2
  <2>2. PICK e \in {c, m} : /\ Shape(o(h)) /\ o(h).menu = e.menu /\ ~o(h).getkey
                            /\ \A f \in ModeFields \ {"getkey", "running"} : o(h)[f] = e[f]
    BY <2>1
  <2>3. End(e) /\ e.pending = None /\ e.getkey  BY <1>2
  <2>. DEFINE g == o(h)
  <2>4. /\ Shape(g) /\ g.menu = e.menu /\ ~g.getkey
        /\ \A f \in ModeFields \ {"getkey", "running"} : g[f] = e[f]
    BY <2>2
  <2>. HIDE DEF g, m
  <2>5. End(g)  BY <2>3, <2>4 DEF End, ModeFields, Passive
  <2>. QED  BY <2>5 DEF g
<1>5. \A h : GetkeyOver(h) \in {o(h), redisplay(o(h))}  BY DEF GetkeyOver
<1>. HIDE DEF a, b, o
<1>6. \A h : End(o(h)) => End(GetkeyOver(h))  BY <1>5, RedisplayEnd
<1>. QED  BY <1>3, <1>4, <1>6

\* The question of CLALL has its answer.
LEMMA ClallAnsweredEnd ==
    ASSUME NEW c, End(c), c.pending = None, c.clall, c.running => c.getkey, NEW s, NEW x
    PROVE  End(ClallAnswered(c, s, x))
<1>. DEFINE e == [c EXCEPT !.clall = FALSE]
            d(p) == Pend(e, p, None)
<1>1. ClallAnswered(c, s, x) \in {d("CLALLb"), d("CANCELLED"), d("NULL")}
  BY DEF ClallAnswered
<1>2. /\ Shape(e) /\ e.menu = c.menu /\ ~e.clall
      /\ \A f \in ModeFields \ {"clall"} : e[f] = c[f]
  BY DEF End, Shape, Record, Fields, ModeFields
<1>. HIDE DEF e
<1>3. \A p : /\ Shape(d(p)) /\ d(p).menu = e.menu /\ d(p).pending = p
             /\ \A f \in ModeFields \ {"pending"} : d(p)[f] = e[f]
  BY <1>2 DEF Pend, Shape, Record, Fields, ModeFields
<1>. HIDE DEF d
<1>4. ASSUME NEW p \in {"CLALLb", "CANCELLED", "NULL"} PROVE End(d(p))
  <2>. DEFINE g == d(p)
  <2>1. /\ Shape(g) /\ g.menu = c.menu /\ g.pending = p
        /\ \A f \in ModeFields \ {"clall", "pending"} : g[f] = c[f]
    BY <1>2, <1>3
  <2>a. ~g.clall  BY <1>2, <1>3 DEF ModeFields
  <2>. HIDE DEF g
  <2>2. End(g)  BY <2>1, <2>a DEF End, ModeFields, Passive
  <2>. QED  BY <2>2 DEF g
<1>. QED  BY <1>1, <1>4

LEMMA KeydownEnd ==
    ASSUME NEW c0, End(c0), c0.running => c0.getkey, NEW x, NEW s, NEW d \in keydown(c0, x, s)
    PROVE  End(d)
<1>. DEFINE c == [c0 EXCEPT !.pending = None]
            e == [c EXCEPT !.message = FALSE]
            b == set_menu(e, "app", "A_THRU_F")
            o == [c EXCEPT !.pending = "SILENT_OFF"]
<1>1. \/ d = c
      \/ c.clall /\ d = ClallAnswered(c, x, s)
      \/ ~c.clall /\ c.getkey /\ d \in KeyGot(c, x, s)
      \/ /\ ~c.clall /\ ~c.getkey
         /\ \/ d \in {o, c, redisplay(e), redisplay(b)}
            \/ ~c.command_entry /\ d = ProgramMode(c)
            \/ d \in EditingKey(e, x, s)
  BY Zenon DEF keydown
<1>2. End(c) /\ c.pending = None /\ (c.running => c.getkey)
  <2>1. c.pending = None /\ c.running = c0.running /\ c.getkey = c0.getkey
    BY DEF End, Shape, Record, Fields
  <2>2. End(c)  BY PassiveEnd DEF Passive
  <2>. QED  BY <2>1, <2>2
<1>. HIDE DEF c
<1>3. Calm(c, e)  BY <1>2, FieldsCalm DEF End
<1>. HIDE DEF e
<1>4. Calm(e, b)  BY <1>3, CalmShape, SetMenuCalm
<1>. HIDE DEF b
<1>5. End(o)  BY <1>2, PassiveEnd DEF Passive
<1>6. End(redisplay(e)) /\ End(redisplay(b))  BY <1>2, <1>3, <1>4, CalmEnd, RedisplayEnd
<1>. HIDE DEF o
<1>7. ~c.clall /\ ~c.getkey => Quiet(c) /\ Quiet(e)  BY <1>2, <1>3, CalmQuiet DEF Quiet
<1>. QED
  BY <1>1, <1>2, <1>5, <1>6, <1>7, ClallAnsweredEnd, KeyGotEnd, ProgramModeEnd, EditingKeyEnd

-----------------------------------------------------------------------------
(***************************************************************************)
(* The commands.  While one is executed no entry goes on but that of       *)
(* letters, which CLA ends and ARCL begins.                                *)
(***************************************************************************)
Hand(c, p) ==
    /\ Shape(c) /\ ~c.command_entry /\ ~c.number /\ c.pending = p
    /\ c.alpha_entry \/ c.menu["alpha"] # None => c.alpha_mode
    /\ c.alpha_entry => ~c.getkey /\ ~c.clall /\ ~c.running
    /\ Asked \/ (~c.clall /\ c.menu["command"] = None)

LEMMA HandEnd == ASSUME NEW c, NEW p \in Passive, Hand(c, p) PROVE End(c)
BY DEF Hand, End

LEMMA CalmHand == ASSUME NEW c, NEW p, Hand(c, p), NEW d, Calm(c, d) PROVE Hand(d, p)
BY DEF Hand, Calm

LEMMA RunningHand ==
    ASSUME NEW c, NEW p, Hand(c, p), NEW v, c.alpha_entry => ~v
    PROVE  Hand([c EXCEPT !.running = v], p)
<1>. DEFINE d == [c EXCEPT !.running = v]
<1>1. /\ Shape(d) /\ d.menu = c.menu /\ d.running = v
      /\ \A f \in ModeFields \ {"running"} : d[f] = c[f]
  BY DEF Hand, Shape, Record, Fields, ModeFields
<1>. HIDE DEF d
<1>2. Hand(d, p)  BY <1>1 DEF Hand, ModeFields
<1>. QED  BY <1>2 DEF d

LEMMA FailedHand ==
    ASSUME NEW c, NEW p, Hand(c, p)
    PROVE  Hand(Failed(c), p) /\ \A e : Hand(e, p) => \A d \in OrFails(c, e) : Hand(d, p)
<1>1. Hand(display_error(c), p)
  <2>1. Calm(c, display_error(c))  BY DisplayCalm DEF Hand
  <2>. QED  BY <2>1, CalmHand
<1>2. Hand(Failed(c), p)  BY <1>1, RunningHand DEF Failed
<1>. QED  BY <1>2 DEF OrFails

\* An application enters its menu.
LEMMA ApplicationCalm ==
    ASSUME NEW c, Shape(c), NEW m, NEW n \in {0, 1, 2, 3, 4, 5}
    PROVE  Calm(c, appmenu(c, m, n)) /\ Calm(c, set_appmenu(c, m, FALSE))
<1>. DEFINE s == set_appmenu(c, m, FALSE)
            d == [s EXCEPT !.callback = n]
<1>1. Calm(c, s)  BY AppmenuCalm
<1>2. appmenu(c, m, n) = d  BY DEF appmenu
<1>. HIDE DEF s
<1>3. Calm(s, d)
  <2>1. Shape(s)  BY <1>1, CalmShape
  <2>. QED  BY <2>1 DEF Calm, Shape, Record, Fields
<1>. HIDE DEF d
<1>. QED  BY <1>1, <1>2, <1>3, CalmChain DEF s

\* The editor opens.
LEMMA EditorCalm ==
    ASSUME NEW c, Shape(c), NEW v
    PROVE  Calm(c, appmenu([c EXCEPT !.editing = TRUE, !.storable = TRUE, !.prevmenu = v], "EDIT1", 1))
<1>. DEFINE e == [c EXCEPT !.editing = TRUE, !.storable = TRUE, !.prevmenu = v]
<1>1. Calm(c, e)  BY DEF Calm, Shape, Record, Fields
<1>. HIDE DEF e
<1>2. Calm(e, appmenu(e, "EDIT1", 1))  BY <1>1, CalmShape, ApplicationCalm
<1>. QED  BY <1>1, <1>2, CalmChain DEF e

LEMMA MatricesHand ==
    ASSUME NEW c, NEW p, Hand(c, p),
           NEW d \in docmd_edit(c) \cup docmd_mata(c) \cup docmd_simq(c) \cup Values(c)
    PROVE  Hand(d, p)
<1>1. Shape(c)  BY DEF Hand
<1>2. CASE d \in docmd_edit(c)
  <2>. DEFINE f == IF c.editing THEN set_appmenu(c, None, FALSE) ELSE c
              n == IF f.menu["app"] \in MatrixMenus THEN f.menu["app"] ELSE None
              g == appmenu([f EXCEPT !.editing = TRUE, !.storable = TRUE, !.prevmenu = n], "EDIT1", 1)
  <2>1. d = Failed(c) \/ d \in OrFails(f, g)  BY <1>2 DEF docmd_edit
  <2>2. Calm(c, f)  BY <1>1, ApplicationCalm, CalmItself
  <2>. HIDE DEF f
  <2>3. Calm(f, g)  BY <2>2, CalmShape, EditorCalm
  <2>. HIDE DEF g
  <2>. QED  BY <2>1, <2>2, <2>3, CalmHand, FailedHand
<1>3. CASE d \in docmd_mata(c)
  BY <1>1, <1>3, EditorCalm, CalmHand, FailedHand DEF docmd_mata
<1>4. CASE d \in docmd_simq(c)
  BY <1>1, <1>4, ApplicationCalm, CalmHand, FailedHand DEF docmd_simq
<1>5. CASE d \in Values(c)
  <2>1. \A b : Hand([c EXCEPT !.storable = b], p)  BY <1>1, FieldsCalm, CalmHand
  <2>. QED  BY <1>5, <2>1 DEF Values
<1>. QED  BY <1>2, <1>3, <1>4, <1>5

\* The menus of variables and of the bases.
LEMMA ApplicationsHand ==
    ASSUME NEW c, NEW p, Hand(c, p)
    PROVE  /\ \A d \in docmd_varmenu(c) : Hand(d, p)
           /\ Hand(docmd_pgmslvi(c), p) /\ Hand(docmd_pgminti(c), p)
           /\ \A b : Hand(base_helper(c, b), p)
<1>1. Shape(c)  BY DEF Hand
<1>2. \A d \in docmd_varmenu(c) : Hand(d, p)
  <2>. DEFINE r == [c EXCEPT !.role = 0]
  <2>1. Calm(c, r)  BY <1>1, FieldsCalm
  <2>. HIDE DEF r
  <2>2. Calm(r, set_appmenu(r, "VARMENU", FALSE))  BY <2>1, CalmShape, ApplicationCalm
  <2>3. Hand(set_appmenu(r, "VARMENU", FALSE), p)  BY <2>1, <2>2, CalmHand
  <2>. QED  BY <2>3, FailedHand DEF docmd_varmenu, r
<1>3. Hand(docmd_pgmslvi(c), p)
  <2>. DEFINE a == appmenu(c, "VARMENU", 3)
  <2>1. Calm(c, a)  BY <1>1, ApplicationCalm
  <2>. HIDE DEF a
  <2>2. Calm(a, [a EXCEPT !.role = 1])  BY <2>1, CalmShape, FieldsCalm
  <2>. QED  BY <2>1, <2>2, CalmHand DEF docmd_pgmslvi, a
<1>4. Hand(docmd_pgminti(c), p)
  <2>. DEFINE a == appmenu(c, "VARMENU", 4)
              b == display_error(a)
              d == [b EXCEPT !.role = 2, !.varmenu_active = TRUE]
  <2>1. Calm(c, a)  BY <1>1, ApplicationCalm
  <2>. HIDE DEF a
  <2>2. Calm(a, b)  BY <2>1, CalmShape, DisplayCalm
  <2>. HIDE DEF b
  <2>3. Calm(b, d)
    <3>1. Shape(b)  BY <2>2, CalmShape
    <3>. QED  BY <3>1 DEF Calm, Shape, Record, Fields
  <2>. HIDE DEF d
  <2>4. Hand(d, p)  BY <2>1, <2>2, <2>3, CalmHand
  <2>. QED  BY <2>4 DEF docmd_pgminti, d, b, a
<1>5. ASSUME NEW b PROVE Hand(base_helper(c, b), p)
  <2>. DEFINE a == appmenu(c, "BASE", 2)
              e == [a EXCEPT !.baseapp = TRUE]
  <2>1. Calm(c, a)  BY <1>1, ApplicationCalm
  <2>. HIDE DEF a
  <2>2. Calm(a, e)  BY <2>1, CalmShape, FieldCalm DEF Fields, ModeFields
  <2>. HIDE DEF e
  <2>3. Hand(e, p) /\ Shape(e)  BY <2>1, <2>2, CalmHand, CalmShape
  <2>4. Hand(set_base(c, b), p) /\ Hand(set_base(e, b), p)  BY <1>1, <2>3, SetBaseCalm, CalmHand
  <2>5. base_helper(c, b) \in {set_base(c, b), Failed(c), set_base(e, b)}
    BY DEF base_helper, e, a
  <2>. QED  BY <2>4, <2>5, FailedHand
<1>. QED  BY <1>2, <1>3, <1>4, <1>5

\* Everything is cleared, a variable stored, a program deleted: the catalog may close.
LEMMA MemoryHand ==
    ASSUME NEW c, NEW p, Hand(c, p)
    PROVE  /\ Hand(docmd_clall(c), p)
           /\ \A d \in VariableStored(c) : Hand(d, p) /\ Hand([d EXCEPT !.varmenu_active = ~d.message], p)
           /\ \A d \in VariableDeleted(c) \cup ProgramDeleted(c) : Hand(d, p)
<1>1. \A e : Hand(e, p) => Shape(e)  BY DEF Hand
<1>2. \A e : Hand(e, p) => Hand(update_catalog(e), p)  BY <1>1, CatalogUpdateCalm, CalmHand
<1>3. Hand(docmd_clall(c), p)
  <2>. DEFINE s == [c EXCEPT !.storable = TRUE]
              m == set_menu(s, "app", None)
              d == [m EXCEPT !.prgm_mode = FALSE, !.lines = 0, !.pc = 0, !.vars = {"mat"}, !.mvars = FALSE]
  <2>1. Calm(c, s)  BY <1>1, FieldsCalm
  <2>. HIDE DEF s
  <2>2. Calm(s, m)  BY <2>1, CalmShape, SetMenuCalm
  <2>. HIDE DEF m
  <2>3. Calm(m, d)
    <3>1. Shape(m)  BY <2>2, CalmShape
    <3>. QED  BY <3>1 DEF Calm, Shape, Record, Fields
  <2>. HIDE DEF d
  <2>4. Hand(d, p)  BY <2>1, <2>2, <2>3, CalmHand
  <2>. QED  BY <1>2, <2>4 DEF docmd_clall, d, m, s
<1>4. \A v : Hand(update_catalog([c EXCEPT !.vars = v]), p)
  <2>. TAKE v
  <2>1. Hand([c EXCEPT !.vars = v], p)  BY <1>1, FieldsCalm, CalmHand
  <2>. QED  BY <1>2, <2>1
<1>5. \A d \in VariableStored(c) : Hand(d, p)  BY <1>4, FailedHand DEF VariableStored
<1>6. \A d, v : Hand(d, p) => Hand([d EXCEPT !.varmenu_active = v], p)  BY <1>1, FieldsCalm, CalmHand
<1>7. \A d \in VariableDeleted(c) : Hand(d, p)  BY <1>4 DEF VariableDeleted
<1>8. \A d \in ProgramDeleted(c) : Hand(d, p)
  <2>. DEFINE e == [c EXCEPT !.lines = 0, !.pc = 0, !.mvars = FALSE]
  <2>1. Calm(c, e)  BY <1>1 DEF Calm, Shape, Record, Fields
  <2>. HIDE DEF e
  <2>2. Hand(update_catalog(e), p)  BY <1>2, <2>1, CalmHand
  <2>. QED  BY <2>2, FailedHand DEF ProgramDeleted, e
<1>. QED  BY <1>3, <1>5, <1>6, <1>7, <1>8

\* ALPHA mode comes with its menu and goes with it.
LEMMA AlphaCommandsHand ==
    ASSUME NEW c, NEW p, Hand(c, p)
    PROVE  Hand(docmd_aon(c), p) /\ (~c.alpha_entry => Hand(docmd_aoff(c), p))
<1>. DEFINE e == [c EXCEPT !.alpha_mode = TRUE, !.alpha_entry = FALSE]
            f == [c EXCEPT !.alpha_mode = FALSE]
            a == Show(e, "alpha", "ALPHA1")
            b == Show(f, "alpha", None)
<1>1. /\ Shape(e) /\ e.alpha_mode /\ ~e.alpha_entry
      /\ \A g \in ModeFields \ {"alpha_mode", "alpha_entry"} : e[g] = c[g]
      /\ Shape(f) /\ \A g \in ModeFields \ {"alpha_mode"} : f[g] = c[g]
  BY DEF Hand, Shape, Record, Fields, ModeFields
<1>. HIDE DEF e, f
<1>2. /\ Shape(a) /\ (\A g \in ModeFields : a[g] = e[g]) /\ a.menu["command"] = None
      /\ Shape(b) /\ (\A g \in ModeFields : b[g] = f[g]) /\ b.menu["command"] = None
      /\ b.menu["alpha"] = None
  BY <1>1, ShowModes DEF FiveLevels
<1>. HIDE DEF a, b
<1>3. Hand(a, p)  BY <1>1, <1>2 DEF Hand, ModeFields
<1>4. ~c.alpha_entry => Hand(b, p)  BY <1>1, <1>2 DEF Hand, ModeFields
<1>. QED  BY <1>3, <1>4 DEF docmd_aon, docmd_aoff, AlphaOff, a, b, e, f

\* The commands that show or leave another menu.
LEMMA MenuCommandsHand ==
    ASSUME NEW c, NEW p, Hand(c, p)
    PROVE  /\ Hand(docmd_custom(c), p) /\ Hand(set_flag_custom(c), p) /\ Hand(docmd_menu(c), p)
           /\ Hand(docmd_exitall(c), p)
<1>1. \A m : Hand(Show(c, "plain", m), p)
  <2>1. \A m : Calm(c, Show(c, "plain", m))  BY ShowCalm DEF Hand, FiveLevels
  <2>. QED  BY <2>1, CalmHand
<1>2. Hand(docmd_menu(c), p)
  <2>. DEFINE s == Show(c, "plain", "PROGRAMMABLE")
  <2>1. Hand(s, p)  BY <1>1
  <2>. HIDE DEF s
  <2>2. Calm(s, [s EXCEPT !.sticky = TRUE])  BY <2>1, FieldsCalm DEF Hand
  <2>. QED  BY <2>1, <2>2, CalmHand DEF docmd_menu, s
<1>3. Hand(docmd_exitall(c), p)
  <2>1. Shape(c)  BY DEF Hand
  <2>2. Calm(c, set_appmenu(c, None, TRUE))  BY <2>1, AppmenuCalm
  <2>3. Hand(set_appmenu(c, None, TRUE), p)  BY <2>2, CalmHand
  <2>. QED  BY <2>3, FailedHand DEF docmd_exitall
<1>. QED  BY <1>1, <1>2, <1>3 DEF docmd_custom, set_flag_custom

\* GETKEY waits, CLA ends the entry of letters, ARCL begins it.
LEMMA EntryCommandsHand ==
    ASSUME NEW c, NEW p, Hand(c, p)
    PROVE  /\ ~c.alpha_entry => Hand([c EXCEPT !.getkey = TRUE], p)
           /\ Hand([c EXCEPT !.alpha_entry = FALSE], p)
           /\ ~c.alpha_entry /\ (c.running \/ (~c.getkey /\ ~c.clall)) => Hand(docmd_arcl(c), p)
<1>. DEFINE g == [c EXCEPT !.getkey = TRUE]
            e == [c EXCEPT !.alpha_entry = FALSE]
            a == docmd_arcl(c)
<1>1. /\ Shape(g) /\ g.menu = c.menu /\ \A f \in ModeFields \ {"getkey"} : g[f] = c[f]
      /\ Shape(e) /\ e.menu = c.menu /\ ~e.alpha_entry /\ \A f \in ModeFields \ {"alpha_entry"} : e[f] = c[f]
      /\ Shape(a) /\ a.menu = c.menu /\ \A f \in ModeFields \ {"alpha_entry"} : a[f] = c[f]
      /\ a.alpha_entry <=> c.alpha_entry \/ (c.alpha_mode /\ ~c.running)
  BY DEF Hand, docmd_arcl, Shape, Record, Fields, ModeFields
<1>. HIDE DEF g, e, a
<1>2. ~c.alpha_entry => Hand(g, p)  BY <1>1 DEF Hand, ModeFields
<1>3. Hand(e, p)  BY <1>1 DEF Hand, ModeFields
<1>4. ~c.alpha_entry /\ (c.running \/ (~c.getkey /\ ~c.clall)) => Hand(a, p)  BY <1>1 DEF Hand, ModeFields
<1>. QED  BY <1>2, <1>3, <1>4 DEF g, e, a

LEMMA HandlerHand ==
    ASSUME NEW c, NEW p, Hand(c, p), NEW x, c.alpha_entry => x = "CLA",
           x = "ARCL" => c.running \/ (~c.getkey /\ ~c.clall), NEW d \in Handler(c, x)
    PROVE  Hand(d, p)
<1>. DEFINE l == [c EXCEPT !.lines = 0, !.pc = 0]
            n(m) == [c EXCEPT !.lines = m, !.pc = IF @ > m THEN m ELSE @]
            g == [c EXCEPT !.getkey = TRUE]
            e == [c EXCEPT !.alpha_entry = FALSE]
            menus == {docmd_custom(c), set_flag_custom(c), docmd_menu(c), docmd_exitall(c),
                      docmd_pgmslvi(c), docmd_pgminti(c), base_helper(c, 16), base_helper(c, 10),
                      docmd_clall(c)}
            matrices == docmd_edit(c) \cup docmd_mata(c) \cup docmd_simq(c) \cup Values(c)
<1>1. Shape(c)  BY DEF Hand
<1>2. Hand(l, p) /\ \A m : Hand(n(m), p)
  <2>1. Calm(c, l) /\ \A m : Calm(c, n(m))  BY <1>1 DEF Calm, Shape, Record, Fields
  <2>. QED  BY <2>1, CalmHand
<1>3. \A t \in GoesTo(c) : Hand(t, p)
  <2>1. \A v : Hand([c EXCEPT !.pc = v], p)  BY <1>1, FieldsCalm, CalmHand
  <2>. QED  BY <2>1, FailedHand DEF GoesTo
<1>4. ~c.alpha_entry => \A t \in ProgramStarts(c) : Hand(t, p)
  <2>1. ~c.alpha_entry => Hand([c EXCEPT !.running = TRUE], p)  BY RunningHand
  <2>. QED  BY <2>1, FailedHand DEF ProgramStarts
<1>5. \/ x = "AON" /\ d = docmd_aon(c)
      \/ x = "AOFF" /\ d = docmd_aoff(c)
      \/ x = "GETKEY" /\ d = g
      \/ x = "CLA" /\ d = e
      \/ x = "ARCL" /\ d \in OrFails(c, docmd_arcl(c))
      \/ x \in {"XEQ", "VMSOLVE", "INTEG", "SOLVE"} /\ d \in ProgramStarts(c)
      \/ d \in menus \/ d \in {l, c}
      \/ \E m : d = n(m)
      \/ \E t \in VariableStored(c) : d \in {t, [t EXCEPT !.varmenu_active = ~t.message]}
      \/ d \in VariableDeleted(c) \cup ProgramDeleted(c)
      \/ d \in GoesTo(c) \/ d \in matrices \/ d \in docmd_varmenu(c)
  BY Zenon DEF Handler
<1>6. d \in menus => Hand(d, p)
  <2>1. /\ Hand(docmd_custom(c), p) /\ Hand(set_flag_custom(c), p) /\ Hand(docmd_menu(c), p)
        /\ Hand(docmd_exitall(c), p)
    BY MenuCommandsHand
  <2>2. /\ Hand(docmd_pgmslvi(c), p) /\ Hand(docmd_pgminti(c), p)
        /\ Hand(base_helper(c, 16), p) /\ Hand(base_helper(c, 10), p)
    BY ApplicationsHand
  <2>3. Hand(docmd_clall(c), p)  BY MemoryHand
  <2>. QED  BY <2>1, <2>2, <2>3
<1>7. d \in matrices => Hand(d, p)  BY MatricesHand
<1>8. d \in docmd_varmenu(c) => Hand(d, p)  BY ApplicationsHand
<1>9. ~c.alpha_entry => Hand(docmd_aoff(c), p) /\ Hand(g, p)  BY AlphaCommandsHand, EntryCommandsHand
<1>10. Hand(docmd_aon(c), p) /\ Hand(e, p)  BY AlphaCommandsHand, EntryCommandsHand
<1>11. x = "ARCL" => \A t \in OrFails(c, docmd_arcl(c)) : Hand(t, p)
  BY EntryCommandsHand, FailedHand
<1>12. c.alpha_entry => x \notin {"AOFF", "GETKEY", "XEQ", "VMSOLVE", "INTEG", "SOLVE"}  OBVIOUS
<1>13. /\ \A t \in VariableStored(c) : Hand(t, p) /\ Hand([t EXCEPT !.varmenu_active = ~t.message], p)
       /\ \A t \in VariableDeleted(c) \cup ProgramDeleted(c) : Hand(t, p)
  BY MemoryHand
<1>. HIDE DEF l, n, g, e, menus, matrices
<1>. QED
  BY <1>2, <1>3, <1>4, <1>5, <1>6, <1>7, <1>8, <1>9, <1>10, <1>11, <1>12, <1>13

-----------------------------------------------------------------------------
(***************************************************************************)
(* The key comes up, the timers pass, the power comes back.                *)
(***************************************************************************)

LEMMA DoneEnd ==
    ASSUME NEW c, NEW p, Hand(c, p)
    PROVE  End(Done(c)) /\ ~Done(c).command_entry /\ Done(c).pending = None
<1>. DEFINE d == Pend(c, None, None)
<1>1. /\ Shape(d) /\ d.menu = c.menu /\ d.pending = None
      /\ \A f \in ModeFields \ {"pending"} : d[f] = c[f]
  BY DEF Hand, Pend, Shape, Record, Fields, ModeFields
<1>2. Done(c) \in {d, redisplay(d)}  BY DEF Done
<1>. HIDE DEF d
<1>3. End(d) /\ ~d.command_entry /\ d.pending = None  BY <1>1 DEF Hand, End, ModeFields, Passive
<1>4. Calm(d, redisplay(d))  BY <1>1, DisplayCalm
<1>. QED  BY <1>2, <1>3, <1>4, RedisplayEnd DEF Calm

\* A line of a program is executed, letters being not entered.
LEMMA LineHand ==
    ASSUME NEW c, NEW p, Hand(c, p), ~c.alpha_entry, NEW d \in Line(c) PROVE Hand(d, p)
<1>. DEFINE e == [c EXCEPT !.running = TRUE]
<1>1. PICK x \in Steps : d \in Handler(e, x)  BY DEF Line
<1>2. Hand(e, p)  BY RunningHand
<1>3. e.running /\ ~e.alpha_entry  BY DEF Hand, Shape, Record, Fields
<1>. HIDE DEF e
<1>. QED  BY <1>1, <1>2, <1>3, HandlerHand

LEMMA PendingHand ==
    ASSUME NEW c, End(c), c.pending \notin Passive \/ (c.running /\ ~c.getkey)
    PROVE  Hand(c, c.pending)
<1>1. ~c.command_entry /\ ~c.number  BY DEF End
<1>2. c.alpha_entry => ~c.getkey /\ ~c.clall /\ ~c.running  BY DEF End
<1>. QED  BY <1>1, <1>2 DEF End, Hand

LEMMA ExecuteEnd ==
    ASSUME NEW c, End(c), c.pending \notin Passive, NEW d \in Execute(c)
    PROVE  End(d) /\ ~d.command_entry /\ d.pending = None
<1>. DEFINE x == c.pending
            e == [c EXCEPT !.varmenu_active = c.pending \in {"VMSTO", "VMSTO2", "VMSOLVE", "VMEXEC"}]
            q == Pend(e, None, None)
            r == [q EXCEPT !.running = TRUE, !.pc = IF @ = 0 THEN 1 ELSE @]
<1>1. Calm(c, e)  BY FieldsCalm DEF End
<1>2. Hand(c, x)  BY PendingHand
<1>3. \/ x \in {"RUN", "VMEXEC"} /\ d = r
      \/ x = "SST" /\ \E l \in Line(e) : d = Done([l EXCEPT !.running = FALSE])
      \/ x \notin {"RUN", "VMEXEC", "SST"} /\ \E l \in Handler(e, x) : d = Done(l)
  BY Zenon DEF Execute
<1>4. /\ c.alpha_entry => x = "CLA"
      /\ c.running => c.getkey
      /\ c.getkey => x = "CLALLb"
      /\ ~c.clall
  BY DEF End
<1>. HIDE DEF e, x
<1>5. Hand(e, x)  BY <1>1, <1>2, CalmHand
<1>6. /\ e.alpha_entry => x = "CLA"
      /\ e.running => e.getkey
      /\ e.getkey => x = "CLALLb"
      /\ ~e.clall
  BY <1>1, <1>4 DEF Calm
<1>7. x \in {"RUN", "VMEXEC"} => End(r) /\ ~r.command_entry /\ r.pending = None
  <2>1. /\ Shape(r) /\ r.menu = e.menu /\ r.pending = None
        /\ \A f \in ModeFields \ {"pending", "running"} : r[f] = e[f]
    BY <1>5 DEF Hand, Pend, Shape, Record, Fields, ModeFields
  <2>. HIDE DEF r
  <2>. QED  BY <1>5, <1>6, <2>1 DEF Hand, End, ModeFields, Passive
<1>. HIDE DEF r
<1>. DEFINE Over(f) == End(f) /\ ~f.command_entry /\ f.pending = None
<1>8. x = "SST" => \A l \in Line(e) : Over(Done([l EXCEPT !.running = FALSE]))
  <2>1. x = "SST" => \A l \in Line(e) : Hand(l, x)  BY <1>5, <1>6, LineHand
  <2>. QED  BY <2>1, RunningHand, DoneEnd
<1>9. \A l \in Handler(e, x) : Over(Done(l))
  <2>1. x = "ARCL" => e.running \/ (~e.getkey /\ ~e.clall)  BY <1>6
  <2>2. \A l \in Handler(e, x) : Hand(l, x)  BY <1>5, <1>6, <2>1, HandlerHand
  <2>. QED  BY <2>2, DoneEnd
<1>. QED  BY <1>3, <1>7, <1>8, <1>9

LEMMA CatalogLeftCalm == ASSUME NEW c, Shape(c) PROVE Calm(c, CatalogLeft(c))
<1>. DEFINE t == Show(c, "transient", None)
            p == Show(c, "plain", None)
<1>1. Calm(c, t) /\ Calm(c, p)  BY ShowCalm DEF FiveLevels
<1>2. CatalogLeft(c) \in {c, [t EXCEPT !.leaving = FALSE], [p EXCEPT !.leaving = FALSE],
                          [c EXCEPT !.leaving = FALSE]}
  BY DEF CatalogLeft
<1>. HIDE DEF t, p
<1>3. \A e : Calm(c, e) => Calm(c, [e EXCEPT !.leaving = FALSE])  BY CalmShape, FieldsCalm, CalmChain
<1>. QED  BY <1>1, <1>2, <1>3, CalmItself

LEMMA KeyupEnd == ASSUME NEW c, End(c), c.pending # None, NEW d \in core_keyup(c) PROVE End(d)
<1>. DEFINE e == CatalogLeft(c)
<1>1. Calm(c, e)  BY CatalogLeftCalm DEF End
<1>2. End(e) /\ e.pending = c.pending  BY <1>1, CalmEnd DEF Calm
<1>3. \/ d \in {[c EXCEPT !.pending = "LINGER2"], [c EXCEPT !.pending = None]}
      \/ c.pending \in {"CANCELLED", "NULL"} /\ d = Done(e)
      \/ c.pending \notin {"LINGER1", "LINGER2", "SILENT_OFF", "CANCELLED", "NULL"} /\ d \in Execute(e)
  BY DEF core_keyup, Lingers
<1>. HIDE DEF e
<1>4. End([c EXCEPT !.pending = "LINGER2"]) /\ End([c EXCEPT !.pending = None])
  BY PassiveEnd DEF Passive
<1>5. End(Done(e))
  <2>1. End(Pend(e, None, None))  BY <1>2, PassiveEnd DEF Passive
  <2>. QED  BY <2>1, RedisplayEnd DEF Done
<1>. QED  BY <1>2, <1>3, <1>4, <1>5, ExecuteEnd DEF Passive

LEMMA TimersEnd == ASSUME NEW c, End(c) PROVE End(core_keytimeout2(c)) /\ End(core_timeout3(c))
<1>. DEFINE l == [c EXCEPT !.leaving = FALSE]
            m == [c EXCEPT !.message = FALSE]
            p == IF c.pending \in {"CANCELLED", "SILENT_OFF"} THEN c.pending ELSE "CANCELLED"
<1>1. Calm(c, l) /\ Calm(c, m)  BY FieldsCalm DEF End
<1>2. core_keytimeout2(c) = [l EXCEPT !.pending = p]  BY DEF core_keytimeout2, End, Shape, Record, Fields
<1>3. core_timeout3(c) \in {Pend(c, "CANCELLED", None), redisplay(Pend(m, None, None))}
  BY DEF core_timeout3
<1>4. p \in Passive  BY DEF Passive
<1>. HIDE DEF l, m, p
<1>5. End(l) /\ End(m)  BY <1>1, CalmEnd
<1>6. End([l EXCEPT !.pending = p])  BY <1>4, <1>5, PassiveEnd
<1>7. End(Pend(m, None, None)) /\ End(Pend(c, "CANCELLED", None))  BY <1>5, PassiveEnd DEF Passive
<1>. QED  BY <1>2, <1>3, <1>6, <1>7, RedisplayEnd

\* The entry of a command whose command is not pending any more ends with none.
LEMMA FinishNone ==
    ASSUME NEW c, Still(c), c.pending = None
    PROVE  Shut(finish_command_entry(c)) /\ finish_command_entry(c).pending = None
<1>. DEFINE e == [c EXCEPT !.command_entry = FALSE]
            b == Show(e, "command", None)
            s == store_command(b, None)
            n == Pend(s, None, None)
<1>1. Shut(finish_command_entry(c))  BY FinishSettled DEF None
<1>2. Still(e) /\ ~e.command_entry /\ e.pending = None  BY EntryLeftStill
<1>3. finish_command_entry(c) = IF c.prgm_mode THEN FinishesInProgram(b) ELSE do_it_now(e)
  BY DEF finish_command_entry, None
<1>. HIDE DEF e
<1>4. Still(b) /\ b.pending = None  BY <1>2, CommandMenuModes
<1>5. do_it_now(e) = b  BY <1>2 DEF do_it_now, None
<1>. HIDE DEF b
<1>6. Still(s)  BY <1>4, StoreCalm, CalmKeeps DEF Still
<1>7. Shape(n) /\ n.pending = None  BY <1>6 DEF Still, Pend, Shape, Record, Fields
<1>8. FinishesInProgram(b) = redisplay(n)  BY <1>4 DEF FinishesInProgram, None, Immediate
<1>. HIDE DEF n
<1>9. redisplay(n).pending = None  BY <1>7, DisplayCalm DEF Calm
<1>. QED  BY <1>1, <1>3, <1>4, <1>5, <1>8, <1>9

\* With flag 11: whatever was entered, the program starts in no mode.
LEMMA AutoStartEnd ==
    ASSUME NEW c, End(c), c.pending = None, ~c.getkey
    PROVE  End(AutoStart(c)) /\ ~AutoStart(c).command_entry /\ AutoStart(c).pending = None
<1>. DEFINE Free(d) == /\ Shape(d) /\ ~d.command_entry /\ ~d.getkey /\ d.pending = None
                       /\ Asked \/ ~d.clall
            f == IF c.command_entry THEN finish_command_entry(c) ELSE c
            p == CASE f.prgm_mode /\ f.alpha_entry -> [f EXCEPT !.pc = f.saved_pc]
                   [] f.prgm_mode /\ ~f.alpha_entry /\ f.number -> store_command(f, "NUMBER")
                   [] OTHER -> f
            r == [p EXCEPT !.prgm_mode = FALSE, !.alpha_entry = FALSE, !.number = FALSE,
                           !.running = TRUE]
            q == [r EXCEPT !.alpha_mode = FALSE]
            d == Show(q, "alpha", None)
<1>1. Free(f)
  <2>1. c.command_entry => Still(c)  BY DEF End, Still
  <2>2. c.command_entry => Shut(finish_command_entry(c)) /\ finish_command_entry(c).pending = None
    BY <2>1, FinishNone
  <2>3. \A e : Shut(e) /\ e.pending = None => Free(e)  BY DEF Shut, Still
  <2>4. ~c.command_entry => Free(c)  BY DEF End
  <2>. QED  BY <2>2, <2>3, <2>4
<1>2. AutoStart(c) = d  BY DEF AutoStart, AlphaOff
<1>. HIDE DEF f
<1>3. Calm(f, p)
  <2>1. Shape(f)  BY <1>1
  <2>2. /\ Calm(f, f) /\ Calm(f, [f EXCEPT !.pc = f.saved_pc]) /\ Calm(f, store_command(f, "NUMBER"))
    BY <2>1, CalmItself, FieldsCalm, StoreCalm
  <2>. QED  BY <2>2
<1>. HIDE DEF p
<1>4. Free(p)  BY <1>1, <1>3 DEF Calm
<1>5. Free(r) /\ ~r.alpha_entry /\ ~r.number
  BY <1>4 DEF Shape, Record, Fields
<1>. HIDE DEF r
<1>6. Free(q) /\ ~q.alpha_entry /\ ~q.number
  BY <1>5 DEF Shape, Record, Fields
<1>. HIDE DEF q
<1>7. /\ Shape(d) /\ \A g \in ModeFields : d[g] = q[g]
      /\ d.menu["command"] = None /\ d.menu["alpha"] = None
  BY <1>6, ShowModes DEF FiveLevels
<1>. HIDE DEF d
<1>8. End(d) /\ ~d.command_entry /\ d.pending = None  BY <1>6, <1>7 DEF End, ModeFields, Passive
<1>. QED  BY <1>2, <1>8

LEMMA PowercycleEnd == ASSUME NEW c, End(c), NEW b PROVE End(core_powercycle(c, b))
<1>. DEFINE o == [c EXCEPT !.pending = None, !.getkey = FALSE]
            s == [o EXCEPT !.running = FALSE]
<1>1. /\ Shape(o) /\ o.menu = c.menu /\ o.pending = None /\ ~o.getkey
      /\ \A f \in ModeFields \ {"pending", "getkey"} : o[f] = c[f]
  BY DEF End, Shape, Record, Fields, ModeFields
<1>2. core_powercycle(c, b) \in {AutoStart(o), redisplay(s), redisplay(o), o}
  BY DEF core_powercycle
<1>. HIDE DEF o
<1>3. End(o)  BY <1>1 DEF End, ModeFields, Passive
<1>4. /\ Shape(s) /\ s.menu = o.menu /\ ~s.running
      /\ \A f \in ModeFields \ {"running"} : s[f] = o[f]
  BY <1>1 DEF Shape, Record, Fields, ModeFields
<1>. HIDE DEF s
<1>5. End(s)  BY <1>3, <1>4 DEF End, ModeFields, Passive
<1>. QED  BY <1>1, <1>2, <1>3, <1>5, AutoStartEnd, RedisplayEnd

\* A program stops.
LEMMA StopEnd ==
    ASSUME NEW c, End(c), c.running, NEW p \in Passive
    PROVE  End(redisplay(Pend([c EXCEPT !.running = FALSE], p, None)))
<1>. DEFINE s == [c EXCEPT !.running = FALSE]
            d == Pend(s, p, None)
<1>1. /\ Shape(d) /\ d.menu = c.menu /\ ~d.running /\ d.pending = p
      /\ \A f \in ModeFields \ {"running", "pending"} : d[f] = c[f]
  BY DEF Pend, End, Shape, Record, Fields, ModeFields
<1>. HIDE DEF d
<1>2. End(d)  BY <1>1 DEF End, ModeFields
<1>. QED  BY <1>2, RedisplayEnd DEF d

\* A line of a program that runs is executed.
LEMMA RunLineEnd ==
    ASSUME NEW c, End(c), c.running, ~c.getkey
    PROVE  /\ \A d \in Line(c) : End(d)
           /\ End(redisplay([c EXCEPT !.running = FALSE]))
<1>. DEFINE s == [c EXCEPT !.running = FALSE]
<1>1. c.pending \in Passive /\ ~c.alpha_entry  BY DEF End
<1>2. Hand(c, c.pending)  BY PendingHand
<1>3. \A d \in Line(c) : Hand(d, c.pending)  BY <1>1, <1>2, LineHand
<1>4. Hand(s, c.pending)  BY <1>2, RunningHand
<1>5. End(s)  BY <1>1, <1>4, HandEnd
<1>6. \A d \in Line(c) : End(d)  BY <1>1, <1>3, HandEnd
<1>. QED  BY <1>5, <1>6, RedisplayEnd

-----------------------------------------------------------------------------
(***************************************************************************)
(* The modes in every state of a behaviour.                                *)
(***************************************************************************)
LEMMA RememberedEnd == ASSUME NEW c, End(c) PROVE End(Remembered(c))
<1>. DEFINE e == IF c.command_entry \/ c.pending = "ASSIGNa" THEN c
                 ELSE [c EXCEPT !.command = None, !.argtype = None, !.ind = FALSE, !.alpha = FALSE,
                                !.length = 0, !.maxdigits = 2]
            n == IF c.number THEN e ELSE [e EXCEPT !.digits = 0, !.minus = FALSE]
            p == IF c.prgm_mode /\ (c.command_entry \/ c.alpha_entry) THEN n ELSE [n EXCEPT !.saved_pc = 0]
            t == IF c.prgm_mode /\ c.alpha_entry THEN p ELSE [p EXCEPT !.text = 0]
            g == IF c.menu["app"] \in {"VARMENU", "INTEG_PARAMS"} THEN t ELSE [t EXCEPT !.role = 0]
            r == [g EXCEPT !.arg = IF g.command_entry \/ g.pending # None THEN @ ELSE None,
                           !.section = [l \in Levels |-> IF g.menu[l] = "CATALOG" THEN @[l] ELSE "TOP"],
                           !.sticky = @ /\ g.menu["plain"] # None,
                           !.prevmenu = IF g.editing THEN @ ELSE None]
<1>1. Remembered(c) = r  BY DEF Remembered
<1>2. Shape(c)  BY DEF End
<1>3. Calm(c, e)  BY <1>2 DEF Calm, Shape, Record, Fields
<1>. HIDE DEF e
<1>4. Calm(e, n)
  <2>1. Shape(e)  BY <1>3, CalmShape
  <2>. QED  BY <2>1 DEF Calm, Shape, Record, Fields
<1>. HIDE DEF n
<1>5. Calm(n, p)
  <2>1. Shape(n)  BY <1>4, CalmShape
  <2>. QED  BY <2>1 DEF Calm, Shape, Record, Fields
<1>. HIDE DEF p
<1>6. Calm(p, t)
  <2>1. Shape(p)  BY <1>5, CalmShape
  <2>. QED  BY <2>1 DEF Calm, Shape, Record, Fields
<1>. HIDE DEF t
<1>7. Calm(t, g)
  <2>1. Shape(t)  BY <1>6, CalmShape
  <2>. QED  BY <2>1 DEF Calm, Shape, Record, Fields
<1>. HIDE DEF g
<1>8. Calm(g, r)
  <2>1. Shape(g)  BY <1>7, CalmShape
  <2>. QED  BY <2>1 DEF Calm, Shape, Record, Fields
<1>. HIDE DEF r
<1>. QED  BY <1>1, <1>3, <1>4, <1>5, <1>6, <1>7, <1>8, CalmEnd

LEMMA InitEnd == Init => End(k)
<1>. SUFFICES ASSUME Init PROVE End(k)  OBVIOUS
<1>1. /\ Shape(k) /\ ~k.command_entry /\ ~k.number /\ ~k.alpha_entry /\ ~k.clall /\ ~k.getkey
      /\ ~k.running /\ k.pending = None /\ k.menu["alpha"] = None /\ k.menu["command"] = None
  BY LevelsAreFive DEF Init, Shape, Record, Fields, FiveLevels
<1>. QED  BY <1>1 DEF End, Passive

LEMMA BecomesEnd == ASSUME NEW s, End(s), NEW n, Becomes(s, n) PROVE End(k')
BY RememberedEnd DEF Becomes

LEMMA NextEnd == ASSUME End(k), [Next]_vars PROVE End(k')
<1>1. /\ End(now) /\ now.running = k.running /\ now.getkey = k.getkey /\ now.pending = k.pending
  <2>1. Calm(k, now)  BY FieldsCalm DEF End, now
  <2>. QED  BY <2>1, CalmEnd DEF Calm
<1>2. CASE Keydown
  <2>1. PICK p \in Presses : \E s \in keydown(now, p[1], p[2]) : \E n : Becomes(s, n)
    BY <1>2 DEF Keydown
  <2>2. PICK s \in keydown(now, p[1], p[2]) : \E n : Becomes(s, n)  BY <2>1
  <2>3. now.running => now.getkey  BY <1>1, <1>2 DEF Keydown
  <2>4. End(s)  BY <1>1, <2>3, KeydownEnd
  <2>. QED  BY <2>2, <2>4, BecomesEnd
<1>3. CASE Stop
  <2>1. \A p \in Passive : End(redisplay(Pend([now EXCEPT !.running = FALSE], p, None)))
    BY <1>1, <1>3, StopEnd DEF Stop
  <2>. QED  BY <1>3, <2>1, BecomesEnd DEF Stop, Passive
<1>4. CASE Keyup
  BY <1>1, <1>4, KeyupEnd, BecomesEnd DEF Keyup
<1>5. CASE HeldTooLong
  BY <1>1, <1>5, TimersEnd, BecomesEnd DEF HeldTooLong
<1>6. CASE Lingered
  BY <1>1, <1>6, TimersEnd, BecomesEnd DEF Lingered
<1>7. CASE RunLine
  BY <1>1, <1>7, RunLineEnd, BecomesEnd DEF RunLine
<1>8. CASE Powercycle
  BY <1>1, <1>8, PowercycleEnd, BecomesEnd DEF Powercycle
<1>9. CASE Undefined \/ UNCHANGED vars
  BY <1>9 DEF Undefined, vars
<1>. QED  BY <1>2, <1>3, <1>4, <1>5, <1>6, <1>7, <1>8, <1>9 DEF Next

ModesInv == End(k)

THEOREM ModesInvAlways == Spec => []ModesInv
<1>1. Init => ModesInv  BY InitEnd DEF ModesInv
<1>2. ModesInv /\ [Next]_vars => ModesInv'  BY NextEnd DEF ModesInv
<1>. QED  BY <1>1, <1>2, PTL DEF Spec

\* What goes on that gives a key its meaning: at most one.
LEMMA AtMostOne ==
    ASSUME NEW S, \A a, b \in S : a = b
    PROVE  Cardinality(S) <= 1
<1>1. CASE S = {}  BY <1>1, FS_EmptySet
<1>2. CASE S # {}
  <2>1. PICK a : a \in S  BY <1>2
  <2>2. S = {a}  BY <2>1
  <2>. QED  BY <2>2, FS_Singleton
<1>. QED  BY <1>1, <1>2

\* Whatever the commands are.  Of the entry of a command, of a number and of letters and
\* GETKEY at most one goes on; no entry goes on beside the question of CLALL, in a program
\* that runs, or, but for CLA, while a command waits for its key to come up.
EntriesExclude ==
    /\ Cardinality({e \in {"command_entry", "number", "alpha_entry", "getkey"} : k[e]}) <= 1
    /\ k.command_entry \/ k.number \/ k.alpha_entry =>
           /\ ~k.clall /\ ~k.running
           /\ k.pending \in {None, "LINGER1", "LINGER2", "CANCELLED", "NULL", "SILENT_OFF", "CLA"}
    /\ k.alpha_entry \/ k.menu["alpha"] # None => k.alpha_mode

\* mode_command_entry, mode_number_entry, mode_alpha_entry and mode_getkey exclude each
\* other whatever keys, lines of a program, timeouts and power cycles follow each other:
\* no key is taken for a digit of a number that a command, a program or the return of the
\* power has left behind.
THEOREM EntriesAlwaysExclude == Spec => []EntriesExclude
<1>1. ModesInv => EntriesExclude
  <2>. SUFFICES ASSUME End(k) PROVE EntriesExclude  BY DEF ModesInv
  <2>. DEFINE S == {e \in {"command_entry", "number", "alpha_entry", "getkey"} : k[e]}
  <2>1. \A a, b \in S : a = b  BY DEF End
  <2>2. Cardinality(S) <= 1  BY <2>1, AtMostOne
  <2>3. k.command_entry \/ k.number \/ k.alpha_entry =>
            /\ ~k.clall /\ ~k.running
            /\ k.pending \in Passive \cup {"CLA"}
    BY DEF End
  <2>4. k.alpha_entry \/ k.menu["alpha"] # None => k.alpha_mode  BY DEF End
  <2>. QED  BY <2>2, <2>3, <2>4 DEF EntriesExclude, Passive
<1>. QED  BY <1>1, ModesInvAlways, PTL

\* Without the question of CLALL, a key has one meaning and a menu of the command entry shows
\* only during the entry of a command.  The assumption is needed: asked for by its name with
\* XEQ (finish_xeq()), the question leaves the menu of that entry behind, and with flag 11 it
\* outlives a power cycle and stays up while a program runs and waits for a key.
THEOREM ModesAlwaysMatchMenus ==
    ASSUME "CLALLa" \notin Commands PROVE Spec => []ModesMatchMenus
<1>1. ModesInv => ModesMatchMenus
  <2>. SUFFICES ASSUME End(k) PROVE ModesMatchMenus  BY DEF ModesInv
  <2>. DEFINE S == {e \in {"command_entry", "number", "alpha_entry", "clall", "getkey"} : k[e]}
  <2>1. ~k.clall /\ (k.menu["command"] # None => k.command_entry)  BY DEF End, Asked
  <2>2. \A a, b \in S : a = b  BY <2>1 DEF End
  <2>3. Cardinality(S) <= 1  BY <2>2, AtMostOne
  <2>4. k.alpha_entry \/ k.menu["alpha"] # None => k.alpha_mode  BY DEF End
  <2>. QED  BY <2>1, <2>3, <2>4 DEF ModesMatchMenus
<1>. QED  BY <1>1, ModesInvAlways, PTL

-----------------------------------------------------------------------------
(***************************************************************************)
(* The argument of a command.  While the command waits for it, the entry   *)
(* is that of a command with an argument (Begun), the menu that shows is   *)
(* one that can give it (Helps), and the command of ASSIGN keeps the name  *)
(* it has been given.  What is pending has an argument that suits (Given). *)
(***************************************************************************)
Numbers == {"NUM9", "NUM11", "NUM99", "COUNT"}
Names == {"NAMED", "PRGM", "RVAR", "MAT"}
Direct == {"COUNT", "OTHER", "CKEY", "MKEY"}
OnStack == {"VAR", "REAL"}
Types == Numbers \cup Names \cup Direct \cup OnStack \cup {"LBL"}

\* The menus that give an argument of one kind.
Givers == {"ST", "IND_ST", "IND", "CATALOG", "VARMENU", "INTEG_PARAMS"}

Helps(c, m) ==
    LET t == argtype(c.command)
    IN  /\ m = "ST" => c.ind
        /\ m \in {"IND_ST", "VARMENU", "INTEG_PARAMS"} => t \in OnStack
        /\ m = "CATALOG" => c.ind \/ t \notin Numbers
        /\ m = "IND" => c.command = "GTODOT"

Begun(c) ==
    LET t == argtype(c.command)
    IN  /\ c.command \in DOMAIN ArgType
        /\ c.argtype = t \/ (c.command = "GTODOT" /\ c.argtype = "LBL")
        /\ c.ind => t \notin Direct /\ c.command # "ASSIGNa"
        /\ ~c.ind /\ t \in Names => c.alpha
        /\ ~c.ind /\ c.alpha => t \notin Numbers

Entry(c) ==
    /\ Begun(c) /\ Helps(c, c.menu["command"])
    /\ c.command = "ASSIGNb" => /\ c.arg = "STR" /\ c.menu["command"] \in CustomMenus
                                /\ c.pending \in {None, "SILENT_OFF"}

Given(c) ==
    /\ c.pending \in DOMAIN ArgType => ArgSuits(c.pending, c.arg)
    /\ c.pending = "ASSIGNa" => c.arg = "STR"

Sound(c) == (c.command_entry => Entry(c)) /\ Given(c)

\* A command waits for its argument.
Waits(c) == Open(c) /\ Entry(c)

ArgFields == {"command", "argtype", "ind", "alpha", "arg"}

\* What has nothing to do with the argument changes.
Same(c, d) == \A f \in ArgFields \cup {"pending"} : d[f] = c[f]
Alike(c, d) == Calm(c, d) /\ Same(c, d)

LEMMA TypesOfCommands ==
    /\ \A x \in DOMAIN ArgType : argtype(x) \in Types
    /\ \A x : x \in DOMAIN ArgType <=> argtype(x) # "NONE"
    /\ \A x : argtype(x) = "CKEY" <=> x = "ASSIGNb"
    /\ "LINGER1" \notin DOMAIN ArgType /\ "LINGER2" \notin DOMAIN ArgType /\ "none" \notin DOMAIN ArgType
    /\ "CANCELLED" \notin DOMAIN ArgType /\ "NULL" \notin DOMAIN ArgType
    /\ "SILENT_OFF" \notin DOMAIN ArgType
BY DEF argtype, ArgType, Types, Numbers, Names, Direct, OnStack

LEMMA FreeSound ==
    ASSUME NEW c, ~c.command_entry, c.pending \in Passive \/ c.pending \notin DOMAIN ArgType
    PROVE  Sound(c)
<1>1. c.pending \notin DOMAIN ArgType  BY TypesOfCommands DEF Passive, None
<1>2. "ASSIGNa" \in DOMAIN ArgType  BY DEF ArgType
<1>. QED  BY <1>1, <1>2 DEF Sound, Given

LEMMA WaitsSound == ASSUME NEW c, Waits(c) PROVE Sound(c) /\ c.command_entry /\ Shape(c) /\ Still(c)
<1>1. c.pending \notin DOMAIN ArgType  BY TypesOfCommands DEF Passive, None, Waits, Open
<1>2. "ASSIGNa" \in DOMAIN ArgType  BY DEF ArgType
<1>. QED  BY <1>1, <1>2 DEF Sound, Given, Waits, Open, Still

LEMMA SameEntry ==
    ASSUME NEW c, NEW d, Same(c, d), Begun(c), Helps(c, d.menu["command"]),
           c.command = "ASSIGNb" => Entry(c) /\ d.menu["command"] \in CustomMenus
    PROVE  Entry(d)
<1>1. /\ d.command = c.command /\ d.argtype = c.argtype /\ d.ind = c.ind /\ d.alpha = c.alpha
      /\ d.arg = c.arg /\ d.pending = c.pending
  BY DEF Same, ArgFields
<1>. QED  BY <1>1 DEF Entry, Begun, Helps

LEMMA AlikeEntry ==
    ASSUME NEW c, NEW d, Alike(c, d), Entry(c),
           c.command = "ASSIGNb" => d.menu["command"] = c.menu["command"]
    PROVE  Entry(d)
<1>1. Helps(c, None)  BY DEF Helps, None
<1>2. Helps(c, d.menu["command"])  BY <1>1 DEF Alike, Calm, Entry
<1>. QED  BY <1>2, SameEntry DEF Alike, Entry

LEMMA AlikeGiven == ASSUME NEW c, NEW d, Same(c, d), Given(c) PROVE Given(d)
BY DEF Same, ArgFields, Given

LEMMA AlikeChain == ASSUME NEW c, NEW d, NEW e, Alike(c, d), Alike(d, e) PROVE Alike(c, e)
BY CalmChain DEF Alike, Same

LEMMA AlikeItself == ASSUME NEW c, Shape(c) PROVE Alike(c, c)
BY CalmItself DEF Alike, Same

LEMMA AppSame == ASSUME NEW c, Record(c), NEW m, NEW n PROVE Same(c, App(c, m, n))
<1>1. \A f \in Fields \ {"menu", "callback"} : App(c, m, n)[f] = c[f]  BY AppRecord
<1>2. ArgFields \cup {"pending"} \subseteq Fields \ {"menu", "callback"}  BY DEF ArgFields, Fields
<1>. QED  BY <1>1, <1>2 DEF Same

LEMMA AppmenuAlike == ASSUME NEW c, Shape(c), NEW m PROVE Alike(c, set_appmenu(c, m, FALSE))
<1>. DEFINE a(y, n) == App(c, y, n)
            s == [a("CATALOG", 0) EXCEPT !.section["app"] = "PGM_SOLVE"]
            i == [a("CATALOG", 0) EXCEPT !.section["app"] = "PGM_INTEG"]
            v == [a("VARMENU", 4) EXCEPT !.role = 2]
            p == IF m = None THEN c.prevmenu ELSE m
            e == EditorLeftFor(c, p)
            b == BaseLeftFor(c, m)
<1>1. set_appmenu(c, m, FALSE) \in {a(m, 0), a(m, 1), a(m, 2), s, i, v, e, b}
  <2>1. Told(c) \in {0, 1, 2, 3, 4, 5}  BY DEF Told, Shape
  <2>2. /\ Told(c) = 0 => set_appmenu(c, m, FALSE) = a(m, 0)
        /\ Told(c) = 1 => set_appmenu(c, m, FALSE) \in {a(m, 1), e}
        /\ Told(c) = 2 => set_appmenu(c, m, FALSE) \in {a(m, 2), b}
        /\ Told(c) = 3 => set_appmenu(c, m, FALSE) \in {s, a(m, 0)}
        /\ Told(c) = 4 => set_appmenu(c, m, FALSE) \in {i, a(m, 0)}
        /\ Told(c) = 5 => set_appmenu(c, m, FALSE) \in {v, a(m, 0)}
    BY DEF set_appmenu, Told, appmenu_exitcallback_1, appmenu_exitcallback_2, appmenu_exitcallback_3,
           appmenu_exitcallback_4, appmenu_exitcallback_5, ToPrograms, EditorLeftFor, BaseLeftFor
  <2>. HIDE DEF a, s, i, v, p, e, b
  <2>. QED  BY <2>1, <2>2
<1>2. Record(c)  BY DEF Shape
<1>3. \A y, n : Same(c, a(y, n)) /\ Record(a(y, n))  BY <1>2, AppSame, AppRecord
<1>. HIDE DEF a
<1>4. Same(c, s) /\ Same(c, i) /\ Same(c, v)
  BY <1>3 DEF Same, ArgFields, Record, Fields
<1>5. Same(c, e)
  <2>1. \A f \in Fields \ {"menu", "callback", "editing"} : e[f] = c[f]  BY <1>2, EditorLeft
  <2>2. ArgFields \cup {"pending"} \subseteq Fields \ {"menu", "callback", "editing"}  BY DEF ArgFields, Fields
  <2>. HIDE DEF e
  <2>. QED  BY <2>1, <2>2 DEF Same
<1>6. Same(c, b)
  <2>1. \A f \in Fields \ {"menu", "callback", "baseapp", "base"} : b[f] = c[f]  BY <1>2, BaseLeft
  <2>2. ArgFields \cup {"pending"} \subseteq Fields \ {"menu", "callback", "baseapp", "base"}
    BY DEF ArgFields, Fields
  <2>. HIDE DEF b
  <2>. QED  BY <2>1, <2>2 DEF Same
<1>. HIDE DEF s, i, v, e, b
<1>7. Same(c, set_appmenu(c, m, FALSE))  BY <1>1, <1>3, <1>4, <1>5, <1>6
<1>. QED  BY <1>7, AppmenuCalm DEF Alike

LEMMA ShowSame ==
    ASSUME NEW c, Shape(c), NEW l \in FiveLevels \ {"app"}, NEW m
    PROVE  Same(c, Show(c, l, m))
<1>1. \A f \in Fields \ {"menu"} : Show(c, l, m)[f] = c[f]  BY ShowRecord DEF Shape
<1>2. ArgFields \cup {"pending"} \subseteq Fields \ {"menu"}  BY DEF ArgFields, Fields
<1>. QED  BY <1>1, <1>2 DEF Same

\* The foremost menu is that of the entry, if it shows one.
LEMMA FrontIsCommand ==
    ASSUME NEW c, Shape(c)
    PROVE  /\ c.menu["command"] # None
                 => FrontLevel(c) = "command" /\ get_front_menu(c) = c.menu["command"]
           /\ FrontLevel(c) # "command" => c.menu["command"] = None
<1>1. DOMAIN Order = 1 .. 5 /\ Order[1] = "command"  BY DEF Order
<1>2. ASSUME c.menu["command"] # None PROVE FrontLevel(c) = "command"
  <2>. DEFINE shown == {i \in DOMAIN Order : c.menu[Order[i]] # None}
              first == CHOOSE i \in shown : \A j \in shown : i <= j
  <2>1. 1 \in shown /\ shown \subseteq 1 .. 5  BY <1>1, <1>2
  <2>2. FrontLevel(c) = IF shown = {} THEN None ELSE Order[first]  BY Zenon DEF FrontLevel
  <2>. HIDE DEF shown
  <2>3. \A j \in shown : 1 <= j  BY <2>1
  <2>4. first \in shown /\ \A j \in shown : first <= j  BY <2>1, <2>3
  <2>. HIDE DEF first
  <2>5. first = 1
    <3>1. first \in {1, 2, 3, 4, 5} /\ first <= 1  BY <2>1, <2>4
    <3>. QED  BY <3>1
  <2>. QED  BY <1>1, <2>1, <2>2, <2>5
<1>3. FrontLevel(c) = "command" => get_front_menu(c) = c.menu["command"]
  BY DEF get_front_menu, None
<1>. QED  BY <1>2, <1>3

LEMMA DisplayAlike ==
    ASSUME NEW c, Shape(c)
    PROVE  /\ Alike(c, display_error(c)) /\ \A s : Alike(c, set_cat_section(c, s))
           /\ Alike(c, redisplay(c))
           /\ c.menu["command"] \in CustomMenus => redisplay(c) = c
           /\ \A s : set_cat_section(c, s).menu = c.menu
           /\ display_error(c).menu = c.menu
<1>1. Alike(c, display_error(c)) /\ display_error(c).menu = c.menu
  <2>1. Same(c, display_error(c)) /\ display_error(c).menu = c.menu
    BY DEF display_error, Same, ArgFields, Shape, Record, Fields
  <2>. QED  BY <2>1, DisplayCalm DEF Alike
<1>2. \A s : Alike(c, set_cat_section(c, s)) /\ set_cat_section(c, s).menu = c.menu
  <2>1. \A s : Same(c, set_cat_section(c, s)) /\ set_cat_section(c, s).menu = c.menu
    BY DEF set_cat_section, Same, ArgFields, Shape, Record, Fields
  <2>. QED  BY <2>1, DisplayCalm DEF Alike
<1>3. Alike(c, draw_catalog(c))  BY <1>2, AlikeItself DEF draw_catalog
<1>4. Alike(c, draw_varmenu(c))  BY AppmenuAlike, AlikeItself DEF draw_varmenu
<1>5. Alike(c, redisplay(c))  BY <1>3, <1>4, AlikeItself DEF redisplay
<1>6. ASSUME c.menu["command"] \in CustomMenus PROVE redisplay(c) = c
  <2>1. get_front_menu(c) \in CustomMenus  BY <1>6, FrontIsCommand DEF CustomMenus, None
  <2>. QED  BY <2>1 DEF CustomMenus, redisplay
<1>. QED  BY <1>1, <1>2, <1>5, <1>6

\* The fields that are not those of the argument.
LEMMA FieldsAlike ==
    ASSUME NEW c, Shape(c), NEW v
    PROVE  /\ Alike(c, [c EXCEPT !.local_label = v]) /\ Alike(c, [c EXCEPT !.pc = v])
           /\ Alike(c, [c EXCEPT !.length = v]) /\ Alike(c, [c EXCEPT !.fault = v])
           /\ Alike(c, [c EXCEPT !.leaving = v]) /\ Alike(c, [c EXCEPT !.sticky = v])
           /\ Alike(c, [c EXCEPT !.message = v]) /\ Alike(c, [c EXCEPT !.stored = v])
           /\ Alike(c, sst(c)) /\ Alike(c, bst(c))
           /\ sst(c).menu = c.menu /\ bst(c).menu = c.menu
           /\ [c EXCEPT !.length = v].menu = c.menu /\ [c EXCEPT !.fault = v].menu = c.menu
           /\ [c EXCEPT !.message = v].menu = c.menu /\ [c EXCEPT !.stored = v].menu = c.menu
           /\ [c EXCEPT !.leaving = v].menu = c.menu /\ [c EXCEPT !.local_label = v].menu = c.menu
<1>1. /\ Same(c, [c EXCEPT !.local_label = v]) /\ Same(c, [c EXCEPT !.pc = v])
      /\ Same(c, [c EXCEPT !.length = v]) /\ Same(c, [c EXCEPT !.fault = v])
      /\ Same(c, [c EXCEPT !.leaving = v]) /\ Same(c, [c EXCEPT !.sticky = v])
      /\ Same(c, [c EXCEPT !.message = v]) /\ Same(c, [c EXCEPT !.stored = v])
  BY DEF Same, ArgFields, Shape, Record, Fields
<1>2. /\ [c EXCEPT !.length = v].menu = c.menu /\ [c EXCEPT !.fault = v].menu = c.menu
      /\ [c EXCEPT !.message = v].menu = c.menu /\ [c EXCEPT !.stored = v].menu = c.menu
      /\ [c EXCEPT !.leaving = v].menu = c.menu /\ [c EXCEPT !.local_label = v].menu = c.menu
  OBVIOUS
<1>3. Same(c, sst(c)) /\ Same(c, bst(c)) /\ sst(c).menu = c.menu /\ bst(c).menu = c.menu
  BY DEF sst, bst, Same, ArgFields, Shape, Record, Fields
<1>. QED  BY <1>1, <1>2, <1>3, FieldsCalm, StoreCalm DEF Alike

LEMMA ShowAlike ==
    ASSUME NEW c, Shape(c), NEW l \in FiveLevels \ {"app"}, NEW m,
           l \in {"command", "alpha"} => m = None
    PROVE  Alike(c, Show(c, l, m))
BY ShowSame, ShowCalm DEF Alike

-----------------------------------------------------------------------------
(***************************************************************************)
(* How the entry goes on.  Takes: the command waits, whatever menu shows.  *)
(***************************************************************************)
Takes(c) == Open(c) /\ Begun(c) /\ c.command # "ASSIGNb"

\* A change of the menu of the entry alone.
Turned(c, d) == Same(c, d) /\ Open(d)

LEMMA TakesWaits ==
    ASSUME NEW c
    PROVE  /\ Takes(c) /\ Helps(c, c.menu["command"]) => Waits(c)
           /\ Waits(c) /\ c.command # "ASSIGNb" => Takes(c)
BY DEF Takes, Waits, Entry

LEMMA TurnedWaits ==
    ASSUME NEW c, NEW d, Takes(c), Turned(c, d), Helps(c, d.menu["command"])
    PROVE  Waits(d) /\ Sound(d) /\ Takes(d)
<1>1. Entry(d)  BY SameEntry DEF Takes, Turned
<1>2. Waits(d)  BY <1>1 DEF Waits, Turned
<1>3. d.command = c.command  BY DEF Turned, Same, ArgFields
<1>. QED  BY <1>2, <1>3, WaitsSound, TakesWaits DEF Takes

LEMMA SoundAlike ==
    ASSUME NEW c, NEW d, Sound(c), Alike(c, d),
           c.command_entry /\ c.command = "ASSIGNb" => d.menu["command"] = c.menu["command"]
    PROVE  Sound(d)
<1>1. Given(d)  BY AlikeGiven DEF Sound, Alike
<1>2. d.command_entry = c.command_entry  BY DEF Alike, Calm
<1>3. d.command_entry => Entry(d)  BY <1>2, AlikeEntry DEF Sound
<1>. QED  BY <1>1, <1>3 DEF Sound

LEMMA RedisplaySound == ASSUME NEW c, Shape(c), Sound(c) PROVE Sound(redisplay(c))
<1>1. Alike(c, redisplay(c))  BY DisplayAlike
<1>2. c.command_entry /\ c.command = "ASSIGNb" => redisplay(c) = c
  BY DisplayAlike DEF Sound, Entry
<1>. QED  BY <1>1, <1>2, SoundAlike

LEMMA WaitsRedisplay == ASSUME NEW c, Waits(c) PROVE Sound(redisplay(c)) /\ Waits(redisplay(c))
<1>1. Sound(redisplay(c))  BY WaitsSound, RedisplaySound
<1>2. Open(redisplay(c))  BY StatesEnded DEF Waits
<1>. QED  BY <1>1, <1>2 DEF Sound, Waits, Open

\* The menus of the entry.
LEMMA CommandMenuTurned ==
    ASSUME NEW c, Open(c), NEW m
    PROVE  /\ Turned(c, Show(c, "command", m)) /\ Show(c, "command", m).menu["command"] = m
           /\ Turned(c, [c EXCEPT !.menu["command"] = m])
           /\ [c EXCEPT !.menu["command"] = m].menu["command"] = m
           /\ Turned(c, set_catalog_menu(c, m))
           /\ set_catalog_menu(c, m).menu["command"] \in {"CATALOG", None}
<1>. DEFINE e == [c EXCEPT !.menu["command"] = m]
            f == [c EXCEPT !.menu["command"] = "CATALOG", !.section["command"] = m]
            g == [f EXCEPT !.menu["command"] = None]
<1>1. Shape(c) /\ Still(c)  BY StatesShape
<1>2. Same(c, Show(c, "command", m))  BY <1>1, ShowSame DEF FiveLevels
<1>3. Same(c, e) /\ e.menu["command"] = m
  BY <1>1 DEF Same, ArgFields, Shape, Record, Fields, FiveLevels
<1>4. Same(c, f) /\ f.menu["command"] = "CATALOG" /\ Record(f)
  BY <1>1 DEF Same, ArgFields, Shape, Record, Fields, FiveLevels
<1>5. Same(c, g) /\ g.menu["command"] = None
  <2>. HIDE DEF f
  <2>1. Same(f, g) /\ g.menu["command"] = None
    BY <1>4 DEF Same, ArgFields, Record, Fields, FiveLevels
  <2>. QED  BY <1>4, <2>1 DEF Same
<1>6. set_catalog_menu(c, m) \in {f, g}  BY DEF set_catalog_menu
<1>. HIDE DEF e, f, g
<1>7. Open(Show(c, "command", m)) /\ Open(e) /\ Show(c, "command", m).menu["command"] = m
  BY <1>1, CommandMenuModes DEF e
<1>8. Open(set_catalog_menu(c, m))  BY <1>1, CatalogMenuModes
<1>. QED  BY <1>2, <1>3, <1>4, <1>5, <1>6, <1>7, <1>8 DEF Turned, e

LEMMA MenuGoes ==
    ASSUME NEW c, Takes(c), NEW m, Helps(c, m)
    PROVE  /\ Waits(Show(c, "command", m)) /\ Waits([c EXCEPT !.menu["command"] = m])
           /\ \A d \in Menu(c, m) : Sound(d)
<1>1. Waits(Show(c, "command", m)) /\ Waits([c EXCEPT !.menu["command"] = m])
  BY CommandMenuTurned, TurnedWaits DEF Takes
<1>. QED  BY <1>1, WaitsRedisplay DEF Menu

LEMMA NoMenuHelps == ASSUME NEW c, NEW m, m \notin Givers PROVE Helps(c, m)
BY DEF Helps, Givers

LEMMA CatalogGoes ==
    ASSUME NEW c, Takes(c), c.ind \/ argtype(c.command) \notin Numbers, NEW s
    PROVE  /\ Waits(set_catalog_menu(c, s)) /\ Sound(redisplay(set_catalog_menu(c, s)))
           /\ \A d \in Catalog(c, s) : Sound(d)
<1>1. Helps(c, "CATALOG") /\ Helps(c, None)  BY DEF Helps, None
<1>2. Waits(set_catalog_menu(c, s))  BY <1>1, CommandMenuTurned, TurnedWaits DEF Takes
<1>. QED  BY <1>2, WaitsRedisplay DEF Catalog

LEMMA VariablesGo ==
    ASSUME NEW c, Takes(c), argtype(c.command) \in OnStack, NEW s PROVE Waits(VariableMenu(c, s))
<1>1. argtype(c.command) \notin Numbers  BY DEF OnStack, Numbers
<1>2. Waits(set_catalog_menu(c, s))  BY <1>1, CatalogGoes
<1>3. Helps(c, c.menu["app"]) \/ c.menu["app"] \notin {"VARMENU", "INTEG_PARAMS"}  BY DEF Helps
<1>4. c.menu["app"] \in {"VARMENU", "INTEG_PARAMS"} => Waits([c EXCEPT !.menu["command"] = c.menu["app"]])
  BY <1>3, MenuGoes
<1>. QED  BY <1>2, <1>4 DEF VariableMenu

-----------------------------------------------------------------------------
(***************************************************************************)
(* The entry begins and ends.                                              *)
(***************************************************************************)

\* What changes of the argument, the pending command and the menu of the entry says all.
LEMMA SoundBy ==
    ASSUME NEW c, NEW d, Sound(c), Same(c, d), d.command_entry = c.command_entry,
           d.menu["command"] = c.menu["command"]
    PROVE  Sound(d)
<1>1. /\ d.command = c.command /\ d.argtype = c.argtype /\ d.ind = c.ind /\ d.alpha = c.alpha
      /\ d.arg = c.arg /\ d.pending = c.pending
  BY DEF Same, ArgFields
<1>2. Given(d)  BY AlikeGiven DEF Sound
<1>3. Entry(c) => Entry(d)  BY <1>1 DEF Entry, Begun, Helps
<1>. QED  BY <1>2, <1>3 DEF Sound

\* The commands whose entry brings up a menu of its own, whatever was up before.
Overrides(x) == argtype(x) \in {"VAR", "REAL", "LBL", "PRGM", "NAMED", "MKEY"} \/ x = "LBL"

LEMMA IncompleteTakes ==
    ASSUME NEW c, Still(c), c.pending \in Passive, NEW x \in DOMAIN ArgType
    PROVE  LET s == Incomplete(c, x, argtype(x))
           IN  /\ Open(s) /\ Begun(s) /\ s.command = x /\ ~s.ind /\ s.argtype = argtype(x)
               /\ s.menu = c.menu /\ s.arg = c.arg /\ s.pending = c.pending
               /\ s.prgm_mode = c.prgm_mode /\ s.vars = c.vars
<1>. DEFINE t == argtype(x)
            s == Incomplete(c, x, t)
<1>1. /\ Shape(s) /\ s.menu = c.menu /\ s.argtype = t /\ s.command_entry /\ s.command = x /\ ~s.ind
      /\ s.arg = c.arg /\ s.pending = c.pending /\ s.alpha = (t \in Names)
      /\ s.prgm_mode = c.prgm_mode /\ s.vars = c.vars
      /\ \A f \in ModeFields \ {"command_entry"} : s[f] = c[f]
  BY DEF Incomplete, Still, Shape, Record, Fields, ModeFields, Names
<1>. HIDE DEF s
<1>2. Still(s)  BY <1>1 DEF Still, ModeFields
<1>3. Open(s)  BY <1>1, <1>2 DEF Open, ModeFields
<1>4. Begun(s)
  <2>1. t \in Names => t \notin Numbers  BY DEF Names, Numbers
  <2>. QED  BY <1>1, <2>1 DEF Begun, t
<1>. QED  BY <1>1, <1>3, <1>4 DEF s, t

LEMMA EntryMenuSound ==
    ASSUME NEW s, Takes(s), ~s.ind, s.argtype = argtype(s.command),
           s.menu["command"] \notin Givers \/ Overrides(s.command)
    PROVE  Sound(EntryMenu(s, s.command))
<1>. DEFINE x == s.command
            t == s.argtype
            e == [s EXCEPT !.command_entry = FALSE]
            a == [set_catalog_menu(s, "TOP") EXCEPT !.local_label = FALSE]
<1>1. \A v : t \notin Numbers => Waits(set_catalog_menu(s, v))  BY CatalogGoes
<1>2. \A v : t \in OnStack => Waits(VariableMenu(s, v))  BY VariablesGo
<1>3. \A m \in {"CUSTOM1", "BLANK", "ALPHA1"} :
         Waits(Show(s, "command", m)) /\ Waits([s EXCEPT !.menu["command"] = m])
  BY NoMenuHelps, MenuGoes DEF Givers
<1>4. s.menu["command"] \notin Givers => Waits(s)  BY NoMenuHelps, TakesWaits
<1>5. t \notin Numbers => Sound(a)
  <2>. DEFINE b == set_catalog_menu(s, "TOP")
  <2>. HIDE DEF b
  <2>1. ASSUME Waits(b) PROVE Sound([b EXCEPT !.local_label = FALSE])
    <3>1. Shape(b) /\ Sound(b)  BY <2>1, WaitsSound
    <3>2. Alike(b, [b EXCEPT !.local_label = FALSE])  BY <3>1, FieldsAlike
    <3>3. [b EXCEPT !.local_label = FALSE].menu = b.menu  BY <3>1, FieldsAlike
    <3>. QED  BY <3>1, <3>2, <3>3, SoundAlike
  <2>. QED  BY <1>1, <2>1 DEF b
<1>6. Sound(display_error(e))
  <2>1. Still(e) /\ ~e.command_entry /\ e.pending \in Passive  BY EntryLeftStill DEF Takes, Open
  <2>. HIDE DEF e
  <2>2. Sound(e)  BY <2>1, FreeSound
  <2>3. Alike(e, display_error(e))  BY <2>1, DisplayAlike DEF Still
  <2>. QED  BY <2>1, <2>2, <2>3, SoundAlike
<1>7. \A d : Waits(d) => Sound(d)  BY WaitsSound
<1>8. x = "ASSIGNa" => t = "NAMED"  BY DEF argtype, ArgType
<1>9. t # "CKEY"  BY TypesOfCommands DEF Takes
<1>10. x = "LBL" => t = "OTHER"  BY DEF argtype, ArgType
<1>11. Overrides(x) <=> t \in {"VAR", "REAL", "LBL", "PRGM", "NAMED", "MKEY"} \/ x = "LBL"
  BY DEF Overrides
<1>12. EntryMenu(s, x) =
         CASE x = "ASSIGNa" -> a
          [] t = "CKEY" -> Show(s, "command", "CUSTOM1")
          [] t = "MKEY" -> Show(s, "command", "BLANK")
          [] t = "VAR" -> VariableMenu(s, "VARS_ONLY")
          [] t = "NAMED" /\ x # "ASSIGNa" -> set_catalog_menu(s, "VARS_ONLY")
          [] t = "REAL" -> VariableMenu(s, "REAL_ONLY")
          [] t = "RVAR" ->
                IF vars_exist(s, {"real"}) THEN set_catalog_menu(s, "REAL_ONLY")
                ELSE IF ~s.prgm_mode THEN display_error(e)
                ELSE IF x = "MVAR" THEN [s EXCEPT !.menu["command"] = "ALPHA1"]
                ELSE s
          [] t = "MAT" ->
                IF s.prgm_mode \/ vars_exist(s, {"mat"}) THEN set_catalog_menu(s, "MAT_ONLY")
                ELSE IF x # "DIM" THEN display_error(e) ELSE s
          [] t \in {"LBL", "PRGM"} -> set_catalog_menu(s, "PGM_ONLY")
          [] x = "LBL" -> Show(s, "command", "ALPHA1")
          [] OTHER -> s
  BY Zenon DEF EntryMenu
<1>. HIDE DEF x, t, e, a
<1>13. CASE t \notin {"VAR", "REAL", "LBL", "PRGM", "NAMED", "MKEY", "RVAR", "MAT"}
  <2>1. EntryMenu(s, x) = IF x = "LBL" THEN Show(s, "command", "ALPHA1") ELSE s
    <3>1. x # "ASSIGNa"  BY <1>8, <1>13
    <3>. QED  BY <1>9, <1>12, <1>13, <3>1
  <2>2. Sound(s) \/ x = "LBL"  BY <1>4, <1>7, <1>11, <1>13 DEF x
  <2>. QED  BY <1>3, <1>7, <2>1, <2>2 DEF x
<1>14. CASE t \in {"NAMED", "LBL", "PRGM", "MKEY", "VAR", "REAL"}
  <2>2. /\ t = "MKEY" => EntryMenu(s, x) = Show(s, "command", "BLANK")
        /\ t = "VAR" => EntryMenu(s, x) = VariableMenu(s, "VARS_ONLY")
        /\ t = "REAL" => EntryMenu(s, x) = VariableMenu(s, "REAL_ONLY")
        /\ t = "NAMED" => EntryMenu(s, x) \in {a, set_catalog_menu(s, "VARS_ONLY")}
        /\ t \in {"LBL", "PRGM"} => EntryMenu(s, x) = set_catalog_menu(s, "PGM_ONLY")
    BY <1>8, <1>10, <1>12
  <2>3. t \in {"NAMED", "LBL", "PRGM"} => t \notin Numbers  BY DEF Numbers
  <2>4. t \in {"VAR", "REAL"} => t \in OnStack  BY DEF OnStack
  <2>. QED  BY <1>1, <1>2, <1>3, <1>5, <1>7, <1>14, <2>2, <2>3, <2>4 DEF x
<1>15. CASE t \in {"RVAR", "MAT"}
  <2>1. EntryMenu(s, x) \in {set_catalog_menu(s, "REAL_ONLY"), display_error(e),
                             [s EXCEPT !.menu["command"] = "ALPHA1"], s, set_catalog_menu(s, "MAT_ONLY")}
    BY <1>8, <1>10, <1>12, <1>15
  <2>2. t \notin Numbers  BY <1>15 DEF Numbers
  <2>3. Sound(s)
    <3>1. x # "LBL"  BY <1>10, <1>15
    <3>. QED  BY <1>4, <1>7, <1>11, <1>15, <3>1 DEF x
  <2>. QED  BY <1>1, <1>3, <1>6, <1>7, <2>1, <2>2, <2>3 DEF x
<1>. QED  BY <1>13, <1>14, <1>15 DEF x

LEMMA StartsSound ==
    ASSUME NEW c, Still(c), c.pending \in Passive, Sound(c), NEW x \in DOMAIN ArgType, x # "ASSIGNb",
           c.menu["command"] \notin Givers \/ Overrides(x)
    PROVE  Sound(start_incomplete_command(c, x))
<1>. DEFINE s == Incomplete(c, x, argtype(x))
            m == EntryMenu(s, x)
<1>1. /\ Takes(s) /\ s.command = x /\ ~s.ind /\ s.argtype = argtype(x) /\ s.menu = c.menu
  BY IncompleteTakes DEF Takes
<1>2. start_incomplete_command(c, x) =
          redisplay(IF ~c.prgm_mode /\ x \in ProgramOnly THEN display_error(c) ELSE m)
  BY DEF start_incomplete_command
<1>. HIDE DEF s
<1>3. Sound(m)  BY <1>1, EntryMenuSound
<1>4. Shape(m)
  <2>1. Open(s)  BY <1>1 DEF Takes
  <2>. DEFINE e == [s EXCEPT !.command_entry = FALSE]
  <2>2. Shape(display_error(e))
    <3>1. Still(e)  BY <2>1, EntryLeftStill DEF Open
    <3>. HIDE DEF e
    <3>. QED  BY <3>1, DisplayCalm DEF Still, Calm
  <2>. HIDE DEF e
  <2>3. \A v : Shape(Show(s, "command", v)) /\ Shape(set_catalog_menu(s, v)) /\ Shape(VariableMenu(s, v))
               /\ Shape([s EXCEPT !.menu["command"] = v])
    BY <2>1, CommandMenuModes, CatalogMenuModes, VariableMenuOpen, StatesShape DEF Open
  <2>4. Shape([set_catalog_menu(s, "TOP") EXCEPT !.local_label = FALSE])
    <3>. DEFINE b == set_catalog_menu(s, "TOP")
    <3>1. Shape(b)  BY <2>3
    <3>. HIDE DEF b
    <3>2. Shape([b EXCEPT !.local_label = FALSE])  BY <3>1, FieldsAlike DEF Alike, Calm
    <3>. QED  BY <3>2 DEF b
  <2>. DEFINE menus == {[set_catalog_menu(s, "TOP") EXCEPT !.local_label = FALSE],
                        s, Show(s, "command", "CUSTOM1"), Show(s, "command", "BLANK"),
                        VariableMenu(s, "VARS_ONLY"), set_catalog_menu(s, "VARS_ONLY"),
                        VariableMenu(s, "REAL_ONLY"), set_catalog_menu(s, "REAL_ONLY"),
                        [s EXCEPT !.menu["command"] = "ALPHA1"], set_catalog_menu(s, "MAT_ONLY"),
                        set_catalog_menu(s, "PGM_ONLY"), Show(s, "command", "ALPHA1")}
  <2>5. m \in menus \cup {display_error(e)}  BY Zenon DEF EntryMenu, e
  <2>6. \A d \in menus : Shape(d)  BY <2>1, <2>3, <2>4, StatesShape
  <2>. HIDE DEF menus, m
  <2>. QED  BY <2>2, <2>5, <2>6
<1>. HIDE DEF m
<1>5. Sound(display_error(c)) /\ Shape(display_error(c))
  <2>1. Alike(c, display_error(c)) /\ display_error(c).menu = c.menu  BY DisplayAlike DEF Still
  <2>. QED  BY <2>1, SoundAlike DEF Alike, Calm
<1>. QED  BY <1>2, <1>3, <1>4, <1>5, RedisplaySound

\* The second half of ASSIGN.
LEMMA AssignSound ==
    ASSUME NEW c, Still(c), c.pending = None, c.arg = "STR"
    PROVE  Sound(start_incomplete_command(c, "ASSIGNb"))
<1>. DEFINE x == "ASSIGNb"
            s == Incomplete(c, x, argtype(x))
            d == Show(s, "command", "CUSTOM1")
<1>1. x \in DOMAIN ArgType /\ argtype(x) = "CKEY"  BY DEF argtype, ArgType
<1>2. /\ Open(s) /\ Begun(s) /\ s.command = x /\ ~s.ind /\ s.argtype = "CKEY"
      /\ s.arg = c.arg /\ s.pending = c.pending
  BY <1>1, IncompleteTakes DEF Passive
<1>3. start_incomplete_command(c, x) = redisplay(EntryMenu(s, x))
  BY DEF start_incomplete_command, ProgramOnly
<1>. HIDE DEF s
<1>4. EntryMenu(s, x) = d  BY <1>2 DEF EntryMenu
<1>5. Turned(s, d) /\ d.menu["command"] = "CUSTOM1"
  <2>1. \A m : Turned(s, Show(s, "command", m)) /\ Show(s, "command", m).menu["command"] = m
    <3>1. Open(s)  BY <1>2
    <3>. QED  BY Zenon, <3>1, CommandMenuTurned
  <2>. QED  BY <2>1
<1>. HIDE DEF d
<1>6. /\ d.command = x /\ d.argtype = "CKEY" /\ ~d.ind /\ d.alpha = s.alpha
      /\ d.arg = "STR" /\ d.pending = None
  BY <1>2, <1>5 DEF Turned, Same, ArgFields
<1>7. Entry(d)
  <2>1. Begun(d)  BY <1>2, <1>6 DEF Begun
  <2>2. Helps(d, d.menu["command"])  BY <1>5, NoMenuHelps DEF Givers
  <2>. QED  BY <1>5, <1>6, <2>1, <2>2 DEF Entry, CustomMenus
<1>8. Waits(d)  BY <1>5, <1>7 DEF Waits, Turned
<1>. QED  BY <1>3, <1>4, <1>8, WaitsRedisplay

-----------------------------------------------------------------------------
\* What is pending keeps its argument.

LEMMA GivenSame ==
    ASSUME NEW c, NEW d, Given(c), d.pending = c.pending, d.arg = c.arg PROVE Given(d)
BY DEF Given

LEMMA NotGiven ==
    ASSUME NEW c, c.pending \notin DOMAIN ArgType PROVE Given(c)
<1>1. "ASSIGNa" \in DOMAIN ArgType  BY DEF ArgType
<1>. QED  BY <1>1 DEF Given

LEMMA PendIs ==
    ASSUME NEW c, Shape(c), NEW p, NEW a
    PROVE  /\ Shape(Pend(c, p, a)) /\ Pend(c, p, a).pending = p /\ Pend(c, p, a).arg = a
           /\ Pend(c, p, a).command_entry = c.command_entry /\ Pend(c, p, a).menu = c.menu
BY DEF Pend, Shape, Record, Fields

LEMMA PendGiven ==
    ASSUME NEW c, Shape(c), NEW p, NEW a, p \in DOMAIN ArgType => ArgSuits(p, a), p = "ASSIGNa" => a = "STR"
    PROVE  Given(Pend(c, p, a))
BY PendIs DEF Given

LEMMA ItNowGiven == ASSUME NEW c, Still(c), ~c.command_entry, Given(c) PROVE Given(do_it_now(c))
<1>. DEFINE s == get_cat_section(c)
            p == Show(c, "transient", "CATALOG")
            q == set_cat_section(p, s)
            l == [q EXCEPT !.leaving = TRUE]
            Kept(d) == Shape(d) /\ d.pending = c.pending /\ d.arg = c.arg
            a(d) == [Show(d, "plain", d.menu["command"]) EXCEPT !.sticky = TRUE]
            b(d) == Show(d, "command", None)
            e(d) == Pend(redisplay(bst(d)), "CANCELLED", None)
<1>1. \A d, f : Kept(d) /\ Alike(d, f) => Kept(f)
  BY DEF Alike, Calm, Same, ArgFields
<1>2. \A d, v : Shape(d) => Alike(d, set_cat_section(d, v)) /\ Alike(d, [d EXCEPT !.leaving = v])
                            /\ Alike(d, [d EXCEPT !.sticky = v])
                            /\ Alike(d, Show(d, "transient", v)) /\ Alike(d, Show(d, "plain", v))
                            /\ Alike(d, Show(d, "command", None))
  BY DisplayAlike, FieldsAlike, ShowAlike DEF FiveLevels
<1>3. Kept(c)  BY DEF Still
<1>4. Kept(l)
  <2>1. Kept(p)  BY <1>1, <1>2, <1>3
  <2>. HIDE DEF p
  <2>2. Kept(q)  BY <1>1, <1>2, <2>1
  <2>. HIDE DEF q
  <2>. QED  BY <1>1, <1>2, <2>2
<1>5. \A d : Kept(d) => Kept(a(d))
  <2>. SUFFICES ASSUME NEW d, Kept(d) PROVE Kept(a(d))  OBVIOUS
  <2>. DEFINE g == Show(d, "plain", d.menu["command"])
  <2>1. Kept(g)
    <3>1. Alike(d, g)  BY <1>2
    <3>. HIDE DEF Kept, g
    <3>. QED  BY <1>1, <3>1
  <2>. HIDE DEF g
  <2>2. Kept([g EXCEPT !.sticky = TRUE])  BY <1>1, <1>2, <2>1
  <2>. QED  BY <2>2 DEF g
<1>6. \A d : Kept(d) => Kept(b(d))  BY <1>1, <1>2
<1>7. \A d : Kept(d) => Given(e(d))
  <2>. SUFFICES ASSUME NEW d, Kept(d) PROVE Given(e(d))  OBVIOUS
  <2>1. Shape(redisplay(bst(d)))  BY StoreCalm, DisplayCalm DEF Calm
  <2>2. "CANCELLED" \notin DOMAIN ArgType  BY TypesOfCommands
  <2>. QED  BY <2>1, <2>2, PendIs, NotGiven
<1>8. \E d \in {c, l} : \E f \in {d, a(d)} : do_it_now(c) \in {b(f), e(b(f))}
  BY Zenon DEF do_it_now
<1>9. \A d : Kept(d) => Given(d)  BY GivenSame
<1>. HIDE DEF Kept, l, a, b, e
<1>. QED  BY <1>3, <1>4, <1>5, <1>6, <1>7, <1>8, <1>9

LEMMA InProgramGiven == ASSUME NEW c, Shut(c), Given(c) PROVE Given(FinishesInProgram(c))
<1>. DEFINE e == [c EXCEPT !.pc = c.saved_pc]
<1>1. Shape(e) /\ Given(e)
  <2>1. Alike(c, e)  BY FieldsAlike, StatesShape
  <2>. HIDE DEF e
  <2>. QED  BY <2>1, AlikeGiven DEF Alike, Calm
<1>2. FinishesInProgram(c) \in {e, redisplay(Pend(sst(e), None, None)), redisplay(Pend(bst(e), None, None)),
                                do_it_now(c), redisplay(Pend(store_command(c, c.pending), None, None))}
  BY Zenon DEF FinishesInProgram
<1>. HIDE DEF e
<1>3. \A d : Shape(d) => Given(redisplay(Pend(d, None, None)))
  <2>. SUFFICES ASSUME NEW d, Shape(d) PROVE Given(redisplay(Pend(d, None, None)))  OBVIOUS
  <2>1. Shape(Pend(d, None, None)) /\ Pend(d, None, None).pending = None  BY PendIs
  <2>2. redisplay(Pend(d, None, None)).pending = None  BY <2>1, DisplayCalm DEF Calm
  <2>3. None \notin DOMAIN ArgType  BY TypesOfCommands DEF None
  <2>. QED  BY <2>2, <2>3, NotGiven
<1>4. Shape(sst(e)) /\ Shape(bst(e)) /\ Shape(store_command(c, c.pending))
  BY <1>1, StoreCalm, StatesShape DEF Calm
<1>5. Given(do_it_now(c))  BY ItNowGiven DEF Shut
<1>. QED  BY <1>1, <1>2, <1>3, <1>4, <1>5

LEMMA FinishSound == ASSUME NEW c, Still(c), Given(c) PROVE Sound(finish_command_entry(c))
<1>. DEFINE e == [c EXCEPT !.command_entry = FALSE]
            n == [c EXCEPT !.pending = None]
            b == Show(e, "command", None)
<1>1. Still(e) /\ ~e.command_entry /\ Given(e)
  <2>1. Still(e) /\ ~e.command_entry  BY EntryLeftStill
  <2>2. e.pending = c.pending /\ e.arg = c.arg  BY DEF Still, Shape, Record, Fields
  <2>. QED  BY <2>1, <2>2, GivenSame
<1>2. c.pending = "ASSIGNa" => Sound(start_incomplete_command(n, "ASSIGNb"))
  <2>1. Still(n) /\ n.pending = None  BY PendingKeeps
  <2>2. n.arg = c.arg  BY DEF Still, Shape, Record, Fields
  <2>3. c.pending = "ASSIGNa" => n.arg = "STR"  BY <2>2 DEF Given
  <2>. HIDE DEF n
  <2>. QED  BY <2>1, <2>3, AssignSound
<1>3. finish_command_entry(c) = IF c.pending = "ASSIGNa" THEN start_incomplete_command(n, "ASSIGNb")
                                ELSE IF c.prgm_mode THEN FinishesInProgram(b) ELSE do_it_now(e)
  BY DEF finish_command_entry
<1>. HIDE DEF e, n
<1>4. Shut(b) /\ Given(b)
  <2>1. Shut(b)  BY <1>1, CommandMenuShut
  <2>2. Same(e, b)  BY <1>1, ShowSame, StatesShape DEF FiveLevels
  <2>. QED  BY <1>1, <2>1, <2>2, AlikeGiven
<1>. HIDE DEF b
<1>5. Given(FinishesInProgram(b)) /\ Given(do_it_now(e))  BY <1>1, <1>4, InProgramGiven, ItNowGiven
<1>6. ~FinishesInProgram(b).command_entry /\ ~do_it_now(e).command_entry
  BY <1>1, <1>4, InProgramShut, ItNowShut, StatesShape
<1>. QED  BY <1>2, <1>3, <1>5, <1>6 DEF Sound

-----------------------------------------------------------------------------
(***************************************************************************)
(* The keys of the entry, as far as the argument goes.                     *)
(***************************************************************************)

\* The entry ends with a command and the argument it takes.
LEMMA PendSound ==
    ASSUME NEW c, Still(c), NEW p, NEW a, p \in DOMAIN ArgType => ArgSuits(p, a), p = "ASSIGNa" => a = "STR"
    PROVE  Sound(finish_command_entry(Pend(c, p, a)))
<1>1. Still(Pend(c, p, a))  BY PendKeeps
<1>2. Given(Pend(c, p, a))  BY PendGiven, StatesShape
<1>. QED  BY <1>1, <1>2, FinishSound

LEMMA GivesUp == ASSUME NEW c, Still(c) PROVE Sound(Nulled(c)) /\ Sound(Cancelled(c))
<1>1. "CANCELLED" \notin DOMAIN ArgType /\ "NULL" \notin DOMAIN ArgType  BY TypesOfCommands
<1>. QED  BY <1>1, PendSound DEF Nulled, Cancelled

\* The arguments a command can be given.
Suited(c, a) ==
    LET t == argtype(c.command)
    IN  /\ ~c.ind /\ a = "STR" => t \notin Numbers
        /\ ~c.ind /\ a = "NUM" => t \notin Names \cup {"CKEY", "MKEY"}
        /\ ~c.ind /\ a = "STK" => t \in OnStack

LEMMA ChosenGiven ==
    ASSUME NEW c, Still(c), Begun(c), NEW a \in {"STR", "NUM", "STK"}, Suited(c, a)
    PROVE  /\ Still(Chosen(c, a)) /\ Given(Chosen(c, a))
           /\ Sound(finish_command_entry(Chosen(c, a)))
<1>. DEFINE b == IF c.ind THEN Indirect[a] ELSE a
            x == c.command
            t == argtype(x)
<1>1. x \in DOMAIN ArgType /\ t \in Types /\ (c.ind => t \notin Direct)
  BY TypesOfCommands DEF Begun
<1>2. c.ind => b \in {"IND_STR", "IND_NUM", "IND_STK"}  BY DEF Indirect
<1>3. ArgSuits(x, b)
  <2>1. CASE c.ind  BY <1>1, <1>2, <2>1 DEF ArgSuits, Direct
  <2>2. CASE ~c.ind /\ a = "STR"  BY <1>1, <2>2 DEF ArgSuits, Suited, Numbers
  <2>3. CASE ~c.ind /\ a = "NUM"
    BY <1>1, <2>3 DEF ArgSuits, Suited, Types, Numbers, Names, Direct, OnStack
  <2>4. CASE ~c.ind /\ a = "STK"  BY <1>1, <2>4 DEF ArgSuits, Suited, OnStack
  <2>. QED  BY <2>1, <2>2, <2>3, <2>4
<1>4. x = "ASSIGNa" => b = "STR"
  <2>1. argtype("ASSIGNa") = "NAMED"  BY DEF argtype, ArgType
  <2>. QED  BY <2>1 DEF Begun, Suited, Names, OnStack
<1>5. Chosen(c, a) = Pend(c, x, b)  BY DEF Chosen
<1>. HIDE DEF b, x, t
<1>. QED  BY <1>3, <1>4, <1>5, PendSound, PendKeeps, PendGiven, StatesShape

LEMMA FinishXeqSound == ASSUME NEW c, Still(c), Given(c), NEW d \in finish_xeq(c) PROVE Sound(d)
<1>. DEFINE e == [c EXCEPT !.command_entry = FALSE, !.pending = None]
            a == [e EXCEPT !.clall = TRUE]
            b == Show(e, "command", None)
            f == [c EXCEPT !.command_entry = FALSE]
<1>1. Still(e) /\ ~e.command_entry /\ e.pending = None
  <2>1. /\ Shape(e) /\ e.menu = c.menu /\ ~e.command_entry /\ e.pending = None
        /\ \A g \in ModeFields \ {"command_entry", "pending"} : e[g] = c[g]
    BY DEF Still, Shape, Record, Fields, ModeFields
  <2>. HIDE DEF e
  <2>. QED  BY <2>1 DEF Still, ModeFields
<1>2. Still(f)  BY EntryLeftStill
<1>3. \/ d = finish_command_entry(c)
      \/ d = redisplay(a)
      \/ \E x \in WithName : argtype(x) = "NONE" /\ d = finish_command_entry(Pend(f, x, None))
      \/ \E x \in WithName : argtype(x) # "NONE" /\ d \in {redisplay(display_error(b)),
                                                            start_incomplete_command(b, x)}
  <2>1. CASE d = finish_command_entry(c)  BY <2>1
  <2>2. CASE \E x \in WithName :
                d = CASE x = "CLALLa" -> redisplay(a)
                      [] x # "CLALLa" /\ argtype(x) = "NONE" -> finish_command_entry(Pend(f, x, None))
                      [] OTHER -> IF x \in {"CLV", "PRV"} /\ ~c.prgm_mode /\ c.vars = {}
                                  THEN redisplay(display_error(b))
                                  ELSE start_incomplete_command(b, x)
    <3>. HIDE DEF a, b, f
    <3>. QED  BY <2>2, Zenon
  <2>. QED  BY <2>1, <2>2, Zenon DEF finish_xeq
<1>. HIDE DEF e, f
<1>4. Sound(redisplay(a))
  <2>1. Shape(a) /\ ~a.command_entry /\ a.pending = None
    BY <1>1 DEF Still, Shape, Record, Fields
  <2>. HIDE DEF a
  <2>2. Sound(a)  BY <2>1, FreeSound DEF Passive
  <2>. QED  BY <2>1, <2>2, RedisplaySound
<1>5. Shut(b) /\ b.pending = None  BY <1>1, CommandMenuShut
<1>6. b.menu["command"] = None
  BY <1>1, CommandMenuModes
<1>. HIDE DEF a, b
<1>7. Still(b) /\ Sound(b)  BY <1>5, FreeSound DEF Shut, Passive
<1>8. Sound(redisplay(display_error(b)))
  <2>1. Alike(b, display_error(b)) /\ display_error(b).menu = b.menu  BY <1>7, DisplayAlike, StatesShape
  <2>. QED  BY <1>7, <2>1, SoundAlike, RedisplaySound DEF Alike, Calm
<1>9. ASSUME NEW x \in WithName, argtype(x) # "NONE" PROVE Sound(start_incomplete_command(b, x))
  <2>1. x \in DOMAIN ArgType  BY <1>9, TypesOfCommands
  <2>2. x # "ASSIGNb"  BY DEF WithName, Hidden
  <2>3. b.menu["command"] \notin Givers  BY <1>6 DEF Givers, None
  <2>. QED  BY <1>5, <1>7, <2>1, <2>2, <2>3, StartsSound DEF Passive
<1>10. ASSUME NEW x, argtype(x) = "NONE" PROVE Sound(finish_command_entry(Pend(f, x, None)))
  <2>1. x \notin DOMAIN ArgType /\ "ASSIGNa" \in DOMAIN ArgType
    BY <1>10, TypesOfCommands DEF ArgType
  <2>. QED  BY <1>2, <2>1, PendSound
<1>. QED  BY <1>3, <1>4, <1>8, <1>9, <1>10, FinishSound

\* A name is entered: the command takes one, or its argument is found through a variable.
Spells(c) == Waits(c) /\ c.command # "ASSIGNb" /\ (c.ind \/ argtype(c.command) \notin Numbers)

LEMMA NamedSound == ASSUME NEW c, Spells(c), NEW d \in Named(c) PROVE Sound(d)
<1>1. Still(c) /\ Begun(c) /\ Suited(c, "STR")  BY DEF Spells, Waits, Open, Entry, Suited
<1>2. Still(Chosen(c, "STR")) /\ Given(Chosen(c, "STR")) /\ Sound(finish_command_entry(Chosen(c, "STR")))
  BY <1>1, ChosenGiven
<1>. QED  BY <1>2, FinishXeqSound DEF Named

LEMMA StackMenuSound ==
    ASSUME NEW c, Waits(c), c.command # "ASSIGNb", c.menu["command"] \in {"ST", "IND_ST"},
           NEW s, NEW x, NEW d \in StackMenu(c, s, x)
    PROVE  Sound(d)
<1>. DEFINE e == [c EXCEPT !.ind = TRUE, !.maxdigits = 2]
            t == argtype(c.command)
<1>1. Still(c) /\ Sound(c) /\ Takes(c) /\ Helps(c, c.menu["command"]) /\ Begun(c)
  BY WaitsSound, TakesWaits DEF Waits, Entry
<1>2. Sound(Nulled(c)) /\ Sound(Cancelled(c))  BY <1>1, GivesUp
<1>3. Sound(finish_command_entry(Chosen(c, "STK")))
  <2>1. Suited(c, "STK")  BY <1>1 DEF Helps, Suited
  <2>. QED  BY <1>1, <2>1, ChosenGiven
<1>4. c.menu["command"] = "IND_ST" => Sound(redisplay(set_catalog_menu(e, "REAL_ONLY")))
  <2>. SUFFICES ASSUME c.menu["command"] = "IND_ST" PROVE Sound(redisplay(set_catalog_menu(e, "REAL_ONLY")))
    OBVIOUS
  <2>1. Open(e)  BY ArgumentOpen DEF Waits
  <2>2. /\ e.command = c.command /\ e.argtype = c.argtype /\ e.alpha = c.alpha /\ e.ind
        /\ e.pending = c.pending
    BY <1>1 DEF Still, Shape, Record, Fields
  <2>3. t \in OnStack  BY <1>1 DEF Helps
  <2>4. t \notin Direct /\ c.command # "ASSIGNa"
    <3>1. argtype("ASSIGNa") = "NAMED"  BY DEF argtype, ArgType
    <3>. QED  BY <2>3, <3>1 DEF OnStack, Direct
  <2>. HIDE DEF e
  <2>5. Begun(e)  BY <1>1, <2>2, <2>4 DEF Begun
  <2>6. Takes(e)  BY <2>1, <2>2, <2>5 DEF Takes
  <2>. QED  BY <2>2, <2>6, CatalogGoes
<1>5. d \in {Nulled(c), Cancelled(c), finish_command_entry(Chosen(c, "STK")), c}
      \/ (c.menu["command"] = "IND_ST" /\ d = redisplay(set_catalog_menu(e, "REAL_ONLY")))
  BY Zenon DEF StackMenu
<1>. HIDE DEF e
<1>. QED  BY <1>1, <1>2, <1>3, <1>4, <1>5

\* The pages of the menu of custom keys are beside each other, and no page gives an argument.
LEMMA PagesOfEntry ==
    ASSUME NEW p \in Pages
    PROVE  /\ DOMAIN p = 1 .. Len(p) /\ Len(p) \in {2, 3, 4}
           /\ \A j \in 1 .. Len(p) : p[j] \notin Givers
           /\ \A i, j \in 1 .. Len(p) : p[i] \in CustomMenus => p[j] \in CustomMenus
<1>. DEFINE Fine == /\ \A j \in 1 .. Len(p) : p[j] \notin Givers
                    /\ \A i, j \in 1 .. Len(p) : p[i] \in CustomMenus => p[j] \in CustomMenus
<1>1. ASSUME NEW a, NEW b, p = <<a, b>>, a \notin Givers \cup CustomMenus, b \notin Givers \cup CustomMenus
      PROVE  Fine
  <2>1. Len(p) = 2 /\ p[1] = a /\ p[2] = b  BY <1>1
  <2>2. \A i \in 1 .. 2 : i = 1 \/ i = 2  OBVIOUS
  <2>. QED  BY <1>1, <2>1, <2>2
<1>2. ASSUME NEW a, NEW b, NEW e, p = <<a, b, e>>, a \notin Givers, b \notin Givers, e \notin Givers,
             {a, b, e} = CustomMenus \/ {a, b, e} \cap CustomMenus = {}
      PROVE  Fine
  <2>1. Len(p) = 3 /\ p[1] = a /\ p[2] = b /\ p[3] = e  BY <1>2
  <2>2. \A i \in 1 .. 3 : i = 1 \/ i = 2 \/ i = 3  OBVIOUS
  <2>3. \A i \in 1 .. 3 : p[i] \notin Givers /\ p[i] \in {a, b, e}  BY <1>2, <2>1, <2>2
  <2>. QED  BY <1>2, <2>1, <2>3
<1>3. ASSUME NEW a, NEW b, NEW e, NEW f, p = <<a, b, e, f>>,
             \A y \in {a, b, e, f} : y \notin Givers \cup CustomMenus
      PROVE  Fine
  <2>1. Len(p) = 4 /\ p[1] = a /\ p[2] = b /\ p[3] = e /\ p[4] = f  BY <1>3
  <2>2. \A i \in 1 .. 4 : i = 1 \/ i = 2 \/ i = 3 \/ i = 4  OBVIOUS
  <2>3. \A i \in 1 .. 4 : p[i] \in {a, b, e, f}  BY <2>1, <2>2
  <2>. QED  BY <1>3, <2>1, <2>3
<1>. HIDE DEF Fine
<1>4. /\ \A y \in {"ALPHA1", "ALPHA2", "ABCDE1", "ABCDE2", "MODES1", "MODES2", "CLEAR1", "CLEAR2", "CONVERT1",
                "CONVERT2", "STAT1", "STAT2", "PRINT1", "PRINT2", "PRINT3", "MATRIX1", "MATRIX2", "MATRIX3",
                "EDIT1", "EDIT2", "PGM_FCN1", "PGM_FCN2", "PGM_FCN3", "PGM_FCN4"} :
            y \notin Givers \cup CustomMenus
      /\ {"CUSTOM1", "CUSTOM2", "CUSTOM3"} = CustomMenus
      /\ "CUSTOM1" \notin Givers /\ "CUSTOM2" \notin Givers /\ "CUSTOM3" \notin Givers
  BY DEF Givers, CustomMenus
<1>5. Fine
  <2>1. CASE p = <<"ALPHA1", "ALPHA2">>  BY <1>1, <1>4, <2>1
  <2>2. CASE p = <<"ABCDE1", "ABCDE2">>  BY <1>1, <1>4, <2>2
  <2>3. CASE p = <<"MODES1", "MODES2">>  BY <1>1, <1>4, <2>3
  <2>4. CASE p = <<"CLEAR1", "CLEAR2">>  BY <1>1, <1>4, <2>4
  <2>5. CASE p = <<"CONVERT1", "CONVERT2">>  BY <1>1, <1>4, <2>5
  <2>6. CASE p = <<"CUSTOM1", "CUSTOM2", "CUSTOM3">>  BY <1>2, <1>4, <2>6
  <2>7. CASE p = <<"PGM_FCN1", "PGM_FCN2", "PGM_FCN3", "PGM_FCN4">>  BY <1>3, <1>4, <2>7
  <2>8. CASE p = <<"PRINT1", "PRINT2", "PRINT3">>  BY <1>2, <1>4, <2>8
  <2>9. CASE p = <<"STAT1", "STAT2">>  BY <1>1, <1>4, <2>9
  <2>10. CASE p = <<"MATRIX1", "MATRIX2", "MATRIX3">>  BY <1>2, <1>4, <2>10
  <2>11. CASE p = <<"EDIT1", "EDIT2">>  BY <1>1, <1>4, <2>11
  <2>. QED
    BY <2>1, <2>2, <2>3, <2>4, <2>5, <2>6, <2>7, <2>8, <2>9, <2>10, <2>11, Zenon DEF Pages
<1>. QED  BY <1>5, PagesApart DEF Fine

LEMMA NeighboursOfEntry ==
    ASSUME NEW m, NEW n \in Neighbours(m)
    PROVE  n \notin Givers /\ (m \in CustomMenus => n \in CustomMenus)
<1>. PICK p \in Pages : n \in UNION {Beside(p, i) : i \in {i \in DOMAIN p : p[i] = m}}
  BY Zenon DEF Neighbours
<1>1. PICK i \in DOMAIN p : p[i] = m /\ n \in Beside(p, i)
  BY Zenon
<1>2. DOMAIN p = 1 .. Len(p) /\ Len(p) \in {2, 3, 4}  BY PagesOfEntry
<1>3. \E j \in 1 .. Len(p) : n = p[j]
  <2>1. 1 + (i % Len(p)) \in 1 .. Len(p) /\ 1 + ((i + Len(p) - 2) % Len(p)) \in 1 .. Len(p)
    BY <1>1, <1>2
  <2>. QED  BY <1>1, <2>1 DEF Beside
<1>. QED  BY <1>1, <1>2, <1>3, PagesOfEntry

LEMMA MenusOfEntry ==
    ASSUME NEW m PROVE parent(m) \notin Givers /\ \A n \in Kids(m) : n \notin Givers
<1>1. parent(m) \in DOMAIN Below \cup {None}
  BY Zenon DEF parent
<1>2. DOMAIN Below = {"ALPHA1", "ALPHA2", "PGM_FCN2", "STAT1", "CFIT", "MATRIX1", "BASE"}
  BY DEF Below
<1>3. ASSUME NEW n \in Kids(m) PROVE n \notin Givers
  <2>1. m \in DOMAIN Below /\ n \in Below[m]  BY <1>3 DEF Kids
  <2>. QED  BY <2>1 DEF Below, Givers
<1>. QED  BY <1>1, <1>2, <1>3 DEF Givers, None

LEMMA CustomMenuSound ==
    ASSUME NEW c, Waits(c), c.command = "ASSIGNb", NEW s, NEW x, NEW d \in CustomMenu(c, s, x)
    PROVE  Sound(d)
<1>1. /\ Still(c) /\ Sound(c) /\ c.arg = "STR" /\ c.menu["command"] \in CustomMenus /\ Begun(c)
  BY WaitsSound DEF Waits, Entry
<1>2. Sound(Nulled(c)) /\ Sound(Cancelled(c))  BY <1>1, GivesUp
<1>3. Sound(finish_command_entry(Pend(c, "ASGN01", c.arg)))
  <2>1. ArgSuits("ASGN01", "STR")
    <3>1. argtype("ASGN01") = "OTHER"  BY DEF argtype, ArgType
    <3>. QED  BY <3>1 DEF ArgSuits
  <2>. QED  BY <1>1, <2>1, PendSound
<1>4. ASSUME NEW m \in Neighbours(c.menu["command"]) PROVE Sound(redisplay(Show(c, "command", m)))
  <2>. DEFINE e == Show(c, "command", m)
  <2>1. m \in CustomMenus  BY <1>1, <1>4, NeighboursOfEntry
  <2>2. Turned(c, e) /\ e.menu["command"] = m
    <3>1. \A n : Turned(c, Show(c, "command", n)) /\ Show(c, "command", n).menu["command"] = n
      BY CommandMenuTurned DEF Waits
    <3>. QED  BY <3>1
  <2>. HIDE DEF e
  <2>3. Helps(c, m)  BY <2>1, NoMenuHelps DEF Givers, CustomMenus
  <2>4. Entry(e)  BY <1>1, <2>1, <2>2, <2>3, SameEntry DEF Turned, Waits
  <2>5. Waits(e)  BY <2>2, <2>4 DEF Waits, Turned
  <2>. QED  BY <2>5, WaitsRedisplay DEF e
<1>. QED  BY <1>1, <1>2, <1>3, <1>4 DEF CustomMenu

-----------------------------------------------------------------------------
\* The fields of the argument change.

LEMMA AlikeWaits ==
    ASSUME NEW c, NEW d, Waits(c), Alike(c, d), c.command = "ASSIGNb" => d.menu["command"] = c.menu["command"]
    PROVE  Waits(d) /\ Sound(d) /\ Sound(redisplay(d))
<1>1. Open(d)  BY CalmKeeps DEF Waits, Alike
<1>2. Waits(d)  BY <1>1, AlikeEntry DEF Waits
<1>. QED  BY <1>2, WaitsSound, WaitsRedisplay

LEMMA LengthWaits ==
    ASSUME NEW c, Waits(c), NEW n
    PROVE  LET d == [c EXCEPT !.length = n]
           IN  /\ Waits(d) /\ Sound(redisplay(d)) /\ d.command = c.command /\ d.argtype = c.argtype
               /\ d.ind = c.ind /\ d.alpha = c.alpha /\ d.menu = c.menu
<1>. DEFINE d == [c EXCEPT !.length = n]
<1>1. Shape(c)  BY WaitsSound
<1>2. Alike(c, d) /\ d.menu = c.menu  BY <1>1, FieldsAlike
<1>. HIDE DEF d
<1>3. Waits(d) /\ Sound(redisplay(d))  BY <1>2, AlikeWaits
<1>4. d.command = c.command /\ d.argtype = c.argtype /\ d.ind = c.ind /\ d.alpha = c.alpha
  BY <1>2 DEF Alike, Same, ArgFields
<1>. QED  BY <1>2, <1>3, <1>4 DEF d

\* The argument is to be found through a variable.
LEMMA IndTakes ==
    ASSUME NEW c, Takes(c), argtype(c.command) \notin Direct, c.command # "ASSIGNa"
    PROVE  /\ Takes([c EXCEPT !.ind = TRUE, !.maxdigits = 2])
           /\ Takes([c EXCEPT !.ind = TRUE, !.alpha = FALSE])
           /\ \A s : /\ \A d \in Catalog([c EXCEPT !.ind = TRUE, !.maxdigits = 2], s) : Sound(d)
                     /\ \A d \in Catalog([c EXCEPT !.ind = TRUE, !.alpha = FALSE], s) : Sound(d)
<1>. DEFINE d == [c EXCEPT !.ind = TRUE, !.maxdigits = 2]
            e == [c EXCEPT !.ind = TRUE, !.alpha = FALSE]
<1>1. Open(d) /\ Open(e)  BY ArgumentOpen DEF Takes
<1>2. Shape(c)  BY StatesShape DEF Takes
<1>3. /\ d.command = c.command /\ d.argtype = c.argtype /\ d.ind
      /\ e.command = c.command /\ e.argtype = c.argtype /\ e.ind
  BY <1>2 DEF Shape, Record, Fields
<1>. HIDE DEF d, e
<1>4. Begun(d) /\ Begun(e)  BY <1>3 DEF Begun, Takes
<1>5. Takes(d) /\ Takes(e)  BY <1>1, <1>3, <1>4 DEF Takes
<1>6. \A s : (\A f \in Catalog(d, s) : Sound(f)) /\ (\A f \in Catalog(e, s) : Sound(f))
  BY <1>3, <1>5, CatalogGoes
<1>. QED  BY <1>5, <1>6 DEF d, e

\* Letters are given up or begun.
LEMMA AlphaTakes ==
    ASSUME NEW c, Takes(c), NEW b,
           ~c.ind /\ argtype(c.command) \in Names => b,
           ~c.ind /\ b => argtype(c.command) \notin Numbers, NEW n
    PROVE  LET d == [c EXCEPT !.alpha = b]
               e == [c EXCEPT !.length = n, !.alpha = b]
           IN  /\ Takes(d) /\ d.menu = c.menu /\ d.ind = c.ind /\ d.command = c.command
               /\ d.argtype = c.argtype
               /\ Takes(e) /\ e.menu = c.menu /\ e.ind = c.ind /\ e.command = c.command
<1>. DEFINE d == [c EXCEPT !.alpha = b]
            e == [c EXCEPT !.length = n, !.alpha = b]
<1>1. Open(d) /\ Open(e)  BY ArgumentOpen DEF Takes
<1>2. Shape(c)  BY StatesShape DEF Takes
<1>3. /\ d.command = c.command /\ d.argtype = c.argtype /\ d.ind = c.ind /\ d.menu = c.menu /\ d.alpha = b
      /\ e.command = c.command /\ e.argtype = c.argtype /\ e.ind = c.ind /\ e.menu = c.menu /\ e.alpha = b
  BY <1>2 DEF Shape, Record, Fields
<1>. HIDE DEF d, e
<1>4. Begun(d) /\ Begun(e)  BY <1>3 DEF Begun, Takes
<1>5. Takes(d) /\ Takes(e)  BY <1>1, <1>3, <1>4 DEF Takes
<1>. QED  BY <1>3, <1>5 DEF d, e

LEMMA MenuAgainWaits == ASSUME NEW c, Takes(c), Helps(c, c.menu["command"]) PROVE Waits(MenuAgain(c))
<1>. DEFINE t == argtype(c.command)
<1>1. Waits(c)  BY TakesWaits
<1>2. c.argtype = "VAR" => t \in OnStack  BY DEF Takes, Begun, OnStack
<1>3. ~c.ind /\ c.argtype = "REAL" => t \in OnStack  BY DEF Takes, Begun, OnStack
<1>4. argtype("GTODOT") = "OTHER"  BY DEF argtype, ArgType
<1>5. c.argtype = "LBL" => t \notin Numbers  BY <1>4 DEF Takes, Begun, Numbers
<1>6. \A s : t \in OnStack => Waits(VariableMenu(c, s))  BY VariablesGo
<1>7. \A s : c.ind \/ t \notin Numbers => Waits(set_catalog_menu(c, s))  BY CatalogGoes
<1>8. c.command = "GTODOT" => Waits(Show(c, "command", "IND"))
  <2>1. c.command = "GTODOT" => Helps(c, "IND")  BY DEF Helps
  <2>. QED  BY <2>1, MenuGoes
<1>9. Waits(Show(c, "command", "ALPHA1"))
  <2>1. Helps(c, "ALPHA1")  BY DEF Helps
  <2>. QED  BY <2>1, MenuGoes
<1>. HIDE DEF t
<1>. QED  BY <1>1, <1>2, <1>3, <1>5, <1>6, <1>7, <1>8, <1>9 DEF MenuAgain

\* The entry of a menu's key turns into that of a program to call, or back.
LEMMA KeysOfSound ==
    ASSUME NEW c, Waits(c), NEW x
    PROVE  /\ Sound(start_incomplete_command(c, KeysOf(x)))
           /\ Shape(start_incomplete_command(c, KeysOf(x)))
           /\ Sound(start_incomplete_command(c, "KEY1G"))
           /\ Sound(start_incomplete_command(c, "KEY1X"))
<1>1. Still(c) /\ Sound(c) /\ c.pending \in Passive  BY WaitsSound DEF Waits, Open
<1>2. /\ argtype("KEYG") = "MKEY" /\ argtype("KEYX") = "MKEY"
      /\ argtype("KEY1G") = "LBL" /\ argtype("KEY1X") = "LBL"
      /\ {"KEYG", "KEYX", "KEY1G", "KEY1X"} \subseteq DOMAIN ArgType
  BY DEF argtype, ArgType
<1>3. \A y \in {"KEYG", "KEYX", "KEY1G", "KEY1X"} : Sound(start_incomplete_command(c, y))
  BY <1>1, <1>2, StartsSound DEF Overrides
<1>4. Shape(start_incomplete_command(c, KeysOf(x)))  BY KeysOfOpen, StatesShape DEF Waits
<1>. QED  BY <1>3, <1>4 DEF KeysOf

-----------------------------------------------------------------------------
\* The keys of the menus, of a number and of a name.

LEMMA WhichKeySound ==
    ASSUME NEW c, Waits(c), NEW s, NEW x, NEW d \in WhichKey(c, s, x)
    PROVE  Sound(d)
<1>1. Sound(c) /\ Sound(Nulled(c))  BY WaitsSound, GivesUp
<1>2. d \in {Nulled(c), c, start_incomplete_command(c, "KEY1G"), start_incomplete_command(c, "KEY1X")}
  BY Zenon DEF WhichKey
<1>. QED  BY <1>1, <1>2, KeysOfSound

LEMMA CatalogKeysSound ==
    ASSUME NEW c, Waits(c), c.command # "ASSIGNb", c.menu["command"] = "CATALOG",
           NEW s, NEW x, x \in MenuKeys \/ Arrow(s, x) \/ x = "EXIT",
           NEW d \in CatalogMenu(c, s, x)
    PROVE  Sound(d)
<1>1. Still(c) /\ Sound(c) /\ Spells(c) /\ Begun(c) /\ Shape(c)
  BY WaitsSound DEF Waits, Entry, Helps, Spells
<1>2. Sound([c EXCEPT !.pending = "LINGER1"])
  <2>. DEFINE e == [c EXCEPT !.pending = "LINGER1"]
  <2>1. /\ e.pending = "LINGER1" /\ e.command = c.command /\ e.argtype = c.argtype /\ e.ind = c.ind
        /\ e.alpha = c.alpha /\ e.menu = c.menu
    BY <1>1 DEF Shape, Record, Fields
  <2>. HIDE DEF e
  <2>2. Given(e)  BY <2>1, NotGiven, TypesOfCommands
  <2>3. Entry(e)  BY <2>1 DEF Waits, Entry, Begun, Helps
  <2>. QED  BY <2>2, <2>3 DEF Sound, e
<1>3. \A v : Sound(redisplay(set_cat_section(c, v)))  BY <1>1, DisplayAlike, AlikeWaits
<1>4. c.command \in WithLabelIndex => Sound(finish_command_entry(Pend(c, c.command, "LBLINDEX")))
  <2>1. c.command \in WithLabelIndex => ArgSuits(c.command, "LBLINDEX") /\ c.command # "ASSIGNa"
    BY DEF WithLabelIndex, ArgSuits
  <2>. QED  BY <1>1, <2>1, PendSound
<1>5. Sound(finish_command_entry(Chosen(c, "STR")))
  <2>1. Suited(c, "STR")  BY <1>1 DEF Spells, Suited
  <2>. QED  BY <1>1, <2>1, ChosenGiven
<1>6. \A e \in Named(c) : Sound(e)  BY <1>1, NamedSound
<1>7. Sound(redisplay(c)) /\ Sound(Cancelled(c))  BY <1>1, WaitsRedisplay, GivesUp
<1>8. Sound(finish_command_entry(IF c.command \in WithLabelIndex
                                 THEN Pend(c, c.command, "LBLINDEX")
                                 ELSE Chosen(c, "STR")))
  BY <1>4, <1>5
<1>. QED  BY <1>1, <1>2, <1>3, <1>6, <1>7, <1>8 DEF CatalogMenu

LEMMA VariablesMenuSound ==
    ASSUME NEW c, Waits(c), c.command # "ASSIGNb", c.menu["command"] \in {"VARMENU", "INTEG_PARAMS"},
           NEW s, NEW x, NEW d \in VariablesMenu(c, s, x),
           x \in MenuKeys \/ x = "EXIT" \/ (Arrow(s, x) /\ c.menu["command"] = "VARMENU")
    PROVE  Sound(d)
<1>1. Still(c) /\ Sound(c)  BY WaitsSound
<1>2. argtype(c.command) \in OnStack  BY DEF Waits, Entry, Helps
<1>3. ArgSuits(c.command, "STR")  BY <1>2 DEF ArgSuits, OnStack
<1>4. Sound(finish_command_entry(Pend(c, c.command, "STR")))  BY <1>1, <1>3, PendSound
<1>5. Sound(redisplay(c)) /\ Sound(Cancelled(c))  BY <1>1, WaitsRedisplay, GivesUp
<1>. QED  BY <1>1, <1>4, <1>5 DEF VariablesMenu

LEMMA PointSound ==
    ASSUME NEW c, Waits(c), c.command \notin {"ASSIGNb", "GTODOT"}, NEW d \in Point(c)
    PROVE  Sound(d)
<1>. DEFINE e == [c EXCEPT !.ind = TRUE, !.maxdigits = 2]
            t == argtype(c.command)
<1>1. Sound(c) /\ Takes(c) /\ c.argtype = t  BY WaitsSound, TakesWaits DEF Takes, Begun
<1>2. c.ind => \A f \in Menu(c, "ST") : Sound(f)
  <2>1. c.ind => Helps(c, "ST")  BY DEF Helps
  <2>. QED  BY <1>1, <2>1, MenuGoes
<1>3. t \in OnStack => \A f \in Menu(c, "IND_ST") : Sound(f)
  <2>1. t \in OnStack => Helps(c, "IND_ST")  BY DEF Helps
  <2>. QED  BY <1>1, <2>1, MenuGoes
<1>4. t \in {"NUM9", "NUM11", "NUM99", "LBL"} => \A f \in Catalog(e, "REAL_ONLY") : Sound(f)
  <2>. SUFFICES ASSUME t \in {"NUM9", "NUM11", "NUM99", "LBL"}
                PROVE  \A f \in Catalog(e, "REAL_ONLY") : Sound(f)
    OBVIOUS
  <2>1. argtype("ASSIGNa") = "NAMED"  BY DEF argtype, ArgType
  <2>2. t \notin Direct /\ c.command # "ASSIGNa"  BY <2>1 DEF Direct
  <2>. QED  BY <1>1, <2>2, IndTakes
<1>. HIDE DEF e, t
<1>5. \/ d = c \/ (c.ind /\ d \in Menu(c, "ST")) \/ (c.argtype \in OnStack /\ d \in Menu(c, "IND_ST"))
      \/ (c.argtype \in {"NUM9", "NUM11", "NUM99", "LBL"} /\ d \in Catalog(e, "REAL_ONLY"))
  BY Zenon DEF Point, e, OnStack
<1>. QED  BY <1>1, <1>2, <1>3, <1>4, <1>5

\* A number can be entered.
Counts(c) ==
    /\ Waits(c) /\ c.command # "ASSIGNb" /\ argtype(c.command) # "MKEY"
    /\ c.ind \/ argtype(c.command) \notin Names

LEMMA NumberEndsSound == ASSUME NEW c, Counts(c), NEW d \in NumberEnds(c) PROVE Sound(d)
<1>1. Still(c) /\ Sound(c) /\ Shape(c) /\ c.pending \in Passive /\ Begun(c)
  BY WaitsSound DEF Counts, Waits, Open, Entry
<1>2. Sound(finish_command_entry(Chosen(c, "NUM")))
  <2>1. argtype(c.command) # "CKEY"  BY TypesOfCommands DEF Counts
  <2>2. Suited(c, "NUM")  BY <2>1 DEF Suited, Counts
  <2>. QED  BY <1>1, <2>2, ChosenGiven
<1>3. \A e, p : Still(e) => Sound(finish_command_entry(Pend(e, None, p)))
  <2>1. None \notin DOMAIN ArgType /\ None # "ASSIGNa"  BY TypesOfCommands DEF None
  <2>. QED  BY <2>1, PendSound
<1>4. Still(display_error(c))
  <2>1. Waits(display_error(c))  BY <1>1, DisplayAlike, AlikeWaits DEF Counts
  <2>. QED  BY <2>1, WaitsSound
<1>5. c.command = "GOTOROW" => Sound(start_incomplete_command(c, "GOTOCOLUMN"))
  <2>. SUFFICES ASSUME c.command = "GOTOROW" PROVE Sound(start_incomplete_command(c, "GOTOCOLUMN"))
    OBVIOUS
  <2>1. argtype("GOTOROW") = "COUNT" /\ "GOTOCOLUMN" \in DOMAIN ArgType  BY DEF argtype, ArgType
  <2>2. ~c.ind  BY <1>1, <2>1 DEF Begun, Direct
  <2>3. Helps(c, c.menu["command"])  BY DEF Counts, Waits, Entry
  <2>4. c.menu["command"] \notin Givers  BY <2>1, <2>2, <2>3 DEF Helps, OnStack, Numbers, Givers
  <2>. QED  BY <1>1, <2>1, <2>4, StartsSound
<1>. QED  BY <1>1, <1>2, <1>3, <1>4, <1>5 DEF NumberEnds

LEMMA CountsOn ==
    ASSUME NEW c, Counts(c), NEW n
    PROVE  /\ Counts([c EXCEPT !.length = n]) /\ Takes([c EXCEPT !.length = n])
           /\ Waits([c EXCEPT !.length = n]) /\ [c EXCEPT !.length = n].command = c.command
<1>. DEFINE d == [c EXCEPT !.length = n]
<1>1. Waits(d) /\ d.command = c.command /\ d.ind = c.ind  BY LengthWaits DEF Counts
<1>. HIDE DEF d
<1>2. Counts(d) /\ Takes(d)  BY <1>1, TakesWaits DEF Counts
<1>. QED  BY <1>1, <1>2 DEF d

LEMMA DigitSound == ASSUME NEW c, Counts(c), NEW d \in Digit(c) PROVE Sound(d)
<1>. DEFINE e == [c EXCEPT !.length = @ + 1]
<1>1. Counts(e) /\ Takes(e)  BY CountsOn
<1>2. d \in NumberEnds(e) \/ d \in Menu(e, None)  BY DEF Digit
<1>. HIDE DEF e
<1>3. Helps(e, None)  BY DEF Helps, None
<1>. QED  BY <1>1, <1>2, <1>3, NumberEndsSound, MenuGoes

LEMMA DigitBackSound == ASSUME NEW c, Counts(c), NEW d \in DigitBack(c) PROVE Sound(d)
<1>. DEFINE e == [c EXCEPT !.length = @ - 1]
<1>1. Takes(e) /\ Waits(e)  BY CountsOn
<1>2. d \in {Nulled(c), redisplay(e), redisplay(start_incomplete_command(e, KeysOf(e.command))),
             redisplay(MenuAgain(e))}
  BY DEF DigitBack
<1>. HIDE DEF e
<1>3. Sound(Nulled(c))  BY WaitsSound, GivesUp DEF Counts
<1>4. Sound(redisplay(e))  BY <1>1, WaitsRedisplay
<1>5. Sound(redisplay(start_incomplete_command(e, KeysOf(e.command))))
  BY <1>1, KeysOfSound, RedisplaySound
<1>6. Sound(redisplay(MenuAgain(e)))
  <2>1. Waits(MenuAgain(e))  BY <1>1, MenuAgainWaits DEF Waits, Entry
  <2>. QED  BY <2>1, WaitsRedisplay
<1>. QED  BY <1>2, <1>3, <1>4, <1>5, <1>6

LEMMA EnterSound == ASSUME NEW c, Counts(c), NEW s, NEW d \in Enter(c, s) PROVE Sound(d)
<1>. DEFINE e == [c EXCEPT !.alpha = TRUE]
            t == argtype(c.command)
<1>1. Sound(c) /\ Takes(c)  BY WaitsSound, TakesWaits DEF Counts
<1>2. c.ind \/ c.argtype \in {"VAR", "REAL", "NAMED", "LBL", "PRGM"} => \A f \in Menu(e, "ALPHA1") : Sound(f)
  <2>. SUFFICES ASSUME c.ind \/ c.argtype \in {"VAR", "REAL", "NAMED", "LBL", "PRGM"}
                PROVE  \A f \in Menu(e, "ALPHA1") : Sound(f)
    OBVIOUS
  <2>1. argtype("GTODOT") = "OTHER"  BY DEF argtype, ArgType
  <2>2. ~c.ind => t \notin Numbers  BY <1>1, <2>1 DEF Takes, Begun, Numbers
  <2>3. Takes(e)  BY <1>1, <2>2, AlphaTakes
  <2>. HIDE DEF e
  <2>4. Helps(e, "ALPHA1")  BY DEF Helps
  <2>. QED  BY <2>3, <2>4, MenuGoes
<1>3. \/ d = c \/ d \in NumberEnds(c)
      \/ ((c.ind \/ c.argtype \in {"VAR", "REAL", "NAMED", "LBL", "PRGM"}) /\ d \in Menu(e, "ALPHA1"))
  BY Zenon DEF Enter, e
<1>. HIDE DEF e, t
<1>. QED  BY <1>1, <1>2, <1>3, NumberEndsSound

LEMMA NumberKeySound ==
    ASSUME NEW c, Waits(c), ~c.alpha, c.argtype \notin {"CKEY", "MKEY"},
           c.menu["command"] \notin {"ST", "IND_ST"}, NEW s, NEW x, NEW d \in NumberKey(c, s, x)
    PROVE  Sound(d)
<1>. DEFINE a == [c EXCEPT !.command = "GTO", !.argtype = "LBL", !.ind = TRUE, !.maxdigits = 2]
            b == [c EXCEPT !.argtype = "LBL", !.alpha = TRUE]
            e == [c EXCEPT !.command = IF @ = "STO" THEN "STO_ADD" ELSE "RCL_ADD"]
            f == [c EXCEPT !.command = "GTODOT", !.argtype = "OTHER", !.maxdigits = 4]
            t == argtype(c.command)
<1>1. argtype("GTODOT") = "OTHER" /\ argtype("GTO") = "LBL" /\ argtype("STO") = "VAR" /\ argtype("RCL") = "VAR"
      /\ argtype("STO_ADD") = "VAR" /\ argtype("RCL_ADD") = "VAR"
      /\ {"GTO", "GTODOT", "STO_ADD", "RCL_ADD"} \subseteq DOMAIN ArgType
  BY DEF argtype, ArgType
<1>2. c.command # "ASSIGNb" /\ t # "MKEY"
  <2>1. c.argtype = t \/ c.command = "GTODOT"  BY DEF Waits, Entry, Begun
  <2>. QED  BY <1>1, <2>1, TypesOfCommands
<1>3. Counts(c)  BY <1>2 DEF Counts, Waits, Entry, Begun
<1>4. Still(c) /\ Sound(c) /\ Takes(c) /\ Shape(c)  BY <1>2, WaitsSound, TakesWaits
<1>5. Open(a) /\ Open(b) /\ Open(e) /\ Open(f)  BY ArgumentOpen DEF Waits
<1>6. /\ a.command = "GTO" /\ a.argtype = "LBL" /\ a.ind /\ a.alpha = c.alpha /\ a.menu = c.menu
      /\ b.command = c.command /\ b.argtype = "LBL" /\ b.ind = c.ind /\ b.alpha /\ b.menu = c.menu
  BY <1>4 DEF Shape, Record, Fields
<1>7. /\ e.command = (IF c.command = "STO" THEN "STO_ADD" ELSE "RCL_ADD")
      /\ e.argtype = c.argtype /\ e.ind = c.ind /\ e.alpha = c.alpha /\ e.menu = c.menu
      /\ f.command = "GTODOT" /\ f.argtype = "OTHER" /\ f.ind = c.ind /\ f.alpha = c.alpha /\ f.menu = c.menu
  BY <1>4 DEF Shape, Record, Fields
<1>. HIDE DEF a, b, e, f, t
<1>8. \A g \in Catalog(a, "REAL_ONLY") : Sound(g)
  <2>1. Begun(a)  BY <1>1, <1>6 DEF Begun, Direct
  <2>. QED  BY <1>5, <1>6, <2>1, CatalogGoes DEF Takes
<1>9. c.menu["command"] = "IND" => \A g \in Menu(b, "ALPHA1") : Sound(g)
  <2>. SUFFICES ASSUME c.menu["command"] = "IND" PROVE \A g \in Menu(b, "ALPHA1") : Sound(g)
    OBVIOUS
  <2>1. c.command = "GTODOT"  BY DEF Waits, Entry, Helps
  <2>2. ~c.ind  BY <1>1, <1>4, <2>1 DEF Takes, Begun, Direct
  <2>3. Begun(b)  BY <1>1, <1>6, <2>1, <2>2 DEF Begun, Numbers
  <2>4. Takes(b)  BY <1>5, <1>6, <2>1, <2>3 DEF Takes
  <2>5. Helps(b, "ALPHA1")  BY DEF Helps
  <2>. QED  BY <2>4, <2>5, MenuGoes
<1>10. c.command \in {"STO", "RCL"} => Sound(redisplay(e))
  <2>. SUFFICES ASSUME c.command \in {"STO", "RCL"} PROVE Sound(redisplay(e))  OBVIOUS
  <2>1. argtype(e.command) = t /\ t = "VAR" /\ e.command \in {"STO_ADD", "RCL_ADD"}
    BY <1>1, <1>7 DEF t
  <2>2. c.argtype = "VAR"  BY <1>1, <1>4, <2>1 DEF Takes, Begun, t
  <2>3. Begun(e)  BY <1>1, <1>7, <2>1, <2>2, <1>4 DEF Begun, Direct, Names, Numbers
  <2>4. Helps(e, e.menu["command"])  BY <1>7, <2>1 DEF Waits, Entry, Helps, t
  <2>5. Waits(e)  BY <1>5, <2>1, <2>3, <2>4 DEF Waits, Entry
  <2>. QED  BY <2>5, WaitsRedisplay
<1>11. ~c.ind => \A g \in Menu(f, "IND") : Sound(g)
  <2>. SUFFICES ASSUME ~c.ind PROVE \A g \in Menu(f, "IND") : Sound(g)  OBVIOUS
  <2>1. Begun(f)  BY <1>1, <1>7 DEF Begun, Names, Numbers
  <2>2. Takes(f) /\ Helps(f, "IND")  BY <1>5, <1>7, <2>1 DEF Takes, Helps
  <2>. QED  BY <2>2, MenuGoes
<1>12. Sound(finish_command_entry(Pend(c, "GTODOTDOT", None)))
  <2>1. "GTODOTDOT" \notin DOMAIN ArgType  BY DEF ArgType
  <2>. QED  BY <1>4, <2>1, PendSound
<1>13. Sound(Cancelled(c))  BY <1>4, GivesUp
<1>14. \/ d \in {Cancelled(c), finish_command_entry(Pend(c, "GTODOTDOT", None)), c}
       \/ (c.command \in {"STO", "RCL"} /\ d = redisplay(e))
       \/ d \in Catalog(a, "REAL_ONLY")
       \/ (c.menu["command"] = "IND" /\ d \in Menu(b, "ALPHA1"))
       \/ (~c.ind /\ d \in Menu(f, "IND"))
       \/ (c.command # "GTODOT" /\ d \in Point(c))
       \/ d \in Enter(c, s) \/ d \in Digit(c) \/ d \in DigitBack(c)
  BY Zenon DEF NumberKey, Arithmetic, a, b, e, f
<1>15. c.command # "GTODOT" /\ d \in Point(c) => Sound(d)  BY <1>2, PointSound
<1>16. d \in Enter(c, s) \/ d \in Digit(c) \/ d \in DigitBack(c) => Sound(d)
  BY <1>3, EnterSound, DigitSound, DigitBackSound
<1>. QED  BY <1>4, <1>8, <1>9, <1>10, <1>11, <1>12, <1>13, <1>14, <1>15, <1>16

LEMMA SpellsTakes ==
    ASSUME NEW c, Spells(c)
    PROVE  /\ Takes(c) /\ Sound(c) /\ Still(c) /\ Shape(c) /\ Begun(c) /\ Helps(c, c.menu["command"])
           /\ Sound(Nulled(c)) /\ Sound(Cancelled(c)) /\ Sound(redisplay(c))
           /\ \A s : Waits(set_catalog_menu(c, s)) /\ \A d \in Catalog(c, s) : Sound(d)
           /\ \A m : m \notin Givers => /\ Waits(Show(c, "command", m))
                                        /\ Sound(redisplay(Show(c, "command", m)))
                                        /\ \A d \in Menu(c, m) : Sound(d)
<1>1. Takes(c) /\ Sound(c) /\ Still(c) /\ Shape(c) /\ Begun(c) /\ Helps(c, c.menu["command"])
  BY WaitsSound, TakesWaits DEF Spells, Waits, Entry
<1>2. Sound(Nulled(c)) /\ Sound(Cancelled(c)) /\ Sound(redisplay(c))
  BY <1>1, GivesUp, WaitsRedisplay DEF Spells
<1>3. \A s : Waits(set_catalog_menu(c, s)) /\ \A d \in Catalog(c, s) : Sound(d)
  BY <1>1, CatalogGoes DEF Spells
<1>4. ASSUME NEW m, m \notin Givers
      PROVE  /\ Waits(Show(c, "command", m)) /\ Sound(redisplay(Show(c, "command", m)))
             /\ \A d \in Menu(c, m) : Sound(d)
  BY <1>1, <1>4, NoMenuHelps, MenuGoes, WaitsRedisplay
<1>. QED  BY <1>1, <1>2, <1>3, <1>4

LEMMA LetterSound ==
    ASSUME NEW c, Spells(c)
    PROVE  Takes(Letter(c)) /\ Letter(c).menu = c.menu /\ Sound(redisplay(Letter(c)))
<1>. DEFINE n == IF c.length < MaxText THEN c.length + 1 ELSE c.length
            e == [c EXCEPT !.length = n, !.alpha = TRUE]
<1>1. Letter(c) = e  BY DEF Letter
<1>. HIDE DEF n
<1>2. Takes(e) /\ e.menu = c.menu /\ e.command = c.command /\ e.ind = c.ind
  BY SpellsTakes, AlphaTakes DEF Spells
<1>. HIDE DEF e
<1>3. Helps(e, e.menu["command"])  BY <1>2, SpellsTakes DEF Helps
<1>4. Waits(e)  BY <1>2, <1>3, TakesWaits
<1>. QED  BY <1>1, <1>2, <1>4, WaitsRedisplay

LEMMA LetterMenuSound == ASSUME NEW c, Spells(c), NEW d \in LetterMenu(c) PROVE Sound(d)
<1>1. \A n \in Kids(c.menu["command"]) : Sound(redisplay(Show(c, "command", n)))
  BY SpellsTakes, MenusOfEntry
<1>2. \A e \in Menu(Letter(c), parent(c.menu["command"])) : Sound(e)
  BY LetterSound, MenusOfEntry, NoMenuHelps, MenuGoes
<1>. QED  BY <1>1, <1>2 DEF LetterMenu

LEMMA PageMenuSound == ASSUME NEW c, Spells(c), NEW d \in PageMenu(c) PROVE Sound(d)
<1>1. \A n \in Neighbours(c.menu["command"]) : Sound(redisplay(Show(c, "command", n)))
  BY SpellsTakes, NeighboursOfEntry
<1>2. Sound([c EXCEPT !.fault = TRUE])
  <2>1. Alike(c, [c EXCEPT !.fault = TRUE]) /\ [c EXCEPT !.fault = TRUE].menu = c.menu
    BY SpellsTakes, FieldsAlike
  <2>. QED  BY <2>1, SpellsTakes, SoundAlike
<1>3. Sound(c)  BY SpellsTakes
<1>. QED  BY <1>1, <1>2, <1>3 DEF PageMenu

LEMMA LeaveMenuSound == ASSUME NEW c, Spells(c), NEW d \in LeaveMenu(c) PROVE Sound(d)
<1>1. Sound(Cancelled(Show(c, "command", None)))
  <2>1. Waits(Show(c, "command", None))  BY SpellsTakes DEF Givers, None
  <2>. QED  BY <2>1, WaitsSound, GivesUp
<1>2. \A e \in Menu(c, parent(c.menu["command"])) : Sound(e)  BY SpellsTakes, MenusOfEntry
<1>. QED  BY <1>1, <1>2 DEF LeaveMenu

LEMMA OutOfAlphaWaits ==
    ASSUME NEW c, Spells(c), c.ind \/ c.argtype \notin {"NAMED", "MAT", "PRGM"}
    PROVE  Waits(OutOfAlpha(c))
<1>. DEFINE b == ~c.ind /\ c.argtype = "RVAR"
            a == [c EXCEPT !.alpha = b]
            t == argtype(c.command)
<1>1. argtype("GTODOT") = "OTHER"  BY DEF argtype, ArgType
<1>2. Takes(c) /\ Begun(c) /\ Helps(c, c.menu["command"])  BY SpellsTakes
<1>3. ~c.ind /\ t \in Names => b  BY <1>1, <1>2 DEF Begun, Names
<1>4. ~c.ind /\ b => t \notin Numbers  BY DEF Spells
<1>5. OutOfAlpha(c) \in {IF c.ind THEN set_catalog_menu(a, "REAL_ONLY") ELSE MenuAgain(a),
                         IF c.ind THEN set_catalog_menu(a, "REAL_ONLY") ELSE Show(a, "command", None)}
  BY Zenon DEF OutOfAlpha
<1>. HIDE DEF b
<1>6. Takes(a) /\ a.menu = c.menu /\ a.ind = c.ind /\ a.command = c.command
  BY <1>2, <1>3, <1>4, AlphaTakes
<1>. HIDE DEF a, t
<1>7. Helps(a, a.menu["command"]) /\ Helps(a, None)  BY <1>2, <1>6 DEF Helps, None
<1>8. Waits(MenuAgain(a))  BY <1>6, <1>7, MenuAgainWaits
<1>9. Waits(Show(a, "command", None))  BY <1>6, <1>7, MenuGoes
<1>10. c.ind => Waits(set_catalog_menu(a, "REAL_ONLY"))  BY <1>6, CatalogGoes
<1>. QED  BY <1>5, <1>8, <1>9, <1>10

LEMMA NumberAgainWaits ==
    ASSUME NEW c, Spells(c), c.command = "GTODOT" PROVE Waits(NumberAgain(c))
<1>. DEFINE e == [c EXCEPT !.argtype = "OTHER", !.maxdigits = 4, !.alpha = FALSE]
<1>1. argtype("GTODOT") = "OTHER"  BY DEF argtype, ArgType
<1>2. Begun(c) /\ Shape(c)  BY SpellsTakes
<1>3. e.command = c.command /\ e.argtype = "OTHER" /\ e.ind = c.ind /\ ~e.alpha
  BY <1>2 DEF Shape, Record, Fields
<1>4. Open(e)  BY ArgumentOpen DEF Spells, Waits
<1>. HIDE DEF e
<1>5. Begun(e)  BY <1>1, <1>2, <1>3 DEF Begun, Names
<1>6. Takes(e) /\ Helps(e, "IND")  BY <1>3, <1>4, <1>5 DEF Takes, Helps
<1>7. Waits(Show(e, "command", "IND"))  BY <1>6, MenuGoes
<1>. QED  BY <1>7 DEF NumberAgain, e

LEMMA NoNameSound == ASSUME NEW c, Spells(c), NEW b PROVE Sound(redisplay(NoName(c, b)))
<1>. DEFINE again == set_catalog_menu(c, IF c.command = "ASSIGNa" THEN "TOP" ELSE "VARS_ONLY")
            others == {again, c, Show(c, "command", None), set_catalog_menu(c, "REAL_ONLY"),
                       set_catalog_menu(c, "MAT_ONLY"), set_catalog_menu(c, "PGM_ONLY")}
<1>1. \A s : Waits(set_catalog_menu(c, s))  BY SpellsTakes
<1>2. Waits(Show(c, "command", None))  BY SpellsTakes DEF Givers, None
<1>3. \A d \in others : Waits(d)  BY <1>1, <1>2 DEF Spells
<1>4. Sound(redisplay(Nulled(c)))
  <2>1. Shape(Nulled(c))  BY EntrySteps, StatesShape DEF Spells, Waits
  <2>. QED  BY <2>1, SpellsTakes, RedisplaySound
<1>5. \/ NoName(c, b) \in others
      \/ NoName(c, b) = Nulled(c)
      \/ c.command = "GTODOT" /\ NoName(c, b) = NumberAgain(c)
      \/ (c.ind \/ c.argtype \notin {"NAMED", "MAT", "PRGM"}) /\ NoName(c, b) = OutOfAlpha(c)
  <2>1. CASE c.command = "GTODOT"  BY <2>1 DEF NoName
  <2>2. CASE c.command # "GTODOT" /\ c.argtype = "NAMED"
    <3>1. NoName(c, b) = IF c.ind THEN OutOfAlpha(c) ELSE again  BY <2>2 DEF NoName
    <3>. QED  BY <3>1
  <2>3. CASE c.command # "GTODOT" /\ c.argtype = "RVAR"
    <3>1. NoName(c, b) \in others \cup {Nulled(c), OutOfAlpha(c)}  BY <2>3 DEF NoName
    <3>. HIDE DEF others
    <3>. QED  BY <2>3, <3>1
  <2>4. CASE c.command # "GTODOT" /\ c.argtype = "MAT"  BY <2>4 DEF NoName
  <2>5. CASE c.command # "GTODOT" /\ c.argtype = "PRGM"  BY <2>5 DEF NoName
  <2>6. CASE c.command # "GTODOT" /\ c.argtype \notin {"NAMED", "RVAR", "MAT", "PRGM"}
    BY <2>6 DEF NoName
  <2>. QED  BY <2>1, <2>2, <2>3, <2>4, <2>5, <2>6
<1>. HIDE DEF others
<1>6. c.command = "GTODOT" => Waits(NumberAgain(c))  BY NumberAgainWaits
<1>7. c.ind \/ c.argtype \notin {"NAMED", "MAT", "PRGM"} => Waits(OutOfAlpha(c))  BY OutOfAlphaWaits
<1>. QED  BY <1>3, <1>4, <1>5, <1>6, <1>7, WaitsRedisplay

LEMMA LetterBackSound == ASSUME NEW c, Spells(c), NEW d \in LetterBack(c) PROVE Sound(d)
<1>. DEFINE e == [c EXCEPT !.length = @ - 1]
<1>1. Spells(e)
  <2>1. Waits(e) /\ e.command = c.command /\ e.ind = c.ind  BY LengthWaits DEF Spells
  <2>. HIDE DEF e
  <2>. QED  BY <2>1 DEF Spells
<1>2. d \in {redisplay(e), redisplay(NoName(e, TRUE)), start_incomplete_command(c, KeysOf(c.command)),
             redisplay(NoName(c, FALSE)), redisplay(set_catalog_menu(c, "TOP")), Nulled(c)}
  BY Zenon DEF LetterBack
<1>. HIDE DEF e
<1>3. Sound(redisplay(NoName(e, TRUE))) /\ Sound(redisplay(NoName(c, FALSE)))  BY <1>1, NoNameSound
<1>4. Sound(start_incomplete_command(c, KeysOf(c.command)))  BY KeysOfSound DEF Spells
<1>5. Sound(redisplay(e)) /\ Sound(Nulled(c))  BY <1>1, SpellsTakes
<1>6. Sound(redisplay(set_catalog_menu(c, "TOP")))  BY SpellsTakes, WaitsRedisplay
<1>. QED  BY <1>2, <1>3, <1>4, <1>5, <1>6

LEMMA LocalLabelSound == ASSUME NEW c, Spells(c), NEW d \in LocalLabel(c) PROVE Sound(d)
<1>. DEFINE e == [c EXCEPT !.command_entry = FALSE]
            f == Show(redisplay(e), "command", None)
<1>1. Still(e)  BY EntryLeftStill, SpellsTakes
<1>. HIDE DEF e
<1>2. Still(redisplay(e))  BY <1>1, StatesShape, RedisplayKeeps
<1>3. Still(f)  BY <1>2, CommandMenuModes
<1>4. c.command \in WithLocalLabel /\ d = finish_command_entry(Pend(f, c.command, "LCLBL"))
  BY DEF LocalLabel, e
<1>. HIDE DEF f
<1>5. ArgSuits(c.command, "LCLBL") /\ c.command # "ASSIGNa"
  BY <1>4 DEF ArgSuits, WithLocalLabel, KeyCommands
<1>. QED  BY <1>3, <1>4, <1>5, PendSound

LEMMA NameEnterSound == ASSUME NEW c, Spells(c), NEW d \in NameEnter(c) PROVE Sound(d)
<1>1. \A e \in Menu(c, "ALPHA1") : Sound(e)  BY SpellsTakes DEF Givers
<1>2. Sound(c)  BY SpellsTakes
<1>. QED  BY <1>1, <1>2, LocalLabelSound, NamedSound DEF NameEnter

LEMMA NameKeySound == ASSUME NEW c, Spells(c), NEW s, NEW x, NEW d \in NameKey(c, s, x) PROVE Sound(d)
<1>. DEFINE a == [c EXCEPT !.ind = TRUE, !.alpha = FALSE]
<1>1. \/ d \in {redisplay(Letter(c)), c}
      \/ d \in LetterMenu(c)
      \/ (TurnsIndirect(c, s, x) /\ d \in Catalog(a, "REAL_ONLY"))
      \/ d \in Catalog(c, "TOP")
      \/ d \in PageMenu(c) \/ d \in LeaveMenu(c) \/ d \in LetterBack(c) \/ d \in NameEnter(c)
  BY Zenon DEF NameKey
<1>2. TurnsIndirect(c, s, x) => \A g \in Catalog(a, "REAL_ONLY") : Sound(g)
  <2>. SUFFICES ASSUME TurnsIndirect(c, s, x) PROVE \A g \in Catalog(a, "REAL_ONLY") : Sound(g)
    OBVIOUS
  <2>1. c.argtype \in Names /\ c.command # "ASSIGNa"  BY DEF TurnsIndirect, Names
  <2>2. argtype(c.command) \notin Direct
    <3>1. c.argtype = argtype(c.command)  BY <2>1, SpellsTakes DEF Begun, Names
    <3>. QED  BY <2>1, <3>1 DEF Names, Direct
  <2>. QED  BY <2>1, <2>2, SpellsTakes, IndTakes
<1>. HIDE DEF a
<1>3. Sound(redisplay(Letter(c))) /\ Sound(c) /\ \A g \in Catalog(c, "TOP") : Sound(g)
  BY LetterSound, SpellsTakes
<1>. QED
  BY <1>1, <1>2, <1>3, LetterMenuSound, PageMenuSound, LeaveMenuSound, LetterBackSound, NameEnterSound

LEMMA EntryKeySound ==
    ASSUME NEW c, Waits(c), c.argtype \notin {"CKEY", "MKEY"}, c.menu["command"] \notin {"ST", "IND_ST"},
           NEW s, NEW x, NEW d \in EntryKey(c, s, x)
    PROVE  Sound(d)
<1>0. c.command # "ASSIGNb"
  <2>1. argtype("ASSIGNb") = "CKEY" /\ "ASSIGNb" # "GTODOT"  BY TypesOfCommands
  <2>. QED  BY <2>1 DEF Waits, Entry, Begun
<1>1. CASE c.menu["command"] = "CATALOG" /\ MenuTakes(c, s, x)
  <2>1. d \in CatalogMenu(c, s, x)  BY <1>1 DEF EntryKey
  <2>. QED  BY <1>0, <1>1, <2>1, CatalogKeysSound DEF MenuTakes
<1>2. CASE c.menu["command"] \in {"VARMENU", "INTEG_PARAMS"} /\ MenuTakes(c, s, x)
  <2>1. d \in VariablesMenu(c, s, x)  BY <1>2 DEF EntryKey
  <2>. QED  BY <1>0, <1>2, <2>1, VariablesMenuSound DEF MenuTakes
<1>3. CASE c.alpha /\ d \in NameKey(c, s, x)
  <2>1. Spells(c)  BY <1>0, <1>3 DEF Spells, Waits, Entry, Begun
  <2>. QED  BY <1>3, <2>1, NameKeySound
<1>4. CASE ~c.alpha /\ d \in NumberKey(c, s, x)
  BY <1>4, NumberKeySound
<1>. QED  BY <1>1, <1>2, <1>3, <1>4 DEF EntryKey

LEMMA CommandKeySound ==
    ASSUME NEW c, Waits(c), NEW s, NEW x, NEW d \in keydown_command_entry(c, s, x)
    PROVE  Sound(d)
<1>. DEFINE y == AsDigit(c, x)
            a == [c EXCEPT !.alpha = TRUE]
            m == c.menu["command"]
<1>1. /\ argtype("LBL") = "OTHER" /\ argtype("ASSIGNb") = "CKEY" /\ "LBL" # "ASSIGNb" /\ "LBL" # "GTODOT"
      /\ "ASSIGNb" # "GTODOT"
  BY DEF argtype, ArgType
<1>2. Begun(c) /\ Helps(c, m)  BY DEF Waits, Entry
<1>3. c.command = "LBL" => Spells(c)  BY <1>1 DEF Spells, Numbers
<1>4. c.command = "LBL" => \A g \in Catalog(a, "TOP") : Sound(g)
  <2>. SUFFICES ASSUME c.command = "LBL" PROVE \A g \in Catalog(a, "TOP") : Sound(g)  OBVIOUS
  <2>1. argtype(c.command) \notin Numbers  BY <1>1 DEF Numbers
  <2>2. Takes(a) /\ a.command = c.command  BY <1>3, <2>1, SpellsTakes, AlphaTakes
  <2>. HIDE DEF a
  <2>. QED  BY <2>1, <2>2, CatalogGoes
<1>5. c.command = "LBL" => \A g \in Menu(c, parent(m)) : Sound(g)  BY <1>3, SpellsTakes, MenusOfEntry
<1>6. c.argtype = "CKEY" <=> c.command = "ASSIGNb"
  <2>1. c.argtype = argtype(c.command) \/ (c.command = "GTODOT" /\ c.argtype = "LBL")  BY <1>2 DEF Begun
  <2>2. c.command = "GTODOT" => c.argtype # "CKEY"
    <3>1. argtype("GTODOT") = "OTHER"  BY DEF argtype, ArgType
    <3>. QED  BY <2>1, <3>1
  <2>. QED  BY <1>1, <2>1, <2>2, TypesOfCommands
<1>7. m \in {"ST", "IND_ST"} => c.command # "ASSIGNb"
  BY DEF Waits, Entry, CustomMenus
<1>8. \/ m \in {"ST", "IND_ST"} /\ d \in StackMenu(c, s, x)
      \/ c.command = "LBL" /\ (d \in NameKey(c, s, y) \/ d \in Catalog(a, "TOP") \/ d \in Menu(c, parent(m)))
      \/ c.argtype = "CKEY" /\ d \in CustomMenu(c, s, y)
      \/ c.argtype = "MKEY" /\ d \in WhichKey(c, s, y)
      \/ m \notin {"ST", "IND_ST"} /\ c.argtype \notin {"CKEY", "MKEY"} /\ d \in EntryKey(c, s, y)
  BY Zenon DEF keydown_command_entry, LabelStarts
<1>. HIDE DEF y, a, m
<1>9. c.command = "LBL" /\ d \in NameKey(c, s, y) => Sound(d)  BY <1>3, NameKeySound
<1>10. m \in {"ST", "IND_ST"} /\ d \in StackMenu(c, s, x) => Sound(d)  BY <1>7, StackMenuSound DEF m
<1>11. c.argtype = "CKEY" /\ d \in CustomMenu(c, s, y) => Sound(d)  BY <1>6, CustomMenuSound
<1>12. d \in WhichKey(c, s, y) => Sound(d)  BY WhichKeySound
<1>13. m \notin {"ST", "IND_ST"} /\ c.argtype \notin {"CKEY", "MKEY"} /\ d \in EntryKey(c, s, y) => Sound(d)
  BY EntryKeySound DEF m
<1>. QED  BY <1>4, <1>5, <1>8, <1>9, <1>10, <1>11, <1>12, <1>13

-----------------------------------------------------------------------------
(***************************************************************************)
(* No command waits for its argument.  Free: nor is one pending that needs *)
(* one.  Ready: what is pending has been given its argument.               *)
(***************************************************************************)
Free(c) == Shape(c) /\ ~c.command_entry /\ c.pending \notin DOMAIN ArgType
Ready(c) == Shut(c) /\ Given(c)
Accepts(p, a) == (p \in DOMAIN ArgType => ArgSuits(p, a)) /\ (p = "ASSIGNa" => a = "STR")

LEMMA FreeIs ==
    ASSUME NEW c
    PROVE  /\ Free(c) => Shape(c) /\ Given(c) /\ Sound(c) /\ ~c.command_entry
           /\ Shape(c) /\ ~c.command_entry /\ c.pending \in Passive => Free(c)
           /\ Num(c) => Free(c)
           /\ Runs(c) => Free(c)
           /\ Asks(c) => Free(c)
           /\ Idle(c) => Free(c) /\ Ready(c)
           /\ Ready(c) => Sound(c) /\ Shape(c) /\ Given(c) /\ Shut(c)
           /\ Shut(c) /\ Free(c) => Ready(c)
           /\ Text(c) /\ c.pending = None => Free(c)
<1>1. \A p \in Passive : p \notin DOMAIN ArgType  BY TypesOfCommands DEF Passive, None
<1>2. None \in Passive  BY DEF Passive
<1>3. Free(c) => Shape(c) /\ Given(c) /\ Sound(c) /\ ~c.command_entry  BY NotGiven DEF Free, Sound
<1>4. Shape(c) /\ ~c.command_entry /\ c.pending \in Passive => Free(c)  BY <1>1 DEF Free
<1>5. (Num(c) => Free(c)) /\ (Runs(c) => Free(c)) /\ (Asks(c) => Free(c))
  BY <1>2, <1>4 DEF Num, Runs, Asks
<1>6. Shut(c) /\ Free(c) => Ready(c)  BY <1>3 DEF Ready
<1>7. Idle(c) => Free(c) /\ Shut(c)  BY <1>2, <1>4 DEF Idle, Shut, Still
<1>8. Ready(c) => Sound(c) /\ Shape(c) /\ Given(c) /\ Shut(c)  BY DEF Ready, Sound, Shut, Still
<1>9. Text(c) /\ c.pending = None => Free(c)  BY <1>2, <1>4 DEF Text
<1>. QED  BY <1>3, <1>4, <1>5, <1>6, <1>7, <1>8, <1>9

LEMMA FreeKeeps ==
    ASSUME NEW c, Free(c)
    PROVE  /\ \A d : Calm(c, d) => Free(d) /\ Free(redisplay(d))
           /\ Free(c) /\ Free(redisplay(c)) /\ Sound(redisplay(c)) /\ Free(display_error(c))
           /\ \A m : \A l \in FiveLevels \ {"app"} : Free(Show(c, l, m))
           /\ \A p, a : p \notin DOMAIN ArgType => Free(Pend(c, p, a)) /\ Free([c EXCEPT !.pending = p])
<1>1. Shape(c)  BY DEF Free
<1>2. \A d : Calm(c, d) => Free(d)  BY DEF Free, Calm
<1>3. \A d : Calm(c, d) => Calm(c, redisplay(d))  BY CalmOn
<1>4. Calm(c, redisplay(c)) /\ Calm(c, display_error(c))  BY <1>1, DisplayCalm
<1>5. ASSUME NEW l \in FiveLevels \ {"app"}, NEW m PROVE Free(Show(c, l, m))
  <2>1. Shape(Show(c, l, m)) /\ \A f \in ModeFields : Show(c, l, m)[f] = c[f]  BY <1>1, ShowModes
  <2>. QED  BY <2>1 DEF Free, ModeFields
<1>6. \A p, a : p \notin DOMAIN ArgType => Free(Pend(c, p, a)) /\ Free([c EXCEPT !.pending = p])
  BY DEF Free, Pend, Shape, Record, Fields
<1>7. Sound(redisplay(c))  BY <1>2, <1>4, FreeIs
<1>. QED  BY <1>2, <1>3, <1>4, <1>5, <1>6, <1>7

LEMMA ReadyKeeps ==
    ASSUME NEW c, Ready(c)
    PROVE  /\ \A d : Alike(c, d) => Ready(d) /\ Ready(redisplay(d))
           /\ Ready(redisplay(c)) /\ Ready(display_error(c)) /\ Ready(redisplay(display_error(c)))
<1>1. \A d, e : Ready(d) /\ Alike(d, e) => Ready(e)
  <2>. SUFFICES ASSUME NEW d, NEW e, Ready(d), Alike(d, e) PROVE Ready(e)  OBVIOUS
  <2>1. Shut(e)  BY CalmKeeps DEF Alike, Ready
  <2>2. Given(e)  BY AlikeGiven DEF Alike, Ready
  <2>. QED  BY <2>1, <2>2 DEF Ready
<1>2. \A d : Ready(d) => Shape(d)  BY FreeIs
<1>3. \A d : Ready(d) => Ready(redisplay(d)) /\ Ready(display_error(d))  BY <1>1, <1>2, DisplayAlike
<1>. QED  BY <1>1, <1>3

LEMMA PendReady ==
    ASSUME NEW c, Shut(c), NEW p, NEW a, Accepts(p, a) PROVE Ready(Pend(c, p, a))
<1>1. Shut(Pend(c, p, a))  BY PendKeeps
<1>2. Given(Pend(c, p, a))  BY StatesShape, PendGiven DEF Accepts
<1>. QED  BY <1>1, <1>2 DEF Ready

LEMMA LeaveAlike == ASSUME NEW c, Shape(c), NEW l PROVE Alike(c, Leave(c, l))
<1>1. LeftWith(c, l) => l \in {"transient", "plain"}  BY DEF LeftWith
<1>2. ASSUME l \in {"transient", "plain"} PROVE Alike(c, set_menu(c, l, None))
  <2>1. set_menu(c, l, None) = Show(c, l, None)  BY <1>2 DEF set_menu, set_menu_return_err
  <2>. QED  BY <1>2, <2>1, ShowAlike DEF FiveLevels
<1>. QED  BY <1>1, <1>2, AlikeItself DEF Leave

\* What is pending is stored into the program, or remains.
LEMMA SendsReady ==
    ASSUME NEW c, Shut(c), NEW x, NEW l
    PROVE  /\ Ready(Stored(c, x)) /\ (Ready(c) => Ready(send_it_off(c, l)))
           /\ (Ready(c) => \A d \in view(c) : Ready(d))
<1>1. Shape(c)  BY StatesShape
<1>2. \A y : Idle(Pend(store_command_after(c, y), None, None))
  <2>. TAKE y
  <2>1. Shut(store_command_after(c, y))  BY <1>1, StoreCalm, CalmKeeps
  <2>2. Shut(Pend(store_command_after(c, y), None, None))  BY <2>1, PendKeeps
  <2>3. Pend(store_command_after(c, y), None, None).pending = None  BY <2>1, StatesShape, PendIs
  <2>. QED  BY <2>2, <2>3 DEF Idle
<1>3. \A d : Idle(d) => Idle(redisplay(d)) /\ Idle(redisplay(Leave(d, l)))
  BY IdleKeeps, LeaveCalm, DisplayCalm
<1>4. Ready(Stored(c, x))  BY <1>2, <1>3, FreeIs DEF Stored
<1>5. Ready(c) => Ready(send_it_off(c, l))  BY <1>2, <1>3, FreeIs DEF send_it_off
<1>6. Ready([c EXCEPT !.pending = "LINGER1", !.message = TRUE])
  <2>. DEFINE d == [c EXCEPT !.pending = "LINGER1", !.message = TRUE]
  <2>1. d \in view(c)  BY DEF view
  <2>2. Shut(d)  BY <2>1, SendsShut
  <2>3. d.pending = "LINGER1"  BY <1>1 DEF Shape, Record, Fields
  <2>. HIDE DEF d
  <2>4. Ready(d)  BY <2>2, <2>3, NotGiven, TypesOfCommands DEF Ready
  <2>. QED  BY <2>4 DEF d
<1>7. Ready(c) => Ready(display_error(c))  BY ReadyKeeps
<1>. QED  BY <1>4, <1>5, <1>6, <1>7 DEF view

\* A command is begun with no entry going on.  A menu that an answer to CLALL has left on
\* the level of the commands gives way, or gives no argument.
Begins(c, x) == x # "ASSIGNb" /\ (x \in DOMAIN ArgType => c.menu["command"] \notin Givers \/ Overrides(x))

LEMMA InteractiveSound ==
    ASSUME NEW c, Idle(c), NEW x, Begins(c, x) PROVE Sound(do_interactive(c, x))
<1>. DEFINE a == [c EXCEPT !.clall = TRUE]
            e == [c EXCEPT !.saved_pc = c.pc, !.pc = NextLine(c)]
            f == [c EXCEPT !.saved_pc = IF c.prgm_mode THEN c.pc ELSE @]
            b == set_menu(set_base(c, 16), "app", "A_THRU_F")
            t == argtype(x)
            ends == {redisplay(display_error(c)), redisplay(b), redisplay(sst(c)), redisplay(a),
                     redisplay(Pend(bst(c), IF c.prgm_mode THEN c.pending ELSE "CANCELLED", None)),
                     redisplay(store_command_after(c, IF x = "RUN" THEN "STOP" ELSE x))}
<1>1. Shape(c) /\ Free(c) /\ Still(c) /\ c.pending = None  BY IdleKeeps, FreeIs
<1>2. Calm(c, b)
  <2>1. Calm(c, set_base(c, 16))  BY <1>1, SetBaseCalm
  <2>2. Calm(set_base(c, 16), b)  BY <2>1, SetMenuCalm DEF Calm
  <2>. QED  BY <2>1, <2>2, CalmChain
<1>3. Free(a) /\ Idle(e) /\ Idle(f) /\ e.menu = c.menu /\ f.menu = c.menu
  <2>1. Free(a)  BY <1>1 DEF Free, Shape, Record, Fields
  <2>2. Calm(c, e) /\ Calm(c, f) /\ e.menu = c.menu /\ f.menu = c.menu
    BY <1>1 DEF Calm, Shape, Record, Fields
  <2>. HIDE DEF a, e, f
  <2>. QED  BY <2>1, <2>2, IdleKeeps
<1>4. \/ do_interactive(c, x) \in ends
      \/ t # "NONE" /\ do_interactive(c, x) \in {start_incomplete_command(e, x), start_incomplete_command(f, x)}
      \/ t = "NONE" /\ do_interactive(c, x) = Pend(c, x, None)
  BY Zenon DEF do_interactive
<1>5. \A d \in ends : Sound(d)
  <2>. HIDE DEF a, b
  <2>0. "CANCELLED" \notin DOMAIN ArgType /\ None \notin DOMAIN ArgType  BY TypesOfCommands DEF None
  <2>1. \A y : Free(store_command_after(c, y)) /\ Free(sst(c)) /\ Free(bst(c)) /\ Free(b) /\ Free(display_error(c))
    BY <1>1, <1>2, StoreCalm, FreeKeeps
  <2>2. Free(Pend(bst(c), IF c.prgm_mode THEN c.pending ELSE "CANCELLED", None))
    BY <1>1, <2>0, <2>1, FreeKeeps
  <2>3. \A d : Free(d) => Sound(redisplay(d))  BY FreeKeeps
  <2>. QED  BY <1>3, <2>1, <2>2, <2>3
<1>. HIDE DEF ends, a, b
<1>6. ASSUME t # "NONE", NEW d, Idle(d), d.menu = c.menu PROVE Sound(start_incomplete_command(d, x))
  <2>1. Still(d) /\ d.pending \in Passive /\ Sound(d)  BY <1>6, FreeIs, IdleKeeps DEF Passive
  <2>2. x \in DOMAIN ArgType /\ x # "ASSIGNb"  BY <1>6, TypesOfCommands DEF Begins
  <2>3. d.menu["command"] \notin Givers \/ Overrides(x)  BY <1>6, <2>2 DEF Begins
  <2>. QED  BY <2>1, <2>2, <2>3, StartsSound
<1>7. t = "NONE" => Sound(Pend(c, x, None))
  <2>1. t = "NONE" => x \notin DOMAIN ArgType  BY TypesOfCommands
  <2>. QED  BY <1>1, <2>1, FreeKeeps, FreeIs
<1>. HIDE DEF e, f, t
<1>. QED  BY <1>3, <1>4, <1>5, <1>6, <1>7

-----------------------------------------------------------------------------
(***************************************************************************)
(* The keys in the normal mode: what is chosen from a menu has its         *)
(* argument, or its entry begins.                                          *)
(***************************************************************************)

\* The arguments that menus give.
LEMMA MenusAccept ==
    /\ \A a : /\ \A p \in {"VMSTO", "VMSTO2", "VMEXEC", "VMSOLVE", "INTEG", "CLX", "CLA", "CLALLb"} : Accepts(p, a)
              /\ \A p \in Passive : Accepts(p, a)
    /\ \A p \in {"RCL", "PGMSLV", "PGMSLVi", "PGMINT", "PGMINTi", "XEQ"} : Accepts(p, "STR")
    /\ Accepts("XEQ", "LCLBL") /\ Accepts("XEQ", "LBLINDEX")
    /\ \A x, a : argtype(x) = "NONE" => Accepts(x, a)
<1>1. \A x, a : argtype(x) = "NONE" => Accepts(x, a)
  <2>1. "ASSIGNa" \in DOMAIN ArgType  BY DEF ArgType
  <2>. QED  BY <2>1, TypesOfCommands DEF Accepts
<1>2. \A p \in {"VMSTO", "VMSTO2", "VMEXEC", "VMSOLVE", "INTEG", "CLX", "CLA", "CLALLb"} \cup Passive :
         argtype(p) = "NONE"
  BY DEF argtype, ArgType, Passive, None
<1>3. \A p \in {"RCL", "PGMSLV", "PGMSLVi", "PGMINT", "PGMINTi", "XEQ"} :
         argtype(p) \in {"VAR", "PRGM", "LBL"} /\ p # "ASSIGNa"
  BY DEF argtype, ArgType
<1>4. \A p \in {"RCL", "PGMSLV", "PGMSLVi", "PGMINT", "PGMINTi", "XEQ"} : Accepts(p, "STR")
  BY <1>3 DEF Accepts, ArgSuits
<1>5. Accepts("XEQ", "LCLBL") /\ Accepts("XEQ", "LBLINDEX")  BY DEF Accepts, ArgSuits
<1>. QED  BY <1>1, <1>2, <1>4, <1>5

LEMMA VariableToReady ==
    ASSUME NEW c, Idle(c), NEW s, NEW x \in {"VMSTO", "VMSTO2", "VMEXEC", "VMSOLVE"},
           NEW d \in VariableTo(c, s, x)
    PROVE  Ready(d)
<1>1. Shut(c) /\ Ready(c)  BY FreeIs, IdleKeeps
<1>2. \A y : Ready(Stored(c, y)) /\ \A e \in view(c) : Ready(e)  BY <1>1, SendsReady
<1>3. Ready(Pend(c, x, "STR"))  BY <1>1, PendReady, MenusAccept
<1>. QED  BY <1>2, <1>3 DEF VariableTo

LEMMA VarmenuKeyReady ==
    ASSUME NEW c, Idle(c), c.role \in {0, 1, 2}, NEW s, NEW x, x \in MenuKeys \cup {"EXIT"} \/ Arrow(s, x),
           NEW d \in VarmenuKey(c, s, x)
    PROVE  Ready(d)
<1>. DEFINE m == set_menu(c, "app", "INTEG_PARAMS")
            p == [m EXCEPT !.callback = 5]
            n == set_menu(c, "app", None)
<1>1. Shape(c) /\ Shut(c) /\ Ready(c)  BY IdleKeeps, FreeIs
<1>2. Calm(c, m) /\ Calm(c, n)  BY <1>1, SetMenuCalm
<1>. HIDE DEF m, n
<1>3. Idle(m) /\ Idle(n)  BY <1>2, IdleKeeps
<1>4. Calm(m, p)  BY <1>3, IdleKeeps DEF Calm, Shape, Record, Fields
<1>. HIDE DEF p
<1>5. Idle(p) /\ Idle(redisplay(p))  BY <1>3, <1>4, IdleKeeps, DisplayCalm
<1>6. ASSUME NEW e \in VariableKey(c, s) PROVE Ready(e)
  <2>. DEFINE y == CASE c.role = 0 -> IF c.varmenu_active THEN "VMEXEC" ELSE "VMSTO"
                     [] c.role = 1 -> IF c.varmenu_active THEN "VMSOLVE" ELSE "VMSTO2"
                     [] c.role = 2 -> "VMSTO"
  <2>1. y \in {"VMSTO", "VMSTO2", "VMEXEC", "VMSOLVE"}  OBVIOUS
  <2>2. e = redisplay(p) \/ e \in VariableTo(c, s, y)  BY Zenon DEF VariableKey, p, m
  <2>. HIDE DEF y
  <2>. QED  BY <1>5, <2>1, <2>2, FreeIs, VariableToReady
<1>7. \A e \in {c, n} : \A q \in {"NULL", "CANCELLED"} : Ready(Pend(e, q, None))
  BY <1>1, <1>3, IdleKeeps, PendReady, MenusAccept DEF Passive
<1>. QED  BY <1>1, <1>6, <1>7 DEF VarmenuKey, n

LEMMA ParameterKeyReady ==
    ASSUME NEW c, Idle(c), NEW s, NEW x, NEW d \in ParameterKey(c, s, x) PROVE Ready(d)
<1>1. d \in VariableTo(c, s, "VMSTO") => Ready(d)  BY VariableToReady
<1>2. Ready(Pend(c, "INTEG", "STR")) /\ Ready(Pend(c, "NULL", None))
  BY IdleKeeps, PendReady, MenusAccept DEF Passive
<1>. QED  BY <1>1, <1>2 DEF ParameterKey

\* No menu on the level of the commands: that of another level takes the key.
Bare(c) == Idle(c) /\ c.menu["command"] = None

LEMMA BareIs ==
    ASSUME NEW c, Bare(c)
    PROVE  /\ Idle(c) /\ Shut(c) /\ Shape(c) /\ Free(c) /\ Ready(c)
           /\ \A d : Calm(c, d) => Bare(d)
           /\ \A x : x # "ASSIGNb" => Begins(c, x) /\ Sound(do_interactive(c, x))
           /\ \A l : Bare(Leave(c, l))
<1>1. Idle(c) /\ Shut(c) /\ Shape(c) /\ Free(c) /\ Ready(c)  BY FreeIs, IdleKeeps DEF Bare
<1>2. \A d : Calm(c, d) => Bare(d)
  <2>1. \A d : Calm(c, d) => d.menu["command"] = None  BY DEF Calm, Bare
  <2>. QED  BY <1>1, <2>1, IdleKeeps DEF Bare
<1>3. \A x : x # "ASSIGNb" => Begins(c, x)  BY DEF Bare, Begins, Givers, None
<1>4. \A x : x # "ASSIGNb" => Sound(do_interactive(c, x))  BY <1>1, <1>3, InteractiveSound
<1>5. \A l : Bare(Leave(c, l))  BY <1>1, <1>2, LeaveCalm
<1>. QED  BY <1>1, <1>2, <1>3, <1>4, <1>5

LEMMA NamesAndItems ==
    "ASSIGNb" \notin WithName /\ \A m : "ASSIGNb" \notin Items(m)
<1>1. "ASSIGNb" \notin WithName  BY DEF WithName, Hidden
<1>2. \A m \in DOMAIN MenuItems : "ASSIGNb" \notin MenuItems[m]  BY DEF MenuItems
<1>. QED  BY <1>1, <1>2 DEF Items

LEMMA CustomNameSound ==
    ASSUME NEW c, Bare(c), NEW x, x # "ASSIGNb" PROVE Sound(CustomName(c, x))
<1>. DEFINE q == [c EXCEPT !.clall = TRUE]
            b == Pend(bst(c), IF c.prgm_mode THEN None ELSE "CANCELLED", None)
            o == send_it_off(Pend(c, x, None), "plain")
<1>1. Shape(c) /\ Shut(c) /\ Free(c)  BY BareIs
<1>2. \/ CustomName(c, x) \in {redisplay(q), redisplay(sst(c)), redisplay(b), do_interactive(c, x)}
      \/ argtype(x) = "NONE" /\ CustomName(c, x) = o
  <2>1. argtype("SST") = "NONE"  BY DEF argtype, ArgType
  <2>. QED  BY <2>1, Zenon DEF CustomName
<1>3. Free(q)  BY <1>1 DEF Free, Shape, Record, Fields
<1>4. Free(sst(c)) /\ Free(bst(c))  BY <1>1, StoreCalm, FreeKeeps
<1>5. Free(b)
  <2>1. None \notin DOMAIN ArgType /\ "CANCELLED" \notin DOMAIN ArgType  BY TypesOfCommands DEF None
  <2>. QED  BY <1>4, <2>1, FreeKeeps
<1>6. argtype(x) = "NONE" => Sound(o)
  <2>1. argtype(x) = "NONE" => Ready(Pend(c, x, None))  BY <1>1, MenusAccept, PendReady
  <2>. QED  BY <2>1, SendsReady, FreeIs
<1>7. Sound(do_interactive(c, x))  BY BareIs
<1>. HIDE DEF q, b, o
<1>. QED  BY <1>2, <1>3, <1>4, <1>5, <1>6, <1>7, FreeKeeps

LEMMA CustomKeySound ==
    ASSUME NEW c, Bare(c), NEW s, NEW x, NEW d \in CustomKey(c, s, x) PROVE Sound(d)
<1>1. Shape(c) /\ Shut(c) /\ Free(c) /\ Sound(c)  BY BareIs, FreeIs
<1>2. Sound(do_interactive(c, "GTO")) /\ Sound(do_interactive(c, "XEQ"))  BY BareIs
<1>3. Sound(Show(Stored(c, "XEQ"), "command", None))
  <2>. DEFINE g == Stored(c, "XEQ")
  <2>1. Ready(g)  BY <1>1, SendsReady
  <2>. HIDE DEF g
  <2>2. Alike(g, Show(g, "command", None))  BY <2>1, FreeIs, ShowAlike DEF FiveLevels
  <2>3. Sound(Show(g, "command", None))  BY <2>1, <2>2, ReadyKeeps, FreeIs
  <2>. QED  BY <2>3 DEF g
<1>4. Sound(Pend(c, "XEQ", "LCLBL"))  BY <1>1, PendReady, MenusAccept, FreeIs
<1>5. \A y \in {"XEQ", "RCL"} : Sound(send_it_off(Pend(c, y, "STR"), "plain"))
  <2>1. \A y \in {"XEQ", "RCL"} : Ready(Pend(c, y, "STR"))  BY <1>1, PendReady, MenusAccept
  <2>. QED  BY <2>1, SendsReady, FreeIs
<1>6. \A y \in WithName : Sound(CustomName(c, y))  BY NamesAndItems, CustomNameSound
<1>. QED  BY <1>1, <1>2, <1>3, <1>4, <1>5, <1>6 DEF CustomKey

LEMMA ProgramChosenReady == ASSUME NEW c, Shut(c), NEW l PROVE Ready(ProgramChosen(c, l))
<1>. DEFINE s == get_cat_section(c)
            p == Pend(c, "XEQ", "LBLINDEX")
            a == Show(p, "plain", None)
            b == Show(a, "transient", "CATALOG")
            u == set_cat_section(b, s)
            t == IF l = "plain" THEN u ELSE p
            f == [t EXCEPT !.leaving = TRUE]
<1>1. Ready(p)  BY PendReady, MenusAccept
<1>2. ProgramChosen(c, l) \in {p, f}
  BY Zenon DEF ProgramChosen
<1>. HIDE DEF p, s
<1>3. Ready(a)  BY <1>1, FreeIs, ShowAlike, ReadyKeeps DEF FiveLevels
<1>. HIDE DEF a
<1>4. Ready(b)
  <2>1. Alike(a, b)  BY <1>3, FreeIs, ShowAlike DEF FiveLevels
  <2>. QED  BY <1>3, <2>1, ReadyKeeps
<1>. HIDE DEF b
<1>5. Ready(u)  BY <1>4, FreeIs, DisplayAlike, ReadyKeeps
<1>. HIDE DEF u
<1>6. Ready(t)  BY <1>1, <1>5
<1>. HIDE DEF t
<1>7. Ready(f)  BY <1>6, FreeIs, FieldsAlike, ReadyKeeps
<1>. HIDE DEF f
<1>. QED  BY <1>1, <1>2, <1>7

LEMMA CatalogKeySound ==
    ASSUME NEW c, Bare(c), NEW l, NEW x \in MenuKeys, NEW d \in CatalogKey(c, l, x) PROVE Sound(d)
<1>1. Shut(c) /\ Shape(c) /\ Free(c) /\ Ready(c)  BY BareIs
<1>2. \A y \in {"PGMSLV", "PGMSLVi", "PGMINT", "PGMINTi", "RCL"} : Ready(Pend(c, y, "STR"))
  BY <1>1, PendReady, MenusAccept
<1>3. \A g : Ready(g) => Sound(send_it_off(g, l))  BY SendsReady, FreeIs
<1>4. /\ Sound(send_it_off(Pend(c, IF c.prgm_mode THEN "PGMSLV" ELSE "PGMSLVi", "STR"), l))
      /\ Sound(send_it_off(Pend(c, IF c.prgm_mode THEN "PGMINT" ELSE "PGMINTi", "STR"), l))
  BY <1>2, <1>3
<1>5. Sound(send_it_off(ProgramChosen(c, l), l))  BY <1>1, <1>3, ProgramChosenReady
<1>6. Sound(send_it_off(Leave(Pend(c, "RCL", "STR"), l), l))
  <2>. DEFINE g == Pend(c, "RCL", "STR")
  <2>1. Ready(g)  BY <1>2
  <2>. HIDE DEF g
  <2>2. Ready(Leave(g, l))  BY <2>1, FreeIs, LeaveAlike, ReadyKeeps
  <2>3. Sound(send_it_off(Leave(g, l), l))  BY <1>3, <2>2
  <2>. QED  BY <2>3 DEF g
<1>7. Sound(Pend(c, "NULL", None)) /\ Sound(Pend(Leave(c, l), "NULL", None)) /\ Sound([c EXCEPT !.pending = "LINGER1"])
  <2>1. "NULL" \notin DOMAIN ArgType /\ "LINGER1" \notin DOMAIN ArgType  BY TypesOfCommands
  <2>2. Free(Leave(c, l))  BY BareIs
  <2>. QED  BY <1>1, <2>1, <2>2, FreeKeeps, FreeIs
<1>8. \A y \in WithName : Sound(do_interactive(Leave(c, l), y))  BY BareIs, NamesAndItems
<1>9. Sound(display_error(c))  BY <1>1, FreeKeeps, FreeIs
<1>10. \A v : Sound(redisplay(set_cat_section(c, v)))  BY <1>1, DisplayCalm, FreeKeeps, FreeIs
<1>11. ASSUME NEW e \in CatalogItem(c, l) PROVE Sound(e)
  BY <1>4, <1>5, <1>6, <1>7, <1>8, <1>9 DEF CatalogItem
<1>. QED  BY <1>7, <1>9, <1>10, <1>11 DEF CatalogKey

LEMMA TableKeySound ==
    ASSUME NEW c, Bare(c), NEW l \in {"transient", "plain", "app"}, NEW d \in TableKey(c, l)
    PROVE  Sound(d)
<1>1. Shape(c) /\ Free(c)  BY BareIs
<1>2. \A m : Sound(redisplay(set_menu(c, l, m)))  BY <1>1, SetMenuCalm, FreeKeeps, FreeIs
<1>3. Sound(Pend(Leave(c, l), "NULL", None))  BY BareIs, FreeKeeps, FreeIs, TypesOfCommands
<1>4. \A y \in Items(c.menu[l]) : Sound(do_interactive(Leave(c, l), y))  BY BareIs, NamesAndItems
<1>. QED  BY <1>2, <1>3, <1>4 DEF TableKey

LEMMA MenuKeySound ==
    ASSUME NEW c, Bare(c), NEW l \in {"transient", "plain", "app"}, NEW s, NEW x \in MenuKeys,
           NEW d \in MenuKey(c, l, s, x)
    PROVE  Sound(d)
<1>1. \/ d \in CustomKey(c, s, x) \/ d \in CatalogKey(c, l, x) \/ d \in ParameterKey(c, s, x)
      \/ d \in TableKey(c, l)
  BY Zenon DEF MenuKey
<1>2. d \in ParameterKey(c, s, x) => Sound(d)  BY BareIs, ParameterKeyReady, FreeIs
<1>. QED  BY <1>1, <1>2, CustomKeySound, CatalogKeySound, TableKeySound

LEMMA MenuPageSound ==
    ASSUME NEW c, Bare(c), NEW l \in {"transient", "plain", "app"}, NEW d \in MenuPage(c, l)
    PROVE  Sound(d)
<1>1. Shape(c) /\ Free(c)  BY BareIs
<1>2. \A m : Sound(redisplay(set_menu(c, l, m)))  BY <1>1, SetMenuCalm, FreeKeeps, FreeIs
<1>3. Sound(redisplay(c)) /\ Sound(c)  BY <1>1, FreeKeeps, FreeIs
<1>. QED  BY <1>2, <1>3 DEF MenuPage

LEMMA MenuExitSound ==
    ASSUME NEW c, Bare(c), NEW l \in {"transient", "plain", "app"}, NEW d \in MenuExit(c, l)
    PROVE  Sound(d)
<1>1. Shape(c) /\ Free(c)  BY BareIs
<1>2. \A m : Free(set_menu(c, l, m))  BY <1>1, SetMenuCalm, FreeKeeps
<1>3. Free(set_cat_section(c, "TOP"))  BY <1>1, DisplayCalm, FreeKeeps
<1>4. \A e : Free(e) => Sound(Pend(e, "CANCELLED", None))  BY TypesOfCommands, FreeKeeps, FreeIs
<1>. QED  BY <1>2, <1>3, <1>4 DEF MenuExit

\* The commands that keys stand for bring up menus of their own.
LEMMA KeysBegin ==
    ASSUME NEW c
    PROVE  /\ \A y \in DOMAIN OwnCommand : Begins(c, OwnCommand[y])
           /\ \A y \in DOMAIN ShiftedKeys : Begins(c, ShiftedKeys[y])
           /\ \A y \in DOMAIN AlphaCommands : Begins(c, AlphaCommands[y])
           /\ Begins(c, "SST")
<1>1. \A x \in {"XEQ", "GTO", "STO", "RCL", "ASTO", "ARCL", "ASSIGNa"} : Overrides(x)
  BY DEF Overrides, argtype, ArgType
<1>2. \A x \in {"ADD", "RUN", "SST", "CLX"} : x \notin DOMAIN ArgType  BY DEF ArgType
<1>3. \A x \in {"XEQ", "GTO", "STO", "RCL", "ASTO", "ARCL", "ASSIGNa", "ADD", "RUN", "SST", "CLX"} : Begins(c, x)
  BY <1>1, <1>2 DEF Begins
<1>4. \A y \in DOMAIN OwnCommand : OwnCommand[y] \in {"XEQ", "STO", "RCL", "ADD", "RUN", "SST", "CLX"}
  BY DEF OwnCommand
<1>5. \A y \in DOMAIN ShiftedKeys : ShiftedKeys[y] \in {"GTO", "SST", "ASSIGNa"}  BY DEF ShiftedKeys
<1>6. \A y \in DOMAIN AlphaCommands : AlphaCommands[y] \in {"ASTO", "ARCL", "RUN"}  BY DEF AlphaCommands
<1>. QED  BY <1>3, <1>4, <1>5, <1>6

LEMMA OwnKeySound ==
    ASSUME NEW c, Idle(c), NEW s, NEW x, NEW d \in OwnKey(c, s, x) PROVE Sound(d)
<1>. DEFINE e == [c EXCEPT !.alpha_mode = TRUE, !.alpha_entry = FALSE]
            a == Show(e, "alpha", "ALPHA1")
            p == [c EXCEPT !.prgm_mode = FALSE]
            P == DOMAIN PlainKeys \cup AppKeys
            Q == DOMAIN ShiftedKeys
            R == DOMAIN OwnCommand
            q == do_interactive(c, ShiftedKeys[x])
            r == do_interactive(c, OwnCommand[x])
            l == [c EXCEPT !.pending = "LINGER1"]
            g == Pend(p, "CANCELLED", None)
            m == MenuSwitch(c, x)
            b == redisplay(a)
<1>1. Shape(c) /\ Free(c)  BY FreeIs
<1>2. Sound(b)
  <2>1. Free(e)  BY <1>1 DEF Free, Shape, Record, Fields
  <2>. HIDE DEF e
  <2>2. Free(a)  BY <2>1, FreeKeeps DEF FiveLevels
  <2>. HIDE DEF a
  <2>. QED  BY <2>2, FreeKeeps
<1>3. Sound(g) /\ Sound(l)
  <2>1. Free(p)  BY <1>1, FieldsCalm, FreeKeeps
  <2>. HIDE DEF p
  <2>. QED  BY <1>1, <2>1, FreeKeeps, FreeIs, TypesOfCommands
<1>4. x \in P => Sound(m)  BY <1>1, MenuSwitchCalm, FreeKeeps, FreeIs
<1>5. (x \in Q => Sound(q)) /\ (x \in R => Sound(r))  BY KeysBegin, InteractiveSound
<1>6. d \in (CASE s /\ x = "ENTER" -> {b}
               [] x = "EXIT" -> {g}
               [] s /\ x = "DOT" -> {l}
               [] s /\ x \in P -> {m}
               [] s /\ x \in Q -> {q}
               [] ~s /\ x \in R -> {r}
               [] OTHER -> {c})
  BY Zenon DEF OwnKey, a, e
<1>. HIDE DEF P, Q, R, q, r, l, g, m, b
<1>7. d \in {b, g, l, c} \/ (x \in P /\ d = m) \/ (x \in Q /\ d = q) \/ (x \in R /\ d = r)  BY <1>6
<1>. QED  BY <1>1, <1>2, <1>3, <1>4, <1>5, <1>7, FreeIs

LEMMA NumberStepsSound ==
    /\ \A c : Num(c) => Sound(NumberGone(c))
    /\ \A c : Num(c) => \A s, d :
          \A x \in MenuKeys \cup Digits \cup {"DOT", "E", "CHS", "BSP"} :
             d \in keydown_number_entry(c, s, x) => Sound(d)
<1>1. ASSUME NEW c, Num(c) PROVE Sound(NumberGone(c))
  <2>. DEFINE n == [c EXCEPT !.number = FALSE]
  <2>1. NumberGone(c) \in {redisplay(LineBefore(c)), Pend(n, "CLX", None)}
    BY Zenon DEF NumberGone
  <2>2. Free(LineBefore(c)) /\ Free(n)
    <3>1. Free(c)  BY <1>1, FreeIs
    <3>. QED  BY <3>1 DEF LineBefore, Free, Shape, Record, Fields
  <2>. HIDE DEF n
  <2>3. "CLX" \notin DOMAIN ArgType  BY DEF ArgType
  <2>. QED  BY <2>1, <2>2, <2>3, FreeKeeps, FreeIs
<1>2. ASSUME NEW c, Num(c), NEW s, NEW d, NEW x \in MenuKeys \cup Digits \cup {"DOT", "E", "CHS", "BSP"},
             d \in keydown_number_entry(c, s, x)
      PROVE  Sound(d)
  <2>1. \A v : Num([c EXCEPT !.minus = v]) /\ Num([c EXCEPT !.fault = v])
    <3>1. \A e, f : Num(e) /\ Calm(e, f) => Num(f)  BY CalmModes
    <3>2. Shape(c)  BY <1>2 DEF Num
    <3>. QED  BY <1>2, <3>1, <3>2, FieldsCalm
  <2>2. \A e, n : Num(e) => Num(NumberIs(e, n))
    <3>1. \A e, n : Shape(e) => Calm(e, NumberIs(e, n))
      BY DEF NumberIs, Calm, Shape, Record, Fields
    <3>. QED  BY <3>1, CalmModes DEF Num
  <2>3. \A n, v : /\ Num(NumberIs(c, n)) /\ Num(NumberIs([c EXCEPT !.minus = v], n))
                  /\ Sound(NumberGone([c EXCEPT !.minus = v]))
    BY <1>1, <1>2, <2>1, <2>2
  <2>4. \A e \in ChangeSign(c) \cup PointOrExponent(c) \cup NumberGrows(c) : Num(e) \/ Sound(e)
    BY <2>3 DEF ChangeSign, PointOrExponent, NumberGrows
  <2>5. Num(d) \/ Sound(d)  BY <1>2, <2>1, <2>3, <2>4 DEF keydown_number_entry
  <2>. QED  BY <2>5, FreeIs
<1>. QED  BY <1>1, <1>2

LEMMA NumberStartsSound ==
    ASSUME NEW c, Idle(c), NEW s, NEW x \in MenuKeys \cup Digits \cup {"DOT", "E"},
           NEW d \in NumberStarts(c, s, x)
    PROVE  Sound(d)
<1>. DEFINE n == [c EXCEPT !.number = TRUE, !.digits = 0, !.minus = FALSE]
            a == [n EXCEPT !.pc = NextLine(c)]
            e == [n EXCEPT !.varmenu_active = FALSE]
            b == redisplay(e)
<1>1. Num(n)
  <2>1. /\ Shape(n) /\ n.menu = c.menu /\ n.number /\ \A f \in ModeFields \ {"number"} : n[f] = c[f]
    <3>1. Shape(c)  BY IdleKeeps
    <3>. QED  BY <3>1 DEF Shape, Record, Fields, ModeFields
  <2>. HIDE DEF n
  <2>. QED  BY <2>1 DEF Num, Idle, Shut, Still, ModeFields
<1>. HIDE DEF n
<1>2. Calm(n, a) /\ Calm(n, e)  BY <1>1, FieldsCalm DEF Num
<1>. HIDE DEF a, e
<1>3. Num(a) /\ Num(b)  BY <1>1, <1>2, CalmModes, CalmOn
<1>4. d \in keydown_number_entry(a, s, x) \/ d \in keydown_number_entry(b, s, x)
  BY DEF NumberStarts, n, a, e
<1>. HIDE DEF b
<1>. QED  BY <1>3, <1>4, NumberStepsSound

LEMMA NormalModeSound ==
    ASSUME NEW c, Idle(c), c.role \in {0, 1, 2}, NEW s, NEW x, NEW d \in keydown_normal_mode(c, s, x)
    PROVE  Sound(d)
<1>. DEFINE l == FrontLevel(c)
            app == l \in {"transient", "plain", "app"}
<1>1. \/ is_number_key(c, s, x) /\ d \in NumberStarts(c, s, x)
      \/ d = redisplay(LineDeleted(c))
      \/ d \in do_prgm_menu_key(c, x)
      \/ (x \in MenuKeys \cup {"EXIT"} \/ Arrow(s, x)) /\ d \in VarmenuKey(c, s, x)
      \/ app /\ x \in MenuKeys /\ d \in MenuKey(c, l, s, x)
      \/ app /\ (d \in MenuPage(c, l) \/ d \in MenuExit(c, l))
      \/ d \in OwnKey(c, s, x)
  BY Zenon DEF keydown_normal_mode
<1>2. Shape(c) /\ Free(c)  BY FreeIs
<1>3. app => Bare(c)
  <2>1. app => l # "command"  OBVIOUS
  <2>. QED  BY <1>2, <2>1, FrontIsCommand DEF Bare
<1>. HIDE DEF l, app
<1>4. Sound(redisplay(LineDeleted(c)))  BY <1>2, StoreCalm, FreeKeeps, FreeIs
<1>5. is_number_key(c, s, x) /\ d \in NumberStarts(c, s, x) => Sound(d)
  BY NumberKeysAre, NumberStartsSound
<1>6. d \in do_prgm_menu_key(c, x) => Sound(d)
  <2>. DEFINE t == IF x = "EXIT" THEN Show(c, "plain", None) ELSE c
              r == [t EXCEPT !.running = TRUE]
  <2>1. d \in do_prgm_menu_key(c, x) =>
            d \in {Pend(t, "NULL", None), Pend(t, "CANCELLED", None), t, r, display_error(t)}
    BY DEF do_prgm_menu_key
  <2>2. Free(t)  BY <1>2, FreeKeeps DEF FiveLevels
  <2>. HIDE DEF t
  <2>3. Free(r)  BY <2>2 DEF Free, Shape, Record, Fields
  <2>. HIDE DEF r
  <2>. QED  BY <2>1, <2>2, <2>3, FreeKeeps, FreeIs, TypesOfCommands
<1>7. (x \in MenuKeys \cup {"EXIT"} \/ Arrow(s, x)) /\ d \in VarmenuKey(c, s, x) => Sound(d)
  BY VarmenuKeyReady, FreeIs
<1>8. app /\ x \in MenuKeys /\ d \in MenuKey(c, l, s, x) => Sound(d)
  BY <1>3, MenuKeySound DEF app
<1>9. app /\ (d \in MenuPage(c, l) \/ d \in MenuExit(c, l)) => Sound(d)
  BY <1>3, MenuPageSound, MenuExitSound DEF app
<1>10. d \in OwnKey(c, s, x) => Sound(d)  BY OwnKeySound
<1>. QED  BY <1>1, <1>4, <1>5, <1>6, <1>7, <1>8, <1>9, <1>10

-----------------------------------------------------------------------------
(***************************************************************************)
(* The keys in ALPHA mode, and where a key goes.                           *)
(***************************************************************************)
LEMMA LettersFree ==
    ASSUME NEW c, Free(c)
    PROVE  /\ \A v : Free([c EXCEPT !.alpha_entry = v]) /\ Free([c EXCEPT !.fault = v])
                     /\ Free([c EXCEPT !.text = v])
           /\ Free(start_alpha_prgm_line(c)) /\ Free(AlphaLetter(c)) /\ Free(AlphaEntered(c))
           /\ Free(finish_alpha_prgm_line(c)) /\ Free(AlphaOff(c)) /\ Free(LineDeleted(c))
<1>. DEFINE e == [c EXCEPT !.alpha_entry = FALSE]
            a == start_alpha_prgm_line(c)
            b == [c EXCEPT !.alpha_entry = TRUE]
            o == [c EXCEPT !.alpha_mode = FALSE]
<1>1. Shape(c)  BY DEF Free
<1>2. \A v : Free([c EXCEPT !.alpha_entry = v])  BY DEF Free, Shape, Record, Fields
<1>3. \A d, v : Free(d) => Free([d EXCEPT !.text = v])  BY DEF Free, Shape, Record, Fields
<1>4. \A v : Free([c EXCEPT !.fault = v])  BY <1>1, FieldsCalm, FreeKeeps
<1>5. Free(a)  BY DEF start_alpha_prgm_line, Free, Shape, Record, Fields
<1>6. Free(o)  BY DEF Free, Shape, Record, Fields
<1>7. Free(e) /\ Free(b)  BY <1>2
<1>8. AlphaLetter(c) \in {a, b, [a EXCEPT !.text = @ + 1], [b EXCEPT !.text = @ + 1]}
  BY Zenon DEF AlphaLetter
<1>9. finish_alpha_prgm_line(c) \in {[e EXCEPT !.pc = c.saved_pc], store_command(e, "STRING")}
  BY DEF finish_alpha_prgm_line
<1>10. AlphaEntered(c) \in {finish_alpha_prgm_line(c), e}  BY DEF AlphaEntered
<1>11. AlphaOff(c) = Show(o, "alpha", None)  BY DEF AlphaOff
<1>. HIDE DEF a, b, e, o
<1>12. Free(AlphaLetter(c))  BY <1>3, <1>5, <1>7, <1>8
<1>13. Free(finish_alpha_prgm_line(c))
  <2>1. Shape(e)  BY <1>7 DEF Free
  <2>2. Calm(e, [e EXCEPT !.pc = c.saved_pc]) /\ Calm(e, store_command(e, "STRING"))
    BY <2>1, FieldsCalm, StoreCalm
  <2>. QED  BY <1>7, <1>9, <2>2, FreeKeeps
<1>14. Free(AlphaOff(c))  BY <1>6, <1>11, FreeKeeps DEF FiveLevels
<1>15. Free(LineDeleted(c))  BY <1>1, StoreCalm, FreeKeeps
<1>. QED  BY <1>2, <1>3, <1>4, <1>5, <1>7, <1>10, <1>12, <1>13, <1>14, <1>15 DEF a

LEMMA AlphaMenuSound ==
    ASSUME NEW c, Free(c), NEW s, NEW x, x \in MenuKeys \cup {"EXIT"} \/ Arrow(s, x),
           NEW d \in AlphaMenuKey(c, s, x)
    PROVE  Sound(d)
<1>1. \A e : Free(e) => \A m : Free(Show(e, "alpha", m)) /\ Free(redisplay(Show(e, "alpha", m)))
  BY FreeKeeps DEF FiveLevels
<1>2. Free(AlphaLetter(c)) /\ Free([c EXCEPT !.fault = TRUE])  BY LettersFree
<1>3. Free(Pend(AlphaOff(AlphaEntered(Show(c, "alpha", None))), "CANCELLED", None))
  BY <1>1, LettersFree, FreeKeeps, TypesOfCommands
<1>4. Free(redisplay(c)) /\ Free(c)  BY FreeKeeps
<1>5. Free(d)
  <2>1. \A n : Free(redisplay(Show(c, "alpha", n))) /\ Free(redisplay(Show(AlphaLetter(c), "alpha", n)))
    BY <1>1, <1>2
  <2>. QED  BY <1>2, <1>3, <1>4, <2>1 DEF AlphaMenuKey
<1>. QED  BY <1>5, FreeIs

LEMMA AlphaBackSound == ASSUME NEW c, Free(c), NEW d \in AlphaBack(c) PROVE Sound(d)
<1>. DEFINE l == LineDeleted(c)
            t == [c EXCEPT !.text = @ - 1]
<1>1. \/ d \in {redisplay(t), redisplay(finish_alpha_prgm_line(c)), redisplay(c), Pend(c, "CLA", None),
                [l EXCEPT !.fault = TRUE], redisplay(l)}
      \/ \E n : d = redisplay(Show(l, "alpha", n))
  BY DEF AlphaBack
<1>2. Free(l) /\ Free(t) /\ Free(finish_alpha_prgm_line(c))  BY LettersFree
<1>. HIDE DEF l, t
<1>3. "CLA" \notin DOMAIN ArgType  BY DEF ArgType
<1>4. Free([l EXCEPT !.fault = TRUE])  BY <1>2, LettersFree
<1>5. \A n : Free(Show(l, "alpha", n))  BY <1>2, FreeKeeps DEF FiveLevels
<1>6. Free(d)  BY <1>1, <1>2, <1>3, <1>4, <1>5, FreeKeeps
<1>. QED  BY <1>6, FreeIs

LEMMA AlphaEnterSound == ASSUME NEW c, Free(c), NEW s, NEW d \in AlphaEnter(c, s) PROVE Sound(d)
<1>. DEFINE a == start_alpha_prgm_line(c)
            o == AlphaOff(AlphaEntered(c))
<1>1. Free(a) /\ Free(o) /\ Free([c EXCEPT !.alpha_entry = TRUE])  BY LettersFree
<1>2. d \in {redisplay(o), redisplay([a EXCEPT !.text = 1]), redisplay([c EXCEPT !.alpha_entry = TRUE])}
  BY DEF AlphaEnter
<1>. HIDE DEF a, o
<1>3. Free([a EXCEPT !.text = 1])  BY <1>1, LettersFree
<1>. QED  BY <1>1, <1>2, <1>3, FreeKeeps

LEMMA AlphaOtherSound ==
    ASSUME NEW c, Free(c), Text(c), c.pending = None, NEW s, NEW x, NEW d \in AlphaOther(c, s, x)
    PROVE  Sound(d)
<1>. DEFINE P == DOMAIN PlainKeys \cup AppKeys
            Q == DOMAIN AlphaCommands
            e == AlphaEntered(c)
            l == [c EXCEPT !.pending = "LINGER1"]
            g == do_interactive(e, "SST")
            m == redisplay(AlphaOff(AlphaEntered(MenuSwitch(c, x))))
            o == do_interactive(e, AlphaCommands[x])
<1>1. Idle(e)  BY LettersEntered DEF Idle
<1>2. Sound(g) /\ (x \in Q => Sound(o))  BY <1>1, KeysBegin, InteractiveSound
<1>3. x \in P => Sound(m)
  <2>1. x \in P => Free(MenuSwitch(c, x))  BY MenuSwitchCalm, FreeKeeps DEF Free
  <2>. QED  BY <2>1, LettersFree, FreeKeeps
<1>4. Sound(c) /\ Sound(l)
  <2>1. Free(l)  BY FreeKeeps, TypesOfCommands
  <2>. QED  BY <2>1, FreeIs
<1>5. d \in {c, l, g} \/ (x \in P /\ d = m) \/ (x \in Q /\ d = o)
  <2>1. d \in (CASE s /\ x = "DOT" -> {l}
                 [] s /\ x \in P -> {m}
                 [] s /\ x = "DOWN" -> {g}
                 [] ~s /\ x \in Q -> {o}
                 [] OTHER -> {c})
    BY Zenon DEF AlphaOther
  <2>. HIDE DEF P, Q, l, g, m, o
  <2>. QED  BY <2>1
<1>. QED  BY <1>2, <1>3, <1>4, <1>5

LEMMA AlphaModeSound ==
    ASSUME NEW c, Text(c), c.pending = None, NEW s, NEW x, NEW d \in keydown_alpha_mode(c, s, x)
    PROVE  Sound(d)
<1>1. Free(c)  BY FreeIs
<1>2. Sound(redisplay(AlphaLetter(c)))  BY <1>1, LettersFree, FreeKeeps
<1>3. \/ d \in {redisplay(AlphaLetter(c))}
      \/ (x \in MenuKeys \cup {"EXIT"} \/ Arrow(s, x)) /\ d \in AlphaMenuKey(c, s, x)
      \/ d \in AlphaBack(c) \/ d \in AlphaEnter(c, s) \/ d \in AlphaOther(c, s, x)
  BY Zenon DEF keydown_alpha_mode
<1>. QED
  BY <1>1, <1>2, <1>3, AlphaMenuSound, AlphaBackSound, AlphaEnterSound, AlphaOtherSound

\* The command that waits stays: what is pending is none of its.
LEMMA PassiveSound ==
    ASSUME NEW c, Shape(c), Sound(c), NEW p \in Passive, NEW a
    PROVE  /\ p \in {None, "SILENT_OFF"} => Sound([c EXCEPT !.pending = p])
           /\ (c.command_entry => c.command # "ASSIGNb") =>
                  Sound([c EXCEPT !.pending = p]) /\ Sound(Pend(c, p, a))
<1>. DEFINE d == [c EXCEPT !.pending = p]
            e == Pend(c, p, a)
<1>1. /\ d.menu = c.menu /\ d.pending = p /\ d.arg = c.arg /\ e.menu = c.menu /\ e.pending = p
      /\ \A f \in {"command_entry", "command", "argtype", "ind", "alpha"} : d[f] = c[f] /\ e[f] = c[f]
  BY DEF Pend, Shape, Record, Fields
<1>2. p \notin DOMAIN ArgType /\ "ASSIGNa" \in DOMAIN ArgType
  <2>1. p \notin DOMAIN ArgType  BY TypesOfCommands DEF Passive, None
  <2>. QED  BY <2>1 DEF ArgType
<1>. HIDE DEF d, e
<1>3. Given(d) /\ Given(e)  BY <1>1, <1>2 DEF Given
<1>4. ASSUME c.command_entry PROVE Entry(c)  BY <1>4 DEF Sound
<1>5. \A f : f.menu = c.menu /\ (\A g \in {"command_entry", "command", "argtype", "ind", "alpha"} : f[g] = c[g])
             => /\ Begun(c) => Begun(f)
                /\ Helps(c, c.menu["command"]) => Helps(f, f.menu["command"])
  BY DEF Begun, Helps
<1>6. ASSUME c.command_entry, c.command # "ASSIGNb" PROVE Entry(d) /\ Entry(e)
  BY <1>1, <1>4, <1>5, <1>6 DEF Entry
<1>7. ASSUME c.command_entry, p \in {None, "SILENT_OFF"} PROVE Entry(d)
  BY <1>1, <1>4, <1>5, <1>7 DEF Entry
<1>. QED  BY <1>1, <1>3, <1>6, <1>7 DEF Sound, d, e

LEMMA ModeKeySound ==
    ASSUME NEW c, Quiet(c), Sound(c), c.role \in {0, 1, 2}, NEW s, NEW x,
           c.number => x \in MenuKeys \cup Digits \cup {"DOT", "E", "CHS", "BSP"},
           NEW d \in ModeKey(c, s, x)
    PROVE  Sound(d)
<1>1. \/ c.number /\ d \in keydown_number_entry(c, s, x)
      \/ c.command_entry /\ d \in keydown_command_entry(c, s, x)
      \/ ~c.number /\ ~c.command_entry /\ c.alpha_mode /\ d \in keydown_alpha_mode(c, s, x)
      \/ ~c.number /\ ~c.command_entry /\ ~c.alpha_mode /\ d \in keydown_normal_mode(c, s, x)
  BY Zenon DEF ModeKey
<1>2. CASE c.number /\ d \in keydown_number_entry(c, s, x)
  <2>1. Num(c)  BY <1>2, QuietIs
  <2>. QED  BY <1>2, <2>1, NumberStepsSound
<1>3. CASE c.command_entry /\ d \in keydown_command_entry(c, s, x)
  <2>1. Waits(c)  BY <1>3, QuietIs DEF Waits, Sound
  <2>. QED  BY <1>3, <2>1, CommandKeySound
<1>4. CASE ~c.number /\ ~c.command_entry /\ c.alpha_mode /\ d \in keydown_alpha_mode(c, s, x)
  <2>1. Text(c) /\ c.pending = None  BY <1>4, QuietIs
  <2>. QED  BY <1>4, <2>1, AlphaModeSound
<1>5. CASE ~c.number /\ ~c.command_entry /\ ~c.alpha_mode /\ d \in keydown_normal_mode(c, s, x)
  <2>1. ~c.alpha_entry  BY <1>5 DEF Quiet, End
  <2>2. Idle(c)  BY <1>5, <2>1, QuietIs
  <2>. QED  BY <1>5, <2>2, NormalModeSound
<1>. QED  BY <1>1, <1>2, <1>3, <1>4, <1>5

\* SST and BST end the entry of letters, and no other.
LEMMA SteppingSound ==
    ASSUME NEW c, Quiet(c), Sound(c)
    PROVE  LET a == AlphaEntered(c)
               e == [c EXCEPT !.alpha_entry = FALSE]
           IN  /\ Sound(redisplay(bst(a))) /\ Sound(redisplay(sst(a)))
               /\ ~c.command_entry \/ c.command # "ASSIGNb"
                     => Sound(Pend(redisplay(bst(e)), "CANCELLED", None))
<1>. DEFINE a == AlphaEntered(c)
            e == [c EXCEPT !.alpha_entry = FALSE]
<1>1. Shape(c) /\ Quiet(a) /\ Quiet(e)  BY QuietIs, LettersQuiet
<1>2. Same(c, e) /\ e.command_entry = c.command_entry /\ e.menu = c.menu
  BY <1>1 DEF Same, ArgFields, Shape, Record, Fields
<1>3. Sound(e)  BY <1>2, SoundBy
<1>4. Sound(a)
  <2>1. CASE c.alpha_entry
    <3>1. Text(c) /\ c.pending = None  BY <2>1, QuietIs DEF Quiet, End
    <3>2. Free(a)  BY <3>1, FreeIs, LettersFree
    <3>. QED  BY <3>2, FreeIs
  <2>2. CASE ~c.alpha_entry
    <3>1. a = e  BY <2>2 DEF AlphaEntered
    <3>. QED  BY <1>3, <3>1
  <2>. QED  BY <2>1, <2>2
<1>5. e.command = c.command  BY <1>2 DEF Same, ArgFields
<1>. HIDE DEF a, e
<1>6. ASSUME NEW q, Quiet(q), Sound(q)
      PROVE  /\ Sound(redisplay(bst(q))) /\ Sound(redisplay(sst(q)))
             /\ Shape(redisplay(bst(q))) /\ redisplay(bst(q)).command = q.command
             /\ redisplay(bst(q)).command_entry = q.command_entry
  <2>1. Shape(q)  BY <1>6, QuietIs
  <2>2. /\ Alike(q, bst(q)) /\ bst(q).menu = q.menu
        /\ Alike(q, sst(q)) /\ sst(q).menu = q.menu
    BY <2>1, FieldsAlike
  <2>3. Sound(bst(q)) /\ Sound(sst(q)) /\ Shape(bst(q)) /\ Shape(sst(q))
    BY <1>6, <2>2, SoundAlike DEF Alike, Calm
  <2>4. Alike(q, redisplay(bst(q)))  BY <2>2, <2>3, DisplayAlike, AlikeChain
  <2>5. Sound(redisplay(bst(q))) /\ Sound(redisplay(sst(q)))  BY <2>3, RedisplaySound
  <2>6. Shape(redisplay(bst(q))) /\ redisplay(bst(q)).command_entry = q.command_entry
    BY <2>4 DEF Alike, Calm
  <2>7. redisplay(bst(q)).command = q.command  BY <2>4 DEF Alike, Same, ArgFields
  <2>. QED  BY <2>5, <2>6, <2>7
<1>7. ~c.command_entry \/ c.command # "ASSIGNb" => Sound(Pend(redisplay(bst(e)), "CANCELLED", None))
  <2>. DEFINE b == redisplay(bst(e))
  <2>1. /\ Sound(b) /\ Shape(b) /\ b.command = c.command
        /\ b.command_entry = c.command_entry
    BY <1>1, <1>2, <1>3, <1>5, <1>6
  <2>. HIDE DEF b
  <2>2. "CANCELLED" \in Passive  BY DEF Passive
  <2>3. ~c.command_entry \/ c.command # "ASSIGNb" => Sound(Pend(b, "CANCELLED", None))
    BY <2>1, <2>2, PassiveSound
  <2>. QED  BY <2>3 DEF b
<1>. QED  BY <1>1, <1>4, <1>6, <1>7 DEF a, e

LEMMA EditingKeySound ==
    ASSUME NEW c, Quiet(c), Sound(c), c.role \in {0, 1, 2}, NEW s, NEW x, NEW d \in EditingKey(c, s, x)
    PROVE  Sound(d)
<1>. DEFINE n == IF c.number /\ ~Continues(c, s, x) THEN NumberEntered(c) ELSE c
            a == AlphaEntered(n)
            g == Pend(redisplay(bst([n EXCEPT !.alpha_entry = FALSE])), "CANCELLED", None)
<1>1. Quiet(n) /\ Sound(n) /\ n.role \in {0, 1, 2} /\ (n.number => Continues(c, s, x))
  <2>1. CASE c.number /\ ~Continues(c, s, x)
    <3>1. Idle(n)  BY <2>1, QuietIs, NumberEnteredShut DEF Idle
    <3>2. Record(c)  BY DEF Quiet, End, Shape
    <3>3. n.role = c.role  BY <2>1, <3>2, EntryEndsSame DEF SameApp
    <3>. HIDE DEF n
    <3>4. Quiet(n) /\ Sound(n)  BY <3>1, QuietIs, FreeIs
    <3>5. ~n.number  BY <3>1 DEF Idle, Shut, Still
    <3>. QED  BY <3>3, <3>4, <3>5
  <2>2. CASE ~(c.number /\ ~Continues(c, s, x))
    BY <2>2
  <2>. QED  BY <2>1, <2>2
<1>2. \/ d \in {n, redisplay(bst(a)), redisplay(sst(a))}
      \/ ~(n.command_entry /\ s) /\ x = "UP" /\ Stepping(n, s, x) /\ d = g
      \/ d \in ModeKey(n, s, x)
  BY DEF EditingKey
<1>. HIDE DEF n
<1>3. n.number => x \in MenuKeys \cup Digits \cup {"DOT", "E", "CHS", "BSP"}
  BY <1>1, NumberKeysAre DEF Continues, Back
<1>4. Sound(redisplay(bst(a))) /\ Sound(redisplay(sst(a)))  BY <1>1, SteppingSound
<1>5. ~(n.command_entry /\ s) /\ Stepping(n, s, x) => Sound(g)
  <2>. SUFFICES ASSUME ~(n.command_entry /\ s), Stepping(n, s, x) PROVE Sound(g)
    OBVIOUS
  <2>1. n.command_entry => get_front_menu(n) = None  BY DEF Stepping
  <2>2. n.command_entry => n.command # "ASSIGNb"
    <3>1. n.command_entry /\ n.command = "ASSIGNb" => n.menu["command"] \in CustomMenus
      BY <1>1 DEF Sound, Entry
    <3>2. Shape(n)  BY <1>1, QuietIs
    <3>. QED  BY <2>1, <3>1, <3>2, FrontIsCommand DEF CustomMenus, None
  <2>. QED  BY <1>1, <2>2, SteppingSound
<1>6. d \in ModeKey(n, s, x) => Sound(d)  BY <1>1, <1>3, ModeKeySound
<1>. QED  BY <1>1, <1>2, <1>4, <1>5, <1>6

LEMMA ProgramModeSound == ASSUME NEW c, Quiet(c), ~c.command_entry PROVE Sound(ProgramMode(c))
<1>. DEFINE e == IF c.prgm_mode /\ ~c.alpha_entry /\ c.number THEN NumberEntered(c) ELSE AlphaEntered(c)
            t == [e EXCEPT !.alpha_entry = FALSE, !.number = FALSE, !.prgm_mode = ~@,
                           !.varmenu_active = FALSE, !.message = FALSE]
<1>1. Free(e)
  <2>1. Free(c)  BY QuietIs, FreeIs DEF Passive
  <2>2. c.number => Free(NumberEntered(c))  BY QuietIs, NumberEnteredShut, FreeIs DEF Idle
  <2>. QED  BY <2>1, <2>2, LettersFree
<1>2. ProgramMode(c) \in {redisplay(set_menu(t, "app", "BASE")), redisplay(Show(t, "plain", None)),
                          redisplay(t)}
  BY DEF ProgramMode
<1>. HIDE DEF e
<1>3. Free(t)  BY <1>1 DEF Free, Shape, Record, Fields
<1>. HIDE DEF t
<1>4. Calm(t, set_menu(t, "app", "BASE"))  BY <1>3, SetMenuCalm DEF Free
<1>5. Free(redisplay(set_menu(t, "app", "BASE")))  BY <1>3, <1>4, FreeKeeps
<1>6. Free(Show(t, "plain", None))  BY <1>3, FreeKeeps DEF FiveLevels
<1>. QED  BY <1>2, <1>3, <1>5, <1>6, FreeKeeps, FreeIs

\* GETKEY has its key, the question of CLALL its answer.
LEMMA AnswersSound ==
    ASSUME NEW c, Free(c), NEW s, NEW x
    PROVE  (\A d \in KeyGot(c, s, x) : Sound(d)) /\ Sound(ClallAnswered(c, s, x))
<1>. DEFINE a == [c EXCEPT !.storable = TRUE,
                           !.running = @ /\ x # "EXIT" /\ (s \/ x # "RUN")]
            b == [display_error(c) EXCEPT !.running = FALSE]
            e == [c EXCEPT !.clall = FALSE]
<1>1. Free(a) /\ Free(e)  BY DEF Free, Shape, Record, Fields
<1>2. KeyGot(c, s, x) = {GetkeyOver(a), GetkeyOver(b)}  BY DEF KeyGot
<1>3. ClallAnswered(c, s, x) \in {Pend(e, "CLALLb", None), Pend(e, "CANCELLED", None), Pend(e, "NULL", None)}
  BY DEF ClallAnswered
<1>. HIDE DEF a, e
<1>4. "CLALLb" \notin DOMAIN ArgType  BY DEF ArgType
<1>5. \A p \in {"CLALLb", "CANCELLED", "NULL"} : Free(Pend(e, p, None))
  BY <1>1, <1>4, FreeKeeps, TypesOfCommands
<1>6. Free(display_error(c))  BY FreeKeeps
<1>7. Free(b)  BY <1>6 DEF Free, Shape, Record, Fields
<1>. HIDE DEF b
<1>8. ASSUME NEW h, Free(h) PROVE Sound(GetkeyOver(h))
  <2>. DEFINE g == [h EXCEPT !.getkey = FALSE]
  <2>1. Free(g)  BY <1>8 DEF Free, Shape, Record, Fields
  <2>2. GetkeyOver(h) \in {g, redisplay(g)}  BY DEF GetkeyOver
  <2>. HIDE DEF g
  <2>. QED  BY <2>1, <2>2, FreeKeeps, FreeIs
<1>. QED  BY <1>1, <1>2, <1>3, <1>5, <1>7, <1>8, FreeIs

LEMMA KeydownSound ==
    ASSUME NEW c0, End(c0), c0.running => c0.getkey, Sound(c0), c0.role \in {0, 1, 2},
           NEW x, NEW s, NEW d \in keydown(c0, x, s)
    PROVE  Sound(d)
<1>. DEFINE c == [c0 EXCEPT !.pending = None]
            e == [c EXCEPT !.message = FALSE]
            b == set_menu(e, "app", "A_THRU_F")
            o == [c EXCEPT !.pending = "SILENT_OFF"]
<1>1. \/ d = c
      \/ c.clall /\ d = ClallAnswered(c, x, s)
      \/ ~c.clall /\ c.getkey /\ d \in KeyGot(c, x, s)
      \/ /\ ~c.clall /\ ~c.getkey
         /\ \/ d \in {o, c, redisplay(e)}
            \/ c.number /\ d = redisplay(b)
            \/ ~c.command_entry /\ d = ProgramMode(c)
            \/ d \in EditingKey(e, x, s)
  BY Zenon DEF keydown
<1>2. End(c) /\ c.pending = None /\ (c.running => c.getkey) /\ Sound(c) /\ c.role = c0.role
  <2>1. c.pending = None /\ c.running = c0.running /\ c.getkey = c0.getkey /\ c.role = c0.role
    BY DEF End, Shape, Record, Fields
  <2>2. End(c)  BY PassiveEnd DEF Passive
  <2>3. Sound(c)  BY PassiveSound DEF End, Passive
  <2>. QED  BY <2>1, <2>2, <2>3
<1>. HIDE DEF c
<1>3. Calm(c, e) /\ Sound(e) /\ Shape(e) /\ e.role = c.role
  <2>1. Shape(c)  BY <1>2 DEF End
  <2>2. Alike(c, e) /\ e.menu = c.menu /\ e.role = c.role
    BY <2>1, FieldsAlike DEF Shape, Record, Fields
  <2>. QED  BY <1>2, <2>2, SoundAlike DEF Alike, Calm
<1>. HIDE DEF e
<1>4. c.number => Sound(redisplay(b))
  <2>1. Calm(e, b)  BY <1>3, SetMenuCalm
  <2>2. c.number => ~c.command_entry  BY <1>2 DEF End
  <2>3. c.number => Free(c)  BY <1>2, <2>2, FreeIs DEF End, Passive
  <2>4. c.number => Free(e)  BY <1>3, <2>3, FreeKeeps
  <2>. HIDE DEF b
  <2>. QED  BY <2>1, <2>4, FreeKeeps, FreeIs
<1>. HIDE DEF b
<1>5. Sound(o)  BY <1>2, PassiveSound DEF End, Passive
<1>6. Sound(redisplay(e))  BY <1>3, RedisplaySound
<1>. HIDE DEF o
<1>7. ~c.clall /\ ~c.getkey => Quiet(c) /\ Quiet(e)  BY <1>2, <1>3, CalmQuiet DEF Quiet
<1>8. c.clall \/ c.getkey => Free(c)
  <2>1. c.clall \/ c.getkey => ~c.command_entry  BY <1>2 DEF End
  <2>. QED  BY <1>2, <2>1, FreeIs DEF End, Passive
<1>. QED
  BY <1>1, <1>2, <1>3, <1>4, <1>5, <1>6, <1>7, <1>8, AnswersSound, ProgramModeSound, EditingKeySound

-----------------------------------------------------------------------------
(***************************************************************************)
(* The commands, the timers and the power.                                 *)
(***************************************************************************)

LEMMA OverSound ==
    ASSUME NEW c, Shape(c), ~c.command_entry, NEW p, p \notin DOMAIN ArgType, NEW a
    PROVE  /\ c.pending = p => Free(c)
           /\ Free(Pend(c, p, a)) /\ Sound(Pend(c, p, a)) /\ Sound(redisplay(Pend(c, p, a)))
<1>1. c.pending = p => Free(c)  BY DEF Free
<1>2. Free(Pend(c, p, a))  BY PendIs DEF Free
<1>. QED  BY <1>1, <1>2, FreeIs, FreeKeeps

LEMMA CatalogLeftAlike == ASSUME NEW c, Shape(c) PROVE Alike(c, CatalogLeft(c))
<1>. DEFINE t == Show(c, "transient", None)
            p == Show(c, "plain", None)
<1>1. Alike(c, t) /\ Alike(c, p)  BY ShowAlike DEF FiveLevels
<1>2. CatalogLeft(c) \in {c, [t EXCEPT !.leaving = FALSE], [p EXCEPT !.leaving = FALSE],
                          [c EXCEPT !.leaving = FALSE]}
  BY DEF CatalogLeft
<1>. HIDE DEF t, p
<1>3. \A e : Alike(c, e) => Alike(c, [e EXCEPT !.leaving = FALSE])
  <2>1. \A e : Alike(c, e) => Shape(e)  BY DEF Alike, Calm
  <2>. QED  BY <2>1, FieldsAlike, AlikeChain
<1>. QED  BY <1>1, <1>2, <1>3, AlikeItself

\* ASSIGN waits for its key with nothing pending but the power that goes off.
LEMMA AssignWaits ==
    ASSUME NEW c, Sound(c), c.command_entry, c.command = "ASSIGNb" PROVE c.pending \in {None, "SILENT_OFF"}
BY DEF Sound, Entry

LEMMA KeyupSound ==
    ASSUME NEW c, End(c), Sound(c), c.pending # None, NEW d \in core_keyup(c) PROVE Sound(d)
<1>. DEFINE e == CatalogLeft(c)
<1>1. Shape(c)  BY DEF End
<1>2. Alike(c, e) /\ End(e) /\ e.pending = c.pending
  <2>1. Alike(c, e)  BY <1>1, CatalogLeftAlike
  <2>. QED  BY <2>1, CalmEnd DEF Alike, Calm
<1>3. \/ Lingers(c.pending) /\ d = [c EXCEPT !.pending = "LINGER2"]
      \/ c.pending = "SILENT_OFF" /\ d = [c EXCEPT !.pending = None]
      \/ c.pending \in {"CANCELLED", "NULL"} /\ d = Done(e)
      \/ c.pending \notin Passive /\ d \in Execute(e)
  BY DEF core_keyup, Lingers, Passive
<1>. HIDE DEF e
<1>4. c.pending \notin {None, "SILENT_OFF"} /\ c.command_entry => c.command # "ASSIGNb"  BY AssignWaits
<1>5. CASE Lingers(c.pending) /\ d = [c EXCEPT !.pending = "LINGER2"]
  <2>1. c.pending \notin {None, "SILENT_OFF"}  BY <1>5 DEF Lingers, None
  <2>2. "LINGER2" \in Passive  BY DEF Passive
  <2>. QED  BY <1>1, <1>4, <1>5, <2>1, <2>2, PassiveSound
<1>6. CASE c.pending = "SILENT_OFF" /\ d = [c EXCEPT !.pending = None]
  BY <1>1, <1>6, PassiveSound DEF Passive
<1>7. CASE c.pending \in {"CANCELLED", "NULL"} /\ d = Done(e)
  <2>1. c.pending \notin {None, "SILENT_OFF"}  BY <1>7 DEF None
  <2>2. c.command_entry => c.command # "ASSIGNb"  BY <1>4, <2>1
  <2>3. e.command_entry = c.command_entry /\ e.command = c.command /\ Shape(e)
    BY <1>2 DEF Alike, Calm, Same, ArgFields
  <2>4. Sound(e)  BY <1>2, <2>2, SoundAlike
  <2>5. Sound(Pend(e, None, None)) /\ Shape(Pend(e, None, None))
    BY <2>2, <2>3, <2>4, PassiveSound, PendIs DEF Passive
  <2>6. Sound(redisplay(Pend(e, None, None)))  BY <2>5, RedisplaySound
  <2>. QED  BY <1>7, <2>5, <2>6 DEF Done
<1>8. CASE c.pending \notin Passive /\ d \in Execute(e)
  <2>1. End(d) /\ ~d.command_entry /\ d.pending = None  BY <1>2, <1>8, ExecuteEnd
  <2>2. Free(d)  BY <2>1, FreeIs DEF End, Passive
  <2>. QED  BY <2>2, FreeIs
<1>. QED  BY <1>3, <1>5, <1>6, <1>7, <1>8

LEMMA TimersSound ==
    ASSUME NEW c, End(c), Sound(c), c.pending # None
    PROVE  Sound(core_keytimeout2(c)) /\ (Lingers(c.pending) => Sound(core_timeout3(c)))
<1>. DEFINE l == [c EXCEPT !.leaving = FALSE]
            m == [c EXCEPT !.message = FALSE]
            p == IF c.pending \in {"CANCELLED", "SILENT_OFF"} THEN c.pending ELSE "CANCELLED"
<1>1. Shape(c)  BY DEF End
<1>2. core_keytimeout2(c) = [l EXCEPT !.pending = p]  BY <1>1 DEF core_keytimeout2, Shape, Record, Fields
<1>3. core_timeout3(c) \in {Pend(c, "CANCELLED", None), redisplay(Pend(m, None, None))}
  BY DEF core_timeout3
<1>4. p \in Passive /\ "CANCELLED" \in Passive /\ None \in Passive  BY DEF Passive
<1>5. c.pending \notin {None, "SILENT_OFF"} /\ c.command_entry => c.command # "ASSIGNb"  BY AssignWaits
<1>6. c.pending = "SILENT_OFF" => p = "SILENT_OFF"  OBVIOUS
<1>7. /\ Alike(c, l) /\ l.menu = c.menu /\ Alike(c, m) /\ m.menu = c.menu  BY <1>1, FieldsAlike
<1>. HIDE DEF l, m, p
<1>8. Sound(l) /\ Sound(m)  BY <1>7, SoundAlike
<1>9. /\ Shape(l) /\ l.command_entry = c.command_entry /\ l.command = c.command
      /\ Shape(m) /\ m.command_entry = c.command_entry /\ m.command = c.command
  BY <1>7 DEF Alike, Calm, Same, ArgFields
<1>10. Sound([l EXCEPT !.pending = p])
  <2>1. CASE c.pending = "SILENT_OFF"
    BY <1>4, <1>6, <1>8, <1>9, <2>1, PassiveSound
  <2>2. CASE c.pending # "SILENT_OFF"
    <3>1. l.command_entry => l.command # "ASSIGNb"  BY <1>5, <1>9, <2>2
    <3>. QED  BY <1>4, <1>8, <1>9, <3>1, PassiveSound
  <2>. QED  BY <2>1, <2>2
<1>11. ASSUME Lingers(c.pending)
       PROVE  Sound(Pend(c, "CANCELLED", None)) /\ Sound(redisplay(Pend(m, None, None)))
  <2>1. c.pending \notin {None, "SILENT_OFF"}  BY <1>11 DEF Lingers, None
  <2>2. c.command_entry => c.command # "ASSIGNb"  BY <1>5, <2>1
  <2>3. Sound(Pend(c, "CANCELLED", None)) /\ Sound(Pend(m, None, None)) /\ Shape(Pend(m, None, None))
    BY <1>1, <1>4, <1>8, <1>9, <2>2, PassiveSound, PendIs
  <2>. QED  BY <2>3, RedisplaySound
<1>. QED  BY <1>2, <1>3, <1>10, <1>11

LEMMA PowercycleSound == ASSUME NEW c, End(c), Sound(c), NEW b PROVE Sound(core_powercycle(c, b))
<1>. DEFINE o == [c EXCEPT !.pending = None, !.getkey = FALSE]
            n == [c EXCEPT !.pending = None]
            s == [o EXCEPT !.running = FALSE]
<1>1. Shape(c)  BY DEF End
<1>2. core_powercycle(c, b) \in {AutoStart(o), redisplay(s), redisplay(o), o}
  BY DEF core_powercycle
<1>3. Sound(n)  BY <1>1, PassiveSound DEF Passive
<1>4. /\ Same(n, o) /\ o.command_entry = n.command_entry /\ o.menu = n.menu
      /\ Same(o, s) /\ s.command_entry = o.command_entry /\ s.menu = o.menu
      /\ Shape(o) /\ Shape(s)
  BY <1>1 DEF Same, ArgFields, Shape, Record, Fields
<1>5. End(o) /\ o.pending = None /\ ~o.getkey
  <2>1. /\ Shape(o) /\ o.menu = c.menu /\ o.pending = None /\ ~o.getkey
        /\ \A f \in ModeFields \ {"pending", "getkey"} : o[f] = c[f]
    BY <1>1 DEF Shape, Record, Fields, ModeFields
  <2>. HIDE DEF o
  <2>2. End(o)  BY <2>1 DEF End, ModeFields, Passive
  <2>. QED  BY <2>1, <2>2
<1>. HIDE DEF o, n, s
<1>6. Sound(o) /\ Sound(s)  BY <1>3, <1>4, SoundBy
<1>7. Sound(AutoStart(o))
  <2>1. End(AutoStart(o)) /\ ~AutoStart(o).command_entry /\ AutoStart(o).pending = None
    BY <1>5, AutoStartEnd
  <2>. QED  BY <2>1, FreeIs DEF End, Passive
<1>. QED  BY <1>2, <1>4, <1>6, <1>7, RedisplaySound

\* A program stops, or goes on with its next line.
LEMMA RunsSound ==
    ASSUME NEW c, End(c), c.running, ~c.getkey
    PROVE  /\ \A p \in Passive : Sound(redisplay(Pend([c EXCEPT !.running = FALSE], p, None)))
           /\ \A d \in Line(c) : Sound(d)
           /\ Sound(redisplay([c EXCEPT !.running = FALSE]))
<1>. DEFINE s == [c EXCEPT !.running = FALSE]
<1>1. c.pending \in Passive /\ ~c.alpha_entry /\ ~c.command_entry /\ Shape(c)  BY DEF End
<1>2. Hand(c, c.pending)  BY PendingHand
<1>3. Shape(s) /\ ~s.command_entry /\ s.pending = c.pending  BY <1>1 DEF Shape, Record, Fields
<1>. HIDE DEF s
<1>4. Free(s)  BY <1>1, <1>3, FreeIs
<1>5. \A p \in Passive : p \notin DOMAIN ArgType  BY TypesOfCommands DEF Passive, None
<1>6. \A p \in Passive : Sound(redisplay(Pend(s, p, None)))  BY <1>3, <1>5, OverSound
<1>7. \A d \in Line(c) : Free(d)
  <2>1. \A d \in Line(c) : Hand(d, c.pending)  BY <1>1, <1>2, LineHand
  <2>. QED  BY <1>1, <2>1, FreeIs DEF Hand
<1>. QED  BY <1>4, <1>6, <1>7, FreeIs, FreeKeeps DEF s

-----------------------------------------------------------------------------
(***************************************************************************)
(* The arguments in every state of a behaviour.                            *)
(***************************************************************************)

\* What is forgotten is not read again: neither by the entry nor by what is pending.
Keeps(c, d) ==
    /\ Record(d) /\ d.menu = c.menu /\ d.pending = c.pending /\ d.command_entry = c.command_entry
    /\ c.command_entry \/ c.pending # None => d.arg = c.arg
    /\ c.command_entry => \A f \in ArgFields : d[f] = c[f]

LEMMA KeepsSound == ASSUME NEW c, Sound(c), NEW d, Keeps(c, d) PROVE Sound(d)
<1>1. ASSUME c.command_entry PROVE Entry(d)
  <2>1. Same(c, d) /\ Entry(c)  BY <1>1 DEF Keeps, Same, Sound
  <2>2. Begun(c) /\ Helps(c, c.menu["command"]) /\ d.menu = c.menu  BY <2>1 DEF Entry, Keeps
  <2>3. c.command = "ASSIGNb" => d.menu["command"] \in CustomMenus  BY <2>1, <2>2 DEF Entry
  <2>. QED  BY <2>1, <2>2, <2>3, SameEntry
<1>2. Given(d)
  <2>1. c.pending \in DOMAIN ArgType \/ c.pending = "ASSIGNa" => c.pending # None
    BY TypesOfCommands DEF ArgType, None
  <2>. QED  BY <2>1 DEF Keeps, Sound, Given
<1>. QED  BY <1>1, <1>2 DEF Sound, Keeps

LEMMA KeepsChain == ASSUME NEW c, NEW d, NEW e, Keeps(c, d), Keeps(d, e) PROVE Keeps(c, e)
<1>1. c.command_entry => \A f \in ArgFields : e[f] = c[f]  BY DEF Keeps
<1>2. c.command_entry \/ c.pending # None => e.arg = c.arg  BY DEF Keeps
<1>. QED  BY <1>1, <1>2 DEF Keeps

LEMMA RememberedSound == ASSUME NEW c, Record(c), Sound(c) PROVE Sound(Remembered(c))
<1>. DEFINE e == IF c.command_entry \/ c.pending = "ASSIGNa" THEN c
                 ELSE [c EXCEPT !.command = None, !.argtype = None, !.ind = FALSE, !.alpha = FALSE,
                                !.length = 0, !.maxdigits = 2]
            n == IF c.number THEN e ELSE [e EXCEPT !.digits = 0, !.minus = FALSE]
            p == IF c.prgm_mode /\ (c.command_entry \/ c.alpha_entry) THEN n ELSE [n EXCEPT !.saved_pc = 0]
            t == IF c.prgm_mode /\ c.alpha_entry THEN p ELSE [p EXCEPT !.text = 0]
            g == IF c.menu["app"] \in {"VARMENU", "INTEG_PARAMS"} THEN t ELSE [t EXCEPT !.role = 0]
            r == [g EXCEPT !.arg = IF g.command_entry \/ g.pending # None THEN @ ELSE None,
                           !.section = [l \in Levels |-> IF g.menu[l] = "CATALOG" THEN @[l] ELSE "TOP"],
                           !.sticky = @ /\ g.menu["plain"] # None,
                           !.prevmenu = IF g.editing THEN @ ELSE None]
<1>1. Remembered(c) = r  BY DEF Remembered
<1>2. Keeps(c, e)  BY DEF Keeps, Record, Fields, ArgFields
<1>. HIDE DEF e
<1>3. Keeps(e, n)
  <2>1. Record(e)  BY <1>2 DEF Keeps
  <2>. QED  BY <2>1 DEF Keeps, Record, Fields, ArgFields
<1>. HIDE DEF n
<1>4. Keeps(n, p)
  <2>1. Record(n)  BY <1>3 DEF Keeps
  <2>. QED  BY <2>1 DEF Keeps, Record, Fields, ArgFields
<1>. HIDE DEF p
<1>5. Keeps(p, t)
  <2>1. Record(p)  BY <1>4 DEF Keeps
  <2>. QED  BY <2>1 DEF Keeps, Record, Fields, ArgFields
<1>. HIDE DEF t
<1>6. Keeps(t, g)
  <2>1. Record(t)  BY <1>5 DEF Keeps
  <2>. QED  BY <2>1 DEF Keeps, Record, Fields, ArgFields
<1>. HIDE DEF g
<1>7. Keeps(g, r)
  <2>1. Record(g)  BY <1>6 DEF Keeps
  <2>. QED  BY <2>1 DEF Keeps, Record, Fields, ArgFields
<1>. HIDE DEF r
<1>8. Keeps(c, t)  BY <1>2, <1>3, <1>4, <1>5, KeepsChain
<1>9. Keeps(c, r)  BY <1>6, <1>7, <1>8, KeepsChain
<1>. QED  BY <1>1, <1>9, KeepsSound

LEMMA BecomesSound == ASSUME NEW s, Record(s), Sound(s), NEW n, Becomes(s, n) PROVE Sound(k')
BY RememberedSound DEF Becomes

ArgInv == Fresh(k) /\ End(k) /\ Sound(k)

LEMMA NextSound == ASSUME ArgInv, [Next]_vars PROVE Sound(k')
<1>1. /\ End(now) /\ Sound(now) /\ now.role \in {0, 1, 2}
      /\ now.running = k.running /\ now.getkey = k.getkey /\ now.pending = k.pending
  <2>1. Shape(k) /\ k.role \in {0, 1, 2}  BY DEF ArgInv, End, Fresh, Apt
  <2>2. Alike(k, now) /\ now.menu = k.menu  BY <2>1, FieldsAlike DEF now
  <2>3. End(now) /\ Sound(now)  BY <2>2, CalmEnd, SoundAlike DEF ArgInv, Alike
  <2>4. now.role = k.role  BY <2>1 DEF now, Shape, Record, Fields
  <2>5. now.running = k.running /\ now.getkey = k.getkey /\ now.pending = k.pending
    BY <2>2 DEF Alike, Calm
  <2>. QED  BY <2>1, <2>3, <2>4, <2>5
<1>2. Fresh(now) /\ Apt(now)
  <2>1. SameApp(k, now)  BY DEF now, ArgInv, Fresh, Apt, SameApp, Record, Fields
  <2>. QED  BY <2>1, SameAppFresh DEF ArgInv, Fresh
<1>3. CASE Keydown
  <2>1. PICK p \in Presses : \E s \in keydown(now, p[1], p[2]) : \E n : Becomes(s, n)
    BY <1>3 DEF Keydown
  <2>2. PICK s \in keydown(now, p[1], p[2]) : \E n : Becomes(s, n)  BY <2>1
  <2>3. now.running => now.getkey  BY <1>1, <1>3 DEF Keydown
  <2>4. Sound(s) /\ End(s)  BY <1>1, <2>3, KeydownSound, KeydownEnd
  <2>. QED  BY <2>2, <2>4, BecomesSound DEF End, Shape
<1>4. CASE Stop
  <2>1. \A p \in Passive : /\ Sound(redisplay(Pend([now EXCEPT !.running = FALSE], p, None)))
                           /\ End(redisplay(Pend([now EXCEPT !.running = FALSE], p, None)))
    BY <1>1, <1>4, RunsSound, StopEnd DEF Stop
  <2>. QED  BY <1>4, <2>1, BecomesSound DEF Stop, Passive, End, Shape
<1>5. CASE Keyup
  <2>1. PICK s \in core_keyup(now) : Becomes(s, exits)  BY <1>5 DEF Keyup
  <2>2. now.pending # None  BY <1>1, <1>5 DEF Keyup
  <2>3. Sound(s) /\ End(s)  BY <1>1, <2>1, <2>2, KeyupSound, KeyupEnd
  <2>. QED  BY <2>1, <2>3, BecomesSound DEF End, Shape
<1>6. CASE HeldTooLong
  <2>1. Sound(core_keytimeout2(now)) /\ End(core_keytimeout2(now))
    BY <1>1, <1>6, TimersSound, TimersEnd DEF HeldTooLong
  <2>. QED  BY <1>6, <2>1, BecomesSound DEF HeldTooLong, End, Shape
<1>7. CASE Lingered
  <2>1. now.pending # None  BY <1>1, <1>7 DEF Lingered, Lingers, None
  <2>2. Sound(core_timeout3(now)) /\ End(core_timeout3(now))
    BY <1>1, <1>7, <2>1, TimersSound, TimersEnd DEF Lingered
  <2>. QED  BY <1>7, <2>2, BecomesSound DEF Lingered, End, Shape
<1>8. CASE RunLine
  <2>1. PICK s \in {redisplay([now EXCEPT !.running = FALSE])} \cup Line(now) : Becomes(s, 0)
    BY <1>8 DEF RunLine
  <2>2. Sound(s) /\ End(s)  BY <1>1, <1>8, <2>1, RunsSound, RunLineEnd DEF RunLine
  <2>. QED  BY <2>1, <2>2, BecomesSound DEF End, Shape
<1>9. CASE Powercycle
  <2>1. PICK b \in BOOLEAN : Becomes(core_powercycle(now, b), 0)  BY <1>9 DEF Powercycle
  <2>2. Sound(core_powercycle(now, b)) /\ End(core_powercycle(now, b))
    BY <1>1, PowercycleSound, PowercycleEnd
  <2>. QED  BY <2>1, <2>2, BecomesSound DEF End, Shape
<1>10. CASE Undefined \/ UNCHANGED vars
  BY <1>10 DEF Undefined, vars, ArgInv
<1>. QED  BY <1>3, <1>4, <1>5, <1>6, <1>7, <1>8, <1>9, <1>10 DEF Next

THEOREM ArgInvAlways == Spec => []ArgInv
<1>1. Init => ArgInv
  <2>. SUFFICES ASSUME Init PROVE ArgInv  OBVIOUS
  <2>1. Fresh(k) /\ End(k)  BY InitFresh, InitEnd
  <2>2. ~k.command_entry /\ k.pending = None  BY DEF Init
  <2>3. Sound(k)  BY <2>2, FreeSound DEF Passive
  <2>. QED  BY <2>1, <2>3 DEF ArgInv
<1>2. ArgInv /\ [Next]_vars => ArgInv'
  <2>1. ArgInv /\ [Next]_vars => Fresh(k')  BY NextFresh DEF ArgInv
  <2>2. ArgInv /\ [Next]_vars => End(k')  BY NextEnd DEF ArgInv
  <2>3. ArgInv /\ [Next]_vars => Sound(k')  BY NextSound
  <2>. QED  BY <2>1, <2>2, <2>3 DEF ArgInv
<1>. QED  BY <1>1, <1>2, PTL DEF Spec

\* Whatever commands, keys, catalogs and programs there are: the command that is executed
\* when the key comes up has an argument of a type its handler (docmd_xxx()) knows.  IND, ST,
\* the keys of the custom menu, a label or a variable picked from the catalog, a letter
\* where a digit was expected: none of them leaves the entry (keydown_command_entry()) with
\* an argument that the command cannot take.
THEOREM ArgAlwaysFits == Spec => []ArgFits
<1>1. ArgInv => ArgFits  BY DEF ArgInv, Sound, Given, ArgFits
<1>. QED  BY <1>1, ArgInvAlways, PTL
================================================================================
