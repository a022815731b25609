----------------------------- MODULE SavedState -----------------------------
(***************************************************************************)
(* The state file: what the calculator writes when it is quit, by this or   *)
(* by an older version, what it reads when it is started again, by the      *)
(* binary or by the decimal build, and what is left when writing or reading *)
(* stops half way (src/common/core_globals.cc, core_display.cc,             *)
(* core_math1.cc and core_main.cc; the file is that of src/gtk).            *)
(*                                                                          *)
(* The file is a sequence of items [of, is].  Fields that are written,      *)
(* read and reset in the same way are one field: "modes" are the modes, the *)
(* pending command, flags and settings, "menus" what core_display.cc keeps. *)
(* A number is its value and the format it is stored in; addresses are      *)
(* offsets in bytes, since literals have another size in each build.        *)
(***************************************************************************)
EXTENDS Integers, Sequences, FiniteSets, SequencesExt

CONSTANTS
    StackSize,   \* the registers of the stack, LASTX included (5 in the code)
    Memories,    \* what the calculator may hold when it is quit
    MaxSessions  \* bound: how often it is started

VARIABLES
    build,       \* the program that runs, or "none"
    memory,
    file,        \* the items of the state file
    loaded,      \* what core_init() did: "file", "reset", or "no" before it
    saved,       \* history: [memory, build] of the last time it was quit
    sessions

vars == <<build, memory, file, loaded, saved, sessions>>

Builds == {"binary", "decimal"}
FormatOf == [binary |-> "BINARY", decimal |-> "BID128", older |-> "BCD20"]

-----------------------------------------------------------------------------
(***************************************************************************)
(* Values: a real, a string and a complex number have no array; a string    *)
(* is a cell whose format is "STRING".  The two parts of a complex number   *)
(* are two cells.                                                           *)
(***************************************************************************)
NoArray == 0
NULL == [type |-> "NULL", array |-> NoArray, cells |-> <<>>]
Real(n, format) == [type |-> "REAL", array |-> NoArray,
                    cells |-> <<[n |-> n, format |-> format]>>]

IsMatrix(v) == v.array # NoArray
Held(m) == Append(m.values, m.matedit_x)
refcount(m, array) == Cardinality({i \in DOMAIN Held(m) : Held(m)[i].array = array})

\* Mutant: every alias refers to the first array of the list.
array_list_search_First(list, array) ==
    IF \E i \in DOMAIN list : list[i] = array THEN 1 ELSE 0

\* The index of an array, 0 when it is not listed.
array_list_search(list, array) ==
    IF \E i \in DOMAIN list : list[i] = array
    THEN CHOOSE i \in DOMAIN list : list[i] = array ELSE 0

\* The first matrix that shares an array brings its contents (a negative row
\* count in the file), the others its place in the list (a row count of zero).
persist_vartype(m, w, v, of) ==
    LET shared == IsMatrix(v) /\ refcount(m, v.array) > 1
        n == array_list_search(w.list, v.array)
        alias == shared /\ n # 0
    IN  [list |-> IF shared /\ n = 0 THEN Append(w.list, v.array) ELSE w.list,
         items |-> Append(w.items, [of |-> of,
             is |-> [type |-> v.type, shared |-> shared /\ ~alias,
                     alias |-> IF alias THEN n ELSE 0,
                     cells |-> IF alias THEN <<>> ELSE v.cells]])]

\* Reading a decimal file of an older version converts, of a complex matrix,
\* as many cells as it has elements: half of them.
Unconverted(type, cells, i, from, to) ==
    /\ type = "COMPLEXMATRIX"
    /\ from = "BCD20" /\ to = "BID128"
    /\ i > Len(cells) \div 2

CellsRead(type, cells, from, to) ==
    [i \in DOMAIN cells |->
        IF from = to \/ cells[i].format = "STRING" \/ Unconverted(type, cells, i, from, to)
        THEN cells[i] ELSE [cells[i] EXCEPT !.format = to]]

\* r is what has been read: [m, list, from, to, arrays, whole].
unpersist_vartype(r, is) ==
    IF is.alias # 0 THEN r.list[is.alias]
    ELSE [type |-> is.type,
          array |-> IF is.type \in {"REALMATRIX", "COMPLEXMATRIX"}
                    THEN r.arrays + 1 ELSE NoArray,
          cells |-> CellsRead(is.type, is.cells, r.from, r.to)]

\* The reader after it has read v; only an array is new.
Taken(r, is, v) ==
    [r EXCEPT !.arrays = IF v.array > @ THEN v.array ELSE @,
              !.list = IF is.shared THEN Append(@, v) ELSE @]

-----------------------------------------------------------------------------
(***************************************************************************)
(* Programs: sequences of commands [op, format], the last an END.           *)
(***************************************************************************)
End == [op |-> "END", format |-> "NONE"]
IsLiteral(c) == c.op = "NUMBER"
Size(c) == 2 + (IF ~IsLiteral(c) THEN 0 ELSE IF c.format = "BINARY" THEN 8 ELSE 16)

\* Where each command of a program begins.
Starts(text) == [i \in DOMAIN text |->
    FoldLeft(LAMBDA at, c : at + Size(c), 0, SubSeq(text, 1, i - 1))]

Converted(text, to) == [i \in DOMAIN text |->
    IF IsLiteral(text[i]) THEN [text[i] EXCEPT !.format = to] ELSE text[i]]

\* The beginnings of all commands, in order, before and after the conversion.
Moves(programs, to) == FlattenSeq([p \in DOMAIN programs |->
    [i \in DOMAIN programs[p] |-> [prgm |-> p, old |-> Starts(programs[p])[i],
                                   new |-> Starts(Converted(programs[p], to))[i]]]])

Solver == -2
Integrator == -3
Marked(rtns) == \E i \in DOMAIN rtns : rtns[i].prgm \in {Solver, Integrator}

\* The addresses that are stored; a marker of SOLVE or INTEG clears the stack.
Stored(m) ==
    (IF Marked(m.rtns) THEN {}
     ELSE {[of |-> i, prgm |-> m.rtns[i].prgm, pc |-> m.rtns[i].pc] : i \in DOMAIN m.rtns})
      \union {e \in {[of |-> -1, prgm |-> m.current_prgm, pc |-> m.pc],
                     [of |-> -2, prgm |-> m.current_prgm, pc |-> m.incomplete_saved_pc]} :
                  e.pc > 0}

\* Mutant: in the order of the addresses alone.
Sorted_ByAddress(stored) == SetToSortSeq(stored, LAMBDA a, b :
    a.pc < b.pc \/ (a.pc = b.pc /\ a.of < b.of))

\* The first to be met first.
Sorted(stored) == SetToSortSeq(stored, LAMBDA a, b :
    \/ a.prgm < b.prgm
    \/ a.prgm = b.prgm /\ a.pc < b.pc
    \/ a.prgm = b.prgm /\ a.pc = b.pc /\ a.of < b.of)

\* Mutant: the addresses of a command are updated as those of the next one.
Reach_After(s, at) ==
    LET met(n) == \A k \in 1 .. n : s.left[k].prgm = at.prgm /\ at.old > s.left[k].pc
        n == CHOOSE n \in 0 .. Len(s.left) : met(n) /\ (n < Len(s.left) => ~met(n + 1))
    IN  [left |-> SubSeq(s.left, n + 1, Len(s.left)),
         moved |-> s.moved \union {[of |-> s.left[k].of, pc |-> at.new] : k \in 1 .. n}]

\* At the beginning of each command the addresses up to it are updated; an
\* address that is not met keeps those after it from being met.
Reach(s, at) ==
    LET met(n) == \A k \in 1 .. n : s.left[k].prgm = at.prgm /\ at.old >= s.left[k].pc
        n == CHOOSE n \in 0 .. Len(s.left) : met(n) /\ (n < Len(s.left) => ~met(n + 1))
    IN  [left |-> SubSeq(s.left, n + 1, Len(s.left)),
         moved |-> s.moved \union {[of |-> s.left[k].of, pc |-> at.new] : k \in 1 .. n}]

convert_programs(m, to) ==
    LET moved == FoldLeft(Reach, [left |-> Sorted(Stored(m)), moved |-> {}], Moves(m.prgms, to)).moved
        Now(of, old) == IF \E e \in moved : e.of = of
                        THEN (CHOOSE e \in moved : e.of = of).pc ELSE old
    IN  [m EXCEPT !.prgms = [p \in DOMAIN @ |-> Converted(@[p], to)],
                  !.pc = Now(-1, @),
                  !.incomplete_saved_pc = Now(-2, @),
                  !.rtns = IF Marked(@) THEN <<>>
                           ELSE [i \in DOMAIN @ |-> [@[i] EXCEPT !.pc = Now(i, @)]]]

update_decimal_in_programs(m) ==
    [m EXCEPT !.prgms = [p \in DOMAIN @ |-> Converted(@[p], "BID128")]]

-----------------------------------------------------------------------------
(***************************************************************************)
(* Writing.                                                                 *)
(***************************************************************************)
Items(m, fields) == [i \in DOMAIN fields |-> [of |-> fields[i], is |-> m[fields[i]]]]

\* The list of arrays is empty again for the stack and the variables: a matrix
\* being edited that shares its array with one of them is written twice.
\* What the list held before, for matedit_x, is taken not to be found in it.
matedit_items(m) == persist_vartype(m, [items |-> <<>>, list |-> <<>>], m.matedit_x, "matedit_x").items

persist_globals(m) ==
    FoldLeft(LAMBDA w, v : persist_vartype(m, w, v, "value"), [items |-> <<>>, list |-> <<>>],
             m.values).items
      \o Items(m, <<"prgms", "current_prgm", "pc">>)
      \o <<[of |-> "rtn_sp", is |-> Len(m.rtns)], [of |-> "rtns", is |-> m.rtns]>>

persist_display(m) == Items(m, <<"menus">>)

persist_math(m) == Items(m, <<"math">>)

Written(m, format) ==
    <<[of |-> "number_format", is |-> format]>>
      \o Items(m, <<"modes", "entry", "incomplete_saved_pc">>)
      \o matedit_items(m)
      \o Items(m, <<"keybuf">>) \o persist_display(m)
      \o persist_globals(m)
      \o persist_math(m)
      \o <<[of |-> "magic", is |-> "FREE42_VERSION"]>>

\* quit() has cut the old file when it opened it.  The new one ends early when
\* array_list_grow() fails, the last flush fails or the process is killed, and
\* is removed (no items) when a write fails.
Quit ==
    /\ build # "none" /\ loaded # "no"
    /\ \E n \in 0 .. Len(Written(memory, FormatOf[build])) :
           file' = SubSeq(Written(memory, FormatOf[build]), 1, n)
    /\ saved' = [memory |-> memory, build |-> build]
    /\ build' = "none"
    /\ UNCHANGED <<memory, loaded, sessions>>

-----------------------------------------------------------------------------
(***************************************************************************)
(* Reading.                                                                 *)
(***************************************************************************)
\* The globals of a process that has just begun.
Fresh == [modes |-> "NONE", entry |-> FALSE, incomplete_saved_pc |-> 0, matedit_x |-> NULL,
          keybuf |-> <<>>, menus |-> "NONE", values |-> <<>>, prgms |-> <<>>,
          current_prgm |-> 1, pc |-> 0, rtns |-> <<>>, math |-> {}]

\* Mutant: the state of SOLVE and INTEG is always discarded.
unpersist_math_Always(r, is) == {}

\* The state of SOLVE and INTEG is discarded when the file has numbers of
\* another format.
unpersist_math(r, is) == IF r.from # r.to THEN {} ELSE is

\* After the last item of unpersist_globals().
Adapted(m, from, to) ==
    CASE from = to -> m
      [] from # to /\ "BINARY" \in {from, to} -> convert_programs(m, to)
      [] OTHER -> update_decimal_in_programs(m)

unpersist_display(r, is) == [r EXCEPT !.m.menus = is]

ReadItem(r, item) ==
    CASE item.of = "number_format" -> [r EXCEPT !.from = item.is]
      [] item.of \in {"value", "matedit_x"} ->
            LET v == unpersist_vartype(r, item.is)
                taken == Taken(r, item.is, v)
            IN  IF item.of = "value" THEN [taken EXCEPT !.m.values = Append(@, v)]
                ELSE [taken EXCEPT !.m.matedit_x = v, !.list = <<>>]
      [] item.of = "rtn_sp" ->
            [r EXCEPT !.m.rtns = [i \in 1 .. item.is |-> [prgm |-> 1, pc |-> 0]]]
      [] item.of = "rtns" -> [r EXCEPT !.m = Adapted([@ EXCEPT !.rtns = item.is], r.from, r.to)]
      [] item.of = "menus" -> unpersist_display(r, item.is)
      [] item.of = "math" -> [r EXCEPT !.m.math = unpersist_math(r, item.is)]
      [] item.of = "magic" -> [r EXCEPT !.whole = TRUE]
      [] OTHER -> [r EXCEPT !.m[item.of] = item.is]

load_state(items, to) ==
    FoldLeft(ReadItem, [m |-> Fresh, list |-> <<>>, from |-> to, to |-> to, arrays |-> 0,
                        whole |-> FALSE], items)

REGS(m, to) == [type |-> "REALMATRIX", array |-> m.matedit_x.array + 1,
                cells |-> <<[n |-> 0, format |-> to]>>]

\* goto_dot_dot() stores an END in a new program, which empties the return stack,
\* and leaves the cursor before it.  The buffered keys, the matrix that was edited
\* and the saved cursor are not reset.
hard_reset(m, to) ==
    [Fresh EXCEPT !.values = [i \in 1 .. StackSize |-> Real(0, to)]
                               \o <<REGS(m, to)>>,
                  !.prgms = <<<<End>>>>, !.pc = -1,
                  !.keybuf = m.keybuf, !.matedit_x = m.matedit_x,
                  !.incomplete_saved_pc = m.incomplete_saved_pc]

\* The shell starts one of the builds.
Start ==
    /\ build = "none"
    /\ sessions < MaxSessions
    /\ build' \in Builds
    /\ loaded' = "no"
    /\ sessions' = sessions + 1
    /\ UNCHANGED <<memory, file, saved>>

\* core_init(): reading stops where the file ends.  An allocation that fails
\* while an item is read stops it like a file that ends before that item.
core_init ==
    /\ build # "none" /\ loaded = "no"
    /\ LET r == load_state(file, FormatOf[build])
       IN  IF r.whole
           THEN memory' = r.m /\ loaded' = "file"
           ELSE memory' = hard_reset(r.m, FormatOf[build]) /\ loaded' = "reset"
    /\ UNCHANGED <<build, file, saved, sessions>>

Init ==
    /\ build \in {"binary", "decimal", "older"}
    /\ memory \in Memories[FormatOf[build]]
    /\ file = <<>>
    /\ loaded = "file"
    /\ saved = [memory |-> memory, build |-> build]
    /\ sessions = 0

Next == Quit \/ Start \/ core_init

Spec == Init /\ [][Next]_vars
=============================================================================
