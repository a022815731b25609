# Free42 in TLA+

Free42 is a re-implementation of the HP-42S calculator. Its core (`src/common`) is one single-threaded
library; a shell per platform (`src/gtk`, `src/windows`, ...) owns the event loop and calls the core
through `core_main.h`. This directory holds TLA+ models of the parts of the core where something can go
wrong in an order that is hard to test, TLC runs that check them on small instances, and proofs, checked by
TLAPS, of the most important theorems for all values of the constants.

* [The system](#the-system)
* [Modules](#modules)
* [Runs](#runs)
* [Fairness and deadlock](#fairness-and-deadlock)
* [Proofs](#proofs)
* [Disagreements between the code and what it says](#disagreements-between-the-code-and-what-it-says)
* [What is not modelled](#what-is-not-modelled)
* [Plan](#plan)

## The system

| component | state | operations | correct when |
|---|---|---|---|
| Program store (`core_globals.cc`) | `prgms[]` (text, size, `lclbl_invalid`), `labels[]`, `current_prgm`, `pc`, `rtn_prgm[]`/`rtn_pc[]` | `store_command`, `delete_command`, `clear_prgm*`, `goto_dot_dot`, label search, `push_rtn_addr`, import | every program has one END, last; the label table is what a scan would give; remembered jump targets are right; the cursor and the return addresses are lines; the whole is one list of lines |
| Execution (`core_main.cc`, `core_commands*.cc`) | `mode_running`, `pc`, the return stack | `continue_running`, GTO, XEQ, RTN, SST, errors | a jump lands on its label, a return where it was called |
| Run loop and keys (`core_main.cc`, `core_keydown.cc`) | `mode_running`, `mode_getkey`, `mode_pause`, `mode_interruptible`, `pending_command`, `repeating`, `keybuf[16]` | `core_keydown`, `core_keyup`, `core_repeat`, `core_keytimeout1/2`, `core_timeout3`, `core_powercycle` | keys keep their order, EXIT stops, nothing runs twice or is forgotten |
| GTK shell (`gtk/shell_main.cc`) | `ckey`, `timeout_id`, `timeout3_id`, `reminder_id`, `enqueued` | key and mouse handlers, timers, idle callback, `quit` | it calls the core whenever there is work |
| SOLVE and INTEG (`core_math1.cc`) | records `solve` and `integ`, markers -2 and -3 on the return stack | start, return to, unwind, save, load | calls nest; each marker finds its state; at most one of each |
| Variables and matrices (`core_variables.cc`, `core_helpers.cc`) | `vars[]`, X, reference-counted arrays | copy, free, disentangle, resize, store, purge | copies are independent, counts are right |
| Indexed matrix and editor (`core_commands3.cc`, `core_commands4.cc`) | `matedit_mode`, `matedit_name`, `matedit_x`, `matedit_i/j`, the menu's exit callback | INDEX, EDIT, EDITN, arrows, STOEL, INSR, ... | the matrix under edit comes back; the index is on an element |
| Linear algebra in slices (`core_linalg1.cc`, `core_linalg2.cc`) | a heap record per operation, the setting for singular matrices | a worker called per slice, a completion | the result is right wherever a slice ended; each ends once, frees what it owns and gives the setting back |
| Command entry and menus (`core_keydown.cc`, `core_display.cc`) | `incomplete_*`, five levels of menus, exit callbacks, number and ALPHA entry | one key at a time | a key has one meaning, arguments fit their commands, EXIT leads out |
| Commands (`core_commands*.cc`, `core_sto_rcl.cc`) | the stack, LASTX, the variables with REGS | some 300 handlers that make, move and free values | every value is held once; a command that fails changes nothing; what is shared is not written to |
| Saved state (`core_globals.cc`) | the state file | `save_state`, `load_state`, the conversions, `hard_reset` | a restart goes on where it left off, in the other build too |
| Number formats, tables, display | - | - | (computation on data) |
| Print spool, skins, images, sound, other shells, tools | files, bitmaps | - | (input and output) |

`PROJECT.json` lists all of them with their sources, the ones that are not modelled too.

**How they interact.** There are no threads. The shell calls the core for a key press, a release, a timer or
an idle moment; each call runs to its end, and its return value and output arguments tell the shell whether
to call back from its idle loop, to start the auto-repeat or the key timeout. The core calls the shell back
(`shell_request_timeout3`, `shell_powerdown`). A program runs in slices, from the idle callback; so does a long
operation. A command tells the run loop what to do next by its error code (`ERR_RUN`, `ERR_STOP`,
`ERR_INTERRUPTIBLE`, ...). SOLVE and INTEG do not call the interpreter: they put a marker on the return stack, go
to the program's label and return `ERR_RUN`; when RTN pops the marker, their code goes on with X.

**What is hard.** The order of keys, releases and timers around slices of a program (the shell's state and the
core's are updated by different return paths); state that is remembered while it can be changed elsewhere
(jump targets in program text, a pc saved at the start of a command entry, return addresses, the matrix index);
the splitting and joining of programs by typing and deleting END; nesting of calls, SOLVE and INTEG on a stack of
limited depth, with errors that unwind it; sharing of arrays; memory that runs out in the middle of a command; a
power cycle in the middle of anything. The list, with lines and the properties that watch each, is `hazards` in
`PROJECT.json`.

## Modules

    ProgramText ---- ProgramMemory ---- ProgramMemoryProps ---- ProgramMemoryMC     ProgramListing (abstract)
         |                |
    ProgramTextProofs -- ProgramMemoryProofs
    KeyboardCore --- RunLoop --- RunLoopProps --- RunLoopProofs
    SolveInteg ----- SolveIntegProofs                                               CallStack (abstract)
    MatrixStore ---- MatrixEditor --- MatrixProps --- MatrixProofs
    ValueStack - StoreRecall - StackCommands - RegisterCommands - MathCommands - StatisticsCommands
         - SolverCommands - Commands - CommandsProps --- CommandsProofs
    Menus - CommandEntry - CommandKeys - KeyModes - NormalKeys - KeyEntry - KeyEntryProps - KeyEntryProofs
    FieldMatrices (definitions to compare with) - Elimination - LinearAlgebra - LinearAlgebraProps
         - LinearAlgebraProofs
    SavedState - SavedStateProps - SavedStateMC

The models meet where one component uses another's result: KeyEntry leaves out the queue of keys and the slices of a program,
which RunLoop has; RunLoop leaves open what a key means, which KeyEntry has; Commands takes the outcome of an operation in
slices as any, which LinearAlgebra computes; MatrixStore follows the elements of arrays that ValueStack only counts.

Operators have the names of the functions they translate; an operator with a suffix (`delete_command_KeepsRtns`) is a variant with a plausible mistake, which the properties are tested against and nothing else uses. A property whose comment
says that the code violates it is checked by no run, or by a run that expects TLC to find it violated. `PROJECT.json`
(`map`) gives the lines each definition stands for.

**ProgramText** - the text of one program as a sequence of commands `[op, arg, target]`. A pc is a line number (0: before
the first line) instead of a byte offset; `target` is the jump target that `get_next_command` stores in a local GTO or
XEQ, -1 when unknown. Operators: insertion, local label search (forward from the cursor, then from the top), global
label search, the label table, SST and BST, `invalidate_lclbls`, `Remember`.

**ProgramMemory** - all programs, the label table, the cursor, the return stack and the mode (normal, program mode,
running), with an entry in progress. One action per key or command that changes them, and per kind of program line when
running. Editing actions (`TypeCommand`, `FinishEntry`, `CancelEntry`, `DeleteLines`, `Backspace`) include the moves of the
cursor that the code makes around them. What a test decides or whether a command fails is a free choice. The code reads
through a stray `pc` without noticing; the model does not follow it there, but reports it (`CursorValid`).

**ProgramListing** - what the user sees: one list of lines with ENDs in it. `ImplementsListing` says that the array of
programs, split and joined around ENDs, is that list.

**KeyboardCore** - the entry points of `core_main.cc` as operators on a record of the mode variables; each returns the set of
its outcomes, since what a command or a program line does is chosen from `Commands`: it may succeed, fail, stop,
start a program, wait for a key, pause, switch off, or be a long operation of up to `MaxWork` slices. A keystroke carries a
serial number, which the program does not have, to speak of order. An arrow key stands for the keys that auto-repeat.

**RunLoop** - the GTK shell around it: a keystroke of the user is a press and, later, a release (a shifted key typed as a
macro presses SHIFT first), the timers and the idle callback are actions enabled while they are installed, and closing the
window or OFF starts a new process from the saved state, with or without flag 11.

**SolveInteg** - the return stack with its markers, where the program is, and the state of the two records. An action is an
executed XEQ, RTN, SOLVE or INTEG line, an error, a key. What solver and integrator do with a value (evaluate again,
give a result, fail) is a free choice. `PowerCycle` loads a state file of the same format, of another number format, or of
an older version.

**CallStack** - what programs rely on: a stack of frames (a call, a SOLVE, an INTEG), each returning where it was entered. The
refinement mapping (`frames` in SolveInteg) reads a marker's return place from its record.

**MatrixStore** and **MatrixEditor** - variables, X and the matrix under edit hold values; a matrix refers to an array with a
reference count. Each command is an operator that returns the store it leaves and its error, early returns in the order of
the code. `malloc()` finds a free array or fails. The elements are a small set; a matrix in X is the value that cannot be an
element. The rest of the stack is dropped. The index is not checked by the code; a command is modelled only where it stays in
the array, and `IndexForcedInBounds` shows how it gets out of bounds. An array resized in place by `realloc()` is taken to
find memory.

**ValueStack** to **Commands** - who holds which value. A calculator is a record: the value in each register of the stack, in
LASTX and in each variable (a type and, for a matrix, an array), the arrays with their reference counts and whether there are
strings among their elements, and how many values exist that were made and not freed. A command is a function from a
calculator to the set of its outcomes, `[calc, err, v]`; commands are put together as they are in the code, from
`dup_vartype`, `disentangle`, `unary_result`, `binary_result`, `recall_result`, `generic_sto`, `map_unary` and so on. Numbers are
not more than their type: whether a computation overflows, an index is in range, dimensions agree or memory is found is a
choice. A command that works in slices leaves itself in `pending`; another step ends it, and a paste can come between.
The modules follow the files: StoreRecall `core_sto_rcl.cc`, StackCommands `core_commands1.cc`, RegisterCommands
`core_commands2.cc`, MathCommands `core_commands3.cc`, `4` and `6`, StatisticsCommands `core_commands5.cc` and `7`. SolverCommands
has the values of SOLVE, VMSOLVE and INTEG: the variable that gets a number before each call of the user's program
(`call_fn`), in place if it holds one, and the results (`finish_solve`, `finish_integ`). In Commands a solver that waits is no more than
the name of its variable (`solving`, `integrating`): `docmd_rtn` brings its next call or its end, `Trapped` an error in the user's program that
SOLVE takes, `ReturnsForgotten` the ways by which its marker gets lost; the order of markers is in SolveInteg.
Where the code frees a value that a variable still holds, or takes a variable for a number that is none, the model stops (`undefined`).
`misplaced` says that a solver has put a number into REGS.

**Menus** to **KeyEntry** - the calculator as the keyboard sees it, as a record of its modes. Menus has the levels, the exit
callbacks of applications, the catalog, VARMENU; CommandEntry and CommandKeys the entry of a command with its argument;
KeyModes the entry of numbers and letters; NormalKeys the other keys and the dispatch; KeyEntry the actions: a key goes down, it comes
up, it is held too long, a line of a program runs, the power goes and comes back. A number is a count of digits and a sign, a
text a count of characters. Where the code reads or writes out of an array's bounds the model stops (`fault`).

**FieldMatrices, Elimination, LinearAlgebra** - the workers of `core_linalg1.cc` and `core_linalg2.cc`, loop by loop: a step is
one iteration of an inner loop, and a slice may end at every `STATE(n)`. Numbers are elements of a field of `Prime` elements:
sums, products and quotients are exact, and the result can be compared with the definition (`Product`, `Determinant` by
permutations). Which of two nonzero pivots is larger, and whether a quotient overflows, is a choice. Around them are the
allocations, the completions of the commands, EXIT between slices, and the preferences dialog, which reads and writes the
setting that DET borrows.

**SavedState** - the state file as a sequence of items in the order in which they are written, each read and written by what the code
does with it: shared matrices as aliases by position, programs with literals of another size in each build, addresses that
move with them (`convert_programs`), the state of SOLVE and INTEG that is discarded, an older decimal version, a file cut
anywhere, `hard_reset` (which ends in `goto_dot_dot`: one empty program, the cursor before its first line, no return address). Fields that are written, read and reset alike are one field.

## Runs

TLC checks every run exhaustively within its bounds. Numbers of states are distinct states.

| run | checks | instance |
|---|---|---|
| `edit` | `ProgramsWellFormed`, `LabelTableExact`, `ReturnAddressesValid`, `EditsForgetReturns`, `ClpKeepsOtherCursor`, `ImplementsListing` | up to 3 programs and 5 lines, ENDs included; one global label; END, a plain line, LBL, XEQ, CLP can be typed; return stack of 2 (689,000 states) |
| `jumps` | `CacheAgrees`, `CursorValid` | one program of up to 4 lines; one local label, GTO and XEQ to it, tests, RTN; no END typed (191,000) |
| `keyboard` | `KeysInOrder`, `WorkIsScheduled`, `NoPowerOffLoop`, `ExitStops`, `PauseEnds`, `QueueDrains` | all kinds of key and of command; 3 keystrokes, a ring of 3 slots (2 keys), long operations of 2 slices (111,000) |
| `solve` | `OneOfEachKind`, `MarkersHaveState`, `ImplementsCallStack` | 2 lines, return stack of 3 (7,000) |
| `matrix` | `ReferencesAreCounted`, `EditedIndexInBounds`, `CopiesAreIndependent`, `MatrixComesBack` | 2 variables, elements 0 and 1, dimensions 1x1 and 1x2 and growth to 2x1, memory for 3 arrays (713,000) |
| `commands` | `ValuesHeldOnce`, `RegsIsAMatrix`, `SharedArraysUntouched`, `FailedCommandChangesNothing` | the commands that make, move and free values, SOLVE, VMSOLVE and INTEG among them; REGS and one more variable, memory for 2 arrays, 2 places that hold something other than at the start (189,000) |
| `keys` | `CallbackFits`, `HexKeysMeanHex`, `ModesMatchMenus`, `ArgFits`, `ExitLeadsHome` | 16 keys, 13 commands, 9 menus; texts of 1 character, numbers of 2 digits, a program of 1 line and what is added; EXIT counted to 9 (255,000) |
| `linalg` | `QuotientSolves`, `ProductIsRight`, `RealDetIsDeterminant`, `AnsweredOnce`, `BlocksFreed`, `SettingIsKept` | the field of 3 elements; all 2x2 matrices, four of 3x3, a 1x2 one; division, multiplication, inversion and DET; the dialog opened once (4,925,000) |
| `saved` | `ValuesComeBack`, `CursorComesBack`, `ReturnsComeBackInProgram`, `MarkersKeepTheirState` | three values and one under edit, of all types and sharings; two programs, return stack of 2; 3 builds that write, 2 that read; 2 sessions (571,000) |
| `shared_bug`, `determinant_bug`, `conversion_bug` | one property each, which the code violates | see [below](#disagreements-between-the-code-and-what-it-says) |

**Why the bounds are enough.** `edit`: a split needs two programs, CLP of a program before or after the current one needs three;
five lines give programs with a label, a call and an END, and an END in the middle. A return stack of 2 overflows. `jumps`: the search has a
part after the cursor and a part before it; with four lines a label can be on either side of two jumps. `keyboard`: three
keystrokes fill the ring, with one more being pressed; two slices distinguish an operation that goes on from one that starts
again. `solve`: a stack of three holds both markers and a call, in every order, and overflows with either at its bottom.
`matrix`: the four places a matrix can be (two variables, X, under edit) share arrays in all ways; with three arrays memory
runs out while all of them are in use; rows and columns both take part in the index.
`commands`: a command has at most two operands and a destination; with two arrays a matrix and its copy, or two
matrices of their own, or none for a result. Two odd places suffice for a matrix beside a copy of it, a result
beside its operand, or REGS deleted while a matrix is on the stack; the variable of a solver that waits counts as one of the two, whatever it
holds. One lost value is followed, and none while a solver waits. `keys`: a menu and key
of each kind that the code tells apart; nine EXITs are more than the modes and levels of menus that can be on at once. The presses leave out keys that are
handled as another one. `linalg`: a 2x2 matrix is the smallest where rows are exchanged, a 3x3 one where they are exchanged twice, where a
column is divided in more than one step and where a sum has more than one term. `saved`: an alias needs two places of
three; addresses are met in order in two programs, of which one is the current one, before or after the other.

`MaxPrgms`, `MaxLines`, `MaxKeys`, `MaxWork`, `MaxSize`, `MaxLeaked`, `MaxOdd`, `MaxText`, `MaxDigits`, `MaxExits`, `Dialogs` and `MaxSessions` are bounds of the model, not of the code; they are
guards of the actions that would exceed them. `MaxLeaked` is about the references that are lost when the defect of
`StoreResetsItsOwnIndex` happens twice; with 0 a run stops at the second time. The symmetry of `matrix` is between arrays and
between variables, which the model never tells apart; the array that `malloc()` finds is fixed among the free ones, since
they are interchangeable.

`CacheAgrees` and `CursorValid` are checked where they hold: with one program, without END typed, and
without an import during a command entry. Where END is typed and deleted they fail, as the section on disagreements shows;
`RememberedTargetsAgree` proves that for `CacheAgrees` the two steps of `StrandsTargets` are the only ones to blame.

`ReferencesAreCounted` says "at least", not "exactly": a leaked reference is harmless to the copies.

What the properties of the later runs leave out, and why: `ValuesHeldOnce` counts the value that a command is known to lose
(RCL/ by a singular matrix, FCSTX where memory runs out) and is exact without one; it says nothing after a solver
has freed what its variable holds (`undefined`). `RegsIsAMatrix` excepts the number that a solver puts into REGS (`misplaced`), which `RegsIsAlwaysAMatrix` is about,
until something is stored there again. `SharedArraysUntouched` leaves out two that write to an array another matrix has:
the statistics, which `shared_bug` is about, and texts stored in registers, which `TextsLeaveCopiesAlone` is about; `BlocksFreed` names the two ways out that do not free; `SettingIsKept` does not speak
of a dialog that is opened or saved during DET; `ExitLeadsHome` excepts a program that was started, and the editor with
an X that cannot be stored; `ReturnsComeBackInProgram` is `ReturnsComeBack` without the case of `conversion_bug`, and
`MarkersKeepTheirState` without files of an older version. `QuotientSolves`, `ProductIsRight` and `RealDetIsDeterminant` speak of
operations in which nothing overflowed and no pivot was replaced, `QuotientSolves` of real matrices (a complex
division is the same substitution after the decomposition that `determinant_bug` is about).

In SavedState the matrix under edit, which is written before the list of arrays is begun anew, is taken not to be found in the list left
from an earlier save: the code compares it with addresses that may belong to other arrays by then.

Every property of the passing runs is also checked to fail for a variant of the code with a plausible mistake
(`mutants` in `PROJECT.json`).

## Fairness and deadlock

Only `keyboard` needs fairness. `FairSpec` of RunLoop asks that the idle callback, the repeat timer and the
timeouts happen while they are installed (the GTK main loop dispatches every source that is ready), that a key which
is down is released (a key is not held for ever), and that the shell restarts after OFF (to speak of what happens
then). Nothing is asked of the user's keystrokes. A long operation has a bounded number of slices. A program need
not end: `QueueDrains` lets a running program keep the queue waiting, as the code does.

`keyboard` disables the deadlock check: after `MaxKeys` keystrokes, with nothing running, the system rightly waits
for a user who has stopped typing. So do `saved` and `conversion_bug`, which end after `MaxSessions` starts. All other passing runs check
for deadlock.

## Proofs

TLAPS checks, for all programs, labels, depths of the return stack and lines, sizes of the ring, numbers of keystrokes,
lengths of long operations, variables, shapes of matrices and amounts of memory, sets of keys, menus and commands:

| theorem | module | says |
|---|---|---|
| `ProgramsStayWellFormed` | ProgramMemoryProofs | each program has one END, last, after any sequence of operations |
| `ReturnsStayValid` | ProgramMemoryProofs | each return address is a line of an existing program |
| `ListingChangesForget` | ProgramMemoryProofs | a step that changes a listing empties the return stack |
| `ClpKeepsCursor` | ProgramMemoryProofs | clearing another program leaves the cursor on its line |
| `RememberedTargetsAgree` | ProgramMemoryProofs | a jump remembers no target that a search would not find now, unless an END was typed or deleted where that strands remembered targets |
| `OneOfEachAlways` | SolveIntegProofs | at most one SOLVE and one INTEG marker |
| `MarkersAlwaysHaveState` | SolveIntegProofs | a marker finds its state, provided no state file of an older structure version is loaded |
| `CallsNest` | SolveIntegProofs | the stack with markers implements CallStack |
| `Invariance` | RunLoopProofs | the strengthened invariant of the event loop and the core, see below |
| `KeystrokesKeepTheirOrder` | RunLoopProofs | keystrokes keep their order, the ring is not overrun, a key shown as NULL is not performed |
| `PowerStaysOn` | RunLoopProofs | a program started at power-up cannot switch off before a key was pressed |
| `ExitAlwaysStops` | RunLoopProofs | EXIT stops a program or a long operation |
| `NothingIsForgotten` | RunLoopProofs | a program to run or a keystroke to take has the idle callback installed, a pause has its timer |
| `EditedIndexStaysInBounds` | MatrixProofs | the matrix under edit can be put back, and the index is on one of its elements |
| `ReferencesAlwaysCounted` | MatrixProofs | an array has no fewer references than there are variables and places that hold it |
| `CopiesStayIndependent` | MatrixProofs | no command but CLALL changes two variables, or a variable and the matrix under edit; one that changes a variable leaves a matrix in X alone |
| `MatrixAlwaysComesBack` | MatrixProofs | the matrix that EDIT took out of X comes back, unchanged but for the element the index was on |
| `ValuesAreHeldOnce` | CommandsProofs | the values that exist are those in the stack, LASTX, variables and the operation that goes on; reference counts are exact; but for values that are known to be lost, and until a solver has freed a value in use |
| `FailuresChangeNothing` | CommandsProofs | a command that fails leaves what can be seen of the registers and the variables as it was |
| `SharedArraysStayUntouched` | CommandsProofs | no command writes to an array that another matrix shares, but for statistics and texts stored in registers |
| `RegsStaysAMatrix` | CommandsProofs | REGS is a matrix or does not exist, but for the number that SOLVE or INTEG of REGS puts there |
| `CommandIsAnsweredOnce` | LinearAlgebraProofs | a command hears of its operation in slices at most once, of a success exactly once |
| `AllocationsAreFreed` | LinearAlgebraProofs | what an operation allocates is freed when it ends, but for two ways out, and nothing twice |
| `SettingComesBack` | LinearAlgebraProofs | the setting for singular matrices is the user's whenever DET does not run |
| `CallbackAlwaysFits` | KeyEntryProofs | exit callback and state are those of the application menu that shows |
| `HexKeysAlwaysMeanHex` | KeyEntryProofs | the menu A...F shows in base 16 only |
| `EntriesAlwaysExclude` | KeyEntryProofs | the entries of a command, a number and a text, GETKEY, a program that runs and a command that waits for the release of its key exclude each other |
| `ModesAlwaysMatchMenus` | KeyEntryProofs | and menus show only in their modes, provided CLALL is not among the commands |
| `ArgAlwaysFits` | KeyEntryProofs | the argument a command was given is of a type its handler knows, whatever commands, keys, catalogs and programs there are |

They assume what the modules state of their constants (`LabelsAssumption`, `ProgramMemoryAssumption`, `SolveIntegAssumption`,
`KeyboardCoreAssumption`, `RunLoopAssumption`, `MatrixStoreAssumption`, `MatrixEditorAssumption`,
`ValueStackAssumption`), among them that the return stack has at least one entry, that markers are no lines,
that the ring has two slots or more that a dimension the user gives is at least 1, that
REGS is a name of a variable and that there is memory for one array, which REGS needs at the start. TLC evaluates the assumptions in the runs.

*Program store.* `ReturnAddressesValid` is not inductive alone: that an address stays a line after RTN, which jumps to it and
leaves the rest, needs the types of the stack and programs; that a typed END leaves valid programs needs
`ProgramsWellFormed`. `IInv` joins these: programs well formed, the return stack within its depth, its addresses valid.
ProgramTextProofs has the lemmas on texts (inserting before the END, cutting, joining, removing keep exactly one END).
ProgramMemoryProofs has a lemma per operation, used by the lemma of each action. The key of `ListingChangesForget` is that the
only steps that keep the return stack also keep the texts, up to remembered targets, which a listing does not show.
`CacheAgrees` needs to know why a change to a text cannot leave a wrong target in it: because `invalidate_lclbls()` clears
all targets, unless the flag `lclbl_invalid` says that there are none. `CInv` adds to `IInv` that the flag never says so wrongly: each
program is one of `CachedPrograms`, in which either nothing is remembered (the flag is set) or each target is the one a search finds. Two
steps break it: `store_command()` of an END gives the lower half of a program no flag, and `delete_command()` of an END keeps the
flag of the upper program for the text of both. `StrandsTargets` says when this happens, and the theorem holds for any programs and
any sequence of operations without such a step; with one, TLC finds the stale target.

*SOLVE and INTEG.* `IInv` is `TypeOK` of SolveInteg and `OneOfEachKind`. The refinement needs it: with two markers of one kind the record
could serve only one of them. `FramesOf` maps stack and records to frames; the lemmas say how it commutes with push (with and without
overflow), pop, prefixes and unwinding, and that changing a record leaves the frames of a stack without its marker alone.
One lemma per action gives a step of CallStack or a stutter.

*Run loop.* `KeysInOrder` is not inductive: a NULL shown for a key (`Timeout2`) annuls the last keystroke typed, and that none but
a key that is still to be performed is annulled depends on when the shell runs that timer. `Inv` says so: a timer of the shell
runs only for a keystroke that neither waits in the ring nor was started (`Unseen`); the ring is ordered, and all in it is later than
what `keydown()` took last; a key that repeats is an arrow, no later than that; the annulled key neither waits nor was started, and no
command of its is pending; and as long as nothing was typed since power-up, `no_keystrokes_yet` is set and the ring is empty.
What most calls do to this is said once: `Keeps` is what a command, a slice of a program or a timer leaves alone, and `Accepts` what
`core_keydown()` promises in each of its branches. There is a lemma per branch, one for `core_keydown()`, one per action.
`ExitStops` needs in addition that no long operation is under way during a pause (`Resting`), since the branch for a pause does not end one.
`WorkIsScheduled` needs to know who will ask for the idle callback while a key is down (`Covered`): the release, if it reaches the core,
or else the reply that was given to the key; and that a timer of the shell runs only for a key of the first kind, since what
`core_repeat()` returns asks for no callback.

*Matrix editor.* `Good` adds to `EditedIndexInBounds` that no matrix in any slot is empty, for EDIT may take any of them, that the name is one of
a variable when the mode needs one, and that the index is never negative, even where it is out of bounds (mode 1). Sharing
matters little: a command that only changes arrays leaves the slots as they were (`Alike`), one that stores a value changes one slot (`Differs`).
What remains are the commands that move the index (`PositionInBounds`) or the bounds: a row inserted or deleted under it, a matrix
dimensioned, replaced, or put back. A store that resets the index of the wrong matrix (`StoreResetsItsOwnIndex` below) puts it on
the first element or ends the editing, so it breaks nothing here.

*Sharing of matrices.* `ReferencesAreCounted` speaks of the states between commands; within one, a value is on its way from one place to
another: `Counted` says that the holders of an array are no more than its references and that it has as many elements as each matrix
that holds it says, `Spare` that the value a command has in hand has a reference that nothing holds yet. `Names` may be infinite: that the holders of an array are finitely many is
part of the invariant, since the variables that exist are. For `CopiesStayIndependent` every command is shown to be `Independent`: it
changes the arrays that one variable, or X, or the matrix under edit holds alone, after `disentangle()`, and with `Counted` an array with one reference is held once.
For `MatrixComesBack` every command is shown either to leave the editor open (`Stays`) or to put its matrix into X as it
was, all but the element under the index (`CameBack`), whichever way the menu is left.

*Commands.* `Inv` says that a calculator is `Balanced` unless it is `undefined`: what no slot holds, of values (`Extra`) and of references (`Spare`), is what
the operation in slices keeps (`Counted`), which fits it (`PendingFits`: the result of STO/ into REGS will be a matrix), and there is a value in every register of
the stack and finitely many slots are in use (`Loose`). With a matrix in REGS, or a number `misplaced` there, this is `Accounted`, which is what the lemmas on commands begin with and end with.
The solvers do not keep it, since their variable can be REGS: `Keeps(b, c)` says that from `b` to `c` the accounts are the same whatever is in REGS, and `SolverRight`
that an outcome keeps them, has called the program of a variable, or is undefined. Within a command, values are in hands: `Has(b, c, u, v, w)` says that from `b` to `c` up to three
values were made or taken out of a slot, and everything else is accounted for as in `b`; `Seen` that what can be seen of `b` is the same
in `c`, even in arrays that only a hand holds, so that freeing a hand later cannot show. Every helper has its lemma: it makes a value (`Made`) or brings those in hands into slots (`Settled`);
in both cases an error has given all hands back and changed nothing that can be seen. The lemmas on the stack (`StackMoves`, `FiveSlots`) count how often a value is in it
before and after it moves. A command's lemma follows its text, helper by helper; there is one lemma per group of commands, and an operation in slices is
`Going` until its completion, whose lemma (`CompletesOne`) is about `KeptIsInHand`: at its end it is as if the value it kept had just been made.
Nothing in this uses the bounds `MaxOdd` and the one lost value. `Variables` and `Arrays` may be infinite.

*Linear algebra.* `Inv` says for each phase of each operation (`OperationInv`) what it holds in the heap: the record of the operation, the
copies of its operands, the permutation; what the completion is still to do; and how often the command was answered. The phases
hand these on to each other: inversion and division start with the decomposition, whose completion starts the substitution. `SettingInv` says
when the setting is DET's, and what is to be put back. Nothing in it depends on the numbers, so it holds for any size and any pivots.

*Menus and modes.* `CallbackFits` and `HexKeysMeanHex` are not inductive: the editor's exit callback can refuse, a menu can bring its
parent back, and a menu's redisplay replaces it. `Apt` says when a calculator may be in the middle of a key: its application menu
`Fits` its callback and state; `Admits` says what the menu may be replaced by, and `SameApp` that a step leaves all of this alone.
`Fresh` is `Apt` after the variables that are not read again are cleared. For the modes, `Calm` says that a step changes menus
and data but no mode. Each key leads from one named kind of state to others: no entry goes on (`Shut`), that of a command (`Open`), of a number (`Num`), of
a text (`Text`), the question of CLALL is asked (`Asks`), a program was started (`Runs`); `End` holds at the end of every key, `Hand` while a command is executed.
The invariant must know which commands may wait for the release of their key while an entry goes on (only CLA in the entry of letters), that a
program which runs waits for no such command unless it waits for a key, and that GETKEY is answered before anything else.

*Arguments.* `ArgFits` speaks of the command that is executed; why its argument suits is decided many keys earlier. `Sound` says so of every state: while a
command waits (`Entry`), the type under entry is that of the command, or a label for GTO ., IND and a name are only chosen where the type has them (`Begun`), and a menu of the entry shows only
if what it gives suits the command (`Helps`): the stack after IND or, like the variables of VARMENU, for a command that takes a register; the catalog not for a number.
ASSIGN is the one command that has been given an argument while it waits for another: it keeps its name in the argument, and shows the custom
menu, so that no arrow can cancel it. What is pending has its argument (`Given`). Each key of the entry keeps `Sound` or finishes the command with an
argument that suits (`CommandKeySound`); each key of the other modes begins an entry, leaves no command that needs an argument (`Free`), or pends one
with the argument its menu gives (`Ready`): a key of CUSTOM, an item of the catalog, a variable of a parameter menu. The question of CLALL, asked by its name,
leaves a menu of the entry behind; the keys that begin a command by themselves give that menu up (`Begins`). That variables of VARMENU suit needs to know that
its role is 0, 1 or 2, so the invariant is `Fresh`, `End` and `Sound` together.

*Only model-checked:* liveness (out of the prover's reach); `LabelTableExact`, `CursorValid` and `ImplementsListing` (they speak of folds over
sequences, which need induction); `QuotientSolves`, `ProductIsRight` and `RealDetIsDeterminant` (sums over matrices of any size need
induction); `ExitLeadsHome` (not out of reach: it wants a measure that every EXIT lowers, and an invariant that says which menus each level can
hold, neither of which is written; 9 is enough for the menus of the instance, and other menus may need more); everything of SavedState (whose addresses are found by folds over the programs).

## Disagreements between the code and what it says

Three are runs that TLC finds violated by what the code does, quoted in `PROJECT.json` (`findings`):

* `shared_bug`: statistics write to the numbered registers without `disentangle()`, so a copy of REGS under another name changes with them.
* `determinant_bug`: the complex decomposition does not begin the search for a pivot at the diagonal, so that DET of a complex
  matrix comes out wrong where no pivot is found or a slice ends in the division of a column.
* `conversion_bug`: an address where some typing began, long over, is converted as one of the current program; past its end it keeps the
  return addresses behind it from being converted.

Others are stated as a property next to those that are checked, with a comment that the code violates them; giving a run of that module this
property alone shows it:

* `JumpLandsOnLabel` (ProgramMemoryProps, constants of `edit` with a local label): deleting or typing an END moves lines with
  remembered jump targets into a program whose flag says that none are remembered; a later GTO uses the stale target.
* `CursorValid` (ProgramMemoryProps, constants of `edit`): CLP of the last program from within it can leave `current_prgm` one past the end.
* `StoredCommandsExist` (ProgramMemoryProps), `CommandsAreStored` (KeyEntryProps): a power cycle with flag 11 in the middle of a
  command entry stores a line without a command.
* `ModesMatchMenus` (KeyEntryProps, with `"CLALLa"` in `Commands`): the question of CLALL asked with XEQ and its name leaves the menu of
  that entry on the screen (`core_main.cc:2663`), and `core_powercycle()` does not take the question back, so that with flag 11 a
  program runs, and may wait for a key, under it. The run and the theorem leave this command out.
* `EntryKeepsItsLine` (KeyEntryProps): with an argument begun and no menu up, the arrows step through the program under the entry.
* `NoReentry` (RunLoopProps): SHIFT during a long operation that a key started ends in `core_keyup()`, which performs the pending command again.
* `LongOperationsEnd` (RunLoopProps): a typed-ahead key that starts a long operation leaves it without an idle callback until another key is pressed.
* `TextsLeaveCopiesAlone` (CommandsProps): STO or ASTO of a text to a numbered register takes the address of the element before `disentangle()` and writes through it after:
  the text goes to the array that a copy of REGS keeps.
* `RegsIsAlwaysAMatrix` (CommandsProps): INTEG, or SOLVE where there is no REGS, with REGS as its variable puts a number in the place of the numbered registers. ISG and CLRG
  take it for something that cannot happen.
* `IndexForcedInBounds` (MatrixProps): STOEL after INDEX uses an index that deleting, replacing or redimensioning the matrix has left out of bounds.
* `StoreResetsItsOwnIndex` (MatrixProps): under EDIT, storing a scalar into the variable an earlier INDEX or EDITN named ends the
  editing, and the matrix taken out of X is lost.

Met on the way, and described in the comments of the modules or the notes of the hazards: a cancelled command entry after an import;
the auto-repeat flag left by a typed-ahead arrow; state files of an older version, which lose the state of SOLVE but not its
marker and of which half of a complex matrix is not converted (`core_globals.cc:1104`); R<>R with a row number one too large; the value freed in
`matedit_move()`; three pastes during a matrix operation, which free its operand; the preferences opened during DET, which show and save the
borrowed setting; what a range error in the back substitution and a division by a singular matrix do not free; the value that SOLVE or INTEG frees although its variable holds it, when the user's program is not found
(`core_math1.cc:252`, `:843`), and SOLVE's variable taken for a number at the end whatever the program has made of it (`:341`), both `undefined` in Commands; menus read with
the index `MENU_NONE`, and a command line whose length goes below zero (`fault` in KeyEntry).

## What is not modelled

* Computation on data: the numbers that functions, statistics, SOLVE and INTEG compute, rounding, number formatting, encoding and
  decoding of programs: no state of their own, or beyond enumeration.
* Display: the rows, the rendering of menus and numbers, the clock of the display. The catalog is followed as far as it chooses a section or an item.
* Flags and display modes, except the ones that decide what a key does.
* The bytes of the state file; the print spool; skins, images, sound; the other platforms' shells (they
  drive the same core in the same way, with event loops of their own); build tools and vendored code.
* Memory that runs out in program storage: the code does not check for it there.
* RCLIJ, [MIN], [MAX], [FIND] and the simultaneous equations menu in MatrixEditor; in Commands they are followed as far as values go.
* In Commands: the commands that change the matrix under index or edit (they are in MatrixEditor), GETKEY (its value is made in KeyEntry), and
  the commands that neither take, make nor free a value (modes, flags, programs, menus, printing of other things). What a program does after `undefined`.

## Plan

Done:

1. ProgramText, ProgramMemory with ProgramListing: the largest persistent state and the most intricate updates. Runs `edit` and `jumps`. Proof of what is
   well-formed, of the return stack, of remembered targets.
2. KeyboardCore, RunLoop: everything passes through it. Run `keyboard`.
3. SolveInteg with CallStack. Run `solve`. Proofs of 1 to 3.
4. MatrixStore, MatrixEditor. Run `matrix`. Proofs of the index under edit, the references, the independence of copies.
5. ValueStack to Commands: the commands that make, move or free values, and the solvers. Run `commands`. Proof of all four properties.
6. Menus to KeyEntry: `core_keydown.cc` by mode, menus with their exit callbacks. Run `keys`. Proof that callbacks fit, modes exclude each other and arguments suit their commands.
7. LinearAlgebra: the workers, their completions and who frees what. Run `linalg`. Proofs of the answers, the blocks and the setting.
8. SavedState: order of fields, builds and versions, what is left after a partial read. Run `saved`.

Left, in order of importance:

1. An abstract queue of keystrokes that KeyboardCore implements.
2. An abstract specification of values without sharing, which MatrixEditor implements.
3. KeyEntry's command entry and ProgramMemory's as one refinement; the programmable menu in both.
4. `ImplementsListing` and `LabelTableExact` as theorems, operation by operation.
5. The print spool of the shell.
