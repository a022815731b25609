----------------------------- MODULE LinearAlgebra -----------------------------
(***************************************************************************)
(* The matrix operations that are done in slices (core_linalg1.cc), from    *)
(* the command that begins one to the completion that hands its result to   *)
(* the command.  Between two slices the calculator handles events: EXIT     *)
(* interrupts the operation, and the preferences dialog can be opened and   *)
(* confirmed.                                                              *)
(*                                                                         *)
(* w is the operation: its registers (Elimination), the blocks it has       *)
(* allocated, and what it told the command: how often the completion was    *)
(* called and with which error.  "held" is the value RCL÷, RCLx and MATX    *)
(* allocate before the operation and free or use in their completions.      *)
(***************************************************************************)
EXTENDS Elimination

CONSTANTS Denominators,   \* the matrices divided by, inverted, ...
          Numerators,     \* ... and divided or multiplied
          Operations,     \* a subset of {"div", "mul", "inv", "det"}
          Complex,        \* whether the denominator may be complex: a subset of BOOLEAN
          Dialogs         \* how often the preferences are opened

VARIABLES w, setting, wanted, dialog, overlap
vars == <<w, setting, wanted, dialog, overlap>>

\* overlap: the dialog was opened or confirmed while a determinant was being computed.
Idle(x) == x.pc \in {"idle", "over"}
Running == ~ Idle(w)
NoMatrix == Zero(1, 1)

Fresh(op, left, right, complex, held) ==
    [op |-> op, left |-> left, right |-> right, complex |-> complex, exact |-> TRUE,
     pc |-> "idle", point |-> 0, suspended |-> FALSE,
     i |-> 0, j |-> 0, k |-> 0, c |-> 0, ii |-> -1, imax |-> 0, seen |-> FALSE, sum |-> 0, s |-> 1,
     det |-> 0, scale |-> [r \in {0} |-> FALSE], perm |-> [r \in {0} |-> 0],
     a |-> NoMatrix, b |-> NoMatrix, err |-> "none", previous |-> FALSE,
     heap |-> IF held THEN {"held"} ELSE {}, badFree |-> FALSE, calls |-> 0, told |-> "none", returned |-> "none"]

Forgotten == Fresh("none", NoMatrix, NoMatrix, FALSE, FALSE)
Init ==
    /\ w = Forgotten
    /\ setting \in BOOLEAN
    /\ wanted = setting
    /\ dialog = [up |-> FALSE, checked |-> FALSE, opened |-> 0]
    /\ overlap = FALSE

--------------------------------------------------------------------------------
Free(x, blocks) == [x EXCEPT !.heap = @ \ blocks, !.badFree = @ \/ ~ (blocks \subseteq x.heap)]
Return(x, error) == [x EXCEPT !.pc = "over", !.returned = error, !.suspended = FALSE, !.point = 0]

\* A command's completion frees or uses the value it holds and takes over the result.
Complete(x, error) ==
    [x EXCEPT !.calls = @ + 1, !.told = error,
              !.heap = @ \ (IF error = "none" THEN {"held", "result"} ELSE {"held"})]
Refuse(x, error) == Return(Complete(x, error), error)

(***************************************************************************)
(* Back-substitution begins by allocating its own block.                    *)
(***************************************************************************)
Substituted(x, error) ==
    LET freed == Free(x, {"a", "perm"} \cup (IF error = "none" THEN {} ELSE {"result"}))
    IN  Return(Complete(freed, error), error)

lu_backsubst(x) ==
    {BeginSubstitution([x EXCEPT !.heap = @ \cup {"substitution"}]), Substituted(x, "memory")}

\* The mutant of div_completion1: an error does not free the result.
div_completion1_Keeps(x) ==
    IF x.err # "none" THEN {Return(Free(x, {"a", "perm"}), x.err)} ELSE lu_backsubst([x EXCEPT !.b = x.left])

(***************************************************************************)
(* The first completions: what follows the decomposition.  A division that  *)
(* cannot go on frees its blocks and returns, and the command's completion  *)
(* is never called.                                                         *)
(***************************************************************************)
div_completion1(x) ==
    IF x.err # "none"
    THEN {Return(Free(x, {"a", "perm", "result"}), x.err)}
    ELSE lu_backsubst([x EXCEPT !.b = x.left])

\* The mutant of inv_completion1: no return after an error.
inv_completion1_GoesOn(x) ==
    lu_backsubst([(IF x.err # "none" THEN Complete(x, x.err) ELSE x) EXCEPT !.b = Identity(Size(x))])

inv_completion1(x) ==
    IF x.err # "none"
    THEN {Return(Complete(Free(x, {"a", "perm", "result"}), x.err), x.err)}
    ELSE lu_backsubst([x EXCEPT !.b = Identity(Size(x))])

det_completion(x) ==
    LET freed == Free(x, {"a", "perm"})
        Done(error) == Return(Complete(freed, error), error)
    IN  CASE x.err = "singular" -> {Done("none"), Done("memory")}
          [] x.err = "none"     -> {Done("none"), Done("range"), Done("memory")}
          [] OTHER              -> {Done(x.err)}

lu_completion(x) ==
    CASE x.op = "div" -> div_completion1(x)
      [] x.op = "inv" -> inv_completion1(x)
      [] x.op = "det" -> det_completion(x)

Decomposing(x) == [x EXCEPT !.heap = @ \cup {"decomposition", "scale"}]
lu_decomp_r(x) == BeginDecomposition(Decomposing(x), 0)
lu_decomp_c(x, row) == BeginDecomposition(Decomposing(x), row)
lu_decomp(x) ==
    (IF x.complex THEN {lu_decomp_c(x, row) : row \in 0 .. Last(x)} ELSE {lu_decomp_r(x)})
        \cup lu_completion([x EXCEPT !.err = "memory"])

\* The completion runs before the decomposition's own block is freed.
EndDecomposition(x) == {Free(y, {"decomposition"}) : y \in lu_completion(Free(x, {"scale"}))}

--------------------------------------------------------------------------------
(***************************************************************************)
(* The beginning of each operation.  Only the real denominators of INVRT    *)
(* and DET are searched for strings; what INVRT and the complex DET refuse  *)
(* they do not tell the completion.                                        *)
(***************************************************************************)
linalg_div(x) ==
    IF Rows(x.right) # Rows(x.left) \/ ~ IsSquare(x.right)
    THEN {Refuse(x, "dimension")}
    ELSE {Refuse(x, "memory")}
         \cup lu_decomp([x EXCEPT !.a = x.right, !.heap = @ \cup {"perm", "a", "result"}])

linalg_mul(x) ==
    IF Columns(x.left) # Rows(x.right)
    THEN {Refuse(x, "dimension")}
    ELSE {Refuse(x, "alpha"), Refuse(x, "memory"),
          BeginProduct([x EXCEPT !.b = Zero(Rows(x.left), Columns(x.right)), !.heap = @ \cup {"product", "result"}])}

linalg_inv(x) ==
    IF ~ IsSquare(x.right)
    THEN {Return(x, "dimension")}
    ELSE (IF x.complex THEN {} ELSE {Return(x, "alpha")}) \cup {Return(x, "memory")}
         \cup lu_decomp([x EXCEPT !.a = x.right, !.heap = @ \cup {"perm", "a", "result"}])

det_refuse(x, error) == IF x.complex THEN Return(x, error) ELSE Refuse(x, error)

linalg_det(x) ==
    IF ~ IsSquare(x.right)
    THEN {det_refuse(x, "dimension")}
    ELSE (IF x.complex THEN {} ELSE {Refuse(x, "alpha")}) \cup {det_refuse(x, "memory")}
         \cup lu_decomp([x EXCEPT !.a = x.right, !.previous = setting, !.heap = @ \cup {"perm", "a"}])

(***************************************************************************)
(* linalg_det turns the reporting of singular matrices on; its completion   *)
(* puts back what it found.                                                 *)
(***************************************************************************)
Deciding(x) == x.op = "det" /\ ~ Idle(x)

\* The mutant of Update: the setting is given back when there is a determinant.
Update_OnSuccess(x) ==
    /\ w' = x
    /\ setting' = IF Idle(w) /\ x.op = "det" /\ ~ Idle(x) THEN TRUE
                  ELSE IF ~ Idle(w) /\ x.op = "det" /\ Idle(x) /\ x.told = "none" THEN w.previous
                  ELSE setting

Update(x) ==
    /\ w' = x
    /\ setting' = IF Idle(w) /\ Deciding(x) THEN TRUE
                  ELSE IF Deciding(w) /\ Idle(x) THEN w.previous
                  ELSE setting

Begin ==
    /\ w.pc = "idle"
    /\ \E op \in Operations, right \in Denominators, complex \in Complex :
         \/ /\ op \in {"inv", "det"}
            /\ LET x == Fresh(op, NoMatrix, right, complex, FALSE)
               IN  \E y \in IF op = "inv" THEN linalg_inv(x) ELSE linalg_det(x) : Update(y)
         \/ /\ op \in {"div", "mul"}
            /\ \E left \in Numerators, held \in BOOLEAN :
                 \* The matrix divided by is the first factor of the product.
                 LET x == IF op = "div" THEN Fresh(op, left, right, complex, held)
                                        ELSE Fresh(op, right, left, FALSE, held)
                 IN  \E y \in IF op = "div" THEN linalg_div(x) ELSE linalg_mul(x) : Update(y)
    /\ UNCHANGED <<wanted, dialog, overlap>>

(***************************************************************************)
(* The end of a worker and what it frees after its completion.              *)
(***************************************************************************)
EndProduct(x) ==
    LET told == Complete(x, x.err)
    IN  Return(Free(told, {"product"} \cup (IF x.err = "none" THEN {} ELSE {"result"})), x.err)
EndSubstitution(x) == Free(Substituted(x, x.err), {"substitution"})

Ended(x) ==
    CASE x.pc = "decomposed" -> EndDecomposition(x)
      [] x.pc = "solved"     -> {EndSubstitution(x)}
      [] x.pc = "multiplied" -> {EndProduct(x)}
      [] x.pc = "abandoned"  -> {Return(x, x.err)}
      [] OTHER               -> {x}

InSlice == Running /\ ~ w.suspended
Iterate(x) == \E y \in Ended(x) : Update(y)

\* Range errors are reported as the settings and flag 24 say; that is left open.
Step ==
    /\ InSlice
    /\ \E reported \in BOOLEAN :
         \/ w.pc = "scale" /\ Iterate(MeasureRow(w))
         \/ w.pc = "upper" /\ Iterate(UpperPart(w))
         \/ w.pc = "lower" /\ \E y \in LowerPart(w) : Iterate(y)
         \/ w.pc = "swap" /\ Iterate(SwapRows(w))
         \/ w.pc = "pivot" /\ Iterate(TakePivot(w, setting))
         \/ w.pc = "divide" /\ Iterate(DivideColumn(w))
         \/ w.pc = "exchange" /\ Iterate(Exchange(w))
         \/ w.pc = "forward" /\ Iterate(Forward(w))
         \/ w.pc = "back" /\ \E y \in Back(w, reported) : Iterate(y)
         \/ w.pc = "multiply" /\ \E y \in Multiply(w, w.left, w.right, reported) : Iterate(y)
    /\ UNCHANGED <<wanted, dialog, overlap>>

(***************************************************************************)
(* A slice ends at a STATE point after a thousand iterations: after any     *)
(* number of them here.  The reciprocal of the complex pivot is a local     *)
(* variable of the worker, and is not saved.                                *)
(***************************************************************************)
Suspend ==
    /\ InSlice /\ w.point # 0
    /\ w' = [w EXCEPT !.suspended = TRUE]
    /\ UNCHANGED <<setting, wanted, dialog, overlap>>

\* The mutant of Resume: each slice begins with a determinant of 1 (the error release 1.1.10 repaired).
Resume_WithOne ==
    /\ Running /\ w.suspended
    /\ w' = [w EXCEPT !.suspended = FALSE, !.point = 0, !.det = 1]
    /\ UNCHANGED <<setting, wanted, dialog, overlap>>

Resume ==
    /\ Running /\ w.suspended
    /\ \E s \in IF w.complex /\ w.pc = "divide" THEN Field ELSE {w.s} :
         w' = [w EXCEPT !.suspended = FALSE, !.point = 0, !.s = s]
    /\ UNCHANGED <<setting, wanted, dialog, overlap>>

stop_interruptible ==
    /\ Running /\ w.suspended
    /\ LET stopped == [w EXCEPT !.err = "interrupted", !.exact = FALSE]
       IN  CASE "product" \in w.heap       -> Update(EndProduct(stopped))
             [] "substitution" \in w.heap  -> Update(EndSubstitution(stopped))
             [] "decomposition" \in w.heap -> \E y \in EndDecomposition(stopped) : Update(y)
    /\ UNCHANGED <<wanted, dialog, overlap>>

\* The core takes the error of an operation that is over and is ready for the next command.
handle_error ==
    /\ w.pc = "over"
    /\ w' = Forgotten
    /\ UNCHANGED <<setting, wanted, dialog, overlap>>

--------------------------------------------------------------------------------
\* The preferences show the setting when they are opened and set it when confirmed.
Events == Idle(w) \/ w.suspended
OpenPreferences ==
    /\ Events /\ ~ dialog.up /\ dialog.opened < Dialogs
    /\ dialog' = [up |-> TRUE, checked |-> setting, opened |-> dialog.opened + 1]
    /\ overlap' = (overlap \/ (Running /\ w.op = "det"))
    /\ UNCHANGED <<w, setting, wanted>>

ConfirmPreferences ==
    /\ Events /\ dialog.up
    /\ \E toggle \in BOOLEAN :
         /\ setting' = IF toggle THEN ~ dialog.checked ELSE dialog.checked
         /\ wanted' = IF toggle THEN ~ wanted ELSE wanted
    /\ dialog' = [dialog EXCEPT !.up = FALSE]
    /\ overlap' = (overlap \/ (Running /\ w.op = "det"))
    /\ UNCHANGED w

Next ==
    \/ Begin
    \/ Step
    \/ Suspend
    \/ Resume
    \/ stop_interruptible
    \/ handle_error
    \/ OpenPreferences
    \/ ConfirmPreferences

Spec == Init /\ [][Next]_vars
================================================================================
