----------------------------- MODULE MatrixProps -----------------------------
(***************************************************************************)
(* What must be true of variables, shared matrices and the editor.         *)
(***************************************************************************)
EXTENDS MatrixEditor, TLC

Holders(a) ==
    {slot \in Slots : IsMatrix(store.slots[slot]) /\ store.slots[slot].array = a}

Indexed == store.i < It(store).rows /\ store.j < It(store).columns

\* An array counts no fewer references than there are matrices that share it,
\* so it is never freed, nor written to as if it were alone, under one of them
\* (core_variables.cc:194, 303; more is a leak), and they agree with it about its
\* size: a matrix is never resized under another (core_helpers.cc:805).
ReferencesAreCounted ==
    \A a \in Arrays :
        /\ store.refs[a] >= Cardinality(Holders(a))
        /\ \A slot \in Holders(a) : Len(store.data[a]) = Size(store.slots[slot])

\* A matrix under edit always has the exit callback that will put it back, and
\* the one that EDIT took out of X is there to be put back; it cannot be reached
\* by name, so whatever variables are stored, resized or deleted meanwhile, the
\* index stays on one of its elements (core_commands3.cc:858, 895,
\* core_display.cc:1239, core_commands4.cc:752).
EditedIndexInBounds ==
    /\ Interactive(store) => store.callback
    /\ store.mode = 2 => IsMatrix(store.slots["edited"]) /\ Indexed

Value(slot) ==
    LET v == store.slots[slot]
    IN  IF IsMatrix(v) THEN <<v.rows, v.columns, store.data[v.array]>> ELSE <<v>>

Changed == {slot \in Slots : Value(slot)' # Value(slot)}

\* Copies are independent, however they came to share an array: no command but
\* CLALL changes two variables, or a variable and the matrix under edit; and
\* one that changes a variable leaves a matrix in X, such as the one that PUTM
\* put there, alone (core_variables.cc:303, core_helpers.cc:805).
CopiesAreIndependent ==
    [][\/ store'.slots = store.slots /\ store'.data = store.data
       \/ \A name \in Names : store'.slots[name] = None
       \/ /\ Cardinality(Changed \ {"x"}) <= 1
          /\ IsMatrix(store.slots["x"]) /\ IsMatrix(store'.slots["x"])
                => "x" \notin Changed \/ Changed \cap Names = {}]_vars

\* The matrix that was taken out of X comes back when the editor is left, the
\* element X showed stored in it, or as it was where there is no memory for a
\* copy; the element of no other place changes (core_commands3.cc:790).
MatrixComesBack ==
    [][store.mode = 2 /\ ~store'.callback =>
        LET before == store.slots["edited"]
            after == store'.slots["x"]
        IN  /\ IsMatrix(after) /\ store'.slots["edited"] = None
            /\ <<after.rows, after.columns>> = <<before.rows, before.columns>>
            /\ \A k \in 1 .. Size(before) :
                store'.data[after.array][k] # store.data[before.array][k]
                    => k = Place(before, store.i, store.j)]_vars

\* The index is forced within bounds before it is used: so says
\* core_commands3.cc:1395 of the commands that follow INDEX.  STOEL, the one
\* that changes a single element and leaves the index, must then be in bounds.
\* (The code violates it: see the README; no run checks it.)
IndexForcedInBounds ==
    [][LET v == It(store)
           changed == {k \in 1 .. Size(v) : Contents(store, Target(store))[k]
                                              # Contents(store', Target(store))[k]}
       IN  /\ store.mode = 1 /\ HasMatrix(store) /\ HasMatrix(store')
           /\ <<v.rows, v.columns>> = <<It(store').rows, It(store').columns>>
           /\ <<store.mode, store.name, store.i, store.j>>
                = <<store'.mode, store'.name, store'.i, store'.j>>
           /\ Cardinality(changed) = 1
           => Indexed]_vars

\* Only replacing the matrix under edit may end its editing: the reset in
\* store_var() is for "replacing the indexed matrix"
\* (core_variables.cc:411).
\* (The code violates it: see the README; no run checks it.)
StoreResetsItsOwnIndex ==
    [][store.mode = 2 /\ store'.mode # 2 => ~store'.callback \/ store'.mode = 3]_vars

-----------------------------------------------------------------------------
\* The instance for TLC: the shapes of the matrices, and the symmetry.
TheShapes == {<<1, 1>>, <<1, 2>>}
Renamings == Permutations(Arrays) \cup Permutations(Names)
=============================================================================
