--------------------------- MODULE ProgramListing ---------------------------
(***************************************************************************)
(* What program memory is to its user: one list of lines, in which an END   *)
(* is a line like any other.  Lines are typed in and deleted in program     *)
(* mode; a whole program, from after the previous END to its own, can be    *)
(* cleared; imported lines go to the end.  Running a program changes the    *)
(* list only by clearing programs.                                          *)
(***************************************************************************)
EXTENDS Integers, Sequences, SequencesExt

CONSTANTS
    Lines,    \* the lines there can be
    EndLine,  \* the END, one of them
    Imports   \* the programs in importable files

VARIABLES listing, mode

vars == <<listing, mode>>

Init == listing = <<EndLine>> /\ mode = "normal"

\* The lines from first to last are those of one program, END included.
IsProgram(first, last) ==
    /\ listing[last] = EndLine
    /\ \A i \in first .. last - 1 : listing[i] # EndLine
    /\ first = 1 \/ listing[first - 1] = EndLine

Removed(first, last) ==
    SubSeq(listing, 1, first - 1) \o SubSeq(listing, last + 1, Len(listing))

\* A list whose last program is only an END.
WithEmptyLast(lines) ==
    IF lines = <<EndLine>> \/ (Len(lines) > 1 /\ lines[Len(lines) - 1] = EndLine)
    THEN lines ELSE Append(lines, EndLine)

\* A line goes in before any other: never after the last END.  A power cycle
\* may complete what is being typed in, and start a program.
TypeLine(i, l) ==
    /\ mode = "prgm"
    /\ listing' = InsertAt(listing, i, l)
    /\ mode' \in {"prgm", "running"}

\* Deleting an END joins two programs; the last END stays.
DeleteLine(i) ==
    /\ mode = "prgm"
    /\ i < Len(listing)
    /\ listing' = Removed(i, i)
    /\ UNCHANGED mode

DeleteLines(first, last) ==
    /\ mode = "prgm"
    /\ \A i \in first .. last : listing[i] # EndLine
    /\ listing' = Removed(first, last)
    /\ UNCHANGED mode

ClearProgram(first, last) ==
    /\ mode \in {"normal", "running"}
    /\ IsProgram(first, last)
    /\ listing' = IF last = Len(listing) THEN WithEmptyLast(Removed(first, last))
                  ELSE Removed(first, last)
    /\ UNCHANGED mode

AddProgram ==
    /\ mode # "running"
    /\ listing' = WithEmptyLast(listing)
    /\ UNCHANGED mode

\* An import adds lines before the END of an empty last program, and stops a
\* running program.
Import(body) ==
    /\ listing' = Front(WithEmptyLast(listing)) \o Append(body, EndLine)
    /\ mode' = IF mode = "running" THEN "normal" ELSE mode

ClearAll ==
    /\ mode # "running"
    /\ listing' = <<EndLine>>
    /\ mode' = "normal"

\* Moving the cursor, running, stopping.
Other ==
    /\ UNCHANGED listing
    /\ mode' \in {"normal", "prgm", "running"}
    /\ ~ (mode = "running" /\ mode' = "prgm")

Next ==
    \/ Other
    \/ ClearAll
    \/ AddProgram
    \/ \E i \in DOMAIN listing, l \in Lines : TypeLine(i, l)
    \/ \E i \in DOMAIN listing : DeleteLine(i)
    \/ \E first, last \in DOMAIN listing :
          \/ first <= last /\ DeleteLines(first, last)
          \/ first <= last /\ ClearProgram(first, last)
    \/ \E body \in Imports : Import(body)

Spec == Init /\ [][Next]_vars

=============================================================================
