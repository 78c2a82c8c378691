------------------------------ MODULE Archive -------------------------------
(***************************************************************************)
(* What a file saver promises of its directory, whatever it is made of: it *)
(* keeps the last files it finished, at most Limit of them.  A file it is  *)
(* working on may hold anything at any time; one it has kept changes only  *)
(* when it is the oldest of a full archive and another is kept: then it    *)
(* goes.  AsyncFileSave implements it.                                     *)
(***************************************************************************)
EXTENDS Naturals, Sequences

CONSTANTS
    Files,
    Contents,
    Absent,         \* the contents of a file that is not there
    Limit

VARIABLES
    working,    \* the files that are being made
    kept,       \* those that are finished, the oldest first
    contents

Init ==
    /\ working = {} /\ kept = <<>>
    /\ contents = [f \in Files |-> Absent]

Full == Len(kept) = Limit

\* Of the files that are not in fs, none changes.
OnlyChanges(fs) ==
    /\ contents' \in [Files -> Contents]
    /\ \A f \in Files \ fs : contents'[f] = contents[f]

\* Work begins on a file that is not there, nor in the list.
Begin(f) ==
    /\ f \notin working
    /\ \A n \in DOMAIN kept : kept[n] # f
    /\ contents[f] = Absent
    /\ working' = working \cup {f}
    /\ OnlyChanges({f})
    /\ UNCHANGED kept

Work ==
    /\ OnlyChanges(working)
    /\ UNCHANGED <<working, kept>>

\* Other files may be worked on in the same step.
Keep(f) ==
    /\ f \in working
    /\ working' = working \ {f}
    /\ kept' = Append(IF Full THEN Tail(kept) ELSE kept, f)
    /\ OnlyChanges(working \cup (IF Full THEN {kept[1]} ELSE {}))
    /\ Full => contents'[kept[1]] = Absent

Next ==
    \/ Work
    \/ \E f \in Files : Begin(f) \/ Keep(f)

Spec == Init /\ [][Next]_<<working, kept, contents>>

=============================================================================
