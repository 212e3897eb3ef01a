----------------------------- MODULE UniqFilter -----------------------------
(***************************************************************************)
(* What the line filters of 2020-02-mmuniq promise: a set of remembered    *)
(* hashes decides which lines are written.  A line whose hash is           *)
(* remembered is a repeat; any other line is new and is then remembered.   *)
(* The promise is lossy in two documented ways (a crowded table may        *)
(* swallow a line, growing it may forget hashes) and in no other.          *)
(***************************************************************************)
EXTENDS Sequences

CONSTANT Hashes

VARIABLES
    repeated,   \* -D given: write the repeats instead of the new lines
    seen,       \* remembered hashes
    written     \* hashes of the lines written, in order

vars == <<repeated, seen, written>>

Init ==
    /\ repeated \in BOOLEAN
    /\ seen = {}
    /\ written = <<>>

\* The hash 0 is the table's free mark and cannot be remembered.
New(h) ==
    /\ h \notin seen
    /\ seen' = seen \cup ({h} \ {0})
    /\ written' = IF repeated THEN written ELSE Append(written, h)
    /\ UNCHANGED repeated

Repeat(h) ==
    /\ h \in seen
    /\ written' = IF repeated THEN Append(written, h) ELSE written
    /\ UNCHANGED <<repeated, seen>>

Forget ==
    /\ seen' \in SUBSET seen
    /\ UNCHANGED <<repeated, written>>

Next ==
    \/ \E h \in Hashes : New(h) \/ Repeat(h)
    \/ Forget

Spec == Init /\ [][Next]_vars
=============================================================================
