------------------------------ MODULE MCMmuniq -----------------------------
(***************************************************************************)
(* Small instances of Mmuniq: two characters, a three-byte read buffer, a  *)
(* queue of two lines, and 3-bit hashes with collisions, hash 0 and hashes *)
(* whose probe bound wraps.                                                *)
(***************************************************************************)
EXTENDS Mmuniq

CONSTANT MaxInput

MCInputs == UNION {[1 .. n -> Cells \cup {NL}] : n \in 0 .. MaxInput}

Code(c) == IF c = "a" THEN 1 ELSE IF c = "b" THEN 4 ELSE 2

MCHash(s) ==
    LET acc[n \in 0 .. Len(s)] == IF n = 0 THEN 1 ELSE (acc[n - 1] * 3 + Code(s[n])) % HashMod
    IN  acc[Len(s)]

\* The same without the reserved 0, which is never recognised.
MCHashNonzero(s) == IF MCHash(s) = 0 THEN 5 ELSE MCHash(s)
=============================================================================
