---------------------------- MODULE MCUniqFixed ----------------------------
(***************************************************************************)
(* Small instances of UniqFixed: two characters, a three-byte buffer,      *)
(* 3-bit hashes that collide, are 0 or wrap, words of four bits, and bit   *)
(* numbers that collide across lines.                                      *)
(***************************************************************************)
EXTENDS UniqFixed

CONSTANT MaxInput

MCInputs == UNION {[1 .. n -> Cells \cup {NL}] : n \in 0 .. MaxInput}

Code(c) == IF c = "a" THEN 1 ELSE IF c = "b" THEN 4 ELSE 2

\* A polynomial of the line's characters.
Poly(s, first, factor, mod) ==
    LET acc[n \in 0 .. Len(s)] == IF n = 0 THEN first ELSE (acc[n - 1] * factor + Code(s[n])) % mod
    IN  acc[Len(s)]

\* The empty line's hash is 0.
MCHash(s) == Poly(s, 0, 3, HashMod)
MCSipState(s, first) == [n \in 0 .. 3 |-> (Poly(s, 3, 5, 32) * (2 * n + 1) + first) % 32]
MCSwap(v) == (v * 9 + 7) % 32
=============================================================================
