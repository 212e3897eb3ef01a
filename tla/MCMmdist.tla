------------------------------ MODULE MCMmdist ------------------------------
(***************************************************************************)
(* Instance of Mmdist: bytes of two bits and lanes of four, so that, as in *)
(* the programs, one squared difference (9) fits a lane (15) and two do    *)
(* not.  Rows are near each other in the prefix, far apart in the prefix,  *)
(* equal, malformed; one file is cut and one does not fill the lanes.      *)
(***************************************************************************)
EXTENDS Mmdist

A == <<0, 0, 0, 0>>
B == <<1, 0, 2, 0>>
C == <<3, 3, 0, 1>>
D == <<1, 1, 0, 1>>
Broken == <<3, NotHex, 3, 3>>

FileOf(rows) == FlattenSeq([m \in DOMAIN rows |-> Append(rows[m], NotHex)])

MCFiles ==
    {FileOf(rows) : rows \in [1 .. 4 -> {A, C}] \union [1 .. 2 -> {A, B, D, Broken}]}
        \union {FileOf(rows) : rows \in {<<A, B, C>>, <<C, D, B, A>>, <<C, B, D, Broken>>}}
        \union {<<>>, SubSeq(FileOf(<<A, B>>), 1, 9)}

\* The newline is missing from the last line of a file that does not end in one.
Lines == {Append(A, NotHex), Append(<<1, 1, 1, 0>>, NotHex), Append(<<3, 3, 3, 3>>, NotHex)}
MCInputs ==
    {<<>>, <<A>>, <<Append(<<1, 1>>, NotHex)>>}
        \union {<<l, k>> : l, k \in Lines}
        \union {<<l, A, k>> : l \in Lines, k \in {B, Append(<<1, 1>>, NotHex)}}
MCThresholds == {3, 20, UINT32 - 1}
=============================================================================
