--------------------------- MODULE MCFuzznetlink ---------------------------
(***************************************************************************)
(* Instance of Fuzznetlink: locations are hashes of two bits, cells the    *)
(* xor of a location and half of the one before (fuzznetlink.c:230-231),   *)
(* counters of two bits.  One test fills the buffer, overflowing a         *)
(* counter; one floods the log.                                            *)
(***************************************************************************)
EXTENDS Fuzznetlink

MCCells == 0 .. 3

Bit(n, i) == (n \div 2^i) % 2
MCCell == [p \in MCCells, h \in MCCells |->
    LET prev == p \div 2
    IN  ((Bit(prev, 0) + Bit(h, 0)) % 2) + 2 * ((Bit(prev, 1) + Bit(h, 1)) % 2)]

MCTests == {
    [trace |-> <<>>, lines |-> <<>>],
    [trace |-> <<1, 3, 2>>, lines |-> <<FALSE, TRUE>>],
    [trace |-> <<1, 1, 1, 1, 1, 1>>, lines |-> <<FALSE>>],
    [trace |-> <<2>>, lines |-> <<TRUE, FALSE, FALSE>>]}

MCNoise == {<<>>, <<3>>}

MCOptions ==
    {[forksrv |-> TRUE, no_kcov |-> FALSE, one_run |-> FALSE, netns |-> n] : n \in {0, 2}}
    \cup {[forksrv |-> TRUE, no_kcov |-> TRUE, one_run |-> FALSE, netns |-> 1],
          [forksrv |-> FALSE, no_kcov |-> FALSE, one_run |-> TRUE, netns |-> 0],
          [forksrv |-> FALSE, no_kcov |-> FALSE, one_run |-> FALSE, netns |-> 2]}
=============================================================================
