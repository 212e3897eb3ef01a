----------------------------- MODULE HashTable -----------------------------
(***************************************************************************)
(* The open-addressing, linear-probing table of 2020-02-mmuniq: an array   *)
(* of 64-bit hashes in which 0 marks a free slot.  A table is a function   *)
(* on 0 .. mask; mask + 1 is a power of two, so that the code's            *)
(* "i & size_mask" is i % (mask + 1).                                      *)
(***************************************************************************)
EXTENDS Naturals

CONSTANTS
    HashMod,        \* 2^64 in the code: the arithmetic on hashes wraps here
    OVERFLOW_AFTER  \* probes after which an insertion gives up (4096)

ASSUME HashModAssumption  == HashMod \in Nat \ {0}
ASSUME OverflowAssumption == OVERFLOW_AFTER \in Nat

Hashes == 0 .. (HashMod - 1)

Tables(mask) == [0 .. mask -> Hashes]

EmptyTable(mask) == [s \in 0 .. mask |-> 0]

SlotOf(i, mask) == i % (mask + 1)

\* The values "i" takes in the probe loop.  The bound h + OVERFLOW_AFTER is
\* a uint64_t: it wraps, and then the loop body never runs.
ProbeLimit(h) == (h + OVERFLOW_AFTER) % HashMod
Probes(h)     == {i \in Hashes : h <= i /\ i < ProbeLimit(h)}

\* i is the probe at which the loop breaks: a free slot or h itself, with
\* neither of them at an earlier probe.
StopsAt(h, bm, mask, i) ==
    /\ i \in Probes(h)
    /\ bm[SlotOf(i, mask)] \in {0, h}
    /\ \A j \in Probes(h) : j < i => bm[SlotOf(j, mask)] \notin {0, h}

Overflows(h, bm, mask) == \A i \in Probes(h) : ~StopsAt(h, bm, mask, i)

\* Broken variant: giving up is reported like a hash that was found.
MissSilently(h, bm, mask) ==
    IF \E i \in Probes(h) : StopsAt(h, bm, mask, i) /\ bm[SlotOf(i, mask)] = 0
    THEN "inserted" ELSE "present"

\* What hash_insert returns: 1 inserted, 0 already there, -1 gave up (the
\* code's int, here a name).
Miss(h, bm, mask) ==
    IF Overflows(h, bm, mask) THEN "overflow"
    ELSE LET i == CHOOSE i \in Probes(h) : StopsAt(h, bm, mask, i)
         IN  IF bm[SlotOf(i, mask)] = 0 THEN "inserted" ELSE "present"

\* Broken variant: the hash lands one slot behind the free one that was found.
InsertedBehind(h, bm, mask) ==
    IF Miss(h, bm, mask) # "inserted" THEN bm
    ELSE LET i == CHOOSE i \in Probes(h) : StopsAt(h, bm, mask, i)
         IN  [bm EXCEPT ![SlotOf(i + 1, mask)] = h]

\* The table hash_insert leaves.
Inserted(h, bm, mask) ==
    IF Miss(h, bm, mask) # "inserted" THEN bm
    ELSE LET i == CHOOSE i \in Probes(h) : StopsAt(h, bm, mask, i)
         IN  [bm EXCEPT ![SlotOf(i, mask)] = h]

-----------------------------------------------------------------------------
\* The set a table stands for.
Stored(bm) == {bm[s] : s \in DOMAIN bm} \ {0}

\* Every stored hash is found by the probe loop that looks for it: no free
\* slot was left, and no second copy sits, between its home slot and itself.
ChainIntact(bm, mask) ==
    \A s \in 0 .. mask :
        bm[s] # 0 => \E i \in Probes(bm[s]) : /\ SlotOf(i, mask) = s
                                              /\ StopsAt(bm[s], bm, mask, i)
=============================================================================
