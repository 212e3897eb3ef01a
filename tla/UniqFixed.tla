----------------------------- MODULE UniqFixed -----------------------------
(***************************************************************************)
(* 2020-02-mmuniq: one of the two filters of fixed size, mmuniq-hash or    *)
(* mmuniq-bloom, on one input.                                             *)
(***************************************************************************)
EXTENDS LineReader, Integers

CONSTANTS
    HashMod, OVERFLOW_AFTER, HashOf(_), GlobalSizes,   \* mmuniq-hash's
    Ks, BloomMask, WORD, SipState(_, _), Swap(_)       \* mmuniq-bloom's

ASSUME HashAssumption ==
    /\ HashMod \in Nat \ {0} /\ OVERFLOW_AFTER \in Nat /\ GlobalSizes \subseteq Nat
    /\ \A line \in Texts : HashOf(line) \in 0 .. HashMod - 1

ASSUME BloomAssumption ==
    /\ Ks \subseteq Nat /\ BloomMask \in Nat /\ WORD \in Nat \ {0}
    /\ \A line \in Texts, most \in Ks : \A first \in 0 .. most, n \in 0 .. 3 :
          SipState(line, first)[n] \in Nat /\ Swap(SipState(line, first)[n]) \in Nat

VARIABLES
    kind,                                       \* "hash" or "bloom"
    global_repeated, written,
    global_size, global_size_mask, table,       \* mmuniq-hash's
    overflow_count, hash_conflicts, line_count,
    k, dummy_run, bits, bpc, i, miss, tested    \* mmuniq-bloom's

Hash == INSTANCE MmuniqHash WITH bm <- table
Bloom == INSTANCE MmuniqBloom WITH bm <- bits

hashVars == <<global_size, global_size_mask, table, overflow_count, hash_conflicts, line_count>>
bloomVars == <<k, dummy_run, bits, bpc, i, miss, tested>>
vars == <<kind, readerVars, global_repeated, written, hashVars, bloomVars>>

\* The program that does not run stays as it is, with any of its options.
Init ==
    /\ InitReader /\ global_repeated \in {0, 1} /\ written = <<>>
    /\ \/ /\ kind = "hash" /\ Hash!Init
          /\ k = 0 /\ dummy_run = 0 /\ bits = <<>>
          /\ bpc = "idle" /\ i = 0 /\ miss = 0 /\ tested = {}
       \/ /\ kind = "bloom" /\ Bloom!Init
          /\ global_size = 0 /\ global_size_mask = 0 /\ table = <<>>
          /\ overflow_count = 0 /\ hash_conflicts = 0 /\ line_count = 0

Next ==
    /\ UNCHANGED kind
    /\ \/ kind = "hash" /\ Hash!Next /\ UNCHANGED bloomVars
       \/ kind = "bloom" /\ Bloom!Next /\ UNCHANGED hashVars

Spec == Init /\ [][Next]_vars

-----------------------------------------------------------------------------
TypeOK == IF kind = "hash" THEN Hash!TypeOK ELSE Bloom!TypeOK

\* Both programs hand every character of their input to exactly one line.
EveryLineOnce == TypeOK /\ LinesOfStream

\* mmuniq-hash counts exactly the lines an overflow suppressed.
OverflowExact == kind = "hash" => Hash!OverflowExact

\* mmuniq-hash keeps a free slot for the estimated number of lines.
RoomForEstimate == kind = "hash" => Hash!RoomForEstimate

\* mmuniq-bloom only uses bit numbers it computed for this line.
NoStaleHash == kind = "bloom" => Bloom!NoStaleHash

\* mmuniq-bloom suppresses exactly what a Bloom filter of its output covers.
WrittenIffUncovered == kind = "bloom" => Bloom!WrittenIffUncovered
=============================================================================
