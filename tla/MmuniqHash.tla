----------------------------- MODULE MmuniqHash -----------------------------
(***************************************************************************)
(* 2020-02-mmuniq/mmuniq-hash.c: the duplicate filter with a hash table of *)
(* fixed size.  A line that finds no place within OVERFLOW_AFTER probes is *)
(* counted and treated as one that was found.                              *)
(***************************************************************************)
EXTENDS LineReader, HashTable, FiniteSets

CONSTANTS
    HashOf(_),     \* siphash24 of a line
    GlobalSizes    \* values of -n

VARIABLES
    global_repeated, global_size, global_size_mask,
    bm, overflow_count, hash_conflicts, line_count,
    written        \* numbers of the lines written to stdout, in order

tabVars == <<global_repeated, global_size, global_size_mask, bm, overflow_count,
             hash_conflicts, line_count, written>>
vars == <<readerVars, tabVars>>

\* 1 << e, for every e up to n
Shifts(n) == LET shift[e \in 0 .. n] == IF e = 0 THEN 1 ELSE 2 * shift[e - 1] IN shift

\* Broken variant: while (mask < n).
MaskReaching(n) ==
    Shifts(n)[CHOOSE e \in 0 .. n : /\ n <= Shifts(n)[e]
                                   /\ \A d \in 0 .. e - 1 : Shifts(n)[d] < n] - 1

\* while (mask <= n) mask <<= 1: the first power of two above n, minus one.
MaskFor(n) ==
    Shifts(n)[CHOOSE e \in 0 .. n : /\ n < Shifts(n)[e]
                                   /\ \A d \in 0 .. e - 1 : Shifts(n)[d] <= n] - 1

Init ==
    /\ InitReader
    /\ global_repeated \in {0, 1}
    /\ global_size \in GlobalSizes
    /\ global_size_mask = MaskFor(global_size)
    /\ bm = EmptyTable(global_size_mask)
    /\ overflow_count = 0 /\ hash_conflicts = 0 /\ line_count = 0
    /\ written = <<>>

\* Probes that hit a slot with another hash.
Conflicts(h) ==
    Cardinality({i \in Probes(h) :
        \A k \in Probes(h) : k <= i => bm[SlotOf(k, global_size_mask)] \notin {0, h}})

MissOf(h) == Miss(h, bm, global_size_mask)

\* Broken variant: an overflow is taken for an insertion.
FoundExactly(h) == MissOf(h) = "present"

Found(h) == MissOf(h) \in {"present", "overflow"}

ProcessLine(line) ==
    LET h == HashOf(line)
    IN  /\ line_count' = line_count + 1
        /\ hash_conflicts' = hash_conflicts + Conflicts(h)
        /\ bm' = Inserted(h, bm, global_size_mask)
        /\ overflow_count' = IF MissOf(h) = "overflow" THEN overflow_count + 1
                             ELSE overflow_count
        /\ written' = IF (global_repeated = 1) <=> Found(h)
                      THEN Append(written, line_count') ELSE written
        /\ UNCHANGED <<global_repeated, global_size, global_size_mask>>

Terminated == pc = "done" /\ UNCHANGED vars

Next ==
    \/ Quiet /\ UNCHANGED tabVars
    \/ Line /\ ProcessLine(lines'[Len(lines')])
    \/ Terminated

-----------------------------------------------------------------------------
(* Properties *)

\* Every variable keeps its type; the written lines are lines that were read.
TypeOK ==
    /\ ReaderTypeOK
    /\ global_repeated \in {0, 1} /\ global_size \in GlobalSizes
    /\ global_size_mask \in Nat /\ bm \in Tables(global_size_mask)
    /\ overflow_count \in Nat /\ hash_conflicts \in Nat /\ line_count = Len(lines)
    /\ written \in Seq(1 .. Len(lines))

IsWritten(n) == \E m \in DOMAIN written : written[m] = n
HashAt(n)    == HashOf(lines[n])

\* Without -D the overflow counter is exactly the number of lines that were
\* left out although no line written before had left its hash in the table.  A
\* line whose hash is 0, the mark of a free slot, is written without leaving
\* it there.
OverflowExact ==
    global_repeated = 0 =>
        overflow_count =
            Cardinality({n \in DOMAIN lines :
                            ~IsWritten(n) /\ \A m \in 1 .. n - 1 :
                                IsWritten(m) /\ HashAt(m) = HashAt(n) => HashAt(n) = 0})

\* -n "Estimated cardinality of input": the table keeps a free slot as long as
\* the input has no more different lines than estimated.
RoomForEstimate ==
    Cardinality({HashAt(n) : n \in DOMAIN lines}) <= global_size =>
        \E s \in 0 .. global_size_mask : bm[s] = 0

=============================================================================
