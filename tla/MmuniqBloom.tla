---------------------------- MODULE MmuniqBloom ----------------------------
(***************************************************************************)
(* 2020-02-mmuniq/mmuniq-bloom.c: the duplicate filter with a Bloom        *)
(* filter.  process_line takes the k bit numbers of a line eight at a time *)
(* from one run of siphash24, which fills res[0..3]; their byte-swapped    *)
(* forms fill res[4..7] only when they are needed.  One action is one      *)
(* round of that loop; res is a local of the round and starts out unset.   *)
(***************************************************************************)
EXTENDS LineReader, Integers, FiniteSets

CONSTANTS
    Ks,             \* values of -k
    BloomMask,      \* global_bloom_m_mask: a power of two minus one
    WORD,           \* bits of a uint64_t (64)
    SipState(_, _), \* res[0..3] of siphash24, per line and per first index i
    Swap(_)         \* bswap_64, seen through the mask

Unset == -1

VARIABLES
    k,               \* global_bloom_k
    global_repeated, dummy_run,
    bm,             \* words of the bit map, each the set of its bits that are 1
    bpc,            \* "idle", "round" or "print"
    i, miss,        \* process_line's locals
    written,        \* numbers of the lines written to stdout, in order
    tested          \* history: what was used as a bit number for this line

bloomVars == <<k, global_repeated, dummy_run, bm, bpc, i, miss, written, tested>>
vars == <<readerVars, bloomVars>>

Init ==
    /\ InitReader
    /\ k \in Ks /\ global_repeated \in {0, 1} /\ dummy_run \in {0, 1}
    /\ bm = [w \in 0 .. BloomMask \div WORD |-> {}]
    /\ bpc = "idle" /\ i = 0 /\ miss = 0
    /\ written = <<>> /\ tested = {}

Masked(v) == v % (BloomMask + 1)

CurrentLine == lines[Len(lines)]

\* Broken variant: the upper half is filled only when all of it is used.
UpperHalfFull == i + 8 <= k

UpperHalfUsed == i + 4 < k

\* siphash24 and the masks: res[4..7] before res[0..3], from the raw values.
Filled ==
    LET raw == SipState(CurrentLine, i)
    IN  [n \in 0 .. 7 |->
            IF n < 4 THEN Masked(raw[n])
            ELSE IF UpperHalfUsed THEN Masked(Swap(raw[n - 4])) ELSE Unset]

\* The bit numbers of one round: res[j % 8] for i <= j < min(i + 8, k).
RoundBits == {Filled[j % 8] : j \in i .. (IF i + 8 < k THEN i + 7 ELSE k - 1)}

SetBits == {n \in 0 .. BloomMask : n % WORD \in bm[n \div WORD]}

\* Broken variant: the word is taken for the bit.
SettingWords(map, bits) == [w \in DOMAIN map |-> map[w] \cup {n \in bits : n = w}]

\* bitmap_getset over the round.
Setting(map, bits) ==
    [w \in DOMAIN map |-> map[w] \cup {n % WORD : n \in {b \in bits : b \div WORD = w}}]

\* process_line is called; nothing else runs until it returns.
Begin ==
    /\ bpc = "idle" /\ Line
    /\ bpc' = IF k > 0 THEN "round" ELSE "print"
    /\ i' = 0 /\ miss' = 0 /\ tested' = {}
    /\ UNCHANGED <<k, global_repeated, dummy_run, bm, written>>

Round ==
    /\ bpc = "round"
    /\ IF dummy_run = 1 THEN UNCHANGED <<bm, miss, tested>>
       ELSE /\ miss' = IF RoundBits \subseteq SetBits THEN miss ELSE 1
            /\ bm' = Setting(bm, RoundBits)
            /\ tested' = tested \cup RoundBits
    /\ i' = i + 8
    /\ bpc' = IF i + 8 < k THEN "round" ELSE "print"
    /\ UNCHANGED <<readerVars, k, global_repeated, dummy_run, written>>

Wanted == (global_repeated = 0 /\ miss = 1) \/ (global_repeated = 1 /\ miss = 0)

PrintLine ==
    /\ bpc = "print"
    /\ written' = IF Wanted THEN Append(written, Len(lines)) ELSE written
    /\ bpc' = "idle"
    /\ UNCHANGED <<readerVars, k, global_repeated, dummy_run, bm, i, miss, tested>>

ReadOn == bpc = "idle" /\ Quiet /\ UNCHANGED bloomVars

Terminated == pc = "done" /\ bpc = "idle" /\ UNCHANGED vars

Next == Begin \/ Round \/ PrintLine \/ ReadOn \/ Terminated

-----------------------------------------------------------------------------
(* Properties *)

TypeOK ==
    /\ ReaderTypeOK
    /\ bpc \in {"idle", "round", "print"} /\ i \in Nat /\ miss \in {0, 1}
    /\ bm \in [0 .. BloomMask \div WORD -> SUBSET (0 .. WORD - 1)]
    /\ written \in Seq(1 .. Len(lines))

\* Every round only uses entries of res it filled itself: the comment at line
\* 114 counts on the upper four being computed exactly when they are used.
NoStaleHash == Unset \notin tested

\* The bit numbers of a line, whatever order the rounds take them in.
BitsOf(line) ==
    {Masked(IF j % 8 < 4 THEN SipState(line, 8 * (j \div 8))[j % 8]
            ELSE Swap(SipState(line, 8 * (j \div 8))[(j % 8) - 4])) : j \in 0 .. k - 1}

Covered(line, others) == BitsOf(line) \subseteq UNION {BitsOf(lines[n]) : n \in others}
IsWritten(n) == \E m \in DOMAIN written : written[m] = n
Finished == IF bpc = "idle" THEN Len(lines) ELSE Len(lines) - 1

\* Without -D a line is left out only if the lines written before it cover
\* all its bits, and written only if they do not: the false positives are
\* those of a Bloom filter over the output and no others.
WrittenIffUncovered ==
    dummy_run = 0 /\ global_repeated = 0 =>
        \A n \in 1 .. Finished :
            IsWritten(n) <=> ~Covered(lines[n], {m \in 1 .. n - 1 : IsWritten(m)})
=============================================================================
