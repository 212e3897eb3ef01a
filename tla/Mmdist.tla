------------------------------- MODULE Mmdist -------------------------------
(***************************************************************************)
(* 2020-12-mmdist: six programs that answer the same question, which row   *)
(* of database.txt is nearest to each line of stdin.  "naive" and          *)
(* "naive-avx2" take one line at a time and compute every distance;        *)
(* "batch-avx2" takes several lines per pass; "short-avx2", "short-inv"    *)
(* and "short-inv-avx2" first compare prefixes of MIXER_SIZE bytes and     *)
(* skip the rows that cannot win, the last one in saturating lanes.        *)
(*                                                                         *)
(* Text is a sequence of bytes, each standing for its two digits; NotHex   *)
(* stands for anything that is no digit, a newline included.  Arrays are   *)
(* indexed from 0, as in C.                                                *)
(***************************************************************************)
EXTENDS Integers, Sequences, SequencesExt

CONSTANTS
    Kinds,        \* the programs to run
    DIM,          \* bytes of a row (144)
    MIXER_SIZE,   \* bytes of a prefix (32 or 24)
    SIMD,         \* bytes an AVX2 step takes (16)
    LANE_SIZE,    \* rows whose prefixes are compared at once (16)
    BATCH_SIZE,   \* lines per pass (6)
    BYTES,        \* number of values of a byte (256)
    UINT16,       \* number of values of a lane (2^16)
    UINT32,       \* number of values of a distance (2^32)
    Files,        \* contents of database.txt
    Inputs,       \* contents of stdin: sequences of lines
    Thresholds    \* values of argv[1]; UINT32 - 1 stands for none

ASSUME SizeAssumption ==
    /\ DIM \in Nat /\ MIXER_SIZE \in 1 .. DIM
    /\ SIMD \in Nat \ {0} /\ DIM % SIMD = 0 /\ MIXER_SIZE % SIMD = 0
    /\ LANE_SIZE \in Nat \ {0} /\ BATCH_SIZE \in Nat \ {0}
    /\ {BYTES, UINT16, UINT32} \subseteq Nat \ {0}
    /\ (BYTES - 1) * (BYTES - 1) < UINT16
    /\ DIM * (BYTES - 1) * (BYTES - 1) < UINT32

VARIABLES
    kind, threshold, file, stdin, pos, \* pos: lines of stdin taken
    pc,
    hashes,              \* state->hashes
    prefix,              \* shorth->hashes, or sv of the "inv" programs
    query, j,            \* the lines of this pass and how many they are
    i,                   \* the next row, or the first of the next lanes
    min_dist, min_idx,
    count, out           \* lines answered, answers printed

inputs == <<kind, file, stdin>>
vars == <<inputs, threshold, pos, pc, hashes, prefix, query, j, i, min_dist, min_idx, count, out>>

NotHex == -1
Array(n) == 0 .. n - 1
Zeros == [k \in Array(DIM) |-> 0]
items == Cardinality(DOMAIN hashes)
Inverted == kind \in {"short-inv", "short-inv-avx2"}
Batch == IF kind \in {"naive", "naive-avx2"} THEN 1 ELSE BATCH_SIZE
Queries == Array(Batch)

\* Both of parse_hex's errors, an odd digit and a letter that is none, are -2:
\* nobody tells them apart.
ParseHex(dst, src) ==
    LET bad == {k \in Array(DIM) : k < Len(src) /\ src[k + 1] = NotHex}
        n == Min(bad \union {DIM, Len(src)})
    IN  [ret |-> IF bad = {} THEN n ELSE -2,
         dst |-> [k \in Array(DIM) |-> IF k < n THEN src[k + 1] ELSE dst[k]]]

\* A row ends in a newline.  What parse_hex says of a row is ignored.
MmdistLoad ==
    LET size == Len(file)
        row(m) == SubSeq(file, m * (DIM + 1) + 1, size)
    IN  IF size = 0 \/ size % (DIM + 1) # 0
        THEN [ret |-> "error", hashes |-> <<>>]
        ELSE [ret |-> "ok",
              hashes |-> [m \in Array(size \div (DIM + 1)) |-> ParseHex(Zeros, row(m)).dst]]

-----------------------------------------------------------------------------
(* Distances.  The scalar ones subtract and multiply modulo 2^32; the AVX2 *)
(* ones widen the bytes to signed words, SIMD of them per step.            *)
SumOver(n, f) == LET s[k \in 0 .. n] == IF k = 0 THEN 0 ELSE s[k - 1] + f[k - 1] IN s[n]

Distance(a, b, from, len) ==
    LET t(k) == (a[from + k] - b[from + k]) % UINT32
    IN  SumOver(len, [k \in Array(len) |-> t(k) * t(k)]) % UINT32

FullDistance(a, b) == Distance(a, b, 0, DIM)

DistanceAvx2(a, b, from, len) ==
    LET d(k) == a[from + k] - b[from + k]
        steps == (len + SIMD - 1) \div SIMD
        lane(m, l) == d(m * SIMD + l)
        step(m) == SumOver(SIMD, [l \in Array(SIMD) |-> lane(m, l) * lane(m, l)])
    IN  SumOver(steps, [m \in Array(steps) |-> step(m)])

FullDistanceAvx2(a, b) == DistanceAvx2(a, b, 0, DIM)

BatchDistance(a, b) == DistanceAvx2(a, b, 0, DIM)

InvDistanceAvx2(a, b) == DistanceAvx2(a, b, 0, DIM)

-----------------------------------------------------------------------------
(* What the six main functions share. *)
Init ==
    /\ kind \in Kinds /\ threshold \in Thresholds /\ file \in Files /\ stdin \in Inputs
    /\ kind \in {"naive", "naive-avx2", "batch-avx2"} => threshold = UINT32 - 1
    /\ pc = "load" /\ pos = 0
    /\ hashes = <<>> /\ prefix = <<>>
    /\ query = [c \in Queries |-> Zeros] /\ j = 0 /\ i = 0
    /\ min_dist = [c \in Queries |-> UINT32 - 1] /\ min_idx = [c \in Queries |-> -1]
    /\ count = 0 /\ out = <<>>

Loaded == MmdistLoad.hashes

\* Loading, what a program derives from the rows, and its limit on distances.
Load(accepts, derived, limit, start) ==
    /\ pc = "load"
    /\ \/ /\ MmdistLoad.ret = "ok" /\ accepts
          /\ pc' = "read" /\ hashes' = Loaded /\ prefix' = derived
          /\ threshold' = limit /\ min_dist' = [c \in Queries |-> start]
       \/ /\ MmdistLoad.ret = "ok" => ~accepts
          /\ pc' = "error" /\ UNCHANGED <<hashes, prefix, threshold, min_dist>>
    /\ UNCHANGED <<inputs, pos, query, j, i, min_idx, count, out>>

LoadRows == Load(TRUE, <<>>, threshold, UINT32 - 1)

\* Mutant of AtEof: lines of a pass that is not full are forgotten.
AtEofReport == "report"

\* The end of the input ends a pass early, or, where a pass is one line, all.
AtEof == IF kind \in {"naive", "naive-avx2"} THEN "report" ELSE "scan"

\* fgets and parse_hex of the next line.
ReadLine ==
    /\ pc = "read"
    /\ IF pos = Len(stdin)
       THEN /\ pc' = AtEof
            /\ UNCHANGED <<pos, query, j>>
       ELSE LET p == ParseHex(query[j], stdin[pos + 1]) IN
            /\ pos' = pos + 1
            /\ query' = [query EXCEPT ![j] = p.dst]
            /\ j' = IF p.ret = DIM THEN j + 1 ELSE j
            /\ pc' = IF p.ret # DIM THEN "error" ELSE IF j' = Batch THEN "scan" ELSE "read"
    /\ UNCHANGED <<inputs, threshold, hashes, prefix, i, min_dist, min_idx, count, out>>

\* One step of the scan: best[c] is what the loop body leaves in min_dist[c]
\* and min_idx[c].
Scan(step, best) ==
    /\ pc = "scan" /\ i < items
    /\ i' = i + step
    /\ min_dist' = [c \in Queries |-> best[c].dist]
    /\ min_idx' = [c \in Queries |-> best[c].idx]
    /\ UNCHANGED <<inputs, threshold, pos, pc, hashes, prefix, query, j, count, out>>

Best(c) == [dist |-> min_dist[c], idx |-> min_idx[c]]

\* printf's %d shows a distance that was never found as -1.
AsInt(dist) == IF dist = UINT32 - 1 THEN -1 ELSE dist

\* The answers of a pass, and the variables of the next one.
PrintAnswers(answer, start) ==
    /\ pc = "scan" /\ i >= items
    /\ out' = out \o [k \in 1 .. j |-> answer[k - 1]]
    /\ count' = count + j
    /\ pc' = IF j = 0 THEN "report" ELSE "read"
    /\ j' = 0 /\ i' = 0
    /\ query' = IF Inverted THEN [c \in Queries |-> Zeros] ELSE query
    /\ min_dist' = [c \in Queries |-> start]
    /\ min_idx' = [c \in Queries |-> -1]
    /\ UNCHANGED <<inputs, threshold, pos, hashes, prefix>>

Answer(c) == [sq_dist |-> AsInt(min_dist[c]), idx |-> min_idx[c]]
PrintMin == PrintAnswers([c \in Queries |-> Answer(c)], UINT32 - 1)

\* The time per line is a division by the number of lines.
Report ==
    /\ pc = "report"
    /\ pc' = IF count = 0 THEN "sigfpe" ELSE "done"
    /\ UNCHANGED <<inputs, threshold, pos, hashes, prefix, query, j, i, min_dist, min_idx, count, out>>

Nearer(c, dist) == IF dist < min_dist[c] THEN [dist |-> dist, idx |-> i] ELSE Best(c)

-----------------------------------------------------------------------------
NaiveMain ==
    /\ kind = "naive"
    /\ \/ LoadRows \/ ReadLine \/ PrintMin \/ Report
       \/ Scan(1, [c \in Queries |-> Nearer(c, FullDistance(query[c], hashes[i]))])

NaiveAvx2Main ==
    /\ kind = "naive-avx2"
    /\ \/ LoadRows \/ ReadLine \/ PrintMin \/ Report
       \/ Scan(1, [c \in Queries |-> Nearer(c, FullDistanceAvx2(query[c], hashes[i]))])

\* Only the lines that were read are compared.
BatchAvx2Main ==
    /\ kind = "batch-avx2"
    /\ \/ LoadRows \/ ReadLine \/ PrintMin \/ Report
       \/ Scan(1, [c \in Queries |-> IF c < j THEN Nearer(c, BatchDistance(query[c], hashes[i])) ELSE Best(c)])

-----------------------------------------------------------------------------
\* The prefixes of the rows, copied next to each other.
Shorth(h) == [m \in DOMAIN h |-> [k \in Array(MIXER_SIZE) |-> h[m][k]]]

\* The body of short-avx2's loops.
ShortAvx2Row(c) ==
    LET short_dist == DistanceAvx2(query[c], prefix[i], 0, MIXER_SIZE)
        full_dist == short_dist + DistanceAvx2(query[c], hashes[i], MIXER_SIZE, DIM - MIXER_SIZE)
    IN  IF \/ c >= j
           \/ short_dist > min_dist[c] \/ short_dist > threshold
           \/ ~(full_dist < min_dist[c] /\ full_dist < threshold)
        THEN Best(c)
        ELSE [dist |-> full_dist, idx |-> i]

ShortAvx2Main ==
    /\ kind = "short-avx2"
    /\ \/ Load(TRUE, Shorth(Loaded), threshold, UINT32 - 1) \/ ReadLine \/ PrintMin \/ Report
       \/ Scan(1, [c \in Queries |-> ShortAvx2Row(c)])

-----------------------------------------------------------------------------
\* Byte k of the prefixes of LANE_SIZE rows lies together.
Transposed(h) ==
    [at \in Array(Cardinality(DOMAIN h) * MIXER_SIZE) |->
        LET lanes == at \div (LANE_SIZE * MIXER_SIZE)
            k == (at \div LANE_SIZE) % MIXER_SIZE
            l == at % LANE_SIZE
        IN  h[lanes * LANE_SIZE + l][k]]
Aligned(h) == Cardinality(DOMAIN h) % LANE_SIZE = 0

\* The rows of the lanes against line c, one after the other, each against the
\* minimum its neighbours left.  Lines that were not read are compared too, as
\* zeroes.
ShortInvLanes(c) ==
    LET sq(k, l) == LET delta == (query[c][k] - prefix[i * MIXER_SIZE + k * LANE_SIZE + l]) % UINT32
                    IN  delta * delta
        scores == [l \in Array(LANE_SIZE) |-> SumOver(MIXER_SIZE, [k \in Array(MIXER_SIZE) |-> sq(k, l)]) % UINT32]
        row(l, best) ==
            LET full_dist == scores[l] + Distance(query[c], hashes[i + l], MIXER_SIZE, DIM - MIXER_SIZE)
            IN  IF /\ scores[l] < best.dist /\ scores[l] <= threshold
                   /\ full_dist < best.dist /\ full_dist < threshold
                THEN [dist |-> full_dist, idx |-> i + l] ELSE best
        upTo[l \in 0 .. LANE_SIZE] == IF l = 0 THEN Best(c) ELSE row(l - 1, upTo[l - 1])
    IN  upTo[LANE_SIZE]

ShortInvMain ==
    /\ kind = "short-inv"
    /\ \/ Load(Aligned(Loaded), Transposed(Loaded), threshold, UINT32 - 1) \/ ReadLine \/ PrintMin \/ Report
       \/ Scan(LANE_SIZE, [c \in Queries |-> ShortInvLanes(c)])

-----------------------------------------------------------------------------
\* Scores start at 1 and saturate.  score - min_dist, saturating at 0, is 0
\* for the rows worth a second look; the mask is computed before any of them
\* lowers min_dist.
LaneMask(c) ==
    LET adds(x, y) == Min({x + y, UINT16 - 1})
        sq(k, l) == LET d == query[c][k] - prefix[i * MIXER_SIZE + k * LANE_SIZE + l]
                    IN  (d * d) % UINT16
        score(l) == LET s[k \in 0 .. MIXER_SIZE] == IF k = 0 THEN 1 ELSE adds(s[k - 1], sq(k - 1, l))
                    IN  s[MIXER_SIZE]
        subs(x, y) == Max({x - y, 0})
    IN  {l \in Array(LANE_SIZE) : subs(score(l), min_dist[c] % UINT16) = 0}

ShortInvAvx2Lanes(c) ==
    LET row(l, best) ==
            LET full_dist == InvDistanceAvx2(query[c], hashes[i + l])
            IN  IF l \in LaneMask(c) /\ full_dist < best.dist
                THEN [dist |-> full_dist, idx |-> i + l] ELSE best
        upTo[l \in 0 .. LANE_SIZE] == IF l = 0 THEN Best(c) ELSE row(l - 1, upTo[l - 1])
    IN  upTo[LANE_SIZE]

\* Mutant of Clamped: distances that do not fit a lane are accepted.
Unclamped == threshold

\* Every limit fits a lane, below the value lanes saturate at.
Clamped == IF threshold >= UINT16 - 1 THEN UINT16 - 2 ELSE threshold

\* min_dist starts at the threshold.
ThresholdAnswer(c) == IF min_idx[c] # -1 THEN Answer(c) ELSE [sq_dist |-> -1, idx |-> -1]

ShortInvAvx2Main ==
    /\ kind = "short-inv-avx2"
    /\ \/ Load(Aligned(Loaded), Transposed(Loaded), Clamped, Clamped)
       \/ ReadLine \/ Report
       \/ Scan(LANE_SIZE, [c \in Queries |-> ShortInvAvx2Lanes(c)])
       \/ PrintAnswers([c \in Queries |-> ThresholdAnswer(c)], threshold)

Next ==
    \/ NaiveMain \/ NaiveAvx2Main \/ BatchAvx2Main
    \/ ShortAvx2Main \/ ShortInvMain \/ ShortInvAvx2Main

Spec == Init /\ [][Next]_vars

-----------------------------------------------------------------------------
\* Types of the variables; loaded and read bytes are bytes.
TypeOK ==
    /\ pc \in {"load", "read", "scan", "report", "error", "sigfpe", "done"}
    /\ \A m \in DOMAIN hashes : hashes[m] \in [Array(DIM) -> Array(BYTES)]
    /\ pos \in 0 .. Len(stdin) /\ count = Len(out)
    /\ query \in [Queries -> [Array(DIM) -> Array(BYTES)]] /\ j \in 0 .. Batch
    /\ i \in 0 .. items
    /\ min_dist \in [Queries -> Array(UINT32)]
    /\ min_idx \in [Queries -> -1 .. items - 1]

\* The tests' distance.
TestDistance(a, b) == SumOver(DIM, [k \in Array(DIM) |-> (a[k] - b[k]) * (a[k] - b[k])])

\* The tests' cut: what is too far counts as not found.
FilterSolved(answer, max_distance) ==
    IF answer.sq_dist < max_distance THEN answer ELSE [sq_dist |-> -1, idx |-> -1]

\* Row m as the file has it: a byte that is no number, and all after it, are 0.
Row(m) ==
    [k \in Array(DIM) |->
        LET row == SubSeq(file, m * (DIM + 1) + 1, m * (DIM + 1) + k + 1)
        IN  IF \E q \in DOMAIN row : row[q] = NotHex THEN 0 ELSE row[k + 1]]

\* The first of the rows nearest to line k.
Nearest(k) ==
    LET dist(m) == TestDistance([b \in Array(DIM) |-> stdin[k][b + 1]], Row(m))
        idx == CHOOSE m \in Array(items) :
                  \A o \in Array(items) : dist(m) <= dist(o) /\ (dist(m) = dist(o) => m <= o)
    IN  [sq_dist |-> dist(idx), idx |-> idx]

\* Whatever is skipped on account of a prefix, a saturated lane or the mask of
\* an older minimum, every program prints what the tests expect of it: the
\* answer of an exhaustive search, cut by filtersolved.
MatchesTestVector ==
    /\ TypeOK
    /\ \A k \in DOMAIN out : out[k] = FilterSolved(Nearest(k), threshold)

IsLine(line) == Len(line) >= DIM /\ \A k \in 1 .. DIM : line[k] # NotHex

\* Every line is answered, in order, unless one is malformed: then exactly the
\* passes before the one it is in.  Only an empty input divides by zero.
EveryLineAnswered ==
    /\ pc = "done" => stdin # <<>> /\ Len(out) = Len(stdin)
    /\ pc = "sigfpe" => stdin = <<>>
    /\ pc = "error" /\ pos > 0 =>
          ~IsLine(stdin[pos]) /\ Len(out) = ((pos - 1) \div Batch) * Batch
    /\ \A k \in 1 .. pos : pc # "error" \/ k < pos => IsLine(stdin[k])
=============================================================================
