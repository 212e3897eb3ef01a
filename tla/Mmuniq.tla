------------------------------- MODULE Mmuniq -------------------------------
(***************************************************************************)
(* 2020-02-mmuniq/mmuniq.c: the streaming duplicate-line filter.           *)
(*                                                                         *)
(* One pass of main()'s loop reads a chunk of stdin behind the carried     *)
(* partial line, splits it into lines that are queued in c_lines as        *)
(* pointers into the read buffer, inserts the queued hashes in batches,    *)
(* writes the surviving lines, moves the new partial line to the front     *)
(* and doubles the hash table when it is too full.  The loops are modelled *)
(* one iteration per action; pc names the loop the program is in.          *)
(***************************************************************************)
EXTENDS HashTable, Integers, Sequences, FiniteSets

CONSTANTS
    Cells,        \* the characters of a line
    NL,           \* '\n'
    Zero,         \* the byte a fresh buffer holds
    HashOf(_),    \* find_nl_and_hash: the hash of a line's characters
    BUF_SZ, C_LINE_SZ,
    InitMask,     \* table size minus one after the loop at lines 322-326
    FillNum, FillDen,    \* fill_rate as a fraction
    Inputs        \* the stdin contents considered

ASSUME SizeAssumption ==
    /\ BUF_SZ \in Nat \ {0}
    /\ C_LINE_SZ \in Nat \ {0}
    /\ InitMask \in Nat
    /\ FillNum \in Nat /\ FillDen \in Nat \ {0}
ASSUME InputAssumption ==
    /\ NL \notin Cells /\ Zero \notin Cells \cup {NL}
    /\ Inputs \subseteq Seq(Cells \cup {NL})

Bytes == Cells \cup {NL, Zero}

\* Only what fits the read buffer is ever hashed.
ASSUME HashAssumption ==
    \A n \in 0 .. BUF_SZ : \A s \in [1 .. n -> Bytes] : HashOf(s) \in Hashes

VARIABLES
    pc,              \* "read", "scan", "flush", "write", "tail", "grow",
                     \* "rehash", "done" or "abort"
    global_repeated, \* -D
    input,           \* what stdin still holds
    buf, buf_pos, buf_sz, r,
    c_lines,         \* queued lines: start, length and hash
    c_i,             \* process_line's loop index
    force, ret,      \* process_line's argument and where it returns to
    out_buf, stdout, res,
    bm, size_mask, global_items, overflow_count,
    bm_new, j        \* the table being filled while resizing, and the loop index

\* Histories: the input as given, the characters whose lines were processed,
\* the processed hashes, the lines copied to out_buf, and the hashes that
\* a resize or an overflow dropped.
VARIABLES original, taken, processed, emitted, lost, swallowed

ioVars    == <<input, buf, buf_pos, buf_sz, r>>
queueVars == <<c_lines, c_i, force, ret>>
outVars   == <<out_buf, stdout, res>>
tabVars   == <<bm, size_mask, global_items, overflow_count>>
growVars  == <<bm_new, j>>
histVars  == <<original, taken, processed, emitted, lost, swallowed>>
vars == <<pc, global_repeated, ioVars, queueVars, outVars, tabVars, growVars, histVars>>

\* l characters of the buffer from index s.
Slice(b, s, l) == [i \in 1 .. l |-> b[s + i - 1]]

\* find_nl_and_hash finds the line that starts at from: its length is the
\* distance to the first '\n', or to the end when there is none.
LineLengths(b, from, to) ==
    {l \in 0 .. to - from : /\ l = to - from \/ b[from + l] = NL
                            /\ \A k \in 0 .. l - 1 : b[from + k] # NL}

\* What follows a line in the stream: a line of BUF_SZ bytes was cut there,
\* every shorter one ended with '\n'.
Terminator(l) == IF l = BUF_SZ THEN <<>> ELSE <<NL>>

fill_threshold == (FillNum * (size_mask + 1)) \div FillDen

Init ==
    /\ pc = "read"
    /\ global_repeated \in {0, 1}
    /\ original \in Inputs /\ input = original
    /\ buf = [i \in 0 .. BUF_SZ - 1 |-> Zero] /\ buf_pos = 0 /\ buf_sz = 0 /\ r = 0
    /\ c_lines = <<>> /\ c_i = 0 /\ force = 0 /\ ret = "scan"
    /\ out_buf = <<>> /\ stdout = <<>> /\ res = 0
    /\ size_mask = InitMask /\ bm = EmptyTable(InitMask)
    /\ global_items = 0 /\ overflow_count = 0
    /\ bm_new = bm /\ j = 0
    /\ taken = <<>> /\ processed = <<>> /\ emitted = <<>> /\ lost = {} /\ swallowed = {}

-----------------------------------------------------------------------------
(* Reading and splitting *)

\* Broken variant: the carried bytes are not deducted from the room offered.
ReadPastEnd == IF input = <<>> THEN {0} ELSE 1 .. Len(input)

\* read() may return any part of what is there, and 0 at the end of input or
\* when it is offered no room.
ReadSizes ==
    IF input = <<>> \/ buf_pos = BUF_SZ THEN {0}
    ELSE {n \in 1 .. Len(input) : n <= BUF_SZ - buf_pos}

Read ==
    /\ pc = "read"
    /\ \E n \in ReadSizes :
        /\ r' = n
        /\ buf' = [i \in DOMAIN buf |->
                     IF i \in buf_pos .. buf_pos + n - 1
                     THEN input[i - buf_pos + 1] ELSE buf[i]]
        /\ input' = SubSeq(input, n + 1, Len(input))
        /\ buf_sz' = buf_pos + n
    /\ buf_pos' = 0
    /\ pc' = "scan"
    /\ UNCHANGED <<global_repeated, queueVars, outVars, tabVars, growVars, histVars>>

ReadError ==
    /\ pc = "read"
    /\ pc' = "done"
    /\ UNCHANGED <<global_repeated, ioVars, queueVars, outVars, tabVars, growVars, histVars>>

\* process_line(s, l, h, 0): queue the line, start a batch when the queue is full.
ScanLine ==
    /\ pc = "scan"
    /\ \E l \in LineLengths(buf, buf_pos, buf_sz) :
        /\ l < buf_sz - buf_pos
        /\ c_lines' = Append(c_lines, [s |-> buf_pos, l |-> l,
                                       h |-> HashOf(Slice(buf, buf_pos, l))])
        /\ buf_pos' = buf_pos + l + 1
    /\ IF Len(c_lines) + 1 = C_LINE_SZ
       THEN pc' = "flush" /\ c_i' = 0 /\ force' = 0 /\ ret' = "scan"
       ELSE UNCHANGED <<pc, c_i, force, ret>>
    /\ UNCHANGED <<global_repeated, input, buf, buf_sz, r, outVars, tabVars, growVars, histVars>>

\* Broken variant: the queued lines are left for the next pass.
ScanEndUnflushed ==
    /\ pc = "scan"
    /\ buf_sz - buf_pos \in LineLengths(buf, buf_pos, buf_sz)
    /\ pc' = "tail"
    /\ UNCHANGED <<c_i, force, ret, c_lines, global_repeated, ioVars, outVars, tabVars,
                   growVars, histVars>>

\* process_line(NULL, 0, 0, 1)
ScanEnd ==
    /\ pc = "scan"
    /\ buf_sz - buf_pos \in LineLengths(buf, buf_pos, buf_sz)
    /\ pc' = "flush" /\ c_i' = 0 /\ force' = 1 /\ ret' = "tail"
    /\ UNCHANGED <<c_lines, global_repeated, ioVars, outVars, tabVars, growVars, histVars>>

-----------------------------------------------------------------------------
(* process_line's batch loop, process_flush and hash_insert *)

\* Broken variant: every non-zero result counts as an insertion.
WantedIfNonzero(miss) ==
    \/ global_repeated = 0 /\ miss # "present"
    \/ global_repeated = 1 /\ miss = "present"

Wanted(miss) ==
    \/ global_repeated = 0 /\ miss = "inserted"
    \/ global_repeated = 1 /\ miss = "present"

FlushLine ==
    /\ pc = "flush" /\ c_i < Len(c_lines)
    /\ LET c    == c_lines[c_i + 1]
           line == Slice(buf, c.s, c.l)
           miss == Miss(c.h, bm, size_mask)
       IN  /\ bm' = Inserted(c.h, bm, size_mask)
           /\ global_items' = IF miss = "inserted" THEN global_items + 1 ELSE global_items
           /\ overflow_count' = IF miss = "overflow" THEN overflow_count + 1
                                ELSE overflow_count
           /\ IF Wanted(miss)
              THEN /\ out_buf' = out_buf \o line \o <<NL>>
                   /\ emitted' = Append(emitted, [line |-> line, h |-> c.h])
                   /\ pc' = IF Len(out_buf') > BUF_SZ + 1 THEN "abort" ELSE pc
              ELSE UNCHANGED <<out_buf, emitted, pc>>
           /\ taken' = taken \o line \o Terminator(c.l)
           /\ processed' = Append(processed, c.h)
           /\ swallowed' = IF miss = "overflow" THEN swallowed \cup {c.h} ELSE swallowed
    /\ c_i' = c_i + 1
    /\ UNCHANGED <<global_repeated, ioVars, c_lines, force, ret, stdout, res, size_mask,
                   growVars, original, lost>>

FlushEnd ==
    /\ pc = "flush" /\ c_i = Len(c_lines)
    /\ c_lines' = <<>> /\ c_i' = 0
    /\ pc' = IF force = 1 /\ out_buf # <<>> THEN "write" ELSE ret
    /\ UNCHANGED <<global_repeated, ioVars, force, ret, outVars, tabVars, growVars, histVars>>

\* write() takes n > 0 of the bytes; the buffer is dropped whatever n is.
Write ==
    /\ pc = "write"
    /\ \E n \in 1 .. Len(out_buf) : stdout' = stdout \o SubSeq(out_buf, 1, n)
    /\ out_buf' = <<>>
    /\ pc' = ret
    /\ UNCHANGED <<global_repeated, res, ioVars, queueVars, tabVars, growVars, histVars>>

\* Broken pipe: -1 is or-ed into res and the output buffer is kept.
WriteError ==
    /\ pc = "write"
    /\ res' = -1
    /\ pc' = ret
    /\ UNCHANGED <<global_repeated, out_buf, stdout, ioVars, queueVars, tabVars, growVars,
                   histVars>>

-----------------------------------------------------------------------------
(* The rest of main()'s loop body *)

LoopTest == IF res = 0 THEN "read" ELSE "done"

\* Broken variant: the memmove copies a byte too few.
MovedShort == [i \in DOMAIN buf |-> IF i < buf_sz - buf_pos - 1 THEN buf[buf_pos + i] ELSE buf[i]]

\* memmove of the carried partial line: the bytes behind it stay as they were.
Moved == [i \in DOMAIN buf |-> IF i < buf_sz - buf_pos THEN buf[buf_pos + i] ELSE buf[i]]

\* Broken variant: the end of input is not noticed.
BufferFull == buf_sz - buf_pos = BUF_SZ

LineDue == buf_sz - buf_pos = BUF_SZ \/ r = 0

\* A full buffer without '\n', or the end of input, makes one line of all
\* BUF_SZ bytes, hashed by find_nl_and_hash and flushed at once.
Tail_ ==
    /\ pc = "tail"
    /\ buf' = Moved
    /\ IF LineDue
       THEN /\ \E l \in LineLengths(Moved, 0, BUF_SZ) :
                 c_lines' = <<[s |-> 0, l |-> BUF_SZ,
                               h |-> HashOf(Slice(Moved, 0, l))]>>
            /\ buf_pos' = 0 /\ buf_sz' = 0
            /\ pc' = "flush" /\ c_i' = 0 /\ force' = 1
            /\ ret' = IF r = 0 THEN "done" ELSE "grow"
       ELSE /\ buf_pos' = buf_sz - buf_pos
            /\ pc' = "grow"
            /\ UNCHANGED <<buf_sz, queueVars>>
    /\ UNCHANGED <<global_repeated, input, r, outVars, tabVars, growVars, histVars>>

NewMask == ((size_mask + 1) * 2) - 1

Crowded == global_items > fill_threshold

Grow ==
    /\ pc = "grow"
    /\ IF Crowded
       THEN bm_new' = EmptyTable(NewMask) /\ j' = 0 /\ pc' = "rehash"
       ELSE pc' = LoopTest /\ UNCHANGED growVars
    /\ UNCHANGED <<global_repeated, ioVars, queueVars, outVars, tabVars, histVars>>

\* for (j = 0; j < global_size_mask; j++)
Rehash ==
    /\ pc = "rehash" /\ j < size_mask
    /\ IF bm[j] = 0 THEN UNCHANGED <<bm_new, overflow_count>>
       ELSE /\ bm_new' = Inserted(bm[j], bm_new, NewMask)
            /\ overflow_count' = IF Miss(bm[j], bm_new, NewMask) = "overflow"
                                 THEN overflow_count + 1 ELSE overflow_count
    /\ j' = j + 1
    /\ UNCHANGED <<pc, global_repeated, ioVars, queueVars, outVars, bm, size_mask,
                   global_items, histVars>>

RehashEnd ==
    /\ pc = "rehash" /\ j >= size_mask
    /\ bm' = bm_new /\ size_mask' = NewMask
    /\ lost' = lost \cup (Stored(bm) \ Stored(bm_new))
    /\ pc' = LoopTest
    /\ UNCHANGED <<global_repeated, ioVars, queueVars, outVars, global_items, overflow_count,
                   growVars, original, taken, processed, emitted, swallowed>>

Terminated == pc \in {"done", "abort"} /\ UNCHANGED vars

Next ==
    \/ Read \/ ReadError \/ ScanLine \/ ScanEnd
    \/ FlushLine \/ FlushEnd \/ Write \/ WriteError
    \/ Tail_ \/ Grow \/ Rehash \/ RehashEnd
    \/ Terminated

\* One thread that never blocks for ever on a regular stdin and stdout.
Spec == Init /\ [][Next]_vars /\ WF_vars(Next)

-----------------------------------------------------------------------------
(* Properties *)

Positions == {"read", "scan", "flush", "write", "tail", "grow", "rehash", "done", "abort"}
QueuedLines ==
    {c \in [s : 0 .. BUF_SZ, l : 0 .. BUF_SZ, h : Hashes] : c.s + c.l <= BUF_SZ}

\* Every variable keeps its type: in particular the tables stay functions on
\* 0 .. mask through insertions and resizes (hash_insert, main).
TypeOK ==
    /\ pc \in Positions /\ ret \in {"scan", "tail", "grow", "done"}
    /\ global_repeated \in {0, 1} /\ force \in {0, 1}
    /\ input \in Seq(Cells \cup {NL})
    /\ buf \in [0 .. BUF_SZ - 1 -> Bytes]
    /\ buf_pos \in 0 .. BUF_SZ /\ buf_sz \in 0 .. BUF_SZ /\ r \in 0 .. BUF_SZ
    /\ buf_pos <= buf_sz
    /\ c_lines \in Seq(QueuedLines) /\ c_i \in Nat
    /\ out_buf \in Seq(Bytes) /\ stdout \in Seq(Bytes) /\ res \in {-1, 0}
    /\ size_mask \in Nat /\ bm \in Tables(size_mask)
    /\ global_items \in Nat /\ overflow_count \in Nat /\ j \in Nat
    /\ pc = "rehash" => bm_new \in Tables(NewMask)
    /\ emitted \in Seq([line : Seq(Bytes), h : Hashes]) /\ processed \in Seq(Hashes)

\* Linear probing never leaves a hash behind a free slot: hash_insert finds
\* every hash it stored, in the live table and in the one a resize is filling.
ProbeChains ==
    /\ ChainIntact(bm, size_mask)
    /\ pc = "rehash" => ChainIntact(bm_new, NewMask)

EmittedHashes == {emitted[n].h : n \in DOMAIN emitted}

\* Without -D the table is the memory of what was written: it holds nothing
\* else, and what it no longer holds a resize lost (or was the reserved 0).
TableRemembersOutput ==
    /\ pc = "rehash" => Stored(bm_new) \subseteq Stored(bm)
    /\ global_repeated = 0 =>
         /\ Stored(bm) \subseteq EmittedHashes
         /\ EmittedHashes \subseteq Stored(bm) \cup lost \cup {0}

\* Without -D a line is written twice only if its hash is the reserved 0 or
\* a resize lost it: batching, carrying, collisions and overflow never do it.
DuplicateOnlyAfterLoss ==
    global_repeated = 0 =>
        \A m, n \in DOMAIN emitted :
            m < n /\ emitted[m].h = emitted[n].h => emitted[m].h \in lost \cup {0}

\* Without -D no line disappears silently: its hash was written or the
\* overflow that swallowed it was counted (overflow_count is reported).
NoSilentSuppression ==
    /\ global_repeated = 0 =>
         \A n \in DOMAIN processed : processed[n] \in EmittedHashes \cup swallowed
    /\ swallowed # {} => overflow_count > 0

\* A batch is still what it was when its lines were hashed: every queued
\* pointer points at the line whose hash it carries, the queue is drained
\* before read or memmove touches the buffer, and one pass never produces more
\* than process_flush has room for, so that abort() is unreachable.
BatchSafe ==
    /\ pc # "abort"
    /\ pc \notin {"scan", "flush"} => c_lines = <<>>
    /\ \A n \in DOMAIN c_lines :
          LET c == c_lines[n]
          IN  IF c.l < BUF_SZ THEN c.h = HashOf(Slice(buf, c.s, c.l)) /\ buf[c.s + c.l] = NL
              ELSE \E l \in LineLengths(buf, 0, BUF_SZ) : c.h = HashOf(Slice(buf, 0, l))

\* The characters of the queued lines that are still to be flushed.
Pending ==
    LET chars[n \in 0 .. Len(c_lines)] ==
          IF n <= c_i THEN <<>>
          ELSE chars[n - 1] \o Slice(buf, c_lines[n].s, c_lines[n].l)
                            \o Terminator(c_lines[n].l)
    IN  chars[Len(c_lines)]

Unscanned == IF pc \in {"grow", "rehash", "read"} THEN Slice(buf, 0, buf_pos)
             ELSE Slice(buf, buf_pos, buf_sz - buf_pos)

\* Until the end of input no character is lost, invented, moved or read twice,
\* however read() cuts the stream: processed lines, queued lines, the carried
\* partial line and the unread input are the original stdin.
StreamIntegrity ==
    ret # "done" /\ pc # "done" =>
        taken \o Pending \o Unscanned \o input = original

\* The program reaches its end: read and scan loops always make progress.
Terminates == <>(pc \in {"done", "abort"})

\* The filter implements the lossy set it is meant to be.
Filter == INSTANCE UniqFilter WITH
              repeated <- (global_repeated = 1),
              seen     <- Stored(bm),
              written  <- [n \in DOMAIN emitted |-> emitted[n].h]
FilterSpec == Filter!Spec

-----------------------------------------------------------------------------
(* What the documentation says and the code does not keep *)

\* Usage text, lines 30-33: "Filters duplicate lines", "writes unique lines
\* to STDOUT", "The hash table will automatically resize if needed".  Said of
\* the lines of the input: the one that the end of input makes of what the
\* buffer still holds (lines 378-385) is left out.
WritesUniqueLines ==
    global_repeated = 0 /\ ret # "done" =>
        \A m, n \in DOMAIN emitted : m < n => emitted[m].line # emitted[n].line
=============================================================================
