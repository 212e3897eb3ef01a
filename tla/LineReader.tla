----------------------------- MODULE LineReader -----------------------------
(***************************************************************************)
(* The read loop that 2020-02-mmuniq/mmuniq-hash.c and mmuniq-bloom.c      *)
(* share: read a chunk behind the carried partial line, hand out every     *)
(* line that ends in the buffer, move the rest to the front, and hand out  *)
(* a full buffer without '\n' as one line.  What is done with a line is up *)
(* to the module that extends this one.                                    *)
(***************************************************************************)
EXTENDS Naturals, Sequences

CONSTANTS Cells, NL, Zero, BUF_SZ, Inputs

Bytes == Cells \cup {NL, Zero}

\* What a line can be.
Texts == UNION {[1 .. n -> Bytes] : n \in 0 .. BUF_SZ}

ASSUME ReaderAssumption == BUF_SZ \in Nat \ {0} /\ Inputs \subseteq Seq(Cells \cup {NL})

VARIABLES
    pc,        \* "read", "scan" or "done"
    input,     \* what stdin still holds
    buf, buf_pos, buf_sz,
    original,  \* stdin as given
    lines      \* the lines handed out, in order

readerVars == <<pc, input, buf, buf_pos, buf_sz, original, lines>>

InitReader ==
    /\ pc = "read"
    /\ original \in Inputs /\ input = original
    /\ buf = [i \in 0 .. BUF_SZ - 1 |-> Zero] /\ buf_pos = 0 /\ buf_sz = 0
    /\ lines = <<>>

Slice(b, s, l) == [i \in 1 .. l |-> b[s + i - 1]]

\* Offsets of the first '\n' between from and to: none or one.
FirstNL(b, from, to) ==
    {k \in from .. to - 1 : b[k] = NL /\ \A i \in from .. k - 1 : b[i] # NL}

Room == BUF_SZ - buf_pos

\* read(0, &buf[buf_pos], BUF_SZ - buf_pos): some bytes, or none at the end of
\* input and on an error.
Read ==
    /\ pc = "read"
    /\ \/ \E n \in 1 .. Len(input) :
            /\ n <= Room
            /\ buf' = [i \in DOMAIN buf |->
                         IF i \in buf_pos .. buf_pos + n - 1
                         THEN input[i - buf_pos + 1] ELSE buf[i]]
            /\ buf_sz' = buf_pos + n /\ buf_pos' = 0
            /\ input' = SubSeq(input, n + 1, Len(input))
            /\ pc' = "scan"
       \/ pc' = "done" /\ UNCHANGED <<input, buf, buf_pos, buf_sz>>
    /\ UNCHANGED <<original, lines>>

\* process_line(&buf[buf_pos], sz, bm)
NextLine ==
    /\ pc = "scan"
    /\ \E k \in FirstNL(buf, buf_pos, buf_sz) :
        /\ lines' = Append(lines, Slice(buf, buf_pos, k - buf_pos))
        /\ buf_pos' = k + 1
    /\ UNCHANGED <<pc, input, buf, buf_sz, original>>

\* Broken variant: the carried bytes are not moved.
NotMoved == buf

Moved == [i \in DOMAIN buf |-> IF i < buf_sz - buf_pos THEN buf[buf_pos + i] ELSE buf[i]]

\* memmove of the rest; the buffer is not full.
KeepPartial ==
    /\ pc = "scan" /\ FirstNL(buf, buf_pos, buf_sz) = {}
    /\ buf_sz - buf_pos < BUF_SZ
    /\ buf' = Moved
    /\ buf_pos' = buf_sz - buf_pos
    /\ pc' = "read"
    /\ UNCHANGED <<input, buf_sz, original, lines>>

\* process_line(&buf[0], BUF_SZ, bm): no '\n' in sight.
FullLine ==
    /\ pc = "scan" /\ FirstNL(buf, buf_pos, buf_sz) = {}
    /\ buf_sz - buf_pos = BUF_SZ
    /\ buf' = Moved
    /\ lines' = Append(lines, Slice(Moved, 0, BUF_SZ))
    /\ buf_pos' = 0
    /\ pc' = "read"
    /\ UNCHANGED <<input, buf_sz, original>>

Quiet == Read \/ KeepPartial
Line  == NextLine \/ FullLine

-----------------------------------------------------------------------------
ReaderTypeOK ==
    /\ pc \in {"read", "scan", "done"}
    /\ input \in Seq(Bytes) /\ original \in Seq(Bytes)
    /\ buf \in [0 .. BUF_SZ - 1 -> Bytes]
    /\ buf_pos \in 0 .. BUF_SZ /\ buf_sz \in 0 .. BUF_SZ
    /\ lines \in Seq(Seq(Bytes))

\* The lines handed out as they stood in the stream: a line of BUF_SZ bytes
\* was cut there, every shorter one ended with '\n'.
Joined ==
    LET text[n \in 0 .. Len(lines)] ==
          IF n = 0 THEN <<>>
          ELSE text[n - 1] \o lines[n]
                 \o (IF Len(lines[n]) = BUF_SZ THEN <<>> ELSE <<NL>>)
    IN  text[Len(lines)]

Carried == IF pc = "scan" THEN Slice(buf, buf_pos, buf_sz - buf_pos)
           ELSE Slice(buf, 0, buf_pos)

\* No character is lost, invented or handed out twice however read() cuts the
\* stream; what is left at the end of input is a last line without '\n'.
LinesOfStream ==
    /\ Joined \o Carried \o input = original
    /\ pc # "scan" => \A i \in DOMAIN Carried : Carried[i] # NL
=============================================================================
