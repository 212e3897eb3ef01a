---------------------------- MODULE MmuniqProofs ----------------------------
(***************************************************************************)
(* Theorems about mmuniq.c for every hash width, probe limit, buffer and   *)
(* queue size, fill rate, hash function and input.                         *)
(***************************************************************************)
EXTENDS Mmuniq, FiniteSetTheorems, SequenceTheorems, WellFoundedInduction, TLAPS

(***************************************************************************)
(* hash_insert is a correct set insertion for every table size, hash width *)
(* and probe limit, as long as no stored hash is cut off from its home     *)
(* slot (ChainIntact), and it keeps that condition.                        *)
(***************************************************************************)

\* A slot index never leaves the array (line 107: tab[i & size_mask]).
LEMMA SlotInTable ==
    ASSUME NEW mask \in Nat, NEW i \in Nat
    PROVE  SlotOf(i, mask) \in 0 .. mask
BY DEF SlotOf

\* The probe loop breaks at one place only.
LEMMA StopUnique ==
    ASSUME NEW h \in Hashes, NEW mask \in Nat, NEW tab, NEW i, NEW k,
           StopsAt(h, tab, mask, i), StopsAt(h, tab, mask, k)
    PROVE  i = k
<1>1. i \in Nat /\ k \in Nat
  BY HashModAssumption DEF StopsAt, Probes, Hashes
<1>2. ~(i < k) /\ ~(k < i)
  BY DEF StopsAt
<1> QED BY <1>1, <1>2

\* What an insertion that took a free slot did to the table (lines 108-111).
LEMMA InsertedAt ==
    ASSUME NEW h \in Hashes, NEW mask \in Nat, NEW tab \in Tables(mask),
           Miss(h, tab, mask) = "inserted"
    PROVE  \E i \in Probes(h) :
              /\ StopsAt(h, tab, mask, i)
              /\ tab[SlotOf(i, mask)] = 0
              /\ SlotOf(i, mask) \in 0 .. mask
              /\ Inserted(h, tab, mask) = [tab EXCEPT ![SlotOf(i, mask)] = h]
<1>1. ~Overflows(h, tab, mask)
  BY DEF Miss
<1> DEFINE i == CHOOSE i \in Probes(h) : StopsAt(h, tab, mask, i)
<1>2. i \in Probes(h) /\ StopsAt(h, tab, mask, i)
  BY <1>1 DEF Overflows
<1>3. tab[SlotOf(i, mask)] = 0
  BY <1>1 DEF Miss
<1>4. i \in Nat
  BY <1>2, HashModAssumption DEF Probes, Hashes
<1>5. Inserted(h, tab, mask) = [tab EXCEPT ![SlotOf(i, mask)] = h]
  BY DEF Inserted
<1>6. SlotOf(i, mask) \in 0 .. mask
  BY <1>4, SlotInTable
<1> HIDE DEF i
<1> QED BY <1>2, <1>3, <1>5, <1>6

\* hash_insert answers with one of its three results.
LEMMA MissCases ==
    ASSUME NEW h \in Hashes, NEW mask \in Nat, NEW tab \in Tables(mask)
    PROVE  Miss(h, tab, mask) \in {"inserted", "present", "overflow"}
BY DEF Miss

\* The table stays an array of hashes of the same size.
LEMMA InsertedType ==
    ASSUME NEW h \in Hashes, NEW mask \in Nat, NEW tab \in Tables(mask)
    PROVE  Inserted(h, tab, mask) \in Tables(mask)
<1>1. CASE Miss(h, tab, mask) = "inserted"
  BY <1>1, InsertedAt DEF Tables
<1>2. CASE Miss(h, tab, mask) # "inserted"
  BY <1>2 DEF Inserted
<1> QED BY <1>1, <1>2

\* A fresh mapping has no broken chain.
LEMMA EmptyChain ==
    ASSUME NEW mask \in Nat
    PROVE  /\ EmptyTable(mask) \in Tables(mask)
           /\ ChainIntact(EmptyTable(mask), mask)
           /\ Stored(EmptyTable(mask)) = {}
BY HashModAssumption DEF EmptyTable, Tables, Hashes, ChainIntact, Stored

\* Insertion keeps every stored hash reachable: only free slots are taken,
\* and a free slot lies on no other hash's path.
THEOREM InsertKeepsChains ==
    ASSUME NEW h \in Hashes, NEW mask \in Nat, NEW tab \in Tables(mask),
           ChainIntact(tab, mask)
    PROVE  ChainIntact(Inserted(h, tab, mask), mask)
<1>1. CASE Miss(h, tab, mask) # "inserted"
  BY <1>1 DEF Inserted
<1>2. CASE Miss(h, tab, mask) = "inserted"
  <2> DEFINE new == Inserted(h, tab, mask)
  <2>1. PICK i \in Probes(h) :
              /\ StopsAt(h, tab, mask, i)
              /\ tab[SlotOf(i, mask)] = 0
              /\ SlotOf(i, mask) \in 0 .. mask
              /\ new = [tab EXCEPT ![SlotOf(i, mask)] = h]
    BY <1>2, InsertedAt
  <2> DEFINE t == SlotOf(i, mask)
  <2>2. /\ new[t] = h
        /\ \A s \in 0 .. mask : s # t => new[s] = tab[s]
    BY <2>1 DEF Tables
  \* A path of the old table avoids t, so it reads the same in the new one.
  <2>3. ASSUME NEW g \in Hashes, NEW k \in Probes(g), StopsAt(g, tab, mask, k)
        PROVE  \A m \in Probes(g) : m < k => new[SlotOf(m, mask)] \notin {0, g}
    <3> SUFFICES ASSUME NEW m \in Probes(g), m < k
                 PROVE  new[SlotOf(m, mask)] \notin {0, g}
      OBVIOUS
    <3>1. tab[SlotOf(m, mask)] \notin {0, g}
      BY <2>3 DEF StopsAt
    <3>2. SlotOf(m, mask) # t
      BY <3>1, <2>1
    <3>3. SlotOf(m, mask) \in 0 .. mask
      BY SlotInTable, HashModAssumption DEF Probes, Hashes
    <3> QED BY <3>1, <3>2, <3>3, <2>2
  <2>4. SUFFICES ASSUME NEW s \in 0 .. mask, new[s] # 0
                 PROVE  \E k \in Probes(new[s]) : /\ SlotOf(k, mask) = s
                                                  /\ StopsAt(new[s], new, mask, k)
    BY DEF ChainIntact
  <2>5. CASE s = t
    <3>1. \A m \in Probes(h) : m < i => new[SlotOf(m, mask)] \notin {0, h}
      BY <2>1, <2>3
    <3>2. StopsAt(h, new, mask, i)
      BY <2>1, <2>2, <3>1 DEF StopsAt
    <3> QED BY <2>5, <2>2, <3>2
  <2>6. CASE s # t
    <3>1. new[s] = tab[s] /\ tab[s] \in Hashes
      BY <2>6, <2>2 DEF Tables
    <3>2. PICK k \in Probes(tab[s]) : SlotOf(k, mask) = s /\ StopsAt(tab[s], tab, mask, k)
      BY <3>1, <2>4 DEF ChainIntact
    <3>3. StopsAt(tab[s], new, mask, k)
      BY <3>1, <3>2, <2>3 DEF StopsAt
    <3> QED BY <3>1, <3>2, <3>3
  <2> QED BY <2>5, <2>6
<1> QED BY <1>1, <1>2

\* hash_insert answers "inserted" only for a hash the table does not hold and
\* "present" only for one it does hold (or for the reserved 0, never stored).
THEOREM InsertAnswersTruly ==
    ASSUME NEW h \in Hashes, NEW mask \in Nat, NEW tab \in Tables(mask),
           ChainIntact(tab, mask)
    PROVE  /\ Miss(h, tab, mask) = "inserted" => h \notin Stored(tab)
           /\ Miss(h, tab, mask) = "present" => h \in Stored(tab)
<1>1. ASSUME Miss(h, tab, mask) = "inserted", h \in Stored(tab)
      PROVE  FALSE
  <2>1. PICK i \in Probes(h) : StopsAt(h, tab, mask, i) /\ tab[SlotOf(i, mask)] = 0
    BY <1>1, InsertedAt
  <2>2. PICK s \in 0 .. mask : tab[s] = h /\ h # 0
    BY <1>1 DEF Stored, Tables
  <2>3. PICK k \in Probes(h) : SlotOf(k, mask) = s /\ StopsAt(h, tab, mask, k)
    BY <2>2 DEF ChainIntact
  <2>4. i = k
    BY <2>1, <2>3, StopUnique
  <2> QED BY <2>1, <2>2, <2>3, <2>4
<1>2. ASSUME Miss(h, tab, mask) = "present"
      PROVE  h \in Stored(tab)
  <2> DEFINE i == CHOOSE i \in Probes(h) : StopsAt(h, tab, mask, i)
  <2>1. ~Overflows(h, tab, mask)
    BY <1>2 DEF Miss
  <2>2. i \in Probes(h) /\ StopsAt(h, tab, mask, i)
    BY <2>1 DEF Overflows
  <2>3. tab[SlotOf(i, mask)] # 0
    BY <1>2, <2>1 DEF Miss
  <2> HIDE DEF i
  <2>4. tab[SlotOf(i, mask)] = h
    BY <2>2, <2>3 DEF StopsAt
  <2>5. SlotOf(i, mask) \in DOMAIN tab
    BY <2>2, SlotInTable, HashModAssumption DEF Probes, Hashes, Tables
  <2> QED BY <2>3, <2>4, <2>5 DEF Stored
<1> QED BY <1>1, <1>2

\* The stored set gains exactly the inserted hash.
THEOREM InsertStores ==
    ASSUME NEW h \in Hashes, NEW mask \in Nat, NEW tab \in Tables(mask)
    PROVE  Stored(Inserted(h, tab, mask)) =
               IF Miss(h, tab, mask) = "inserted" THEN Stored(tab) \cup ({h} \ {0})
               ELSE Stored(tab)
<1>1. CASE Miss(h, tab, mask) # "inserted"
  BY <1>1 DEF Inserted
<1>2. CASE Miss(h, tab, mask) = "inserted"
  <2>1. PICK t \in 0 .. mask : tab[t] = 0 /\ Inserted(h, tab, mask) = [tab EXCEPT ![t] = h]
    BY <1>2, InsertedAt
  <2>2. DOMAIN tab = 0 .. mask
    BY DEF Tables
  <2> QED BY <1>2, <2>1, <2>2 DEF Stored
<1> QED BY <1>1, <1>2

(***************************************************************************)
(* The program: its buffers, its queue and what its table remembers.       *)
(***************************************************************************)

\* A part of a sequence has the elements of the sequence.
LEMMA SubSeqType ==
    ASSUME NEW S, NEW s \in Seq(S), NEW m \in Nat \ {0}, NEW n \in Nat, n <= Len(s)
    PROVE  SubSeq(s, m, n) \in Seq(S)
<1>1. \A i \in m .. n : s[i] \in S
  OBVIOUS
<1> QED BY <1>1, SubSeqProperties

\* What buf may hold.
Buffers == [0 .. BUF_SZ - 1 -> Bytes]

\* A slice of the buffer is as many bytes as were asked for.
LEMMA SliceFunction ==
    ASSUME NEW b \in Buffers, NEW s \in Nat, NEW l \in Nat, s + l <= BUF_SZ
    PROVE  Slice(b, s, l) \in [1 .. l -> Bytes]
<1>1. \A i \in 1 .. l : s + i - 1 \in 0 .. BUF_SZ - 1
  BY SizeAssumption
<1> QED BY <1>1 DEF Slice, Buffers

\* A slice of the buffer is a string of bytes.
LEMMA SliceType ==
    ASSUME NEW b \in Buffers, NEW s \in Nat, NEW l \in Nat, s + l <= BUF_SZ
    PROVE  Slice(b, s, l) \in Seq(Bytes) /\ Len(Slice(b, s, l)) = l
<1>1. Slice(b, s, l) \in [1 .. l -> Bytes]
  BY SliceFunction
<1>2. Slice(b, s, l) \in Seq(Bytes)
  BY <1>1, IsASeq
<1>3. Len(Slice(b, s, l)) = l
  BY <1>2, LenProperties DEF Slice
<1> QED BY <1>2, <1>3

\* Whatever line find_nl_and_hash finds inside the buffer has a hash.
LEMMA LineType ==
    ASSUME NEW b \in Buffers, NEW from \in Nat, NEW to \in Nat,
           from <= to, to <= BUF_SZ, NEW l \in LineLengths(b, from, to)
    PROVE  l \in Nat /\ from + l <= to /\ HashOf(Slice(b, from, l)) \in Hashes
<1>1. l \in Nat /\ from + l <= to /\ from + l <= BUF_SZ
  BY SizeAssumption DEF LineLengths
<1>2. Slice(b, from, l) \in [1 .. l -> Bytes]
  BY <1>1, SliceFunction
<1>3. l \in 0 .. BUF_SZ
  BY <1>1, SizeAssumption
<1> QED BY <1>1, <1>2, <1>3, HashAssumption

\* Doubling a table keeps a legal mask.
LEMMA NewMaskType == ASSUME size_mask \in Nat PROVE NewMask \in Nat
BY DEF NewMask


\* The program starts in a typed state.
LEMMA InitType == Init => TypeOK
<1> SUFFICES ASSUME Init PROVE TypeOK
  OBVIOUS
<1> USE SizeAssumption
<1>1. input \in Seq(Cells \cup {NL})
  BY InputAssumption DEF Init
<1>2. buf \in Buffers
  BY DEF Init, Bytes
<1>3. size_mask \in Nat /\ bm \in Tables(size_mask)
  BY EmptyChain DEF Init
<1>4. /\ c_lines \in Seq(QueuedLines) /\ out_buf \in Seq(Bytes) /\ stdout \in Seq(Bytes)
      /\ emitted \in Seq([line : Seq(Bytes), h : Hashes]) /\ processed \in Seq(Hashes)
  BY DEF Init
<1> QED BY <1>1, <1>2, <1>3, <1>4 DEF Init, TypeOK, Positions, Buffers

LEMMA ReadType == TypeOK /\ Read => TypeOK'
<1> SUFFICES ASSUME TypeOK, Read PROVE TypeOK'
  OBVIOUS
<1> USE SizeAssumption DEF TypeOK, ioVars, queueVars, outVars, tabVars, growVars, histVars
<1>1. PICK n \in ReadSizes :
        /\ r' = n
        /\ buf' = [i \in DOMAIN buf |->
                     IF i \in buf_pos .. buf_pos + n - 1
                     THEN input[i - buf_pos + 1] ELSE buf[i]]
        /\ input' = SubSeq(input, n + 1, Len(input))
        /\ buf_sz' = buf_pos + n
  BY DEF Read
<1>2. n \in Nat /\ n <= Len(input) /\ n <= BUF_SZ - buf_pos /\ Len(input) \in Nat
  BY DEF ReadSizes
<1>3. \A i \in 1 .. n : input[i] \in Bytes
  BY <1>2 DEF Bytes
<1>4. buf' \in Buffers
  BY <1>1, <1>2, <1>3 DEF Buffers
<1>5. input' \in Seq(Cells \cup {NL})
  <2>1. input \in Seq(Cells \cup {NL}) /\ n + 1 \in Nat /\ input' = SubSeq(input, n + 1, Len(input))
    BY <1>1, <1>2
  <2> QED BY ONLY <2>1, <1>2, SubSeqType
<1> QED BY <1>1, <1>2, <1>4, <1>5 DEF Read, Positions, NewMask, Buffers

LEMMA ScanLineType == TypeOK /\ ScanLine => TypeOK'
<1> SUFFICES ASSUME TypeOK, ScanLine PROVE TypeOK'
  OBVIOUS
<1> USE SizeAssumption DEF TypeOK, outVars, tabVars, growVars, histVars
<1>1. PICK l \in LineLengths(buf, buf_pos, buf_sz) :
        /\ l < buf_sz - buf_pos
        /\ c_lines' = Append(c_lines, [s |-> buf_pos, l |-> l,
                                       h |-> HashOf(Slice(buf, buf_pos, l))])
        /\ buf_pos' = buf_pos + l + 1
  BY DEF ScanLine
<1>2. l \in Nat /\ buf_pos + l <= buf_sz /\ HashOf(Slice(buf, buf_pos, l)) \in Hashes
  <2>1. /\ buf \in Buffers
        /\ buf_pos \in Nat /\ buf_sz \in Nat /\ buf_pos <= buf_sz /\ buf_sz <= BUF_SZ
    BY DEF Buffers
  <2> QED BY ONLY <2>1, LineType, l \in LineLengths(buf, buf_pos, buf_sz)
<1>3. c_lines' \in Seq(QueuedLines)
  BY <1>1, <1>2 DEF QueuedLines
<1>4. buf_pos' \in 0 .. BUF_SZ /\ buf_pos' <= buf_sz
  BY <1>1, <1>2
<1>5. /\ pc' \in {"scan", "flush"} /\ c_i' \in Nat /\ force' \in {0, 1}
      /\ ret' \in {"scan", "tail", "grow", "done"}
  BY SMTT(30) DEF ScanLine
<1> QED BY <1>3, <1>4, <1>5 DEF ScanLine, Positions

LEMMA FlushLineType == TypeOK /\ FlushLine => TypeOK'
<1> SUFFICES ASSUME TypeOK, FlushLine PROVE TypeOK'
  OBVIOUS
<1> USE SizeAssumption DEF TypeOK, ioVars, growVars
<1> DEFINE c == c_lines[c_i + 1]
           line == Slice(buf, c.s, c.l)
<1>1. c \in QueuedLines
  BY DEF FlushLine
<1>2. c.s \in Nat /\ c.l \in Nat /\ c.s + c.l <= BUF_SZ /\ c.h \in Hashes
  BY ONLY <1>1, SizeAssumption DEF QueuedLines, Positions
<1>3. line \in Seq(Bytes)
  <2>1. buf \in Buffers
    BY DEF Buffers
  <2> QED BY ONLY <1>2, <2>1, SliceType DEF line
<1> HIDE DEF line
<1>4. bm' \in Tables(size_mask)
  BY <1>2, InsertedType DEF FlushLine
<1>5. out_buf' \in Seq(Bytes)
  <2>1. <<NL>> \in Seq(Bytes)
    BY DEF Bytes
  <2>2. out_buf \o line \o <<NL>> \in Seq(Bytes)
    BY <1>3, <2>1
  <2>3. out_buf' = out_buf \o line \o <<NL>> \/ out_buf' = out_buf
    BY DEF FlushLine, line
  <2> QED BY <2>2, <2>3
<1>6. emitted' \in Seq([line : Seq(Bytes), h : Hashes])
  <2>1. \/ emitted' = Append(emitted, [line |-> line, h |-> c.h])
        \/ emitted' = emitted
    BY DEF FlushLine, line
  <2> DEFINE R == [line : Seq(Bytes), h : Hashes]
             e == [line |-> line, h |-> c.h]
  <2>2. e \in R
    BY <1>2, <1>3
  <2>3. emitted \in Seq(R)
    OBVIOUS
  <2>4. emitted' = Append(emitted, e) \/ emitted' = emitted
    BY <2>1
  <2> HIDE DEF e, R
  <2>5. emitted' \in Seq(R)
    BY ONLY <2>2, <2>3, <2>4
  <2> QED BY <2>5 DEF R
<1>7. processed' \in Seq(Hashes)
  BY <1>2 DEF FlushLine
<1>8. global_items' \in Nat /\ overflow_count' \in Nat /\ c_i' \in Nat
  BY DEF FlushLine
<1>9. pc' \in Positions /\ pc' # "rehash"
  BY DEF FlushLine, Positions
<1> QED BY <1>4, <1>5, <1>6, <1>7, <1>8, <1>9 DEF FlushLine

LEMMA TailType == TypeOK /\ Tail_ => TypeOK'
<1> SUFFICES ASSUME TypeOK, Tail_ PROVE TypeOK'
  OBVIOUS
<1> USE SizeAssumption DEF TypeOK, queueVars, outVars, tabVars, growVars, histVars
<1>1. Moved \in Buffers
  BY DEF Moved, Buffers
<1>2. buf' \in Buffers
  BY <1>1 DEF Tail_
<1>3. c_lines' \in Seq(QueuedLines)
  <2>1. CASE LineDue
    <3>1. PICK l \in LineLengths(Moved, 0, BUF_SZ) :
              c_lines' = <<[s |-> 0, l |-> BUF_SZ,
                            h |-> HashOf(Slice(Moved, 0, l))]>>
      BY <2>1 DEF Tail_
    <3>2. 0 \in Nat /\ BUF_SZ \in Nat /\ 0 <= BUF_SZ /\ BUF_SZ <= BUF_SZ
      OBVIOUS
    <3>3. HashOf(Slice(Moved, 0, l)) \in Hashes
      BY ONLY <1>1, <3>2, LineType, l \in LineLengths(Moved, 0, BUF_SZ)
    <3> QED BY <3>1, <3>3 DEF QueuedLines
  <2>2. CASE ~LineDue
    BY <2>2 DEF Tail_
  <2> QED BY <2>1, <2>2
<1>4. /\ buf_pos' \in 0 .. BUF_SZ /\ buf_sz' \in 0 .. BUF_SZ /\ buf_pos' <= buf_sz'
      /\ pc' \in {"flush", "grow"} /\ ret' \in {"scan", "tail", "grow", "done"}
      /\ force' \in {0, 1} /\ c_i' \in Nat
  BY SMTT(30) DEF Tail_
<1> QED BY <1>2, <1>3, <1>4 DEF Tail_, Positions, Buffers

LEMMA RehashType == TypeOK /\ (Grow \/ Rehash \/ RehashEnd) => TypeOK'
<1> USE SizeAssumption DEF TypeOK, ioVars, queueVars, outVars, tabVars, growVars, histVars
<1>1. ASSUME TypeOK, Grow PROVE TypeOK'
  <2>1. NewMask' = NewMask /\ NewMask \in Nat
    BY <1>1 DEF Grow, NewMask
  <2>2. pc' = "rehash" => bm_new' \in Tables(NewMask)
    BY <1>1, <2>1, EmptyChain DEF Grow, LoopTest
  <2> QED BY <1>1, <2>1, <2>2 DEF Grow, LoopTest, Positions
<1>2. ASSUME TypeOK, Rehash PROVE TypeOK'
  <2>1. NewMask' = NewMask /\ NewMask \in Nat
    BY <1>2 DEF Rehash, NewMask
  <2>2. bm[j] \in Hashes
    BY <1>2 DEF Rehash, Tables
  <2>3. bm_new' \in Tables(NewMask)
    BY <1>2, <2>1, <2>2, InsertedType DEF Rehash
  <2> QED BY <1>2, <2>1, <2>3 DEF Rehash, Positions
<1>3. ASSUME TypeOK, RehashEnd PROVE TypeOK'
  <2>1. size_mask' \in Nat /\ bm' \in Tables(size_mask')
    BY <1>3 DEF RehashEnd, NewMask
  <2> QED BY <1>3, <2>1 DEF RehashEnd, LoopTest, Positions
<1> QED BY <1>1, <1>2, <1>3

LEMMA OtherType ==
    TypeOK /\ (ReadError \/ ScanEnd \/ FlushEnd \/ Write \/ WriteError \/ Terminated
               \/ UNCHANGED vars) => TypeOK'
<1> USE SizeAssumption DEF TypeOK, ioVars, queueVars, outVars, tabVars, growVars, histVars,
                           Positions, NewMask
<1>1. ASSUME TypeOK, ReadError PROVE TypeOK'
  BY <1>1 DEF ReadError
<1>2. ASSUME TypeOK, ScanEnd PROVE TypeOK'
  BY <1>2 DEF ScanEnd
<1>3. ASSUME TypeOK, FlushEnd PROVE TypeOK'
  BY <1>3 DEF FlushEnd
<1>4. ASSUME TypeOK, Write PROVE TypeOK'
  <2>1. PICK n \in 1 .. Len(out_buf) : stdout' = stdout \o SubSeq(out_buf, 1, n)
    BY <1>4 DEF Write
  <2>2. SubSeq(out_buf, 1, n) \in Seq(Bytes)
    <3>1. out_buf \in Seq(Bytes)
      BY <1>4
    <3> QED BY ONLY <3>1, SubSeqType
  <2>3. stdout' \in Seq(Bytes)
    BY <1>4, <2>1, <2>2, ConcatProperties
  <2> QED BY <1>4, <2>3 DEF Write
<1>5. ASSUME TypeOK, WriteError PROVE TypeOK'
  BY <1>5 DEF WriteError
<1>6. ASSUME TypeOK, UNCHANGED vars PROVE TypeOK'
  BY <1>6 DEF vars
<1> QED BY <1>1, <1>2, <1>3, <1>4, <1>5, <1>6 DEF Terminated

\* Every reachable state is well typed: indices stay inside the buffer, both
\* tables stay arrays of hashes, queued lines stay inside the read buffer.
THEOREM TypeCorrect == Spec => []TypeOK
<1>1. TypeOK /\ [Next]_vars => TypeOK'
  BY ReadType, ScanLineType, FlushLineType, TailType, RehashType, OtherType DEF Next
<1> QED BY InitType, <1>1, PTL DEF Spec

-----------------------------------------------------------------------------
\* Steps that touch neither table.
TablesKept ==
    /\ UNCHANGED <<bm, size_mask, global_repeated>>
    /\ UNCHANGED <<processed, emitted, lost, swallowed, overflow_count>>
    /\ pc' # "rehash"

LEMMA QuietSteps ==
    /\ TypeOK
    /\ Read \/ ReadError \/ ScanLine \/ ScanEnd \/ FlushEnd \/ Write \/ WriteError \/ Tail_
    => TablesKept
<1> USE DEF tabVars, histVars, TablesKept, TypeOK
<1>1. TypeOK /\ (Read \/ ReadError \/ ScanLine \/ ScanEnd) => TablesKept
  BY DEF Read, ReadError, ScanLine, ScanEnd
<1>2. TypeOK /\ (FlushEnd \/ Write \/ WriteError \/ Tail_) => TablesKept
  BY DEF FlushEnd, Write, WriteError, Tail_
<1> QED BY <1>1, <1>2

\* The three results of hash_insert for the line being flushed, and what each
\* does to the table and to the output.
FlushEffect(h) ==
    LET miss == Miss(h, bm, size_mask)
    IN  /\ miss \in {"inserted", "present", "overflow"}
        /\ bm' = Inserted(h, bm, size_mask)
        /\ Stored(bm') = IF miss = "inserted" THEN Stored(bm) \cup ({h} \ {0})
                         ELSE Stored(bm)
        /\ miss = "inserted" => h \notin Stored(bm)
        /\ miss = "present" => h \in Stored(bm)
        /\ processed' = Append(processed, h)
        /\ swallowed' = IF miss = "overflow" THEN swallowed \cup {h} ELSE swallowed
        /\ overflow_count' = IF miss = "overflow" THEN overflow_count + 1
                             ELSE overflow_count
        /\ \/ Wanted(miss) /\ \E line : emitted' = Append(emitted, [line |-> line, h |-> h])
           \/ ~Wanted(miss) /\ emitted' = emitted
        /\ UNCHANGED <<size_mask, global_repeated, lost>>
        /\ pc' # "rehash"

LEMMA FlushStep ==
    ASSUME TypeOK, ProbeChains, FlushLine
    PROVE  \E h \in Hashes : FlushEffect(h)
<1> DEFINE h == c_lines[c_i + 1].h
<1>1. h \in Hashes
  <2>1. c_lines[c_i + 1] \in QueuedLines
    BY DEF FlushLine, TypeOK
  <2> QED BY <2>1 DEF QueuedLines
<1>2. size_mask \in Nat /\ bm \in Tables(size_mask) /\ ChainIntact(bm, size_mask)
  BY DEF TypeOK, ProbeChains
<1>3. Miss(h, bm, size_mask) \in {"inserted", "present", "overflow"}
  BY ONLY <1>1, <1>2, MissCases
<1>4. /\ Miss(h, bm, size_mask) = "inserted" => h \notin Stored(bm)
      /\ Miss(h, bm, size_mask) = "present" => h \in Stored(bm)
  BY ONLY <1>1, <1>2, InsertAnswersTruly
<1>5. bm' = Inserted(h, bm, size_mask)
  BY DEF FlushLine
<1>6. Stored(bm') = IF Miss(h, bm, size_mask) = "inserted" THEN Stored(bm) \cup ({h} \ {0})
                    ELSE Stored(bm)
  BY ONLY <1>1, <1>2, <1>5, InsertStores
<1>7. /\ processed' = Append(processed, h)
      /\ swallowed' = IF Miss(h, bm, size_mask) = "overflow" THEN swallowed \cup {h}
                      ELSE swallowed
      /\ overflow_count' = IF Miss(h, bm, size_mask) = "overflow" THEN overflow_count + 1
                           ELSE overflow_count
      /\ UNCHANGED <<size_mask, global_repeated, lost>>
      /\ pc' # "rehash"
  BY DEF FlushLine
<1>8. \/ /\ Wanted(Miss(h, bm, size_mask))
         /\ \E line : emitted' = Append(emitted, [line |-> line, h |-> h])
      \/ ~Wanted(Miss(h, bm, size_mask)) /\ emitted' = emitted
  BY DEF FlushLine
<1> HIDE DEF h
<1> QED BY ONLY <1>1, <1>3, <1>4, <1>5, <1>6, <1>7, <1>8 DEF FlushEffect

\* Both tables keep their probe chains through every step.
LEMMA ChainsStep == TypeOK /\ ProbeChains /\ [Next]_vars => ProbeChains'
<1> SUFFICES ASSUME TypeOK, ProbeChains, [Next]_vars PROVE ProbeChains'
  OBVIOUS
<1>1. size_mask \in Nat /\ bm \in Tables(size_mask) /\ ChainIntact(bm, size_mask)
  BY DEF TypeOK, ProbeChains
<1>2. ASSUME TablesKept PROVE ProbeChains'
  BY <1>2, <1>1 DEF TablesKept, ProbeChains
<1>3. CASE FlushLine
  <2>1. PICK h \in Hashes : FlushEffect(h)
    BY <1>3, FlushStep
  <2>2. ChainIntact(bm', size_mask')
    BY <1>1, <2>1, InsertKeepsChains DEF FlushEffect
  <2> QED BY <2>1, <2>2 DEF FlushEffect, ProbeChains
<1>4. CASE Grow
  <2>1. NewMask' = NewMask /\ NewMask \in Nat
    BY <1>1, <1>4 DEF Grow, NewMask, tabVars
  <2>2. UNCHANGED <<bm, size_mask>> /\ (pc' = "rehash" => bm_new' = EmptyTable(NewMask))
    BY <1>4 DEF Grow, LoopTest, tabVars
  <2> QED BY <1>1, <2>1, <2>2, EmptyChain DEF ProbeChains
<1>5. CASE Rehash
  <2>1. NewMask' = NewMask /\ NewMask \in Nat /\ UNCHANGED <<bm, size_mask>>
    BY <1>1, <1>5 DEF Rehash, NewMask
  <2>2. bm[j] \in Hashes /\ bm_new \in Tables(NewMask) /\ ChainIntact(bm_new, NewMask)
    BY <1>5, <1>1 DEF Rehash, Tables, TypeOK, ProbeChains
  <2>3. bm_new' = bm_new \/ bm_new' = Inserted(bm[j], bm_new, NewMask)
    BY <1>5 DEF Rehash
  <2>4. ChainIntact(bm_new', NewMask)
    BY ONLY <2>1, <2>2, <2>3, InsertKeepsChains
  <2> QED BY <1>1, <2>1, <2>4 DEF ProbeChains
<1>6. CASE RehashEnd
  <2>1. bm' = bm_new /\ size_mask' = NewMask /\ pc = "rehash" /\ pc' # "rehash"
    BY <1>6 DEF RehashEnd, LoopTest
  <2> QED BY <2>1 DEF ProbeChains
<1>7. CASE UNCHANGED vars
  BY <1>7, <1>1 DEF vars, tabVars, growVars, ProbeChains, NewMask
<1> QED BY <1>2, <1>3, <1>4, <1>5, <1>6, <1>7, QuietSteps DEF Next, Terminated

\* hash_insert finds every hash it stored, whatever was inserted in between
\* and however often the table was resized (lines 99-121, 389-413).
THEOREM ChainsIntact == Spec => []ProbeChains
<1>1. Init => ProbeChains
  BY EmptyChain, SizeAssumption DEF Init, ProbeChains
<1> QED BY <1>1, ChainsStep, TypeCorrect, PTL DEF Spec

-----------------------------------------------------------------------------
\* The parts of the inductive invariant: what is written, remembered, lost
\* and suppressed hang together, on top of typed and unbroken tables.
Accounts ==
    /\ TableRemembersOutput
    /\ DuplicateOnlyAfterLoss
    /\ NoSilentSuppression

IInv == TypeOK /\ ProbeChains /\ Accounts

\* Writing one more line adds its hash to the written ones.
LEMMA EmittedAppend ==
    ASSUME NEW S, emitted \in Seq(S), NEW line, NEW h,
           emitted' = Append(emitted, [line |-> line, h |-> h])
    PROVE  /\ EmittedHashes' = EmittedHashes \cup {h}
           /\ DOMAIN emitted' = DOMAIN emitted \cup {Len(emitted) + 1}
           /\ emitted'[Len(emitted) + 1].h = h
           /\ \A n \in DOMAIN emitted : emitted'[n] = emitted[n]
<1> DEFINE e == [line |-> line, h |-> h]
<1>0. e.h = h
  OBVIOUS
<1>1. emitted \in Seq(S \cup {e}) /\ e \in S \cup {e} /\ Len(emitted) \in Nat
  OBVIOUS
<1>2. emitted' = Append(emitted, e)
  OBVIOUS
<1> HIDE DEF e
<1>3. /\ DOMAIN emitted = 1 .. Len(emitted)
      /\ DOMAIN emitted' = 1 .. Len(emitted) + 1
      /\ emitted'[Len(emitted) + 1] = e
      /\ \A n \in 1 .. Len(emitted) : emitted'[n] = emitted[n]
  BY ONLY <1>1, <1>2, AppendProperties
<1>4. DOMAIN emitted' = DOMAIN emitted \cup {Len(emitted) + 1}
  BY ONLY <1>1, <1>3
<1> QED BY ONLY <1>0, <1>3, <1>4 DEF EmittedHashes

\* process_line's batch loop keeps the accounts straight.
LEMMA FlushAccounts == IInv /\ FlushLine => Accounts'
<1> SUFFICES ASSUME IInv, FlushLine PROVE Accounts'
  OBVIOUS
<1>1. PICK h \in Hashes : FlushEffect(h)
  BY FlushStep DEF IInv
<1> DEFINE miss == Miss(h, bm, size_mask)
           S == [line : Seq(Bytes), h : Hashes]
<1>2. emitted \in Seq(S) /\ processed \in Seq(Hashes) /\ overflow_count \in Nat
  BY DEF IInv, TypeOK
<1>3. \/ /\ Wanted(miss)
         /\ EmittedHashes' = EmittedHashes \cup {h}
         /\ DOMAIN emitted' = DOMAIN emitted \cup {Len(emitted) + 1}
         /\ emitted'[Len(emitted) + 1].h = h
         /\ \A n \in DOMAIN emitted : emitted'[n] = emitted[n]
      \/ ~Wanted(miss) /\ emitted' = emitted /\ EmittedHashes' = EmittedHashes
  <2>1. CASE Wanted(miss)
    <3>1. PICK line : emitted' = Append(emitted, [line |-> line, h |-> h])
      BY <2>1, <1>1 DEF FlushEffect
    <3> HIDE DEF S
    <3> QED BY ONLY <2>1, <3>1, <1>2, EmittedAppend
  <2>2. CASE ~Wanted(miss)
    BY <2>2, <1>1 DEF FlushEffect, EmittedHashes
  <2> QED BY <2>1, <2>2
<1>4. DOMAIN emitted = 1 .. Len(emitted) /\ Len(emitted) \in Nat
  BY <1>2
<1>5. TableRemembersOutput'
  <2>1. SUFFICES ASSUME global_repeated = 0
                 PROVE  /\ Stored(bm') \subseteq EmittedHashes'
                        /\ EmittedHashes' \subseteq Stored(bm') \cup lost' \cup {0}
    BY <1>1 DEF FlushEffect, TableRemembersOutput
  <2>2. /\ Stored(bm) \subseteq EmittedHashes
        /\ EmittedHashes \subseteq Stored(bm) \cup lost \cup {0}
    BY <2>1 DEF IInv, Accounts, TableRemembersOutput
  <2>3. Wanted(miss) <=> miss = "inserted"
    BY <2>1 DEF Wanted
  <2>4. lost' = lost
    BY <1>1 DEF FlushEffect
  <2>5. Stored(bm') = IF miss = "inserted" THEN Stored(bm) \cup ({h} \ {0}) ELSE Stored(bm)
    BY <1>1 DEF FlushEffect
  <2> QED BY ONLY <1>3, <2>2, <2>3, <2>4, <2>5
<1>6. DuplicateOnlyAfterLoss'
  <2>1. SUFFICES ASSUME global_repeated = 0,
                        NEW m \in DOMAIN emitted', NEW n \in DOMAIN emitted',
                        m < n, emitted'[m].h = emitted'[n].h
                 PROVE  emitted'[m].h \in lost \cup {0}
    BY <1>1 DEF FlushEffect, DuplicateOnlyAfterLoss
  <2>2. \A k, l \in DOMAIN emitted :
           k < l /\ emitted[k].h = emitted[l].h => emitted[k].h \in lost \cup {0}
    BY <2>1 DEF IInv, Accounts, DuplicateOnlyAfterLoss
  <2>3. EmittedHashes \subseteq Stored(bm) \cup lost \cup {0}
    BY <2>1 DEF IInv, Accounts, TableRemembersOutput
  <2>4. CASE emitted' = emitted
    BY <2>1, <2>2, <2>4
  <2>5. CASE /\ Wanted(miss)
             /\ DOMAIN emitted' = DOMAIN emitted \cup {Len(emitted) + 1}
             /\ emitted'[Len(emitted) + 1].h = h
             /\ \A k \in DOMAIN emitted : emitted'[k] = emitted[k]
    <3>1. h \notin Stored(bm)
      BY <2>1, <2>5, <1>1 DEF Wanted, FlushEffect
    <3>2. m \in DOMAIN emitted
      BY <2>1, <2>5, <1>4
    <3>3. CASE n \in DOMAIN emitted
      BY <3>3, <3>2, <2>1, <2>2, <2>5
    <3>4. CASE n = Len(emitted) + 1
      <4>1. emitted[m].h = h /\ emitted'[m].h = h
        BY <3>4, <3>2, <2>1, <2>5
      <4>2. h \in EmittedHashes
        BY <4>1, <3>2 DEF EmittedHashes
      <4> QED BY <4>1, <4>2, <3>1, <2>3
    <3> QED BY <3>3, <3>4, <2>5
  <2> QED BY <1>3, <2>4, <2>5
<1>7. NoSilentSuppression'
  <2>1. swallowed' # {} => overflow_count' > 0
    BY <1>1, <1>2 DEF IInv, Accounts, NoSilentSuppression, FlushEffect
  <2>2. ASSUME global_repeated = 0, NEW n \in DOMAIN processed'
        PROVE  processed'[n] \in EmittedHashes' \cup swallowed'
    <3>1. \A k \in DOMAIN processed : processed[k] \in EmittedHashes \cup swallowed
      BY <2>2 DEF IInv, Accounts, NoSilentSuppression
    <3>2. EmittedHashes \subseteq EmittedHashes' /\ swallowed \subseteq swallowed'
      BY <1>1, <1>3 DEF FlushEffect
    <3>3. processed' = Append(processed, h)
      BY <1>1 DEF FlushEffect
    <3>4. CASE n \in DOMAIN processed
      <4>1. processed'[n] = processed[n]
        BY <3>3, <3>4, <1>2
      <4> QED BY <4>1, <3>1, <3>2, <3>4
    <3>5. CASE n \notin DOMAIN processed
      <4>1. processed'[n] = h
        BY <3>3, <3>5, <2>2, <1>2
      <4>2. CASE miss = "inserted"
        BY <4>1, <4>2, <2>2, <1>3 DEF Wanted
      <4>3. CASE miss = "present"
        <5>1. h \in Stored(bm) /\ Stored(bm) \subseteq EmittedHashes
          BY <4>3, <2>2, <1>1 DEF FlushEffect, IInv, Accounts, TableRemembersOutput
        <5> QED BY <5>1, <4>1, <3>2
      <4>4. CASE miss = "overflow"
        BY <4>1, <4>4, <1>1 DEF FlushEffect
      <4> QED BY <4>2, <4>3, <4>4, <1>1 DEF FlushEffect
    <3> QED BY <3>4, <3>5
  <2>3. global_repeated' = global_repeated
    BY <1>1 DEF FlushEffect
  <2> QED BY <2>1, <2>2, <2>3 DEF NoSilentSuppression
<1> QED BY <1>5, <1>6, <1>7 DEF Accounts

\* A resize moves hashes and may lose some, and it writes nothing.
LEMMA ResizeAccounts == IInv /\ (Grow \/ Rehash \/ RehashEnd) => Accounts'
<1> SUFFICES ASSUME IInv, Grow \/ Rehash \/ RehashEnd PROVE Accounts'
  OBVIOUS
<1>1. size_mask \in Nat /\ bm \in Tables(size_mask) /\ overflow_count \in Nat
  BY DEF IInv, TypeOK
<1>2. /\ UNCHANGED <<global_repeated, processed, emitted, swallowed>>
      /\ overflow_count' \in {overflow_count, overflow_count + 1}
      /\ EmittedHashes' = EmittedHashes
  BY DEF Grow, Rehash, RehashEnd, histVars, tabVars, EmittedHashes
<1>3. NoSilentSuppression'
  BY <1>1, <1>2 DEF IInv, Accounts, NoSilentSuppression
<1>4. CASE Grow
  <2>1. /\ UNCHANGED <<bm, lost>>
        /\ pc' = "rehash" => bm_new' = EmptyTable(NewMask)
    BY <1>4 DEF Grow, LoopTest, tabVars, histVars
  <2>2. NewMask \in Nat
    BY <1>1, NewMaskType
  <2>3. pc' = "rehash" => Stored(bm_new') \subseteq Stored(bm')
    BY <2>1, <2>2, EmptyChain
  <2> QED BY <1>2, <1>3, <2>1, <2>3
          DEF IInv, Accounts, TableRemembersOutput, DuplicateOnlyAfterLoss
<1>5. CASE Rehash
  <2>1. UNCHANGED <<bm, lost>>
    BY <1>5 DEF Rehash, histVars
  <2>2. NewMask \in Nat /\ bm_new \in Tables(NewMask) /\ j \in 0 .. size_mask
    BY <1>1, <1>5, NewMaskType DEF Rehash, IInv, TypeOK
  <2>3. bm[j] \in Hashes
    BY <1>1, <2>2 DEF Tables
  <2>4. bm[j] # 0 => bm[j] \in Stored(bm)
    BY <1>1, <2>2 DEF Stored, Tables
  <2>5. \/ bm_new' = bm_new
        \/ bm[j] # 0 /\ bm_new' = Inserted(bm[j], bm_new, NewMask)
    BY <1>5 DEF Rehash
  <2>6. Stored(bm_new') \subseteq Stored(bm_new) \cup Stored(bm)
    BY ONLY <2>2, <2>3, <2>4, <2>5, InsertStores
  <2>7. Stored(bm_new) \subseteq Stored(bm)
    BY <1>5 DEF Rehash, IInv, Accounts, TableRemembersOutput
  <2> QED BY <1>2, <1>3, <2>1, <2>6, <2>7
          DEF IInv, Accounts, TableRemembersOutput, DuplicateOnlyAfterLoss
<1>6. CASE RehashEnd
  <2>1. /\ bm' = bm_new /\ lost' = lost \cup (Stored(bm) \ Stored(bm_new))
        /\ Stored(bm_new) \subseteq Stored(bm) /\ pc' # "rehash"
    BY <1>6 DEF RehashEnd, LoopTest, IInv, Accounts, TableRemembersOutput
  <2> QED BY <1>2, <1>3, <2>1
          DEF IInv, Accounts, TableRemembersOutput, DuplicateOnlyAfterLoss
<1> QED BY <1>4, <1>5, <1>6

LEMMA IInvInit == Init => IInv
<1> SUFFICES ASSUME Init PROVE IInv
  OBVIOUS
<1>1. TypeOK /\ ProbeChains
  BY InitType, EmptyChain, SizeAssumption DEF Init, ProbeChains
<1>2. EmittedHashes = {} /\ processed = <<>> /\ emitted = <<>> /\ swallowed = {}
  BY DEF Init, EmittedHashes
<1>3. Stored(bm) = {} /\ pc = "read"
  BY EmptyChain, SizeAssumption DEF Init
<1> QED BY <1>1, <1>2, <1>3
        DEF IInv, Accounts, TableRemembersOutput, DuplicateOnlyAfterLoss, NoSilentSuppression

LEMMA TypeStep == TypeOK /\ [Next]_vars => TypeOK'
BY ReadType, ScanLineType, FlushLineType, TailType, RehashType, OtherType DEF Next

LEMMA IInvStep == IInv /\ [Next]_vars => IInv'
<1> SUFFICES ASSUME IInv, [Next]_vars PROVE IInv'
  OBVIOUS
<1>1. TypeOK' /\ ProbeChains'
  BY TypeStep, ChainsStep DEF IInv
<1>2. ASSUME UNCHANGED <<bm, processed, emitted, lost, swallowed, overflow_count,
                         global_repeated>>,
             pc' # "rehash" \/ UNCHANGED <<pc, bm_new>>
      PROVE  Accounts'
  BY <1>2 DEF IInv, Accounts, TableRemembersOutput, DuplicateOnlyAfterLoss,
              NoSilentSuppression, EmittedHashes
<1>3. ASSUME TablesKept PROVE Accounts'
  BY <1>2, <1>3 DEF TablesKept
<1>4. ASSUME UNCHANGED vars PROVE Accounts'
  BY <1>2, <1>4 DEF vars, tabVars, growVars, histVars
<1>5. ASSUME FlushLine PROVE Accounts'
  BY <1>5, FlushAccounts
<1>6. ASSUME Grow \/ Rehash \/ RehashEnd PROVE Accounts'
  BY <1>6, ResizeAccounts
<1>7. Accounts'
  BY <1>3, <1>4, <1>5, <1>6, QuietSteps DEF Next, Terminated, IInv
<1> QED BY <1>1, <1>7 DEF IInv

\* The invariant behind the three theorems below holds for ever.
LEMMA IInvAlways == Spec => []IInv
BY IInvInit, IInvStep, PTL DEF Spec

\* Without -D the table remembers exactly what was written, minus what a
\* resize lost (hash_insert's callers, lines 128-133 and 398-407).
THEOREM MemoryTrue == Spec => []TableRemembersOutput
BY IInvAlways, PTL DEF IInv, Accounts

\* Without -D no line is written twice unless a resize lost its hash or the
\* hash is the reserved 0 (lines 108-113, 399-405).
THEOREM DuplicatesExplained == Spec => []DuplicateOnlyAfterLoss
BY IInvAlways, PTL DEF IInv, Accounts

\* Without -D a processed line was written, itself or an equal hash, or its
\* suppression was counted as an overflow (lines 106, 118-120, 128-133).
THEOREM SuppressionCounted == Spec => []NoSilentSuppression
BY IInvAlways, PTL DEF IInv, Accounts

-----------------------------------------------------------------------------
\* The hashes of the written lines, in order: UniqFilter's view of emitted.
Written == [n \in DOMAIN emitted |-> emitted[n].h]

LEMMA WrittenAppend ==
    ASSUME NEW S, emitted \in Seq(S), NEW line, NEW h,
           emitted' = Append(emitted, [line |-> line, h |-> h])
    PROVE  Written' = Append(Written, h)
<1>1. /\ DOMAIN emitted' = DOMAIN emitted \cup {Len(emitted) + 1}
      /\ emitted'[Len(emitted) + 1].h = h
      /\ \A n \in DOMAIN emitted : emitted'[n] = emitted[n]
  BY EmittedAppend
<1>2. Len(emitted) \in Nat /\ DOMAIN emitted = 1 .. Len(emitted)
  OBVIOUS
<1> DEFINE k == Len(emitted)
           W == {emitted[n].h : n \in 1 .. k} \cup {h}
<1>3. Written \in [1 .. k -> W] /\ Written' \in [1 .. k + 1 -> W]
  BY ONLY <1>1, <1>2 DEF Written
<1>4. Written \in Seq(W) /\ Written' \in Seq(W) /\ Len(Written) = k /\ Len(Written') = k + 1
  <2> HIDE DEF k, W
  <2>1. k \in Nat
    BY <1>2 DEF k
  <2> QED BY ONLY <1>3, <2>1
<1>5. \A n \in 1 .. k : Written'[n] = Written[n]
  BY ONLY <1>1, <1>2 DEF Written
<1>6. Written'[k + 1] = h
  BY ONLY <1>1, <1>2 DEF Written
<1>7. h \in W
  OBVIOUS
<1> HIDE DEF k, W
<1> QED BY ONLY <1>3, <1>4, <1>5, <1>6, <1>7, <1>2 DEF k

\* Each step of the program is a step of the filter, or invisible to it.
LEMMA FilterStep == IInv /\ [Next]_vars => [Filter!Next]_(Filter!vars)
<1> SUFFICES ASSUME IInv, [Next]_vars PROVE [Filter!Next]_(Filter!vars)
  OBVIOUS
<1> USE DEF Filter!Next, Filter!vars
<1>1. ASSUME UNCHANGED <<global_repeated, bm, emitted>> PROVE UNCHANGED Filter!vars
  BY <1>1 DEF Stored
<1>2. CASE TablesKept
  BY <1>2, <1>1 DEF TablesKept
<1>3. CASE UNCHANGED vars
  BY <1>3, <1>1 DEF vars, tabVars, histVars
<1>4. CASE Grow \/ Rehash
  BY <1>4, <1>1 DEF Grow, Rehash, tabVars, histVars
<1>5. CASE RehashEnd
  <2>1. Stored(bm') \subseteq Stored(bm)
    BY <1>5 DEF RehashEnd, IInv, Accounts, TableRemembersOutput
  <2>2. UNCHANGED <<global_repeated, emitted>>
    BY <1>5 DEF RehashEnd
  <2>3. Filter!Forget
    BY <2>1, <2>2 DEF Filter!Forget
  <2> QED BY <2>3
<1>6. CASE FlushLine
  <2>1. PICK h \in Hashes : FlushEffect(h)
    BY <1>6, FlushStep DEF IInv
  <2> DEFINE miss == Miss(h, bm, size_mask)
  <2>2. global_repeated' = global_repeated /\ global_repeated \in {0, 1}
    BY <2>1 DEF FlushEffect, IInv, TypeOK
  <2>3. \/ Wanted(miss) /\ Written' = Append(Written, h)
        \/ ~Wanted(miss) /\ Written' = Written
    <3>1. CASE ~Wanted(miss)
      BY <3>1, <2>1 DEF FlushEffect, Written
    <3>2. CASE Wanted(miss)
      <4>1. PICK line : emitted' = Append(emitted, [line |-> line, h |-> h])
        BY <3>2, <2>1 DEF FlushEffect
      <4>2. emitted \in Seq([line : Seq(Bytes), h : Hashes])
        BY DEF IInv, TypeOK
      <4> QED BY ONLY <3>2, <4>1, <4>2, WrittenAppend
    <3> QED BY <3>1, <3>2
  <2>4. CASE miss = "inserted"
    <3>1. Stored(bm') = Stored(bm) \cup ({h} \ {0}) /\ h \notin Stored(bm)
      BY <2>1, <2>4 DEF FlushEffect
    <3>2. Written' = IF global_repeated = 1 THEN Written ELSE Append(Written, h)
      BY <2>2, <2>3, <2>4 DEF Wanted
    <3>3. Filter!New(h)
      BY <2>2, <3>1, <3>2 DEF Filter!New, Written
    <3> QED BY <3>3
  <2>5. CASE miss = "present"
    <3>1. Stored(bm') = Stored(bm) /\ h \in Stored(bm)
      BY <2>1, <2>5 DEF FlushEffect
    <3>2. Written' = IF global_repeated = 1 THEN Append(Written, h) ELSE Written
      BY <2>2, <2>3, <2>5 DEF Wanted
    <3>3. Filter!Repeat(h)
      BY <2>2, <3>1, <3>2 DEF Filter!Repeat, Written
    <3> QED BY <3>3
  <2>6. CASE miss = "overflow"
    <3>1. Stored(bm') = Stored(bm) /\ Written' = Written
      BY <2>1, <2>3, <2>6 DEF FlushEffect, Wanted
    <3> QED BY <2>2, <3>1 DEF Written
  <2> QED BY <2>1, <2>4, <2>5, <2>6 DEF FlushEffect
<1> QED BY <1>2, <1>3, <1>4, <1>5, <1>6, QuietSteps DEF Next, Terminated, IInv

\* mmuniq implements the lossy set filter of UniqFilter: a line is written or
\* suppressed by set membership alone, and only a resize forgets (lines 123-161).
THEOREM Refinement == Spec => FilterSpec
<1>1. Init => Filter!Init
  <2> SUFFICES ASSUME Init PROVE Filter!Init
    OBVIOUS
  <2>1. Stored(bm) = {} /\ emitted = <<>>
    BY EmptyChain, SizeAssumption DEF Init
  <2> QED BY <2>1 DEF Filter!Init
<1>2. IInv /\ [Next]_vars => [Filter!Next]_(Filter!vars)
  BY FilterStep
<1> QED BY <1>1, <1>2, IInvAlways, PTL DEF Spec, FilterSpec, Filter!Spec

-----------------------------------------------------------------------------
(* The queue of lines, the output buffer and the stream.                   *)

\* A pass over the buffer, and the line made of the whole buffer after it.
Passing == pc \in {"scan", "tail"} \/ (pc \in {"flush", "write"} /\ ret \in {"scan", "tail"})
Closing == pc \in {"flush", "write"} /\ ret \in {"grow", "done"}

\* The first byte behind the n-th queued line and its '\n'.
From(n) == IF n < Len(c_lines) THEN c_lines[n + 1].s ELSE buf_pos

\* b holds no '\n' from index s to before index e.
NoBreak(b, s, e) == \A k \in s .. e - 1 : b[k] # NL

\* A queued line of a pass: it ends where the next one starts.
Queued(n) ==
    LET c == c_lines[n]
    IN  /\ From(n) = c.s + c.l + 1 /\ From(n) <= buf_pos
        /\ c.h = HashOf(Slice(buf, c.s, c.l)) /\ buf[c.s + c.l] = NL

\* The line made of the whole buffer.
Whole ==
    /\ buf_pos = 0 /\ buf_sz = 0
    /\ pc = "flush" =>
         /\ Len(c_lines) = 1 /\ c_lines[1].s = 0 /\ c_lines[1].l = BUF_SZ
         /\ \E l \in LineLengths(buf, 0, BUF_SZ) : c_lines[1].h = HashOf(Slice(buf, 0, l))

Queue ==
    /\ pc # "abort"
    /\ pc \notin {"scan", "flush"} => c_lines = <<>>
    /\ pc # "flush" => c_i = 0
    /\ c_i <= Len(c_lines)
    /\ Passing => \A n \in DOMAIN c_lines : Queued(n)
    /\ Closing => Whole
    /\ pc = "flush" => force = IF ret = "scan" THEN 0 ELSE 1
    /\ pc = "write" => ret # "scan"
    /\ ret = "done" => pc \in {"flush", "write", "done"}

\* The output of a pass is never longer than what the pass has consumed.
Room ==
    /\ Passing => Len(out_buf) <= From(c_i)
    /\ Closing /\ pc = "flush" /\ c_i = 0 => out_buf = <<>>
    /\ pc \in {"tail", "grow", "rehash"} /\ res = 0 => out_buf = <<>>
    /\ pc = "read" => res = 0 /\ out_buf = <<>>

\* What is carried from pass to pass is part of one line.
Carried ==
    /\ pc \in {"read", "grow", "rehash"} => NoBreak(buf, 0, buf_pos)
    /\ pc = "tail" \/ (Passing /\ ret = "tail" /\ pc # "scan") => NoBreak(buf, buf_pos, buf_sz)
    /\ Passing /\ r = 0 => buf_pos = 0 /\ NoBreak(buf, 0, buf_sz)

\* The bytes of the buffer that are still to be processed.
Remaining ==
    IF pc \in {"read", "grow", "rehash"} THEN Slice(buf, 0, buf_pos)
    ELSE IF Passing THEN Slice(buf, From(c_i), buf_sz - From(c_i))
    ELSE IF pc = "flush" /\ c_i = 0 THEN Slice(buf, 0, BUF_SZ)
    ELSE <<>>

Stream ==
    /\ taken \in Seq(Bytes)
    /\ ret # "done" /\ pc # "done" => taken \o (Remaining \o input) = original

BatchInv == Queue /\ Room /\ Carried /\ Stream

-----------------------------------------------------------------------------
(* Slices of the buffer.                                                   *)

LEMMA SliceEmpty == ASSUME NEW b, NEW s PROVE Slice(b, s, 0) = <<>>
BY DEF Slice

\* Bytes are put together in any grouping.
LEMMA Regroup ==
    ASSUME NEW x \in Seq(Bytes), NEW y \in Seq(Bytes), NEW z \in Seq(Bytes)
    PROVE  (x \o y) \o z = x \o (y \o z)
BY ConcatAssociative

\* A slice is cut anywhere into two.
LEMMA SliceSplit ==
    ASSUME NEW b \in Buffers, NEW s \in Nat, NEW l \in Nat, NEW m \in Nat,
           m <= l, s + l <= BUF_SZ
    PROVE  Slice(b, s, l) = Slice(b, s, m) \o Slice(b, s + m, l - m)
<1> DEFINE x == Slice(b, s, l)
           y == Slice(b, s, m)
           z == Slice(b, s + m, l - m)
<1>1. BUF_SZ \in Nat /\ s + m \in Nat /\ l - m \in Nat /\ s + m + (l - m) <= BUF_SZ
      /\ s + m <= BUF_SZ
  BY SizeAssumption
<1>2. x \in Seq(Bytes) /\ Len(x) = l /\ x \in [1 .. l -> Bytes]
  BY <1>1, SliceType, SliceFunction
<1>3. y \in Seq(Bytes) /\ Len(y) = m
  BY <1>1, SliceType
<1>4. z \in Seq(Bytes) /\ Len(z) = l - m
  BY <1>1, SliceType
<1>5. /\ \A i \in 1 .. l : x[i] = b[s + i - 1]
      /\ \A i \in 1 .. m : y[i] = b[s + i - 1]
      /\ \A i \in 1 .. l - m : z[i] = b[s + m + i - 1]
  BY DEF Slice
<1> HIDE DEF x, y, z
<1>6. /\ y \o z \in Seq(Bytes) /\ Len(y \o z) = l
      /\ \A i \in 1 .. l : (y \o z)[i] = IF i <= m THEN y[i] ELSE z[i - m]
  <2>1. /\ y \o z \in Seq(Bytes) /\ Len(y \o z) = m + (l - m)
        /\ \A i \in 1 .. m + (l - m) : (y \o z)[i] = IF i <= m THEN y[i] ELSE z[i - m]
    <3>1. /\ y \o z \in Seq(Bytes) /\ Len(y \o z) = Len(y) + Len(z)
          /\ \A i \in 1 .. Len(y) + Len(z) :
                (y \o z)[i] = IF i <= Len(y) THEN y[i] ELSE z[i - Len(y)]
      BY ONLY <1>3, <1>4, ConcatProperties
    <3> QED BY ONLY <3>1, <1>3, <1>4
  <2>2. m + (l - m) = l
    BY ONLY l \in Nat, m \in Nat
  <2> QED BY <2>1, <2>2
<1>7. ASSUME NEW i \in 1 .. l PROVE x[i] = (y \o z)[i]
  <2>1. CASE i <= m
    BY <2>1, <1>5, <1>6
  <2>2. CASE ~(i <= m)
    <3>1. i - m \in 1 .. l - m /\ s + m + (i - m) - 1 = s + i - 1
      BY <2>2
    <3> QED BY <3>1, <2>2, <1>5, <1>6
  <2> QED BY <2>1, <2>2
<1>8. x = y \o z
  BY ONLY <1>2, <1>6, <1>7, SeqEqual
<1> QED BY <1>8 DEF x, y, z

\* Equal bytes make equal slices.
LEMMA SliceEqual ==
    ASSUME NEW b, NEW c, NEW s, NEW t, NEW l \in Nat,
           \A i \in 1 .. l : b[s + i - 1] = c[t + i - 1]
    PROVE  Slice(b, s, l) = Slice(c, t, l)
BY DEF Slice

\* A line, its '\n' and what follows them.
LEMMA SliceLine ==
    ASSUME NEW b \in Buffers, NEW s \in Nat, NEW l \in Nat, NEW e \in Nat,
           s + l < e, e <= BUF_SZ, b[s + l] = NL
    PROVE  Slice(b, s, e - s)
             = (Slice(b, s, l) \o <<NL>>) \o Slice(b, s + l + 1, e - (s + l + 1))
<1> USE SizeAssumption
<1>1. Slice(b, s, e - s) = Slice(b, s, l + 1) \o Slice(b, s + (l + 1), (e - s) - (l + 1))
  <2> DEFINE n == e - s
             k == l + 1
  <2>1. n \in Nat /\ k \in Nat /\ k <= n /\ s + n <= BUF_SZ
    OBVIOUS
  <2> HIDE DEF n, k
  <2>2. Slice(b, s, n) = Slice(b, s, k) \o Slice(b, s + k, n - k)
    BY ONLY <2>1, SliceSplit, s \in Nat, b \in Buffers, SMTT(60)
  <2> QED BY <2>2 DEF n, k
<1>2. Slice(b, s, l + 1) = Slice(b, s, l) \o Slice(b, s + l, (l + 1) - l)
  <2>1. l + 1 \in Nat /\ l <= l + 1 /\ s + (l + 1) <= BUF_SZ
    OBVIOUS
  <2> QED BY ONLY <2>1, SliceSplit, s \in Nat, l \in Nat, b \in Buffers, SMTT(60)
<1>3. Slice(b, s + l, 1) = <<NL>>
  <2>1. \A i \in 1 .. 1 : s + l + i - 1 = s + l
    OBVIOUS
  <2>2. Slice(b, s + l, 1) = [i \in 1 .. 1 |-> NL]
    BY <2>1 DEF Slice
  <2>3. [i \in 1 .. 1 |-> NL] = <<NL>>
    OBVIOUS
  <2> QED BY <2>2, <2>3
<1>4. s + (l + 1) = s + l + 1 /\ (e - s) - (l + 1) = e - (s + l + 1) /\ (l + 1) - l = 1
  OBVIOUS
<1> QED BY ONLY <1>1, <1>2, <1>3, <1>4

\* A line and its '\n' behind a slice make a longer slice.
LEMMA SliceNext ==
    ASSUME NEW b \in Buffers, NEW f \in Nat, NEW s \in Nat, NEW l \in Nat,
           f <= s, s + l < BUF_SZ, b[s + l] = NL
    PROVE  Slice(b, f, s + l + 1 - f) = Slice(b, f, s - f) \o Slice(b, s, l) \o <<NL>>
<1> DEFINE e == s + l + 1
           m == s - f
           n == e - f
           x == Slice(b, f, s - f)
           y == Slice(b, s, l)
<1>1. /\ BUF_SZ \in Nat /\ e \in Nat /\ e <= BUF_SZ /\ s + l < e /\ e - (s + l + 1) = 0
      /\ m \in Nat /\ n \in Nat /\ m <= n /\ f + n <= BUF_SZ /\ f + m = s /\ n - m = e - s
      /\ f + m <= BUF_SZ /\ s + l <= BUF_SZ
  BY SizeAssumption
<1>2. Slice(b, f, n) = Slice(b, f, m) \o Slice(b, f + m, n - m)
  <2> HIDE DEF m, n, e
  <2>1. n \in Nat /\ m \in Nat /\ m <= n /\ f + n <= BUF_SZ
    BY <1>1
  <2> QED BY ONLY <2>1, SliceSplit, f \in Nat, b \in Buffers, SMTT(60)
<1>3. Slice(b, s, e - s) = (y \o <<NL>>) \o Slice(b, s + l + 1, e - (s + l + 1))
  <2>1. /\ s + l < e /\ e <= BUF_SZ /\ e \in Nat /\ s \in Nat /\ l \in Nat
        /\ b \in Buffers /\ b[s + l] = NL
    BY <1>1
  <2> HIDE DEF e, x, m, n
  <2>2. Slice(b, s, e - s) = (Slice(b, s, l) \o <<NL>>) \o Slice(b, s + l + 1, e - (s + l + 1))
    BY ONLY <2>1, SliceLine, SMTT(60)
  <2> QED BY <2>2
<1>4. x \in Seq(Bytes) /\ y \in Seq(Bytes) /\ <<NL>> \in Seq(Bytes)
  <2>1. <<NL>> \in Seq(Bytes)
    BY DEF Bytes
  <2>2. y \in Seq(Bytes)
    BY <1>1, SliceType
  <2> HIDE DEF m
  <2>3. Slice(b, f, m) \in Seq(Bytes)
    BY <1>1, SliceType
  <2> QED BY <2>1, <2>2, <2>3 DEF m
<1> HIDE DEF x, y
<1>5. y \o <<NL>> \in Seq(Bytes)
  BY ONLY <1>4, ConcatProperties
<1>6. Slice(b, s, e - s) = y \o <<NL>>
  <2>1. Slice(b, s + l + 1, e - (s + l + 1)) = <<>>
    BY <1>1, SliceEmpty
  <2>2. (y \o <<NL>>) \o <<>> = y \o <<NL>>
    BY ONLY <1>5, ConcatEmptySeq
  <2> QED BY ONLY <1>3, <2>1, <2>2
<1>7. (x \o y) \o <<NL>> = x \o (y \o <<NL>>)
  BY ONLY <1>4, Regroup
<1>8. Slice(b, f, n) = Slice(b, f, m) \o Slice(b, s, e - s)
  <2>1. f + m = s /\ n - m = e - s
    BY ONLY <1>1
  <2> HIDE DEF m, n, e
  <2> QED BY ONLY <1>2, <2>1
<1>9. Slice(b, f, n) = x \o y \o <<NL>>
  <2> HIDE DEF n, e
  <2> QED BY <1>6, <1>7, <1>8 DEF x
<1> QED BY ONLY <1>9, SMTT(30) DEF x, y, n, e

-----------------------------------------------------------------------------
(* Reading and splitting keep the batch and the stream.                    *)

LEMMA InputBytes == ASSUME TypeOK PROVE input \in Seq(Bytes)
<1>1. Cells \cup {NL} \subseteq Bytes
  BY DEF Bytes
<1>2. input \in Seq(Cells \cup {NL})
  BY DEF TypeOK
<1> QED BY <1>1, <1>2

LEMMA QueueTypes ==
    ASSUME TypeOK
    PROVE  /\ BUF_SZ \in Nat /\ BUF_SZ > 0
           /\ buf \in Buffers
           /\ buf_pos \in Nat /\ buf_sz \in Nat /\ buf_pos <= buf_sz /\ buf_sz <= BUF_SZ
           /\ Len(c_lines) \in Nat /\ DOMAIN c_lines = 1 .. Len(c_lines) /\ c_i \in Nat
           /\ \A n \in 1 .. Len(c_lines) :
                 /\ c_lines[n].s \in Nat /\ c_lines[n].l \in Nat
                 /\ c_lines[n].s + c_lines[n].l <= BUF_SZ
           /\ Len(out_buf) \in Nat /\ out_buf \in Seq(Bytes)
           /\ \A n \in Nat : From(n) \in Nat /\ From(n) <= BUF_SZ
<1>1. /\ BUF_SZ \in Nat /\ BUF_SZ > 0
      /\ buf \in Buffers
      /\ buf_pos \in Nat /\ buf_sz \in Nat /\ buf_pos <= buf_sz /\ buf_sz <= BUF_SZ
      /\ c_lines \in Seq(QueuedLines) /\ c_i \in Nat /\ out_buf \in Seq(Bytes)
  BY SizeAssumption DEF TypeOK, Buffers
<1>2. Len(c_lines) \in Nat /\ DOMAIN c_lines = 1 .. Len(c_lines) /\ Len(out_buf) \in Nat
  BY <1>1
<1>3. ASSUME NEW n \in 1 .. Len(c_lines)
      PROVE  /\ c_lines[n].s \in Nat /\ c_lines[n].l \in Nat
             /\ c_lines[n].s + c_lines[n].l <= BUF_SZ
  <2>1. c_lines[n] \in QueuedLines
    BY <1>1
  <2> QED BY <2>1, <1>1 DEF QueuedLines
<1>4. ASSUME NEW n \in Nat PROVE From(n) \in Nat /\ From(n) <= BUF_SZ
  <2>1. CASE n < Len(c_lines)
    <3>1. n + 1 \in 1 .. Len(c_lines)
      BY <2>1, <1>2
    <3>2. From(n) = c_lines[n + 1].s
      BY <2>1 DEF From
    <3> QED BY <3>1, <3>2, <1>3, <1>1, SMTT(30)
  <2>2. CASE ~(n < Len(c_lines))
    BY <2>2, <1>1 DEF From
  <2> QED BY <2>1, <2>2
<1> QED BY <1>1, <1>2, <1>3, <1>4

LEMMA BatchInit == Init => BatchInv
<1> SUFFICES ASSUME Init PROVE BatchInv
  OBVIOUS
<1> USE DEF Init, Passing, Closing
<1>1. Queue
  BY DEF Queue
<1>2. Room
  BY DEF Room
<1>3. Carried
  BY SizeAssumption DEF Carried, NoBreak
<1>4. Stream
  <2>1. input \in Seq(Bytes)
    BY InitType, InputBytes
  <2>2. Remaining = <<>>
    BY SliceEmpty DEF Remaining
  <2>3. <<>> \o (<<>> \o input) = input
    BY <2>1, ConcatEmptySeq
  <2> QED BY <2>2, <2>3 DEF Stream
<1> QED BY <1>1, <1>2, <1>3, <1>4 DEF BatchInv

LEMMA ReadBatch == TypeOK /\ BatchInv /\ Read => BatchInv'
<1> SUFFICES ASSUME TypeOK, BatchInv, Read PROVE BatchInv'
  OBVIOUS
<1>1. PICK n \in ReadSizes :
        /\ r' = n
        /\ buf' = [i \in DOMAIN buf |->
                     IF i \in buf_pos .. buf_pos + n - 1
                     THEN input[i - buf_pos + 1] ELSE buf[i]]
        /\ input' = SubSeq(input, n + 1, Len(input))
        /\ buf_sz' = buf_pos + n
  BY DEF Read
<1>2. /\ pc = "read" /\ pc' = "scan" /\ buf_pos' = 0
      /\ UNCHANGED <<c_lines, c_i, force, ret, out_buf, res, taken, original>>
  BY DEF Read, queueVars, outVars, histVars
<1>3. /\ c_lines = <<>> /\ c_i = 0 /\ out_buf = <<>> /\ ret # "done"
      /\ NoBreak(buf, 0, buf_pos)
  BY <1>2 DEF BatchInv, Queue, Room, Carried
<1>4. input \in Seq(Bytes) /\ Len(input) \in Nat
  BY InputBytes
<1>5. /\ BUF_SZ \in Nat /\ buf \in Buffers /\ buf_pos \in Nat
      /\ n \in Nat /\ n <= Len(input) /\ buf_pos + n <= BUF_SZ
  BY QueueTypes, <1>4 DEF ReadSizes
<1>6. Passing' /\ ~Closing' /\ From(0)' = 0
  BY <1>2, <1>3 DEF Passing, Closing, From
<1>7. Queue'
  BY <1>2, <1>3, <1>6 DEF Queue
<1>8. Room'
  BY <1>2, <1>3, <1>6 DEF Room
<1>9. Carried'
  <2>1. r' = 0 => buf' = buf /\ buf_sz' = buf_pos
    BY <1>1, <1>5 DEF Buffers
  <2> QED BY <2>1, <1>2, <1>3 DEF Carried, NoBreak
<1>10. Stream'
  <2>1. buf' \in Buffers
    BY ReadType DEF TypeOK, Buffers
  <2> DEFINE p == buf_pos
             x == Slice(buf, 0, p)
             y == SubSeq(input, 1, n)
             z == SubSeq(input, n + 1, Len(input))
  <2>2. y \in Seq(Bytes) /\ Len(y) = n /\ \A i \in 1 .. n : y[i] = input[i]
    <3>1. \A i \in 1 .. n : input[i] \in Bytes
      BY <1>4, <1>5
    <3> QED BY <3>1, <1>5, SubSeqProperties
  <2>3. /\ z \in Seq(Bytes)
        /\ Len(z) = IF n + 1 <= Len(input) THEN Len(input) - (n + 1) + 1 ELSE 0
        /\ \A i \in 1 .. Len(input) - (n + 1) + 1 : z[i] = input[(n + 1) + i - 1]
    <3>1. \A i \in n + 1 .. Len(input) : input[i] \in Bytes
      BY <1>4, <1>5
    <3> DEFINE m == n + 1
               e == Len(input)
    <3>2. m \in Int /\ e \in Int
      BY <1>4, <1>5
    <3> HIDE DEF m, e
    <3> QED BY ONLY <3>1, <3>2, SubSeqProperties DEF m, e
  <2>4. input = y \o z
    <3>1. /\ Len(z) = Len(input) - n
          /\ \A i \in 1 .. Len(input) - n : z[i] = input[n + i]
      <4> HIDE DEF z
      <4>1. Len(input) - (n + 1) + 1 = Len(input) - n /\ \A i \in Nat : (n + 1) + i - 1 = n + i
        BY <1>4, <1>5
      <4>2. \A i \in 1 .. Len(input) - n : z[i] = input[n + i]
        BY <2>3, <4>1
      <4> DEFINE e == Len(input)
                 w == Len(z)
      <4>3. w = IF n + 1 <= e THEN e - (n + 1) + 1 ELSE 0
        BY <2>3
      <4>4. e \in Nat /\ n \in Nat /\ n <= e
        BY <1>4, <1>5
      <4> HIDE DEF e, w
      <4>5. w = e - n
        BY ONLY <4>3, <4>4
      <4> QED BY <4>2, <4>5 DEF e, w
    <3> HIDE DEF y, z
    <3>2. /\ y \o z \in Seq(Bytes) /\ Len(y \o z) = Len(y) + Len(z)
          /\ \A i \in 1 .. Len(y) + Len(z) :
                (y \o z)[i] = IF i <= Len(y) THEN y[i] ELSE z[i - Len(y)]
      BY ONLY <2>2, <2>3, ConcatProperties
    <3>3. Len(y \o z) = Len(input)
      BY <3>1, <3>2, <2>2, <1>4, <1>5
    <3>4. ASSUME NEW i \in 1 .. Len(input) PROVE (y \o z)[i] = input[i]
      <4>1. i \in 1 .. Len(y) + Len(z)
        BY <3>1, <2>2, <1>4, <1>5
      <4>2. CASE i <= n
        BY <4>1, <4>2, <3>2, <2>2
      <4>3. CASE ~(i <= n)
        <5>1. i - n \in 1 .. Len(input) - n /\ n + (i - n) = i
          BY <4>3, <1>4, <1>5
        <5> QED BY <5>1, <4>1, <4>3, <3>1, <3>2, <2>2
      <4> QED BY <4>2, <4>3
    <3> QED BY <3>2, <3>3, <3>4, <1>4, SeqEqual
  <2>5. x \in Seq(Bytes)
    BY <1>5, SliceType
  <2>6. Slice(buf', 0, p + n) = Slice(buf', 0, p) \o Slice(buf', 0 + p, (p + n) - p)
    <3> DEFINE q == p + n
    <3>1. q \in Nat /\ p \in Nat /\ p <= q /\ 0 + q <= BUF_SZ /\ 0 \in Nat
      BY <1>5
    <3> HIDE DEF p, q
    <3>2. Slice(buf', 0, q) = Slice(buf', 0, p) \o Slice(buf', 0 + p, q - p)
      BY <2>1, <3>1, SliceSplit
    <3> QED BY <3>2 DEF q
  <2>7. Slice(buf', 0, p) = x
    <3>1. ASSUME NEW i \in 1 .. p PROVE buf'[0 + i - 1] = buf[0 + i - 1]
      <4>1. 0 + i - 1 \in DOMAIN buf /\ 0 + i - 1 \notin p .. p + n - 1
        BY <1>5 DEF Buffers
      <4>2. buf' = [k \in DOMAIN buf |-> IF k \in p .. p + n - 1 THEN input[k - p + 1] ELSE buf[k]]
        BY <1>1
      <4> DEFINE k == 0 + i - 1
      <4> HIDE DEF p, k
      <4>3. buf'[k] = buf[k]
        <5>1. k \in DOMAIN buf /\ k \notin p .. p + n - 1
          BY <4>1 DEF k
        <5> QED BY ONLY <5>1, <4>2
      <4> QED BY <4>3 DEF k
    <3>2. p \in Nat
      BY <1>5
    <3> HIDE DEF p
    <3>3. Slice(buf', 0, p) = Slice(buf, 0, p)
      BY <3>1, <3>2, SliceEqual
    <3> QED BY <3>3
  <2>8. Slice(buf', p, n) = y
    <3>1. Slice(buf', p, n) \in Seq(Bytes) /\ Len(Slice(buf', p, n)) = n
      BY <2>1, <1>5, SliceType
    <3>2. ASSUME NEW i \in 1 .. n PROVE Slice(buf', p, n)[i] = y[i]
      <4>1. Slice(buf', p, n)[i] = buf'[p + i - 1]
        BY DEF Slice
      <4>2. p + i - 1 \in p .. p + n - 1 /\ p + i - 1 \in DOMAIN buf /\ (p + i - 1) - p + 1 = i
        BY <1>5 DEF Buffers
      <4>3. buf'[p + i - 1] = input[i]
        BY <4>2, <1>1
      <4> QED BY <4>1, <4>3, <2>2
    <3> HIDE DEF y
    <3> QED BY <3>1, <3>2, <2>2, SeqEqual
  <2>9. Remaining' = x \o y
    <3>1. Remaining' = Slice(buf, From(c_i), buf_sz - From(c_i))'
      BY <1>2, <1>6 DEF Remaining
    <3>2. From(c_i)' = 0
      BY <1>2, <1>3, <1>6
    <3>3. buf_sz' - 0 = p + n /\ (p + n) - p = n /\ 0 + p = p
      BY <1>1, <1>5
    <3>4. Remaining' = Slice(buf', 0, p + n)
      BY <3>1, <3>2, <3>3
    <3> QED BY <3>3, <3>4, <2>6, <2>7, <2>8
  <2>10. taken' \in Seq(Bytes) /\ taken \o (x \o input) = original
    BY <1>2, <1>3 DEF BatchInv, Stream, Remaining
  <2>11. (x \o y) \o z = x \o (y \o z)
    <3> HIDE DEF x, y, z
    <3>1. x \in Seq(Bytes) /\ y \in Seq(Bytes) /\ z \in Seq(Bytes)
      BY ONLY <2>2, <2>3, <2>5
    <3> QED BY ONLY <3>1, Regroup
  <2>12. input' = z
    BY <1>1
  <2>13. taken' \o (Remaining' \o input') = original'
    BY <2>4, <2>9, <2>10, <2>11, <2>12, <1>2
  <2> QED BY <2>10, <2>13 DEF Stream
<1> QED BY <1>7, <1>8, <1>9, <1>10 DEF BatchInv

LEMMA ReadErrorBatch == TypeOK /\ BatchInv /\ ReadError => BatchInv'
<1> SUFFICES ASSUME TypeOK, BatchInv, ReadError PROVE BatchInv'
  OBVIOUS
<1> USE DEF ReadError, ioVars, queueVars, outVars, tabVars, growVars, histVars
<1>1. ~Passing' /\ ~Closing'
  BY DEF Passing, Closing
<1>2. Queue'
  BY <1>1 DEF BatchInv, Queue
<1>3. Room'
  BY <1>1 DEF BatchInv, Room
<1>4. Carried'
  BY <1>1 DEF Carried
<1>5. Stream'
  BY DEF BatchInv, Stream
<1> QED BY <1>2, <1>3, <1>4, <1>5 DEF BatchInv

\* A step that leaves the queue where it is leaves the lines in it.
LEMMA QueuedKept ==
    ASSUME UNCHANGED <<c_lines, buf, buf_pos>>
    PROVE  (\A n : Queued(n) <=> Queued(n)') /\ (\A n : From(n)' = From(n))
BY DEF Queued, From

\* A queued line grows the queue at its end.
LEMMA ScanQueue ==
    ASSUME TypeOK, \A n \in DOMAIN c_lines : Queued(n), buf' = buf,
           NEW l \in Nat, buf_pos + l < buf_sz, buf[buf_pos + l] = NL,
           NEW c, c.s = buf_pos, c.l = l, c.h = HashOf(Slice(buf, buf_pos, l)),
           c_lines' = Append(c_lines, c), c_lines \in Seq(QueuedLines), c \in QueuedLines,
           buf_pos' = buf_pos + l + 1
    PROVE  (\A n \in DOMAIN c_lines' : Queued(n)') /\ From(0)' = From(0)
<1> DEFINE k == Len(c_lines)
<1>1. /\ k \in Nat /\ DOMAIN c_lines = 1 .. k
      /\ Len(c_lines') = k + 1 /\ DOMAIN c_lines' = 1 .. k + 1
      /\ \A n \in 1 .. k : c_lines'[n] = c_lines[n]
      /\ c_lines'[k + 1] = c
  <2>1. c_lines' \in Seq(QueuedLines)
    OBVIOUS
  <2> QED BY <2>1, QueueTypes
<1>2. buf_pos \in Nat
  BY QueueTypes
<1> HIDE DEF k
<1>3. ASSUME NEW n \in 0 .. k PROVE From(n)' = From(n)
  <2>1. CASE n < k
    <3>1. n + 1 \in 1 .. k
      BY <2>1, <1>1
    <3> QED BY <3>1, <2>1, <1>1 DEF From, k
  <2>2. CASE n = k
    <3>1. From(n) = buf_pos
      BY <2>2, <1>1 DEF From, k
    <3>2. From(n)' = buf_pos
      BY <2>2, <1>1 DEF From
    <3> QED BY <3>1, <3>2
  <2> QED BY <2>1, <2>2, <1>1
<1>4. ASSUME NEW n \in 1 .. k PROVE Queued(n)'
  <2> DEFINE d == c_lines[n]
             f == From(n)
             g == From(n)'
  <2>1. Queued(n) /\ c_lines'[n] = d /\ g = f
    BY <1>1, <1>3
  <2>2. /\ f = d.s + d.l + 1 /\ f <= buf_pos
        /\ d.h = HashOf(Slice(buf, d.s, d.l)) /\ buf[d.s + d.l] = NL
    BY <2>1 DEF Queued
  <2>3. f \in Nat
    BY QueueTypes
  <2>4. f <= buf_pos'
    <3> HIDE DEF f
    <3> QED BY ONLY <2>2, <2>3, <1>2, l \in Nat, buf_pos' = buf_pos + l + 1
  <2> HIDE DEF f
  <2>5. g = d.s + d.l + 1 /\ g <= buf_pos'
    BY ONLY <2>1, <2>2, <2>4
  <2> HIDE DEF d
  <2> QED BY <2>1, <2>2, <2>5 DEF Queued
<1>5. ASSUME NEW n, n = k + 1 PROVE Queued(n)'
  <2>1. c_lines'[n] = c
    BY <1>1, <1>5
  <2>2. From(n)' = buf_pos + l + 1
    BY <1>1, <1>5 DEF From
  <2>3. buf_pos + l + 1 <= buf_pos'
    BY <1>2
  <2> QED BY <2>1, <2>2, <2>3 DEF Queued
<1>6. ASSUME NEW n \in DOMAIN c_lines' PROVE Queued(n)'
  <2>1. n \in 1 .. k \/ n = k + 1
    BY <1>1
  <2>2. CASE n \in 1 .. k
    BY <2>2, <1>4
  <2>3. CASE n = k + 1
    BY <2>3, <1>5
  <2> QED BY <2>1, <2>2, <2>3
<1> QED BY <1>1, <1>3, <1>6

LEMMA ScanLineBatch == TypeOK /\ BatchInv /\ ScanLine => BatchInv'
<1> SUFFICES ASSUME TypeOK, BatchInv, ScanLine PROVE BatchInv'
  OBVIOUS
<1>1. PICK l \in LineLengths(buf, buf_pos, buf_sz) :
        /\ l < buf_sz - buf_pos
        /\ c_lines' = Append(c_lines, [s |-> buf_pos, l |-> l,
                                       h |-> HashOf(Slice(buf, buf_pos, l))])
        /\ buf_pos' = buf_pos + l + 1
  BY DEF ScanLine
<1> DEFINE c == [s |-> buf_pos, l |-> l, h |-> HashOf(Slice(buf, buf_pos, l))]
<1>2. /\ pc = "scan" /\ c_i' = 0 /\ (pc' = "scan" \/ (pc' = "flush" /\ ret' = "scan" /\ force' = 0))
      /\ (pc' = "scan" => ret' = ret) /\ c_i = 0
      /\ UNCHANGED <<input, buf, buf_sz, r, out_buf, res, taken, original>>
  BY DEF ScanLine, outVars, histVars, BatchInv, Queue
<1>3. /\ buf \in Buffers
      /\ buf_pos \in Nat /\ buf_sz \in Nat /\ buf_pos <= buf_sz /\ buf_sz <= BUF_SZ
      /\ BUF_SZ \in Nat
  BY QueueTypes
<1>4. l \in Nat /\ buf_pos + l < buf_sz /\ buf[buf_pos + l] = NL
  BY <1>1, <1>3 DEF LineLengths
<1>5. Passing /\ Passing' /\ ~Closing'
  BY <1>2 DEF Passing, Closing
<1>6. c_lines \in Seq(QueuedLines) /\ c \in QueuedLines /\ c_lines' = Append(c_lines, c)
  <2>1. HashOf(Slice(buf, buf_pos, l)) \in Hashes
    BY <1>3, LineType
  <2>2. c \in QueuedLines
    BY <2>1, <1>3, <1>4 DEF QueuedLines
  <2> QED BY <2>2, <1>1 DEF TypeOK
<1>7. (\A n \in DOMAIN c_lines' : Queued(n)') /\ From(0)' = From(0)
  <2>1. \A n \in DOMAIN c_lines : Queued(n)
    BY <1>5 DEF BatchInv, Queue
  <2>2. c.s = buf_pos /\ c.l = l /\ c.h = HashOf(Slice(buf, buf_pos, l))
    OBVIOUS
  <2> HIDE DEF c
  <2> QED BY <2>1, <2>2, <1>1, <1>2, <1>4, <1>6, ScanQueue
<1>8. Queue'
  <2>1. c_i' <= Len(c_lines')
    BY <1>2, <1>6
  <2>2. pc' = "scan" => ret' # "done"
    BY <1>2 DEF BatchInv, Queue
  <2> QED BY <2>1, <2>2, <1>2, <1>5, <1>7 DEF Queue
<1>9. Room'
  BY <1>2, <1>5, <1>7 DEF BatchInv, Room
<1>10. Carried'
  <2>1. r # 0
    <3>1. SUFFICES ASSUME r = 0 PROVE FALSE
      OBVIOUS
    <3>2. buf_pos = 0 /\ NoBreak(buf, 0, buf_sz)
      BY <3>1, <1>5 DEF BatchInv, Carried
    <3>3. buf_pos + l \in 0 .. buf_sz - 1
      BY <1>3, <1>4
    <3> QED BY <3>2, <3>3, <1>4 DEF NoBreak
  <2> QED BY <2>1, <1>2, <1>5 DEF Carried
<1>11. Stream'
  <2>1. Remaining = Slice(buf, From(0), buf_sz - From(0))
    BY <1>2, <1>5 DEF Remaining
  <2>2. Remaining' = Slice(buf, From(c_i), buf_sz - From(c_i))'
    BY <1>2, <1>5 DEF Remaining
  <2>3. From(c_i)' = From(0)
    BY <1>2, <1>7
  <2>4. Remaining' = Remaining
    BY <2>1, <2>2, <2>3, <1>2
  <2>5. taken \in Seq(Bytes) /\ taken \o (Remaining \o input) = original
    BY <1>2 DEF BatchInv, Stream, Queue
  <2> QED BY <2>4, <2>5, <1>2 DEF Stream
<1> QED BY <1>8, <1>9, <1>10, <1>11 DEF BatchInv

LEMMA ScanEndBatch == TypeOK /\ BatchInv /\ ScanEnd => BatchInv'
<1> SUFFICES ASSUME TypeOK, BatchInv, ScanEnd PROVE BatchInv'
  OBVIOUS
<1>1. /\ pc = "scan" /\ pc' = "flush" /\ c_i' = 0 /\ c_i = 0 /\ force' = 1 /\ ret' = "tail"
      /\ UNCHANGED <<c_lines, input, buf, buf_pos, buf_sz, r, out_buf, res, taken, original>>
  BY DEF ScanEnd, ioVars, outVars, histVars, BatchInv, Queue
<1>2. Passing /\ Passing' /\ ~Closing'
  BY <1>1 DEF Passing, Closing
<1>3. (\A n : Queued(n) <=> Queued(n)') /\ (\A n : From(n)' = From(n))
  BY <1>1, QueuedKept
<1>4. Queue'
  BY <1>1, <1>2, <1>3 DEF BatchInv, Queue
<1>5. Room'
  BY <1>1, <1>2, <1>3 DEF BatchInv, Room
<1>6. Carried'
  <2>1. buf_pos \in Nat /\ buf_sz \in Nat /\ buf_pos <= buf_sz
    BY QueueTypes
  <2>2. buf_sz - buf_pos \in LineLengths(buf, buf_pos, buf_sz)
    BY DEF ScanEnd
  <2>3. ASSUME NEW k \in buf_pos .. buf_sz - 1 PROVE buf[k] # NL
    <3>1. k - buf_pos \in 0 .. (buf_sz - buf_pos) - 1 /\ buf_pos + (k - buf_pos) = k
      BY <2>1
    <3> QED BY <2>2, <3>1 DEF LineLengths
  <2> QED BY <1>1, <1>2, <2>3 DEF BatchInv, Carried, NoBreak
<1>7. Stream'
  <2>1. Remaining' = Remaining
    BY <1>1, <1>2, <1>3 DEF Remaining
  <2> QED BY <2>1, <1>1 DEF BatchInv, Stream, Queue
<1> QED BY <1>4, <1>5, <1>6, <1>7 DEF BatchInv

-----------------------------------------------------------------------------
(* Flushing a line.                                                        *)

\* What a flushed line adds to the output, and the abort() check.
LEMMA FlushOut ==
    ASSUME TypeOK, FlushLine
    PROVE  LET c == c_lines[c_i + 1]
           IN  /\ pc = "flush" /\ c_i + 1 \in 1 .. Len(c_lines) /\ c_i' = c_i + 1
               /\ Len(out_buf') \in Nat /\ Len(out_buf') <= Len(out_buf) + c.l + 1
               /\ Slice(buf, c.s, c.l) \in Seq(Bytes)
               /\ taken' = (taken \o Slice(buf, c.s, c.l)) \o Terminator(c.l)
               /\ pc' = "flush" \/ (pc' = "abort" /\ Len(out_buf') > BUF_SZ + 1)
               /\ UNCHANGED <<input, buf, buf_pos, buf_sz, r, c_lines, force, ret, res, original>>
<1> DEFINE c == c_lines[c_i + 1]
           line == Slice(buf, c.s, c.l)
<1>1. pc = "flush" /\ c_i + 1 \in 1 .. Len(c_lines) /\ c_i' = c_i + 1
  <2>1. pc = "flush" /\ c_i < Len(c_lines) /\ c_i' = c_i + 1
    BY DEF FlushLine
  <2>2. c_i \in Nat /\ Len(c_lines) \in Nat
    BY QueueTypes
  <2> QED BY ONLY <2>1, <2>2
<1>2. c.s \in Nat /\ c.l \in Nat /\ c.s + c.l <= BUF_SZ
  BY <1>1, QueueTypes
<1>3. line \in Seq(Bytes) /\ Len(line) = c.l
  <2> HIDE DEF c
  <2> QED BY <1>2, QueueTypes, SliceType DEF line
<1>4. /\ taken' = (taken \o line) \o Terminator(c.l)
      /\ UNCHANGED <<input, buf, buf_pos, buf_sz, r, c_lines, force, ret, res, original>>
      /\ \/ out_buf' = (out_buf \o line) \o <<NL>> /\ (pc' = IF Len(out_buf') > BUF_SZ + 1 THEN "abort" ELSE pc)
         \/ out_buf' = out_buf /\ pc' = pc
  BY DEF FlushLine, ioVars
<1>5. Len(out_buf') \in Nat /\ Len(out_buf') <= Len(out_buf) + c.l + 1
  <2> DEFINE x == out_buf \o line
             y == x \o <<NL>>
  <2>1. <<NL>> \in Seq(Bytes) /\ Len(<<NL>>) = 1
    BY DEF Bytes
  <2>2. out_buf \in Seq(Bytes) /\ Len(out_buf) \in Nat
    BY QueueTypes
  <2> HIDE DEF line, c
  <2>3. x \in Seq(Bytes) /\ Len(x) = Len(out_buf) + c.l
    BY ONLY <2>2, <1>3, ConcatProperties
  <2> HIDE DEF x
  <2>4. y \in Seq(Bytes) /\ Len(y) = Len(x) + 1
    BY ONLY <2>1, <2>3, ConcatProperties
  <2>5. out_buf' = y \/ out_buf' = out_buf
    BY <1>4 DEF x, y
  <2> HIDE DEF y
  <2>6. Len(y) \in Nat
    BY <2>4
  <2>7. CASE out_buf' = y
    BY <2>7, <2>2, <2>3, <2>4, <2>6, <1>2
  <2>8. CASE out_buf' = out_buf
    BY <2>8, <2>2, <1>2
  <2> QED BY <2>5, <2>7, <2>8
<1>6. pc' = "flush" \/ (pc' = "abort" /\ Len(out_buf') > BUF_SZ + 1)
  BY <1>1, <1>4
<1> QED BY <1>1, <1>3, <1>4, <1>5, <1>6

LEMMA FlushBatch == TypeOK /\ BatchInv /\ FlushLine => BatchInv'
<1> SUFFICES ASSUME TypeOK, BatchInv, FlushLine PROVE BatchInv'
  OBVIOUS
<1> DEFINE c == c_lines[c_i + 1]
           line == Slice(buf, c.s, c.l)
<1>1. /\ pc = "flush" /\ c_i + 1 \in 1 .. Len(c_lines) /\ c_i' = c_i + 1
      /\ Len(out_buf') \in Nat /\ Len(out_buf') <= Len(out_buf) + c.l + 1
      /\ line \in Seq(Bytes)
      /\ taken' = (taken \o line) \o Terminator(c.l)
      /\ pc' = "flush" \/ (pc' = "abort" /\ Len(out_buf') > BUF_SZ + 1)
      /\ UNCHANGED <<input, buf, buf_pos, buf_sz, r, c_lines, force, ret, res, original>>
  BY FlushOut
<1>2. /\ BUF_SZ \in Nat /\ BUF_SZ > 0 /\ buf \in Buffers
      /\ buf_pos \in Nat /\ buf_sz \in Nat /\ buf_pos <= buf_sz /\ buf_sz <= BUF_SZ
      /\ c_i \in Nat /\ Len(c_lines) \in Nat /\ DOMAIN c_lines = 1 .. Len(c_lines)
      /\ c.s \in Nat /\ c.l \in Nat /\ c.s + c.l <= BUF_SZ
      /\ Len(out_buf) \in Nat
  BY <1>1, QueueTypes
<1>3. (\A n : Queued(n) <=> Queued(n)') /\ (\A n : From(n)' = From(n))
  BY <1>1, QueuedKept
<1>4. input \in Seq(Bytes) /\ taken \in Seq(Bytes)
  BY InputBytes DEF BatchInv, Stream
<1>5. /\ c_i' <= Len(c_lines') /\ pc' \in {"flush", "abort"} /\ ret' = ret /\ force' = force
      /\ c_lines' = c_lines
      /\ force = IF ret = "scan" THEN 0 ELSE 1
  BY <1>1, <1>2 DEF BatchInv, Queue
<1>6. CASE ret \in {"scan", "tail"}
  <2>1. Passing /\ ~Closing /\ ~Closing' /\ (pc' = "flush" => Passing') /\ (Passing' => pc' = "flush")
    BY <1>1, <1>6 DEF Passing, Closing
  <2>2. Queued(c_i + 1) /\ From(c_i) = c.s
    <3>1. \A n \in 1 .. Len(c_lines) : Queued(n)
      BY <1>2, <2>1 DEF BatchInv, Queue
    <3>2. c_i < Len(c_lines)
      BY ONLY <1>1, <1>2
    <3> QED BY <1>1, <3>1, <3>2 DEF From
  <2>3. /\ From(c_i + 1) = c.s + c.l + 1 /\ From(c_i + 1) <= buf_pos
        /\ buf[c.s + c.l] = NL
    BY <2>2 DEF Queued
  <2>4. Len(out_buf) <= c.s
    BY <2>1, <2>2 DEF BatchInv, Room
  <2>5. Len(out_buf') <= c.s + c.l + 1 /\ c.s + c.l + 1 <= buf_pos
    <3>1. PICK s \in Nat, l \in Nat : c.s = s /\ c.l = l
      BY <1>2
    <3>2. PICK o \in Nat, q \in Nat : Len(out_buf) = o /\ Len(out_buf') = q
      BY <1>1, <1>2
    <3>3. q <= o + l + 1 /\ o <= s
      BY <1>1, <2>4, <3>1, <3>2
    <3>4. q <= s + l + 1
      BY ONLY <3>3, s \in Nat, l \in Nat, o \in Nat, q \in Nat
    <3>5. s + l + 1 <= buf_pos
      BY <2>3, <3>1
    <3> HIDE DEF c
    <3> QED BY <3>1, <3>2, <3>4, <3>5
  <2>6. pc' = "flush"
    <3> HIDE DEF c
    <3> QED BY <1>1, <1>2, <2>5, SMTT(30)
  <2>7. From(c_i)' = c.s + c.l + 1
    BY <1>1, <2>3 DEF From
  <2>8. Queue'
    <3>1. \A n \in DOMAIN c_lines' : Queued(n)'
      BY <2>1, <1>3, <1>5 DEF BatchInv, Queue
    <3> QED BY <3>1, <2>1, <2>6, <1>5, <1>6 DEF Queue
  <2>9. Room'
    BY <2>1, <2>6, <2>5, <2>7 DEF Room
  <2>10. Carried'
    BY <2>1, <2>6, <1>1 DEF BatchInv, Carried
  <2>11. Stream'
    <3> DEFINE s == c.s + c.l + 1
               rest == Slice(buf, s, buf_sz - s)
    <3>1. Remaining = Slice(buf, c.s, buf_sz - c.s)
      BY <2>1, <2>2, <1>1 DEF Remaining
    <3>2. Remaining' = Slice(buf, From(c_i), buf_sz - From(c_i))'
      BY <2>1, <2>6 DEF Remaining
    <3>3. Remaining' = rest
      BY <3>2, <2>7, <1>1
    <3>4. c.s + c.l < buf_sz
      <4> HIDE DEF c
      <4> QED BY <2>5, <1>2
    <3>5. Remaining = (line \o <<NL>>) \o rest
      <4>1. /\ c.s \in Nat /\ c.l \in Nat /\ buf_sz \in Nat /\ c.s + c.l < buf_sz
            /\ buf_sz <= BUF_SZ /\ buf[c.s + c.l] = NL /\ buf \in Buffers
        BY <1>2, <2>3, <3>4
      <4> HIDE DEF c
      <4>2. PICK k \in Nat, l \in Nat : c.s = k /\ c.l = l
        BY ONLY <4>1
      <4>3. /\ k + l < buf_sz /\ buf_sz <= BUF_SZ /\ buf[k + l] = NL /\ buf_sz \in Nat
            /\ buf \in Buffers
        BY ONLY <4>1, <4>2
      <4>4. Slice(buf, k, buf_sz - k)
              = (Slice(buf, k, l) \o <<NL>>) \o Slice(buf, k + l + 1, buf_sz - (k + l + 1))
        BY ONLY <4>3, k \in Nat, l \in Nat, SliceLine, ZenonT(60)
      <4>5. Slice(buf, c.s, buf_sz - c.s) = (Slice(buf, c.s, c.l) \o <<NL>>) \o rest
        BY <4>2, <4>4
      <4> QED BY <4>5, <3>1
    <3>6. rest \in Seq(Bytes) /\ <<NL>> \in Seq(Bytes)
      <4>1. s \in Nat /\ buf_sz - s \in Nat /\ s + (buf_sz - s) <= BUF_SZ
        <5> HIDE DEF c
        <5> QED BY <1>2, <3>4
      <4> HIDE DEF s
      <4> QED BY <4>1, <1>2, SliceType DEF Bytes
    <3>7. Terminator(c.l) = <<NL>>
      <4>1. c.l # BUF_SZ
        <5> HIDE DEF c
        <5> QED BY <1>2, <3>4
      <4> QED BY <4>1 DEF Terminator
    <3>8. ret # "done"
      BY <1>6
    <3>9. taken \o (Remaining \o input) = original
      BY <3>8, <1>1 DEF BatchInv, Stream
    <3> HIDE DEF line, rest, c
    <3>10. line \o <<NL>> \in Seq(Bytes) /\ taken' = taken \o (line \o <<NL>>)
      <4>1. line \in Seq(Bytes)
        BY <1>1
      <4>2. (taken \o line) \o <<NL>> = taken \o (line \o <<NL>>)
        <5> DEFINE nl == <<NL>>
        <5>1. line \in Seq(Bytes) /\ nl \in Seq(Bytes) /\ taken \in Seq(Bytes)
          BY <4>1, <3>6, <1>4
        <5> HIDE DEF nl
        <5>2. (taken \o line) \o nl = taken \o (line \o nl)
          BY ONLY <5>1, Regroup
        <5> QED BY <5>2 DEF nl
      <4>3. line \o <<NL>> \in Seq(Bytes)
        BY ONLY <4>1, <3>6, ConcatProperties
      <4> QED BY <4>2, <4>3, <1>1, <3>7
    <3>11. /\ taken \o (line \o <<NL>>) \in Seq(Bytes)
           /\ taken \o (((line \o <<NL>>) \o rest) \o input)
                = (taken \o (line \o <<NL>>)) \o (rest \o input)
      <4> DEFINE x == line \o <<NL>>
      <4>1. x \in Seq(Bytes)
        BY <3>10
      <4> HIDE DEF x
      <4>2. taken \o x \in Seq(Bytes)
        BY ONLY <4>1, <1>4, ConcatProperties
      <4>3. taken \o ((x \o rest) \o input) = (taken \o x) \o (rest \o input)
        <5> DEFINE u == rest \o input
        <5>1. (x \o rest) \o input = x \o u
          BY ONLY <4>1, <3>6, <1>4, Regroup
        <5>2. u \in Seq(Bytes)
          BY ONLY <3>6, <1>4, ConcatProperties
        <5> HIDE DEF u
        <5>3. (taken \o x) \o u = taken \o (x \o u)
          BY ONLY <4>1, <5>2, <1>4, Regroup, ZenonT(30)
        <5> QED BY <5>1, <5>3 DEF u
      <4> QED BY <4>2, <4>3 DEF x
    <3> QED BY <3>3, <3>5, <3>9, <3>10, <3>11, <1>1 DEF Stream
  <2> QED BY <2>8, <2>9, <2>10, <2>11 DEF BatchInv
<1>7. CASE ret \in {"grow", "done"}
  <2>1. ~Passing /\ Closing /\ ~Passing' /\ (pc' = "flush" => Closing')
    BY <1>1, <1>7 DEF Passing, Closing
  <2>2. /\ buf_pos = 0 /\ buf_sz = 0
        /\ Len(c_lines) = 1 /\ c_lines[1].s = 0 /\ c_lines[1].l = BUF_SZ
        /\ \E l \in LineLengths(buf, 0, BUF_SZ) : c_lines[1].h = HashOf(Slice(buf, 0, l))
    BY <2>1, <1>1 DEF BatchInv, Queue, Whole
  <2>3. c_i = 0 /\ c = c_lines[1]
    <3>1. c_i + 1 = 1
      BY <2>2, <1>1, <1>2
    <3> QED BY <3>1, <1>2
  <2>4. out_buf = <<>>
    BY <2>1, <2>3, <1>1 DEF BatchInv, Room
  <2>5. pc' = "flush"
    <3>1. Len(out_buf) = 0 /\ c.l = BUF_SZ
      BY <2>2, <2>3, <2>4
    <3> HIDE DEF c
    <3> QED BY <3>1, <1>1, <1>2
  <2>6. Queue'
    <3>1. Whole'
      BY <2>2, <1>1 DEF Whole
    <3> QED BY <3>1, <2>1, <2>5, <1>5, <1>7 DEF Queue
  <2>7. Room'
    BY <2>1, <2>5, <1>1, <1>2 DEF Room
  <2>8. Carried'
    BY <2>1, <2>5 DEF Carried
  <2>9. Stream'
    <3>1. Remaining = line
      BY <2>1, <2>2, <2>3, <1>1 DEF Remaining
    <3>2. Remaining' = <<>>
      BY <2>1, <2>5, <1>1, <1>2 DEF Remaining
    <3>3. Terminator(c.l) = <<>>
      BY <2>2, <2>3 DEF Terminator
    <3>4. line \in Seq(Bytes)
      BY <1>1
    <3> HIDE DEF line, c
    <3>5. taken \o line \in Seq(Bytes)
      BY ONLY <3>4, <1>4, ConcatProperties
    <3>6. taken' = taken \o line
      BY <3>3, <3>5, <1>1, ConcatEmptySeq
    <3>7. <<>> \o input = input
      BY <1>4, ConcatEmptySeq
    <3>8. taken \o (line \o input) = (taken \o line) \o input
      BY ONLY <3>4, <1>4, Regroup
    <3>9. ret # "done" => taken \o (line \o input) = original
      BY <3>1, <1>1 DEF BatchInv, Stream
    <3> QED BY <3>2, <3>5, <3>6, <3>7, <3>8, <3>9, <1>1 DEF Stream
  <2> QED BY <2>6, <2>7, <2>8, <2>9 DEF BatchInv
<1> QED BY <1>6, <1>7 DEF TypeOK

-----------------------------------------------------------------------------
(* The end of a batch, the output and the carried line.                    *)

LEMMA FlushEndBatch == TypeOK /\ BatchInv /\ FlushEnd => BatchInv'
<1> SUFFICES ASSUME TypeOK, BatchInv, FlushEnd PROVE BatchInv'
  OBVIOUS
<1>1. /\ pc = "flush" /\ c_i = Len(c_lines) /\ c_lines' = <<>> /\ c_i' = 0
      /\ pc' = IF force = 1 /\ out_buf # <<>> THEN "write" ELSE ret
      /\ UNCHANGED <<force, ret, input, buf, buf_pos, buf_sz, r, out_buf, res, taken, original>>
  BY DEF FlushEnd, ioVars, outVars, histVars
<1>2. /\ buf_pos \in Nat /\ buf_sz \in Nat /\ Len(c_lines) \in Nat /\ BUF_SZ \in Nat /\ BUF_SZ > 0
      /\ ret \in {"scan", "tail", "grow", "done"} /\ Len(out_buf) \in Nat
      /\ DOMAIN c_lines = 1 .. Len(c_lines)
  BY QueueTypes DEF TypeOK
<1>3. From(c_i) = buf_pos /\ From(c_i)' = buf_pos
  BY <1>1, <1>2 DEF From
<1>4. /\ ret = "scan" => pc' = "scan"
      /\ ret # "scan" => pc' \in {"write", ret}
      /\ ret # "scan" => pc' = "write" \/ out_buf = <<>>
  BY <1>1 DEF BatchInv, Queue
<1>5. CASE ret \in {"scan", "tail"}
  <2>1. Passing /\ Passing' /\ ~Closing'
    BY <1>1, <1>4, <1>5 DEF Passing, Closing
  <2>2. Queue'
    BY <2>1, <1>1, <1>4, <1>5 DEF Queue
  <2>3. Len(out_buf) <= buf_pos
    BY <2>1, <1>3 DEF BatchInv, Room
  <2>4. pc' = "tail" => out_buf = <<>>
    BY <1>4, <1>5
  <2>5. Room'
    BY <2>1, <2>3, <2>4, <1>1, <1>3, <1>4, <1>5 DEF Room
  <2>6. Carried'
    BY <2>1, <1>1, <1>4, <1>5 DEF BatchInv, Carried
  <2>7. Remaining = Slice(buf, buf_pos, buf_sz - buf_pos)
    BY <2>1, <1>1, <1>3 DEF Remaining
  <2>8. Remaining' = Slice(buf, From(c_i), buf_sz - From(c_i))'
    BY <2>1, <1>1, <1>4, <1>5 DEF Remaining
  <2>9. Remaining' = Remaining
    BY <2>7, <2>8, <1>1, <1>3
  <2>10. Stream'
    BY <2>9, <1>1, <1>5 DEF BatchInv, Stream
  <2> QED BY <2>2, <2>5, <2>6, <2>10 DEF BatchInv
<1>6. CASE ret \in {"grow", "done"}
  <2>1. ~Passing /\ Closing /\ ~Passing' /\ (Closing' => pc' = "write")
    BY <1>1, <1>4, <1>6 DEF Passing, Closing
  <2>2. buf_pos = 0 /\ buf_sz = 0 /\ Len(c_lines) = 1
    BY <2>1, <1>1 DEF BatchInv, Queue, Whole
  <2>3. Queue'
    BY <2>1, <2>2, <1>1, <1>4, <1>6 DEF Queue, Whole
  <2>4. pc' = "grow" => out_buf = <<>>
    BY <1>4, <1>6
  <2>5. Room'
    BY <2>1, <2>4, <1>1, <1>4, <1>6 DEF Room
  <2>6. Carried'
    BY <2>1, <2>2, <1>1, <1>4, <1>6 DEF Carried, NoBreak
  <2>7. Remaining = <<>>
    BY <2>1, <2>2, <1>1 DEF Remaining
  <2>8. Remaining' = <<>>
    BY <2>1, <2>2, <1>1, <1>4, <1>6, SliceEmpty DEF Remaining
  <2>9. Stream'
    BY <2>7, <2>8, <1>1 DEF BatchInv, Stream
  <2> QED BY <2>3, <2>5, <2>6, <2>9 DEF BatchInv
<1> QED BY <1>2, <1>5, <1>6

LEMMA WriteBatch == TypeOK /\ BatchInv /\ (Write \/ WriteError) => BatchInv'
<1> SUFFICES ASSUME TypeOK, BatchInv, Write \/ WriteError PROVE BatchInv'
  OBVIOUS
<1>1. /\ pc = "write" /\ pc' = ret /\ (out_buf' = <<>> \/ (out_buf' = out_buf /\ res' = -1))
      /\ UNCHANGED <<c_lines, c_i, force, ret, input, buf, buf_pos, buf_sz, r, taken, original>>
  BY DEF Write, WriteError, ioVars, queueVars, histVars
<1>2. /\ c_lines = <<>> /\ c_i = 0 /\ ret \in {"tail", "grow", "done"}
  BY <1>1 DEF BatchInv, Queue, TypeOK
<1>3. /\ buf_pos \in Nat /\ buf_sz \in Nat /\ From(0) = buf_pos /\ From(0)' = buf_pos
      /\ Len(out_buf) \in Nat
  BY <1>1, <1>2, QueueTypes DEF From
<1>4. CASE ret = "tail"
  <2>1. Passing /\ Passing' /\ ~Closing'
    BY <1>1, <1>4 DEF Passing, Closing
  <2>2. Queue'
    BY <2>1, <1>1, <1>2, <1>4 DEF Queue
  <2>3. Len(out_buf) <= buf_pos
    BY <2>1, <1>2, <1>3 DEF BatchInv, Room
  <2>4. Len(out_buf') <= buf_pos
    BY <2>3, <1>1, <1>3
  <2>5. Room'
    BY <2>1, <2>4, <1>1, <1>2, <1>3, <1>4 DEF Room
  <2>6. Carried'
    BY <2>1, <1>1, <1>4 DEF BatchInv, Carried
  <2>7. Remaining' = Remaining
    BY <2>1, <1>1, <1>2, <1>3, <1>4 DEF Remaining
  <2>8. Stream'
    BY <2>7, <1>1, <1>4 DEF BatchInv, Stream
  <2> QED BY <2>2, <2>5, <2>6, <2>8 DEF BatchInv
<1>5. CASE ret \in {"grow", "done"}
  <2>1. ~Passing /\ Closing /\ ~Passing' /\ ~Closing'
    BY <1>1, <1>5 DEF Passing, Closing
  <2>2. buf_pos = 0 /\ buf_sz = 0
    BY <2>1 DEF BatchInv, Queue, Whole
  <2>3. Queue'
    BY <2>1, <1>1, <1>2, <1>5 DEF Queue
  <2>4. Room'
    BY <2>1, <1>1, <1>5 DEF Room
  <2>5. Carried'
    BY <2>1, <2>2, <1>1, <1>5 DEF Carried, NoBreak
  <2>6. Remaining = <<>>
    BY <2>1, <1>1 DEF Remaining
  <2>7. Remaining' = <<>>
    BY <2>1, <2>2, <1>1, <1>5, SliceEmpty DEF Remaining
  <2>8. Stream'
    BY <2>6, <2>7, <1>1 DEF BatchInv, Stream
  <2> QED BY <2>3, <2>4, <2>5, <2>8 DEF BatchInv
<1> QED BY <1>2, <1>4, <1>5

LEMMA TailBatch == TypeOK /\ BatchInv /\ Tail_ => BatchInv'
<1> SUFFICES ASSUME TypeOK, BatchInv, Tail_ PROVE BatchInv'
  OBVIOUS
<1> DEFINE n == buf_sz - buf_pos
<1>1. /\ pc = "tail" /\ buf' = Moved
      /\ UNCHANGED <<input, r, out_buf, res, taken, original>>
  BY DEF Tail_, outVars, histVars
<1>2. c_lines = <<>> /\ c_i = 0 /\ ret # "done"
  BY <1>1 DEF BatchInv, Queue
<1>3. /\ buf_pos \in Nat /\ buf_sz \in Nat /\ From(0) = buf_pos /\ buf_pos <= buf_sz
      /\ Len(out_buf) \in Nat /\ out_buf \in Seq(Bytes) /\ BUF_SZ \in Nat /\ BUF_SZ > 0
      /\ buf_sz <= BUF_SZ /\ buf \in Buffers
  BY <1>2, QueueTypes DEF From
<1>4. Passing
  BY <1>1 DEF Passing
<1>5. Len(out_buf) <= buf_pos /\ NoBreak(buf, buf_pos, buf_sz) /\ (r = 0 => buf_pos = 0)
      /\ (res = 0 => out_buf = <<>>)
  BY <1>1, <1>2, <1>3, <1>4 DEF BatchInv, Room, Carried
<1>6. n \in Nat /\ n <= BUF_SZ /\ buf_pos + n = buf_sz
  BY <1>3
<1>7. /\ Moved \in Buffers
      /\ \A k \in 0 .. n - 1 : Moved[k] = buf[buf_pos + k]
  <2>1. Moved \in Buffers
    BY <1>3 DEF Moved, Buffers
  <2>2. ASSUME NEW k \in 0 .. n - 1 PROVE Moved[k] = buf[buf_pos + k]
    <3>1. k \in DOMAIN buf /\ k < buf_sz - buf_pos
      BY <1>3, <1>6 DEF Buffers
    <3> QED BY <3>1 DEF Moved
  <2> QED BY <2>1, <2>2
<1>8. Slice(Moved, 0, n) = Slice(buf, buf_pos, n)
  <2> HIDE DEF n
  <2>1. ASSUME NEW i \in 1 .. n PROVE Moved[0 + i - 1] = buf[buf_pos + i - 1]
    <3>1. i - 1 \in 0 .. n - 1 /\ 0 + i - 1 = i - 1 /\ buf_pos + i - 1 = buf_pos + (i - 1)
      BY <1>6, <1>3
    <3> QED BY <3>1, <1>7
  <2> QED BY ONLY <2>1, <1>6, SliceEqual
<1>9. taken \in Seq(Bytes) /\ taken \o (Slice(buf, buf_pos, n) \o input) = original
  <2>1. Remaining = Slice(buf, From(c_i), buf_sz - From(c_i))
    BY <1>1, <1>4 DEF Remaining
  <2>2. Remaining = Slice(buf, buf_pos, n)
    BY <2>1, <1>2, <1>3
  <2> QED BY <2>2, <1>1, <1>2 DEF BatchInv, Stream
<1>10. CASE ~LineDue
  <2>1. /\ buf_pos' = n /\ pc' = "grow" /\ UNCHANGED <<buf_sz, c_lines, c_i, force, ret>>
    BY <1>10 DEF Tail_, queueVars
  <2>2. ~Passing' /\ ~Closing'
    BY <2>1 DEF Passing, Closing
  <2>3. Queue'
    BY <2>1, <2>2, <1>2 DEF Queue
  <2>4. Room'
    BY <2>1, <2>2, <1>1, <1>5 DEF Room
  <2>5. Carried'
    <3>1. ASSUME NEW k \in 0 .. n - 1 PROVE Moved[k] # NL
      <4>1. buf_pos + k \in buf_pos .. buf_sz - 1
        BY <1>3, <1>6
      <4> QED BY <4>1, <1>5, <1>7 DEF NoBreak
    <3> QED BY <3>1, <2>1, <2>2, <1>1 DEF Carried, NoBreak
  <2>6. Remaining' = Slice(buf, buf_pos, n)
    BY <2>1, <1>1, <1>8 DEF Remaining
  <2>7. Stream'
    BY <2>6, <1>1, <1>9 DEF Stream
  <2> QED BY <2>3, <2>4, <2>5, <2>7 DEF BatchInv
<1>11. CASE LineDue
  <2>1. PICK l \in LineLengths(Moved, 0, BUF_SZ) :
            c_lines' = <<[s |-> 0, l |-> BUF_SZ, h |-> HashOf(Slice(Moved, 0, l))]>>
    BY <1>11 DEF Tail_
  <2>2. /\ buf_pos' = 0 /\ buf_sz' = 0 /\ pc' = "flush" /\ c_i' = 0 /\ force' = 1
        /\ ret' = IF r = 0 THEN "done" ELSE "grow"
    BY <1>11 DEF Tail_
  <2>3. ~Passing' /\ Closing'
    BY <2>2 DEF Passing, Closing
  <2>4. Whole'
    BY <2>1, <2>2, <1>1 DEF Whole
  <2>5. Queue'
    BY <2>1, <2>2, <2>3, <2>4 DEF Queue
  <2>6. out_buf = <<>>
    <3>1. buf_pos = 0
      BY <1>3, <1>5, <1>11 DEF LineDue
    <3>2. Len(out_buf) = 0
      BY <3>1, <1>3, <1>5
    <3> QED BY <3>2, <1>3
  <2>7. Room'
    BY <2>2, <2>3, <2>6, <1>1 DEF Room
  <2>8. Carried'
    BY <2>2, <2>3 DEF Carried
  <2>9. Stream'
    <3>1. CASE r = 0
      BY <3>1, <2>2, <1>1, <1>9 DEF Stream
    <3>2. CASE r # 0
      <4>1. n = BUF_SZ
        BY <3>2, <1>11 DEF LineDue
      <4>2. Remaining' = Slice(buf, buf_pos, n)
        BY <4>1, <2>2, <2>3, <1>1, <1>8 DEF Remaining
      <4> QED BY <4>2, <1>1, <1>9 DEF Stream
    <3> QED BY <3>1, <3>2
  <2> QED BY <2>5, <2>7, <2>8, <2>9 DEF BatchInv
<1> QED BY <1>10, <1>11

LEMMA GrowBatch == TypeOK /\ BatchInv /\ (Grow \/ Rehash \/ RehashEnd) => BatchInv'
<1> SUFFICES ASSUME TypeOK, BatchInv, Grow \/ Rehash \/ RehashEnd PROVE BatchInv'
  OBVIOUS
<1>1. /\ pc \in {"grow", "rehash"} /\ pc' \in {"rehash", LoopTest}
      /\ UNCHANGED <<c_lines, c_i, force, ret, input, buf, buf_pos, buf_sz, r, out_buf, res,
                     taken, original>>
  BY DEF Grow, Rehash, RehashEnd, ioVars, queueVars, outVars, histVars
<1>2. pc' \in {"rehash", "read", "done"} /\ (pc' = "read" => res = 0)
  BY <1>1 DEF LoopTest
<1>3. ~Passing' /\ ~Closing'
  BY <1>2 DEF Passing, Closing
<1>4. Queue'
  BY <1>1, <1>2, <1>3 DEF BatchInv, Queue
<1>5. Room'
  BY <1>1, <1>2, <1>3 DEF BatchInv, Room
<1>6. Carried'
  BY <1>1, <1>2, <1>3 DEF BatchInv, Carried
<1>7. pc' # "done" => Remaining' = Remaining
  BY <1>1, <1>2 DEF Remaining
<1>8. Stream'
  BY <1>1, <1>2, <1>7 DEF BatchInv, Stream, Queue
<1> QED BY <1>4, <1>5, <1>6, <1>8 DEF BatchInv

LEMMA BatchStep == TypeOK /\ BatchInv /\ [Next]_vars => BatchInv'
<1> SUFFICES ASSUME TypeOK, BatchInv, [Next]_vars PROVE BatchInv'
  OBVIOUS
<1>1. CASE UNCHANGED vars
  <2>1. UNCHANGED <<pc, c_lines, c_i, force, ret, input, buf, buf_pos, buf_sz, r, out_buf, res,
                    taken, original>>
    BY <1>1 DEF vars, ioVars, queueVars, outVars, histVars
  <2>2. Queue' /\ Room' /\ Carried' /\ Stream'
    <3> USE DEF BatchInv, Passing, Closing, From
    <3>1. Queue'
      BY <2>1 DEF Queue, Queued, Whole
    <3>2. Room'
      BY <2>1 DEF Room
    <3>3. Carried'
      BY <2>1 DEF Carried
    <3>4. Stream'
      BY <2>1 DEF Stream, Remaining
    <3> QED BY <3>1, <3>2, <3>3, <3>4
  <2> QED BY <2>2 DEF BatchInv
<1> QED BY <1>1, ReadBatch, ReadErrorBatch, ScanLineBatch, ScanEndBatch, FlushBatch,
           FlushEndBatch, WriteBatch, TailBatch, GrowBatch DEF Next, Terminated

LEMMA BatchAlways == Spec => [](TypeOK /\ BatchInv)
<1>1. Init => TypeOK /\ BatchInv
  BY InitType, BatchInit
<1>2. TypeOK /\ BatchInv /\ [Next]_vars => (TypeOK /\ BatchInv)'
  BY TypeStep, BatchStep
<1> QED BY <1>1, <1>2, PTL DEF Spec

-----------------------------------------------------------------------------
(* What is pending, and the two theorems.                                  *)

\* A set of natural numbers has a least element: intervals are well-founded.
LEMMA Least ==
    ASSUME NEW T \in SUBSET Nat, T # {}
    PROVE  \E x \in T : \A y \in T : ~(y < x)
<1> DEFINE R == StrictSubsetOrdering(Nat)
           F == FiniteSubsetsOf(Nat)
           U == {1 .. n : n \in T}
<1>1. IsWellFoundedOn(R, F)
  BY FS_StrictSubsetOrderingWellFounded
<1>2. U \subseteq F /\ U # {}
  <2>1. \A n \in Nat : IsFiniteSet(1 .. n) /\ 1 .. n \subseteq Nat
    BY FS_Interval
  <2> QED BY <2>1 DEF FiniteSubsetsOf
<1>3. \E x \in U : \A y \in U : ~(<<y, x>> \in R)
  <2> HIDE DEF R, F, U
  <2> QED BY <1>1, <1>2, WFMin
<1>4. PICK x \in T : \A y \in T : <<1 .. y, 1 .. x>> \notin R
  BY <1>3
<1>5. ASSUME NEW y \in T, y < x PROVE FALSE
  <2>1. 1 .. y \subseteq 1 .. x /\ x \in 1 .. x /\ x \notin 1 .. y /\ 1 .. x \subseteq Nat
    BY <1>5
  <2>2. <<1 .. y, 1 .. x>> \in R
    BY <2>1 DEF StrictSubsetOrdering
  <2> QED BY <1>4, <2>2
<1> QED BY <1>5

\* Induction, stated of a set: what holds at 0 and passes on holds of Nat.
LEMMA Induction ==
    ASSUME NEW S, 0 \in S, \A n \in Nat : n \in S => n + 1 \in S
    PROVE  Nat \subseteq S
<1> SUFFICES ASSUME Nat \ S # {} PROVE FALSE
  OBVIOUS
<1>1. PICK x \in Nat \ S : \A y \in Nat \ S : ~(y < x)
  BY Least
<1>2. x - 1 \in Nat /\ x - 1 < x
  BY <1>1
<1>3. x - 1 \in S
  BY <1>1, <1>2
<1>4. (x - 1) + 1 \in S
  BY <1>2, <1>3
<1> QED BY <1>1, <1>4

\* The recursion of Pending has one solution.
LEMMA PendingIs ==
    ASSUME TypeOK, NEW g,
           g = [n \in 0 .. Len(c_lines) |->
                  IF n <= c_i THEN <<>>
                  ELSE g[n - 1] \o Slice(buf, c_lines[n].s, c_lines[n].l)
                                \o Terminator(c_lines[n].l)]
    PROVE  Pending = g[Len(c_lines)]
<1> DEFINE L == Len(c_lines)
           Step(f, n) == IF n <= c_i THEN <<>>
                         ELSE f[n - 1] \o Slice(buf, c_lines[n].s, c_lines[n].l)
                                       \o Terminator(c_lines[n].l)
           chars == CHOOSE f : f = [n \in 0 .. L |-> Step(f, n)]
<1>1. L \in Nat /\ c_i \in Nat
  BY QueueTypes
<1>2. g = [n \in 0 .. L |-> Step(g, n)]
  OBVIOUS
<1>3. chars = [n \in 0 .. L |-> Step(chars, n)]
  <2> HIDE DEF Step, L
  <2> QED BY <1>2
<1>4. Pending = chars[L]
  BY DEF Pending
<1> HIDE DEF chars, L
<1> DEFINE S == {n \in Nat : n <= L => chars[n] = g[n]}
<1>5. 0 \in S
  <2>1. 0 \in 0 .. L /\ 0 <= c_i
    BY <1>1
  <2>2. chars[0] = Step(chars, 0) /\ g[0] = Step(g, 0)
    <3> HIDE DEF Step
    <3> QED BY <2>1, <1>2, <1>3
  <2> QED BY <2>1, <2>2
<1>6. ASSUME NEW n \in Nat, n \in S PROVE n + 1 \in S
  <2>1. SUFFICES ASSUME n + 1 <= L PROVE chars[n + 1] = g[n + 1]
    BY <1>6
  <2>2. chars[n] = g[n] /\ n + 1 \in 0 .. L /\ (n + 1) - 1 = n
    BY <1>1, <1>6, <2>1
  <2>3. chars[n + 1] = Step(chars, n + 1) /\ g[n + 1] = Step(g, n + 1)
    <3> HIDE DEF Step
    <3> QED BY <2>2, <1>2, <1>3
  <2>4. Step(chars, n + 1) = Step(g, n + 1)
    BY <2>2
  <2> QED BY <2>3, <2>4
<1>7. L \in S
  <2> HIDE DEF S
  <2> QED BY <1>1, <1>5, <1>6, Induction
<1> QED BY <1>1, <1>4, <1>7 DEF L

\* Successive lines: what is consumed only grows.
LEMMA FromGrows ==
    ASSUME TypeOK, \A n \in DOMAIN c_lines : Queued(n),
           NEW k \in 0 .. Len(c_lines), NEW n \in k .. Len(c_lines)
    PROVE  From(k) <= From(n)
<1> DEFINE L == Len(c_lines)
           S == {m \in Nat : k + m <= L => From(k) <= From(k + m)}
<1>1. L \in Nat /\ \A m \in Nat : From(m) \in Nat
  BY QueueTypes
<1>2. 0 \in S
  BY <1>1
<1>3. ASSUME NEW m \in Nat, m \in S PROVE m + 1 \in S
  <2>1. SUFFICES ASSUME k + (m + 1) <= L PROVE From(k) <= From(k + (m + 1))
    BY <1>3
  <2> DEFINE i == k + (m + 1)
             prior == k + m
  <2>2. i \in 1 .. L /\ prior \in Nat /\ i \in Nat /\ prior + 1 = i /\ prior < L
    BY <1>1, <2>1
  <2>3. From(k) <= From(prior)
    BY <1>1, <1>3, <2>1
  <2>4. Queued(i)
    BY <2>2, QueueTypes
  <2> HIDE DEF i, prior
  <2>5. From(prior) = c_lines[i].s
    BY <2>2 DEF From
  <2>6. From(i) = c_lines[i].s + c_lines[i].l + 1
    BY <2>4 DEF Queued
  <2>7. c_lines[i].s \in Nat /\ c_lines[i].l \in Nat
    BY <2>2, QueueTypes
  <2>8. From(prior) <= From(i)
    BY <2>5, <2>6, <2>7
  <2>9. From(k) \in Nat /\ From(prior) \in Nat /\ From(i) \in Nat
    BY <1>1, <2>2
  <2>10. From(k) <= From(i)
    BY ONLY <2>3, <2>8, <2>9
  <2> QED BY <2>10 DEF i
<1>4. n - k \in Nat /\ k + (n - k) = n /\ n <= L
  BY <1>1
<1>5. n - k \in S
  <2> HIDE DEF S
  <2> QED BY <1>2, <1>3, <1>4, Induction
<1> QED BY <1>4, <1>5

\* In a pass the pending lines are the bytes from the next one to buf_pos.
LEMMA PendingPass ==
    ASSUME TypeOK, \A n \in DOMAIN c_lines : Queued(n), c_i <= Len(c_lines)
    PROVE  /\ From(c_i) <= buf_pos
           /\ Pending = Slice(buf, From(c_i), buf_pos - From(c_i))
<1> DEFINE L == Len(c_lines)
           F == From(c_i)
           g == [n \in 0 .. L |-> IF n <= c_i THEN <<>> ELSE Slice(buf, F, From(n) - F)]
<1>1. /\ L \in Nat /\ DOMAIN c_lines = 1 .. L
      /\ BUF_SZ \in Nat /\ buf \in Buffers /\ buf_pos \in Nat
      /\ buf_pos <= BUF_SZ /\ c_i \in Nat /\ \A n \in Nat : From(n) \in Nat
  <2>1. buf_pos \in Nat /\ buf_sz \in Nat /\ BUF_SZ \in Nat /\ buf_pos <= buf_sz /\ buf_sz <= BUF_SZ
    BY QueueTypes
  <2>2. buf_pos <= BUF_SZ
    BY ONLY <2>1
  <2> QED BY <2>1, <2>2, QueueTypes
<1>2. From(L) = buf_pos /\ c_i \in 0 .. L /\ F \in Nat
  BY <1>1 DEF From
<1>3. ASSUME NEW n \in c_i .. L PROVE F <= From(n) /\ From(n) \in Nat
  <2>1. n \in Nat
    BY <1>1
  <2>2. F <= From(n)
    BY <1>2, FromGrows
  <2> QED BY <2>1, <2>2, <1>1
<1>4. ASSUME NEW n \in 0 .. L, ~(n <= c_i)
      PROVE  g[n] = g[n - 1] \o Slice(buf, c_lines[n].s, c_lines[n].l)
                             \o Terminator(c_lines[n].l)
  <2>1. n \in 1 .. L /\ n - 1 \in c_i .. L /\ n - 1 \in 0 .. L /\ n - 1 \in Nat /\ n \in c_i .. L
        /\ (n - 1) + 1 = n /\ n - 1 < L
    <3> HIDE DEF L
    <3> QED BY ONLY <1>1, <1>4, n \in 0 .. L
  <2>2. PICK s \in Nat, l \in Nat : c_lines[n].s = s /\ c_lines[n].l = l
    BY <2>1, QueueTypes
  <2>3. Queued(n) /\ From(n - 1) = s
    BY <2>1, <2>2, <1>1 DEF From
  <2>4. From(n) = s + l + 1 /\ From(n) <= buf_pos /\ buf[s + l] = NL
    BY <2>2, <2>3 DEF Queued
  <2>5. F <= s
    BY <2>1, <2>3, <1>3
  <2>6. s + l < BUF_SZ /\ l # BUF_SZ
    <3>1. s + l + 1 <= buf_pos
      BY <2>4
    <3> QED BY ONLY <3>1, <1>1, s \in Nat, l \in Nat
  <2>7. g[n] = Slice(buf, F, s + l + 1 - F)
    BY <1>4, <1>1, <2>4
  <2>8. g[n - 1] = Slice(buf, F, s - F)
    <3>1. CASE n - 1 = c_i
      <4>1. s = F
        BY <3>1, <2>3
      <4>2. s - F = 0
        <5> HIDE DEF F
        <5> QED BY <4>1, <1>2
      <4>3. g[n - 1] = <<>>
        BY <2>1, <3>1, <1>1
      <4> QED BY <4>2, <4>3, SliceEmpty
    <3>2. CASE n - 1 # c_i
      <4>1. ~(n - 1 <= c_i)
        BY <3>2, <2>1, <1>1
      <4> QED BY <4>1, <2>1, <2>3
    <3> QED BY <3>1, <3>2
  <2>9. Slice(buf, F, s + l + 1 - F) = Slice(buf, F, s - F) \o Slice(buf, s, l) \o <<NL>>
    <3> HIDE DEF F, L, g
    <3>1. /\ buf \in Buffers /\ F \in Nat /\ s \in Nat /\ l \in Nat
          /\ F <= s /\ s + l < BUF_SZ /\ buf[s + l] = NL
      BY <1>1, <1>2, <2>4, <2>5, <2>6
    <3> QED BY ONLY <3>1, SliceNext
  <2>10. Terminator(c_lines[n].l) = <<NL>>
    BY <2>2, <2>6 DEF Terminator
  <2> HIDE DEF g, F
  <2> QED BY <2>2, <2>7, <2>8, <2>9, <2>10
<1>5. g = [n \in 0 .. L |->
             IF n <= c_i THEN <<>>
             ELSE g[n - 1] \o Slice(buf, c_lines[n].s, c_lines[n].l)
                           \o Terminator(c_lines[n].l)]
  <2>1. \A n \in 0 .. L : g[n] = IF n <= c_i THEN <<>>
                                 ELSE g[n - 1] \o Slice(buf, c_lines[n].s, c_lines[n].l)
                                               \o Terminator(c_lines[n].l)
    BY <1>4
  <2>2. g = [n \in 0 .. L |-> g[n]]
    OBVIOUS
  <2> HIDE DEF g
  <2> QED BY ONLY <2>1, <2>2
<1>6. Pending = g[L]
  <2> HIDE DEF g
  <2> QED BY <1>5, PendingIs
<1>7. F <= buf_pos
  <2>1. L \in c_i .. L
    BY <1>1, <1>2
  <2> QED BY <2>1, <1>2, <1>3
<1>8. g[L] = Slice(buf, F, buf_pos - F)
  <2>1. CASE L <= c_i
    <3>1. L = c_i
      <4> HIDE DEF L
      <4> QED BY ONLY <2>1, <1>1, <1>2
    <3>2. buf_pos - F = 0
      BY <3>1, <1>1, <1>2
    <3> QED BY <2>1, <3>2, <1>1, SliceEmpty
  <2>2. CASE ~(L <= c_i)
    BY <2>2, <1>1, <1>2
  <2> QED BY <2>1, <2>2
<1> QED BY <1>6, <1>7, <1>8

\* Outside a pass: nothing is pending, or the whole buffer.
LEMMA PendingNone ==
    ASSUME TypeOK, c_lines = <<>>
    PROVE  Pending = <<>>
<1> DEFINE g == [n \in 0 .. Len(c_lines) |-> <<>>]
<1>1. Len(c_lines) = 0 /\ c_i \in Nat
  BY QueueTypes
<1>2. g = [n \in 0 .. Len(c_lines) |->
             IF n <= c_i THEN <<>>
             ELSE g[n - 1] \o Slice(buf, c_lines[n].s, c_lines[n].l)
                           \o Terminator(c_lines[n].l)]
  BY <1>1
<1>3. g[Len(c_lines)] = <<>>
  BY <1>1
<1> HIDE DEF g
<1> QED BY <1>2, <1>3, PendingIs

LEMMA PendingWhole ==
    ASSUME TypeOK, Len(c_lines) = 1, c_lines[1].s = 0, c_lines[1].l = BUF_SZ
    PROVE  Pending = IF c_i = 0 THEN Slice(buf, 0, BUF_SZ) ELSE <<>>
<1> DEFINE w == Slice(buf, 0, BUF_SZ)
           g == [n \in 0 .. Len(c_lines) |-> IF n <= c_i THEN <<>> ELSE w]
<1>1. /\ c_i \in Nat /\ 0 .. Len(c_lines) = {0, 1} /\ w \in Seq(Bytes)
  <2>1. c_i \in Nat /\ 0 .. Len(c_lines) = {0, 1}
    <3>1. 0 .. 1 = {0, 1}
      OBVIOUS
    <3> QED BY <3>1, QueueTypes
  <2>2. w \in Seq(Bytes)
    <3>1. 0 \in Nat /\ BUF_SZ \in Nat /\ 0 + BUF_SZ <= BUF_SZ /\ buf \in Buffers
      BY SizeAssumption DEF TypeOK, Buffers
    <3> QED BY ONLY <3>1, SliceType
  <2> QED BY <2>1, <2>2
<1>2. <<>> \o w \o Terminator(BUF_SZ) = w
  <2> HIDE DEF w
  <2>1. <<>> \o w = w /\ w \o <<>> = w
    BY <1>1, ConcatEmptySeq
  <2> QED BY <2>1 DEF Terminator
<1>3. g = [n \in 0 .. Len(c_lines) |->
             IF n <= c_i THEN <<>>
             ELSE g[n - 1] \o Slice(buf, c_lines[n].s, c_lines[n].l)
                           \o Terminator(c_lines[n].l)]
  <2>1. ASSUME NEW n \in 0 .. Len(c_lines), ~(n <= c_i) PROVE n = 1 /\ g[n - 1] = <<>>
    <3>1. n = 1 /\ n - 1 = 0 /\ 0 <= c_i
      BY <2>1, <1>1
    <3> QED BY <3>1, <1>1
  <2>2. \A n \in 0 .. Len(c_lines) :
           g[n] = IF n <= c_i THEN <<>>
                  ELSE g[n - 1] \o Slice(buf, c_lines[n].s, c_lines[n].l)
                                \o Terminator(c_lines[n].l)
    <3> TAKE n \in 0 .. Len(c_lines)
    <3>1. CASE n <= c_i
      BY <3>1
    <3>2. CASE ~(n <= c_i)
      <4>1. n = 1 /\ g[n - 1] = <<>> /\ g[n] = w
        BY <3>2, <2>1
      <4> HIDE DEF g
      <4>2. Slice(buf, c_lines[n].s, c_lines[n].l) = w /\ Terminator(c_lines[n].l) = Terminator(BUF_SZ)
        BY <4>1
      <4> HIDE DEF w
      <4> QED BY <3>2, <4>1, <4>2, <1>2
    <3> QED BY <3>1, <3>2
  <2>3. g = [n \in 0 .. Len(c_lines) |-> g[n]]
    OBVIOUS
  <2> HIDE DEF g
  <2> QED BY ONLY <2>2, <2>3
<1>4. g[1] = IF c_i = 0 THEN w ELSE <<>>
  BY <1>1
<1> HIDE DEF g
<1> QED BY <1>3, <1>4, PendingIs

\* Every queued pointer still points at the line whose hash it carries, the
\* queue is empty whenever read or memmove touches the buffer, and the output
\* of a pass fits out_buf: process_flush's abort() is unreachable (lines
\* 135-138, 142-170, 353-388).
THEOREM BatchesSafe == Spec => []BatchSafe
<1>1. TypeOK /\ BatchInv => BatchSafe
  <2> SUFFICES ASSUME TypeOK, BatchInv PROVE BatchSafe
    OBVIOUS
  <2>1. pc # "abort" /\ (pc \notin {"scan", "flush"} => c_lines = <<>>)
    BY DEF BatchInv, Queue
  <2>2. ASSUME NEW n \in DOMAIN c_lines
        PROVE  LET c == c_lines[n]
               IN  IF c.l < BUF_SZ THEN c.h = HashOf(Slice(buf, c.s, c.l)) /\ buf[c.s + c.l] = NL
                   ELSE \E l \in LineLengths(buf, 0, BUF_SZ) : c.h = HashOf(Slice(buf, 0, l))
    <3>1. pc \in {"scan", "flush"} /\ n \in 1 .. Len(c_lines)
      BY <2>1, QueueTypes
    <3>2. PICK s \in Nat, l \in Nat : c_lines[n].s = s /\ c_lines[n].l = l
      BY <3>1, QueueTypes
    <3>3. CASE Passing
      <4>1. Queued(n)
        BY <3>3 DEF BatchInv, Queue
      <4>2. /\ From(n) = s + l + 1 /\ From(n) <= buf_pos
            /\ c_lines[n].h = HashOf(Slice(buf, s, l)) /\ buf[s + l] = NL
        BY <4>1, <3>2 DEF Queued
      <4>3. buf_pos \in Nat /\ buf_sz \in Nat /\ BUF_SZ \in Nat /\ buf_pos <= buf_sz /\ buf_sz <= BUF_SZ
        BY QueueTypes
      <4>4. s + l + 1 <= buf_pos
        BY <4>2
      <4>5. l < BUF_SZ
        BY ONLY <4>3, <4>4, s \in Nat, l \in Nat
      <4> QED BY <4>2, <4>5, <3>2
    <3>4. CASE ~Passing
      <4>1. Closing /\ pc = "flush"
        BY <3>1, <3>4 DEF Passing, Closing, TypeOK
      <4>2. /\ Len(c_lines) = 1 /\ c_lines[1].l = BUF_SZ
            /\ \E k \in LineLengths(buf, 0, BUF_SZ) : c_lines[1].h = HashOf(Slice(buf, 0, k))
        BY <4>1 DEF BatchInv, Queue, Whole
      <4>3. n = 1 /\ BUF_SZ \in Nat
        BY <3>1, <4>2, QueueTypes
      <4> QED BY <4>2, <4>3
    <3> QED BY <3>3, <3>4
  <2> QED BY <2>1, <2>2 DEF BatchSafe
<1> QED BY <1>1, BatchAlways, PTL

\* However read() cuts the stream, the processed lines, the queued lines, the
\* carried partial line and the unread input are the original stdin (lines
\* 351-391).
THEOREM StreamKept == Spec => []StreamIntegrity
<1>1. TypeOK /\ BatchInv => StreamIntegrity
  <2> SUFFICES ASSUME TypeOK, BatchInv, ret # "done", pc # "done"
               PROVE  taken \o Pending \o Unscanned \o input = original
    BY DEF StreamIntegrity
  <2>1. taken \in Seq(Bytes) /\ taken \o (Remaining \o input) = original
    BY DEF BatchInv, Stream
  <2>2. input \in Seq(Bytes)
    BY InputBytes
  <2>3. /\ buf_pos \in Nat /\ buf_sz \in Nat /\ BUF_SZ \in Nat /\ buf_pos <= buf_sz
        /\ buf_sz <= BUF_SZ /\ buf \in Buffers
    BY QueueTypes
  <2>4. /\ Pending \in Seq(Bytes) /\ Unscanned \in Seq(Bytes)
        /\ Pending \o Unscanned = Remaining
    <3>1. CASE pc \in {"read", "grow", "rehash"}
      <4>1. Pending = <<>>
        <5>1. c_lines = <<>>
          BY <3>1 DEF BatchInv, Queue
        <5> QED BY <5>1, PendingNone
      <4>2. Unscanned = Slice(buf, 0, buf_pos) /\ Remaining = Unscanned
        BY <3>1 DEF Unscanned, Remaining
      <4>3. Slice(buf, 0, buf_pos) \in Seq(Bytes)
        <5>1. 0 \in Nat /\ buf_pos \in Nat /\ 0 + buf_pos <= BUF_SZ
          BY <2>3
        <5> QED BY <5>1, <2>3, SliceType
      <4> QED BY <4>1, <4>2, <4>3, ConcatEmptySeq
    <3>2. CASE Passing
      <4> DEFINE f == From(c_i)
                 x == Slice(buf, f, buf_pos - f)
                 y == Slice(buf, buf_pos, buf_sz - buf_pos)
      <4>1. f \in Nat /\ f <= buf_pos /\ Pending = x
        <5>1. (\A n \in DOMAIN c_lines : Queued(n)) /\ c_i <= Len(c_lines)
          BY <3>2 DEF BatchInv, Queue
        <5>2. f \in Nat
          BY QueueTypes
        <5> QED BY <5>1, <5>2, PendingPass
      <4>2. pc \notin {"read", "grow", "rehash"}
        BY <3>2 DEF Passing
      <4>3. Unscanned = y /\ Remaining = Slice(buf, f, buf_sz - f)
        BY <3>2, <4>2 DEF Unscanned, Remaining
      <4> HIDE DEF f
      <4> DEFINE l == buf_sz - f
                 m == buf_pos - f
      <4>4. /\ l \in Nat /\ m \in Nat /\ m <= l /\ f + l <= BUF_SZ /\ f + m <= BUF_SZ
            /\ f + m = buf_pos /\ l - m = buf_sz - buf_pos
            /\ buf_sz - buf_pos \in Nat /\ buf_pos + (buf_sz - buf_pos) <= BUF_SZ
        BY ONLY <2>3, <4>1
      <4> HIDE DEF l, m
      <4>5. Slice(buf, f, l) = Slice(buf, f, m) \o Slice(buf, f + m, l - m)
        <5>1. /\ buf \in Buffers /\ f \in Nat /\ l \in Nat /\ m \in Nat
              /\ m <= l /\ f + l <= BUF_SZ
          BY <4>1, <4>4, <2>3
        <5> HIDE DEF x, y
        <5> QED BY ONLY <5>1, SliceSplit
      <4>6. Slice(buf, f, m) \in Seq(Bytes)
        BY <4>1, <4>4, <2>3, SliceType
      <4>7. y \in Seq(Bytes)
        <5> DEFINE k == buf_sz - buf_pos
        <5>1. k \in Nat /\ buf_pos + k <= BUF_SZ
          BY <4>4
        <5> HIDE DEF k
        <5>2. Slice(buf, buf_pos, k) \in Seq(Bytes)
          BY <5>1, <2>3, SliceType
        <5> QED BY <5>2 DEF k
      <4> HIDE DEF y
      <4>8. Slice(buf, f, l) = Slice(buf, f, m) \o y
        BY ONLY <4>4, <4>5 DEF y
      <4> QED BY <4>1, <4>3, <4>6, <4>7, <4>8 DEF l, m
    <3>3. CASE ~Passing /\ pc \notin {"read", "grow", "rehash"}
      <4>1. Closing
        <5>1. pc \in {"flush", "write"}
          BY <3>3 DEF Passing, TypeOK, Positions, BatchInv, Queue
        <5> QED BY <5>1, <3>3 DEF Passing, Closing, TypeOK
      <4>2. Whole /\ c_i <= Len(c_lines)
        BY <4>1 DEF BatchInv, Queue
      <4>3. buf_sz - buf_pos = 0
        BY <4>2 DEF Whole
      <4>4. Unscanned = <<>>
        BY <4>3, <3>3, SliceEmpty DEF Unscanned
      <4>5. CASE pc = "flush"
        <5>1. Pending = IF c_i = 0 THEN Slice(buf, 0, BUF_SZ) ELSE <<>>
          BY <4>2, <4>5, PendingWhole DEF Whole
        <5>2. Remaining = Pending
          BY <5>1, <4>5, <3>3 DEF Remaining
        <5>3. Slice(buf, 0, BUF_SZ) \in Seq(Bytes)
          <6>1. 0 \in Nat /\ BUF_SZ \in Nat /\ 0 + BUF_SZ <= BUF_SZ
            BY <2>3
          <6> QED BY <6>1, <2>3, SliceType
        <5>4. Pending \in Seq(Bytes) /\ <<>> \in Seq(Bytes)
          BY <5>1, <5>3
        <5> QED BY <5>2, <5>4, <4>4, ConcatEmptySeq
      <4>6. CASE pc # "flush"
        <5>1. pc = "write" /\ c_lines = <<>>
          BY <4>1, <4>6 DEF Closing, BatchInv, Queue
        <5>2. Pending = <<>>
          BY <5>1, PendingNone
        <5>3. Remaining = <<>>
          BY <5>1, <3>3 DEF Remaining
        <5> QED BY <5>2, <5>3, <4>4
      <4> QED BY <4>5, <4>6
    <3> QED BY <3>1, <3>2, <3>3
  <2> DEFINE p == Pending
             u == Unscanned
  <2>5. p \in Seq(Bytes) /\ u \in Seq(Bytes) /\ p \o u = Remaining
    BY <2>4
  <2> HIDE DEF p, u
  <2>6. (taken \o p) \o u = taken \o (p \o u)
    <3>1. taken \in Seq(Bytes) /\ p \in Seq(Bytes) /\ u \in Seq(Bytes)
      BY <2>1, <2>5
    <3> QED BY ONLY <3>1, Regroup
  <2> DEFINE w == p \o u
  <2>7. w \in Seq(Bytes)
    BY ONLY <2>5, ConcatProperties
  <2> HIDE DEF w
  <2>8. (taken \o w) \o input = taken \o (w \o input)
    <3>1. taken \in Seq(Bytes) /\ w \in Seq(Bytes) /\ input \in Seq(Bytes)
      BY <2>1, <2>2, <2>7
    <3> QED BY ONLY <3>1, Regroup
  <2>9. taken \o p \o u \o input = original
    BY <2>1, <2>5, <2>6, <2>8 DEF w
  <2> QED BY <2>9 DEF p, u
<1> QED BY <1>1, BatchAlways, PTL
=============================================================================
