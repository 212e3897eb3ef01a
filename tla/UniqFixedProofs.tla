-------------------------- MODULE UniqFixedProofs --------------------------
(***************************************************************************)
(* Theorems about mmuniq-hash.c and mmuniq-bloom.c for every buffer size,  *)
(* input, table size, hash function, probe limit, bit map and word size.   *)
(***************************************************************************)
EXTENDS UniqFixed, FiniteSetTheorems, SequenceTheorems, WellFoundedInduction, TLAPS

(***************************************************************************)
(* The read loop, which both programs have.                                *)
(***************************************************************************)

\* Both programs read as LineReader says.
LEMMA SameReader ==
    /\ Hash!InitReader <=> InitReader
    /\ Hash!Quiet <=> Quiet
    /\ Hash!Line <=> Line
    /\ Hash!ReaderTypeOK <=> ReaderTypeOK
    /\ Hash!readerVars = readerVars
    /\ Bloom!InitReader <=> InitReader
    /\ Bloom!Quiet <=> Quiet
    /\ Bloom!Line <=> Line
    /\ Bloom!ReaderTypeOK <=> ReaderTypeOK
    /\ Bloom!readerVars = readerVars
<1>1. /\ Hash!InitReader <=> InitReader
      /\ Hash!ReaderTypeOK <=> ReaderTypeOK
      /\ Hash!readerVars = readerVars
  BY DEF Hash!InitReader, InitReader, Hash!ReaderTypeOK, ReaderTypeOK, Hash!Bytes, Bytes,
         Hash!readerVars, readerVars
<1>2. Hash!Quiet <=> Quiet
  BY DEF Hash!Quiet, Quiet, Hash!Read, Read, Hash!Room, Room, Hash!KeepPartial, KeepPartial,
         Hash!FirstNL, FirstNL, Hash!Moved, Moved
<1>3. Hash!Line <=> Line
  BY DEF Hash!Line, Line, Hash!NextLine, NextLine, Hash!FullLine, FullLine, Hash!Slice, Slice,
         Hash!FirstNL, FirstNL, Hash!Moved, Moved
<1>4. /\ Bloom!InitReader <=> InitReader
      /\ Bloom!ReaderTypeOK <=> ReaderTypeOK
      /\ Bloom!readerVars = readerVars
  BY DEF Bloom!InitReader, InitReader, Bloom!ReaderTypeOK, ReaderTypeOK, Bloom!Bytes, Bytes,
         Bloom!readerVars, readerVars
<1>5. Bloom!Quiet <=> Quiet
  BY DEF Bloom!Quiet, Quiet, Bloom!Read, Read, Bloom!Room, Room, Bloom!KeepPartial, KeepPartial,
         Bloom!FirstNL, FirstNL, Bloom!Moved, Moved
<1>6. Bloom!Line <=> Line
  BY DEF Bloom!Line, Line, Bloom!NextLine, NextLine, Bloom!FullLine, FullLine, Bloom!Slice, Slice,
         Bloom!FirstNL, FirstNL, Bloom!Moved, Moved
<1> QED BY <1>1, <1>2, <1>3, <1>4, <1>5, <1>6

\* A set of natural numbers has a least element: intervals are well-founded.
LEMMA Least ==
    ASSUME NEW T \in SUBSET Nat, T # {}
    PROVE  \E x \in T : \A y \in T : ~(y < x)
<1> DEFINE R == StrictSubsetOrdering(Nat)
           F == FiniteSubsetsOf(Nat)
           U == {1 .. n : n \in T}
<1>1. IsWellFoundedOn(R, F)
  BY FS_StrictSubsetOrderingWellFounded
<1>2. U \subseteq F /\ U # {}
  <2>1. \A n \in Nat : IsFiniteSet(1 .. n) /\ 1 .. n \subseteq Nat
    BY FS_Interval
  <2> QED BY <2>1 DEF FiniteSubsetsOf
<1>3. \E x \in U : \A y \in U : ~(<<y, x>> \in R)
  <2> HIDE DEF R, F, U
  <2> QED BY <1>1, <1>2, WFMin
<1>4. PICK x \in T : \A y \in T : <<1 .. y, 1 .. x>> \notin R
  BY <1>3
<1>5. ASSUME NEW y \in T, y < x PROVE FALSE
  <2>1. 1 .. y \subseteq 1 .. x /\ x \in 1 .. x /\ x \notin 1 .. y /\ 1 .. x \subseteq Nat
    BY <1>5
  <2>2. <<1 .. y, 1 .. x>> \in R
    BY <2>1 DEF StrictSubsetOrdering
  <2> QED BY <1>4, <2>2
<1> QED BY <1>5

\* Induction, stated of a set: what holds at 0 and passes on holds of Nat.
LEMMA Induction ==
    ASSUME NEW S, 0 \in S, \A n \in Nat : n \in S => n + 1 \in S
    PROVE  Nat \subseteq S
<1> SUFFICES ASSUME Nat \ S # {} PROVE FALSE
  OBVIOUS
<1>1. PICK x \in Nat \ S : \A y \in Nat \ S : ~(y < x)
  BY Least
<1>2. x - 1 \in Nat /\ x - 1 < x
  BY <1>1
<1>3. x - 1 \in S
  BY <1>1, <1>2
<1>4. (x - 1) + 1 \in S
  BY <1>2, <1>3
<1> QED BY <1>1, <1>4

\* A part of a sequence has the elements of the sequence.
LEMMA SubSeqType ==
    ASSUME NEW S, NEW s \in Seq(S), NEW m \in Nat \ {0}, NEW n \in Nat, n <= Len(s)
    PROVE  SubSeq(s, m, n) \in Seq(S)
<1>1. \A p \in m .. n : s[p] \in S
  OBVIOUS
<1> QED BY <1>1, SubSeqProperties

\* What buf may hold.
Buffers == [0 .. BUF_SZ - 1 -> Bytes]

\* A slice of the buffer is as many bytes as were asked for.
LEMMA SliceFunction ==
    ASSUME NEW b \in Buffers, NEW s \in Nat, NEW l \in Nat, s + l <= BUF_SZ
    PROVE  Slice(b, s, l) \in [1 .. l -> Bytes]
<1>1. \A p \in 1 .. l : s + p - 1 \in 0 .. BUF_SZ - 1
  BY ReaderAssumption
<1> QED BY <1>1 DEF Slice, Buffers

\* A slice of the buffer is a string of bytes.
LEMMA SliceType ==
    ASSUME NEW b \in Buffers, NEW s \in Nat, NEW l \in Nat, s + l <= BUF_SZ
    PROVE  Slice(b, s, l) \in Seq(Bytes) /\ Len(Slice(b, s, l)) = l
<1>1. Slice(b, s, l) \in [1 .. l -> Bytes]
  BY SliceFunction
<1>2. Slice(b, s, l) \in Seq(Bytes)
  BY <1>1, IsASeq
<1>3. Len(Slice(b, s, l)) = l
  BY <1>2, LenProperties DEF Slice
<1> QED BY <1>2, <1>3

\* A slice is cut anywhere into two.
LEMMA SliceSplit ==
    ASSUME NEW b \in Buffers, NEW s \in Nat, NEW l \in Nat, NEW m \in Nat,
           m <= l, s + l <= BUF_SZ
    PROVE  Slice(b, s, l) = Slice(b, s, m) \o Slice(b, s + m, l - m)
<1> DEFINE x == Slice(b, s, l)
           y == Slice(b, s, m)
           z == Slice(b, s + m, l - m)
<1>1. BUF_SZ \in Nat /\ s + m \in Nat /\ l - m \in Nat /\ s + m + (l - m) <= BUF_SZ
      /\ s + m <= BUF_SZ
  BY ReaderAssumption
<1>2. x \in Seq(Bytes) /\ Len(x) = l /\ x \in [1 .. l -> Bytes]
  BY <1>1, SliceType, SliceFunction
<1>3. y \in Seq(Bytes) /\ Len(y) = m
  BY <1>1, SliceType
<1>4. z \in Seq(Bytes) /\ Len(z) = l - m
  BY <1>1, SliceType
<1>5. /\ \A p \in 1 .. l : x[p] = b[s + p - 1]
      /\ \A p \in 1 .. m : y[p] = b[s + p - 1]
      /\ \A p \in 1 .. l - m : z[p] = b[s + m + p - 1]
  BY DEF Slice
<1> HIDE DEF x, y, z
<1>6. /\ y \o z \in Seq(Bytes) /\ Len(y \o z) = l
      /\ \A p \in 1 .. l : (y \o z)[p] = IF p <= m THEN y[p] ELSE z[p - m]
  <2>1. /\ y \o z \in Seq(Bytes) /\ Len(y \o z) = m + (l - m)
        /\ \A p \in 1 .. m + (l - m) : (y \o z)[p] = IF p <= m THEN y[p] ELSE z[p - m]
    <3>1. /\ y \o z \in Seq(Bytes) /\ Len(y \o z) = Len(y) + Len(z)
          /\ \A p \in 1 .. Len(y) + Len(z) :
                (y \o z)[p] = IF p <= Len(y) THEN y[p] ELSE z[p - Len(y)]
      BY ONLY <1>3, <1>4, ConcatProperties
    <3> QED BY ONLY <3>1, <1>3, <1>4
  <2>2. m + (l - m) = l
    BY ONLY l \in Nat, m \in Nat
  <2> QED BY <2>1, <2>2
<1>7. ASSUME NEW p \in 1 .. l PROVE x[p] = (y \o z)[p]
  <2>1. CASE p <= m
    BY <2>1, <1>5, <1>6
  <2>2. CASE ~(p <= m)
    <3>1. p - m \in 1 .. l - m /\ s + m + (p - m) - 1 = s + p - 1
      BY <2>2
    <3> QED BY <3>1, <2>2, <1>5, <1>6
  <2> QED BY <2>1, <2>2
<1>8. x = y \o z
  BY ONLY <1>2, <1>6, <1>7, SeqEqual
<1> QED BY <1>8 DEF x, y, z

\* What a line stands for in the stream.
Ending(line) == IF Len(line) = BUF_SZ THEN <<>> ELSE <<NL>>
TextStep(ls, g, n) == IF n = 0 THEN <<>> ELSE g[n - 1] \o ls[n] \o Ending(ls[n])
IsText(ls, g) == g = [n \in 0 .. Len(ls) |-> TextStep(ls, g, n)]
Join(ls) == (CHOOSE g : IsText(ls, g))[Len(ls)]

\* Joined, of the lines handed out so far.
LEMMA JoinedIs == Joined = Join(lines)
BY DEF Joined, Join, IsText, TextStep, Ending

\* A line with what ended it is a string of bytes.
LEMMA EndingType ==
    ASSUME NEW x \in Seq(Bytes), NEW line \in Seq(Bytes)
    PROVE  x \o line \o Ending(line) \in Seq(Bytes)
<1>1. Ending(line) \in Seq(Bytes)
  <2>1. <<NL>> \in Seq(Bytes) /\ <<>> \in Seq(Bytes)
    BY DEF Bytes
  <2> QED BY <2>1 DEF Ending
<1> QED BY <1>1, ConcatProperties

\* The recursion has a solution.
LEMMA TextExists ==
    ASSUME NEW ls \in Seq(Seq(Bytes))
    PROVE  \E g \in [0 .. Len(ls) -> Seq(Bytes)] : IsText(ls, g)
<1> DEFINE L == Len(ls)
           Solves(g, m) == \A n \in 0 .. m : g[n] = TextStep(ls, g, n)
           S == {m \in Nat : m <= L => \E g \in [0 .. m -> Seq(Bytes)] : Solves(g, m)}
<1>1. L \in Nat /\ \A n \in 1 .. L : ls[n] \in Seq(Bytes)
  OBVIOUS
<1>2. 0 \in S
  <2> DEFINE g == [n \in 0 .. 0 |-> <<>>]
  <2>1. <<>> \in Seq(Bytes)
    OBVIOUS
  <2>2. g \in [0 .. 0 -> Seq(Bytes)] /\ Solves(g, 0)
    BY <2>1 DEF TextStep
  <2> HIDE DEF g, Solves
  <2> QED BY <2>2
<1>3. ASSUME NEW m \in Nat, m \in S PROVE m + 1 \in S
  <2> SUFFICES ASSUME m + 1 <= L
               PROVE  \E g \in [0 .. m + 1 -> Seq(Bytes)] : Solves(g, m + 1)
    <3> HIDE DEF L, Solves
    <3> QED OBVIOUS
  <2>1. m <= L /\ m + 1 \in 1 .. L /\ (m + 1) - 1 = m
    BY <1>1
  <2>2. PICK g \in [0 .. m -> Seq(Bytes)] : Solves(g, m)
    BY <1>3, <2>1
  <2> DEFINE next == g[m] \o ls[m + 1] \o Ending(ls[m + 1])
             h == [n \in 0 .. m + 1 |-> IF n = m + 1 THEN next ELSE g[n]]
  <2>3. next \in Seq(Bytes)
    BY <1>1, <2>1, EndingType
  <2> HIDE DEF next
  <2>4. \A n \in 0 .. m : h[n] = g[n]
    OBVIOUS
  <2>5. h[m + 1] = next
    OBVIOUS
  <2>6. h \in [0 .. m + 1 -> Seq(Bytes)]
    BY <2>3
  <2> HIDE DEF h
  <2>7. ASSUME NEW n \in 0 .. m + 1 PROVE h[n] = TextStep(ls, h, n)
    <3>1. CASE n = m + 1
      <4>1. TextStep(ls, h, m + 1) = h[m] \o ls[m + 1] \o Ending(ls[m + 1])
        <5>1. m + 1 # 0 /\ (m + 1) - 1 = m
          OBVIOUS
        <5> QED BY <5>1, Zenon DEF TextStep
      <4>2. h[m] = g[m]
        BY <2>4
      <4> QED BY <3>1, <4>1, <4>2, <2>5 DEF next
    <3>2. CASE n # m + 1
      <4>1. n \in 0 .. m
        BY <3>2
      <4>2. h[n] = g[n] /\ g[n] = TextStep(ls, g, n)
        BY <4>1, <2>2, <2>4
      <4>3. n # 0 => h[n - 1] = g[n - 1]
        BY <4>1, <2>4
      <4> QED BY <4>2, <4>3 DEF TextStep
    <3> QED BY <3>1, <3>2
  <2> QED BY <2>6, <2>7
<1>4. L \in S
  <2> HIDE DEF S, L
  <2> QED BY <1>1, <1>2, <1>3, Induction
<1>5. PICK g \in [0 .. L -> Seq(Bytes)] : Solves(g, L)
  BY <1>1, <1>4
<1>6. g = [n \in 0 .. Len(ls) |-> TextStep(ls, g, n)]
  BY <1>5
<1> QED BY <1>6 DEF IsText

\* It has only one, and a further line only adds to it.
LEMMA TextKept ==
    ASSUME NEW ls \in Seq(Seq(Bytes)), NEW ms \in Seq(Seq(Bytes)), NEW g, NEW h,
           IsText(ls, g), IsText(ms, h), Len(ls) <= Len(ms),
           \A n \in 1 .. Len(ls) : ms[n] = ls[n]
    PROVE  h[Len(ls)] = g[Len(ls)]
<1> DEFINE L == Len(ls)
           S == {n \in Nat : n <= L => h[n] = g[n]}
<1>1. L \in Nat /\ Len(ms) \in Nat
  OBVIOUS
<1>2. \A n \in 0 .. L : g[n] = TextStep(ls, g, n) /\ h[n] = TextStep(ms, h, n)
  <2> HIDE DEF L
  <2>1. \A n \in 0 .. Len(ls) : g[n] = TextStep(ls, g, n)
    BY DEF IsText
  <2>2. \A n \in 0 .. Len(ms) : h[n] = TextStep(ms, h, n)
    BY DEF IsText
  <2> QED BY <1>1, <2>1, <2>2 DEF L
<1>3. 0 \in S
  BY <1>1, <1>2 DEF TextStep
<1>4. ASSUME NEW n \in Nat, n \in S PROVE n + 1 \in S
  <2> SUFFICES ASSUME n + 1 <= L PROVE h[n + 1] = g[n + 1]
    OBVIOUS
  <2>1. n + 1 \in 1 .. L /\ n + 1 \in 0 .. L /\ (n + 1) - 1 = n /\ n + 1 # 0 /\ h[n] = g[n]
    BY <1>1, <1>4
  <2>2. ms[n + 1] = ls[n + 1]
    BY <2>1
  <2>3. TextStep(ms, h, n + 1) = TextStep(ls, g, n + 1)
    BY <2>1, <2>2 DEF TextStep
  <2> QED BY <1>2, <2>1, <2>3
<1>5. L \in S
  <2> HIDE DEF S, L
  <2> QED BY <1>1, <1>3, <1>4, Induction
<1> QED BY <1>1, <1>5

\* No line, no text.
LEMMA JoinEmpty == Join(<<>>) = <<>>
<1>1. <<>> \in Seq(Seq(Bytes)) /\ Len(<<>>) = 0
  OBVIOUS
<1>2. IsText(<<>>, CHOOSE g : IsText(<<>>, g))
  BY <1>1, TextExists
<1> QED BY <1>1, <1>2 DEF Join, IsText, TextStep

\* A line handed out goes behind the others.
LEMMA JoinAppend ==
    ASSUME NEW ls \in Seq(Seq(Bytes)), NEW line \in Seq(Bytes)
    PROVE  /\ Join(ls) \in Seq(Bytes)
           /\ Join(Append(ls, line)) = Join(ls) \o line \o Ending(line)
<1> DEFINE ms == Append(ls, line)
           n == Len(ls)
           g == CHOOSE f : IsText(ls, f)
           h == CHOOSE f : IsText(ms, f)
<1>1. /\ n \in Nat /\ ms \in Seq(Seq(Bytes)) /\ Len(ms) = n + 1
      /\ ms[n + 1] = line /\ \A m \in 1 .. n : ms[m] = ls[m]
  OBVIOUS
<1> HIDE DEF ms
<1>2. IsText(ls, g) /\ IsText(ms, h)
  BY <1>1, TextExists
<1>3. PICK f \in [0 .. n -> Seq(Bytes)] : IsText(ls, f)
  BY TextExists
<1> HIDE DEF g, h, n
<1>4. h[n] = g[n] /\ g[n] = f[n]
  BY <1>1, <1>2, <1>3, TextKept, SMTT(40) DEF n
<1>5. h[n + 1] = TextStep(ms, h, n + 1)
  <2>1. n + 1 \in 0 .. Len(ms)
    BY <1>1
  <2> QED BY <1>2, <2>1 DEF IsText
<1>6. h[n + 1] = h[n] \o line \o Ending(line)
  <2>1. n + 1 # 0 /\ (n + 1) - 1 = n
    BY <1>1
  <2> QED BY <1>1, <1>5, <2>1, Zenon DEF TextStep
<1>7. g[n] \in Seq(Bytes)
  BY <1>3, <1>4, <1>1
<1> QED BY <1>1, <1>4, <1>6, <1>7 DEF Join, g, h, ms, n

\* Bytes are put together in any grouping.
LEMMA Regroup ==
    ASSUME NEW x \in Seq(Bytes), NEW y \in Seq(Bytes), NEW z \in Seq(Bytes)
    PROVE  (x \o y) \o z = x \o (y \o z)
BY ConcatAssociative

\* A slice of no bytes.
LEMMA SliceEmpty == ASSUME NEW b, NEW s PROVE Slice(b, s, 0) = <<>>
BY DEF Slice

\* Equal bytes make equal slices.
LEMMA SliceEqual ==
    ASSUME NEW b, NEW c, NEW s, NEW t, NEW l \in Nat,
           \A p \in 1 .. l : b[s + p - 1] = c[t + p - 1]
    PROVE  Slice(b, s, l) = Slice(c, t, l)
BY DEF Slice

\* A line, its '\n' and what follows them.
LEMMA SliceLine ==
    ASSUME NEW b \in Buffers, NEW s \in Nat, NEW l \in Nat, NEW e \in Nat,
           s + l < e, e <= BUF_SZ, b[s + l] = NL
    PROVE  Slice(b, s, e - s)
             = (Slice(b, s, l) \o <<NL>>) \o Slice(b, s + l + 1, e - (s + l + 1))
<1> USE ReaderAssumption
<1>1. Slice(b, s, e - s) = Slice(b, s, l + 1) \o Slice(b, s + (l + 1), (e - s) - (l + 1))
  <2> DEFINE n == e - s
             q == l + 1
  <2>1. n \in Nat /\ q \in Nat /\ q <= n /\ s + n <= BUF_SZ
    OBVIOUS
  <2> HIDE DEF n, q
  <2>2. Slice(b, s, n) = Slice(b, s, q) \o Slice(b, s + q, n - q)
    BY ONLY <2>1, SliceSplit, s \in Nat, b \in Buffers, ZenonT(40)
  <2> QED BY <2>2 DEF n, q
<1>2. Slice(b, s, l + 1) = Slice(b, s, l) \o Slice(b, s + l, (l + 1) - l)
  <2>1. l + 1 \in Nat /\ l <= l + 1 /\ s + (l + 1) <= BUF_SZ
    OBVIOUS
  <2> QED BY ONLY <2>1, SliceSplit, s \in Nat, l \in Nat, b \in Buffers, Zenon
<1>3. Slice(b, s + l, 1) = <<NL>>
  <2>1. \A p \in 1 .. 1 : s + l + p - 1 = s + l
    OBVIOUS
  <2>2. Slice(b, s + l, 1) = [p \in 1 .. 1 |-> NL]
    BY <2>1 DEF Slice
  <2>3. [p \in 1 .. 1 |-> NL] = <<NL>>
    OBVIOUS
  <2> QED BY <2>2, <2>3
<1>4. s + (l + 1) = s + l + 1 /\ (e - s) - (l + 1) = e - (s + l + 1) /\ (l + 1) - l = 1
  OBVIOUS
<1> QED BY ONLY <1>1, <1>2, <1>3, <1>4

\* What the reader keeps: what it has is inside the buffer, and no line is
\* longer than the buffer.
ReaderInv ==
    /\ ReaderTypeOK
    /\ pc = "scan" => buf_pos <= buf_sz
    /\ \A n \in DOMAIN lines : lines[n] \in Texts
    /\ LinesOfStream

\* What ReaderInv says of the types.
LEMMA ReaderTypes ==
    ASSUME ReaderInv
    PROVE  /\ BUF_SZ \in Nat /\ BUF_SZ > 0 /\ buf \in Buffers
           /\ buf_pos \in Nat /\ buf_pos <= BUF_SZ /\ buf_sz \in Nat /\ buf_sz <= BUF_SZ
           /\ input \in Seq(Bytes) /\ Len(input) \in Nat /\ original \in Seq(Bytes)
           /\ lines \in Seq(Seq(Bytes)) /\ Len(lines) \in Nat /\ DOMAIN lines = 1 .. Len(lines)
           /\ Joined \in Seq(Bytes) /\ Joined = Join(lines) /\ Carried \in Seq(Bytes)
<1>1. /\ BUF_SZ \in Nat /\ BUF_SZ > 0 /\ buf \in Buffers
      /\ buf_pos \in Nat /\ buf_pos <= BUF_SZ /\ buf_sz \in Nat /\ buf_sz <= BUF_SZ
      /\ input \in Seq(Bytes) /\ Len(input) \in Nat /\ original \in Seq(Bytes)
      /\ lines \in Seq(Seq(Bytes)) /\ Len(lines) \in Nat /\ DOMAIN lines = 1 .. Len(lines)
  BY ReaderAssumption DEF ReaderInv, ReaderTypeOK, Buffers
<1>2. Joined \in Seq(Bytes) /\ Joined = Join(lines)
  <2>1. <<>> \in Seq(Bytes)
    OBVIOUS
  <2> QED BY <1>1, <2>1, JoinAppend, JoinedIs
<1>3. Carried \in Seq(Bytes)
  <2>1. CASE pc = "scan"
    <3>1. buf_sz - buf_pos \in Nat /\ buf_pos + (buf_sz - buf_pos) <= BUF_SZ
      BY <1>1, <2>1 DEF ReaderInv
    <3> QED BY <1>1, <2>1, <3>1, SliceType DEF Carried
  <2>2. CASE pc # "scan"
    BY <1>1, <2>2, SliceType DEF Carried
  <2> QED BY <2>1, <2>2
<1> QED BY <1>1, <1>2, <1>3

\* Nothing is read, the buffer is empty.
LEMMA ReaderInit == InitReader => ReaderInv
<1> SUFFICES ASSUME InitReader PROVE ReaderInv
  OBVIOUS
<1>1. BUF_SZ \in Nat /\ BUF_SZ > 0 /\ input \in Seq(Bytes) /\ original = input
  BY ReaderAssumption DEF InitReader, Bytes
<1>2. ReaderTypeOK
  BY <1>1 DEF InitReader, ReaderTypeOK, Bytes
<1>3. Joined = <<>>
  BY JoinEmpty, JoinedIs DEF InitReader
<1>4. Carried = <<>>
  BY SliceEmpty DEF InitReader, Carried
<1>5. <<>> \o <<>> = <<>> /\ <<>> \o input = input
  BY <1>1, ConcatEmptySeq
<1>6. LinesOfStream
  BY <1>1, <1>3, <1>4, <1>5 DEF LinesOfStream, InitReader
<1> QED BY <1>2, <1>6 DEF ReaderInv, InitReader

\* Without a '\n' among what is carried, FirstNL finds none.
LEMMA NoNewline ==
    ASSUME NEW b \in Buffers, NEW from \in Nat, NEW to \in Nat, to <= BUF_SZ,
           FirstNL(b, from, to) = {}, NEW p \in from .. to - 1
    PROVE  b[p] # NL
<1> SUFFICES ASSUME b[p] = NL PROVE FALSE
  OBVIOUS
<1> DEFINE T == {m \in from .. to - 1 : b[m] = NL}
<1>1. T \in SUBSET Nat /\ T # {}
  OBVIOUS
<1>2. PICK m \in T : \A y \in T : ~(y < m)
  BY <1>1, Least
<1>3. m \in FirstNL(b, from, to)
  BY <1>2 DEF FirstNL
<1> QED BY <1>3

\* A line handed out is text, with the newline it ended in.
LEMMA LineOut ==
    ASSUME ReaderInv, NEW line \in Seq(Bytes), lines' = Append(lines, line)
    PROVE  Joined' = Joined \o line \o Ending(line)
<1>1. Joined' = Join(lines')
  BY DEF Joined, Join, IsText, TextStep, Ending
<1>2. lines \in Seq(Seq(Bytes)) /\ Joined = Join(lines)
  BY ReaderTypes
<1> QED BY <1>1, <1>2, JoinAppend

\* Only a line handed out changes the text.
LEMMA SameLines == lines' = lines => Joined' = Joined
BY DEF Joined

\* read() moves characters from the input into the buffer.
LEMMA ReadStep == ReaderInv /\ Read => ReaderInv' /\ lines' = lines
<1> SUFFICES ASSUME ReaderInv, Read PROVE ReaderInv' /\ lines' = lines
  OBVIOUS
<1>1. /\ pc = "read" /\ original' = original /\ lines' = lines
  BY DEF Read
<1>2. Carried = Slice(buf, 0, buf_pos) /\ Joined' = Joined
  BY <1>1, SameLines DEF Carried
<1>3. CASE pc' = "done" /\ UNCHANGED <<input, buf, buf_pos, buf_sz>>
  <2>1. Carried' = Carried
    BY <1>1, <1>2, <1>3 DEF Carried
  <2> QED BY <1>1, <1>2, <1>3, <2>1 DEF ReaderInv, ReaderTypeOK, LinesOfStream
<1>4. ASSUME NEW n \in 1 .. Len(input), n <= Room,
             buf' = [p \in DOMAIN buf |->
                       IF p \in buf_pos .. buf_pos + n - 1
                       THEN input[p - buf_pos + 1] ELSE buf[p]],
             buf_sz' = buf_pos + n, buf_pos' = 0,
             input' = SubSeq(input, n + 1, Len(input)), pc' = "scan"
      PROVE  ReaderInv'
  <2> DEFINE x == SubSeq(input, 1, n)
             s == buf_pos
             c == buf'
  <2>1. /\ BUF_SZ \in Nat /\ BUF_SZ > 0 /\ buf \in Buffers /\ s \in Nat
        /\ input \in Seq(Bytes) /\ Len(input) \in Nat /\ n \in Nat /\ s + n <= BUF_SZ
        /\ Carried \in Seq(Bytes) /\ Joined \in Seq(Bytes)
    BY <1>4, ReaderTypes DEF Room
  <2>2. \A p \in 1 .. Len(input) : input[p] \in Bytes
    BY <2>1
  <2>3. c \in Buffers
    BY <1>4, <2>1, <2>2 DEF Buffers
  <2>4. /\ input' \in Seq(Bytes) /\ x \in Seq(Bytes)
        /\ Len(x) = n /\ \A p \in 1 .. n : x[p] = input[p]
        /\ input = x \o input'
    <3>1. input' \in Seq(Bytes) /\ x \in Seq(Bytes)
      <4>1. n + 1 \in Nat \ {0} /\ 1 \in Nat \ {0} /\ n <= Len(input)
        BY <2>1
      <4> QED BY <1>4, <2>1, <4>1, SubSeqType
    <3>2. Len(x) = n /\ \A p \in 1 .. n : x[p] = input[p]
      BY <2>1
    <3>3. /\ Len(input') = Len(input) - n
          /\ \A p \in 1 .. Len(input) - n : input'[p] = input[n + p]
      BY <1>4, <2>1
    <3>4. input = x \o input'
      <4>1. Len(x \o input') = Len(input) /\ x \o input' \in Seq(Bytes)
        BY <2>1, <3>1, <3>2, <3>3
      <4>2. ASSUME NEW p \in 1 .. Len(input) PROVE (x \o input')[p] = input[p]
        <5> DEFINE y == input'
        <5>1. Len(x) = n /\ Len(y) = Len(input) - n /\ y \in Seq(Bytes) /\ x \in Seq(Bytes)
          BY <3>1, <3>2, <3>3
        <5> HIDE DEF x, y
        <5>2. (x \o y)[p] = IF p <= n THEN x[p] ELSE y[p - n]
          BY <2>1, <5>1
        <5>3. CASE p <= n
          BY <5>2, <5>3, <3>2
        <5>4. CASE ~(p <= n)
          <6>1. p - n \in 1 .. Len(input) - n /\ n + (p - n) = p
            BY <5>4, <2>1
          <6>2. y[p - n] = input[p]
            BY <6>1, <3>3 DEF y
          <6> QED BY <5>2, <5>4, <6>2 DEF y
        <5> QED BY <5>3, <5>4 DEF y
      <4> HIDE DEF x
      <4> QED BY <2>1, <4>1, <4>2, SeqEqual
    <3> QED BY <3>1, <3>2, <3>4
  <2>5. Slice(c, 0, s) = Slice(buf, 0, s)
    <3>1. \A p \in 1 .. s : c[0 + p - 1] = buf[0 + p - 1]
      BY <1>4, <2>1 DEF Buffers
    <3> QED BY <3>1, <2>1, SliceEqual
  <2>6. Slice(c, s, n) = x
    <3>1. ASSUME NEW p \in 1 .. n PROVE c[s + p - 1] = input[p]
      <4>1. s + p - 1 \in DOMAIN buf /\ s + p - 1 \in s .. s + n - 1 /\ (s + p - 1) - s + 1 = p
        BY <2>1 DEF Buffers
      <4> QED BY <1>4, <4>1
    <3>2. Slice(c, s, n) \in Seq(Bytes) /\ Len(Slice(c, s, n)) = n
      BY <2>1, <2>3, SliceType
    <3>3. \A p \in 1 .. n : Slice(c, s, n)[p] = x[p]
      BY <3>1, <2>4 DEF Slice
    <3> HIDE DEF x
    <3> QED BY <3>2, <3>3, <2>4, SeqEqual
  <2>7. Carried' = Carried \o x
    <3>1. Carried' = Slice(c, 0, s + n)
      BY <1>4, <2>1 DEF Carried
    <3>2. Slice(c, 0, s + n) = Slice(c, 0, s) \o Slice(c, s, n)
      <4> DEFINE l == s + n
      <4>1. l \in Nat /\ s \in Nat /\ 0 \in Nat /\ s <= l /\ 0 + l <= BUF_SZ /\ 0 + s = s /\ l - s = n
        BY <2>1
      <4> HIDE DEF l, s, c
      <4>2. Slice(c, 0, l) = Slice(c, 0, s) \o Slice(c, 0 + s, l - s)
        BY ONLY <4>1, <2>3, SliceSplit, Zenon
      <4> QED BY <4>1, <4>2 DEF l
    <3> QED BY <3>1, <3>2, <2>5, <2>6, <1>2
  <2>8. (Joined \o Carried) \o input = original
    BY DEF ReaderInv, LinesOfStream
  <2>9. (Joined \o (Carried \o x)) \o input' = (Joined \o Carried) \o (x \o input')
    <3> HIDE DEF x
    <3>1. Joined \o Carried \in Seq(Bytes)
      BY <2>1, ConcatProperties
    <3>2. Joined \o (Carried \o x) = (Joined \o Carried) \o x
      <4>1. Joined \in Seq(Bytes) /\ Carried \in Seq(Bytes)
        BY <2>1
      <4> QED BY ONLY <4>1, <2>4, Regroup, ZenonT(20)
    <3>3. ((Joined \o Carried) \o x) \o input' = (Joined \o Carried) \o (x \o input')
      BY ONLY <2>4, <3>1, Regroup, ZenonT(20)
    <3> QED BY <3>2, <3>3
  <2>10. LinesOfStream'
    BY <1>1, <1>2, <1>4, <2>4, <2>7, <2>8, <2>9 DEF LinesOfStream
  <2>11. ReaderTypeOK'
    BY <1>1, <1>4, <2>1, <2>3, <2>4 DEF ReaderInv, ReaderTypeOK, Buffers
  <2> QED BY <1>1, <1>4, <2>1, <2>10, <2>11 DEF ReaderInv
<1> QED BY <1>1, <1>3, <1>4 DEF Read

\* A line that ends in the buffer is handed out, and its '\n' goes with it.
LEMMA NextLineStep ==
    ReaderInv /\ NextLine => ReaderInv' /\ \E line \in Texts : lines' = Append(lines, line)
<1> SUFFICES ASSUME ReaderInv, NextLine
             PROVE  ReaderInv' /\ \E line \in Texts : lines' = Append(lines, line)
  OBVIOUS
<1>1. PICK e \in FirstNL(buf, buf_pos, buf_sz) :
         /\ lines' = Append(lines, Slice(buf, buf_pos, e - buf_pos)) /\ buf_pos' = e + 1
  BY DEF NextLine
<1> DEFINE l == e - buf_pos
           line == Slice(buf, buf_pos, l)
           rest == Slice(buf, e + 1, buf_sz - (e + 1))
<1>2. /\ pc = "scan" /\ pc' = "scan" /\ buf_pos <= buf_sz
      /\ UNCHANGED <<input, buf, buf_sz, original>>
  BY DEF NextLine, ReaderInv
<1>3. /\ BUF_SZ \in Nat /\ buf \in Buffers /\ buf_pos \in Nat /\ buf_sz \in Nat /\ buf_sz <= BUF_SZ
      /\ input \in Seq(Bytes) /\ lines \in Seq(Seq(Bytes)) /\ Joined \in Seq(Bytes)
      /\ Len(lines) \in Nat
  BY ReaderTypes
<1>4. /\ e \in Nat /\ l \in Nat /\ buf_pos + l = e /\ e < buf_sz /\ buf[e] = NL
      /\ l <= BUF_SZ /\ l # BUF_SZ /\ buf_pos + l <= BUF_SZ
      /\ buf_sz - (e + 1) \in Nat /\ (e + 1) + (buf_sz - (e + 1)) <= BUF_SZ
  BY <1>1, <1>3 DEF FirstNL
<1>5. /\ line \in Seq(Bytes) /\ Len(line) = l /\ line \in [1 .. l -> Bytes]
      /\ rest \in Seq(Bytes)
  <2> DEFINE m == buf_sz - (e + 1)
             f == e + 1
  <2>1. f \in Nat /\ m \in Nat /\ f + m <= BUF_SZ
    BY <1>4
  <2> HIDE DEF l, m, f
  <2>2. Slice(buf, buf_pos, l) \in [1 .. l -> Bytes]
    BY <1>3, <1>4, SliceFunction
  <2>3. Slice(buf, buf_pos, l) \in Seq(Bytes) /\ Len(Slice(buf, buf_pos, l)) = l
    BY <1>3, <1>4, SliceType
  <2>4. Slice(buf, f, m) \in Seq(Bytes)
    BY <1>3, <2>1, SliceType
  <2> QED BY <2>2, <2>3, <2>4 DEF f, m
<1>6. Carried = (line \o <<NL>>) \o rest
  <2>1. Carried = Slice(buf, buf_pos, buf_sz - buf_pos)
    BY <1>2 DEF Carried
  <2>2. buf_pos + l < buf_sz /\ buf[buf_pos + l] = NL /\ buf_pos + l + 1 = e + 1
    BY <1>3, <1>4
  <2> HIDE DEF l
  <2>3. Slice(buf, buf_pos, buf_sz - buf_pos)
          = (Slice(buf, buf_pos, l) \o <<NL>>) \o Slice(buf, buf_pos + l + 1, buf_sz - (buf_pos + l + 1))
    <3>1. /\ buf \in Buffers /\ buf_pos \in Nat /\ l \in Nat /\ buf_sz \in Nat /\ buf_sz <= BUF_SZ
          /\ buf_pos + l < buf_sz /\ buf[buf_pos + l] = NL
      BY <1>3, <1>4, <2>2
    <3> QED BY ONLY <3>1, SliceLine
  <2> QED BY <2>1, <2>2, <2>3
<1>7. Carried' = rest
  BY <1>1, <1>2 DEF Carried
<1>8. line \in Texts
  BY <1>3, <1>4, <1>5 DEF Texts
<1>9. lines' = Append(lines, line)
  BY <1>1
<1> HIDE DEF line, rest, l
<1>10. Joined' = Joined \o line \o <<NL>>
  BY <1>4, <1>5, <1>9, LineOut DEF Ending
<1>11. (Joined' \o rest) \o input = (Joined \o Carried) \o input
  <2>1. <<NL>> \in Seq(Bytes)
    BY DEF Bytes
  <2>2. line \o <<NL>> \in Seq(Bytes)
    BY <1>5, <2>1, ConcatProperties
  <2>3. Joined \o line \o <<NL>> = Joined \o (line \o <<NL>>)
    <3>1. Joined \in Seq(Bytes) /\ line \in Seq(Bytes)
      BY <1>3, <1>5
    <3> QED BY ONLY <3>1, <2>1, Regroup, ZenonT(20)
  <2>4. (Joined \o (line \o <<NL>>)) \o rest = Joined \o ((line \o <<NL>>) \o rest)
    <3>1. Joined \in Seq(Bytes) /\ rest \in Seq(Bytes)
      BY <1>3, <1>5
    <3> QED BY ONLY <3>1, <2>2, Regroup, ZenonT(20)
  <2> QED BY <1>6, <1>10, <2>3, <2>4
<1>12. LinesOfStream'
  BY <1>2, <1>7, <1>11 DEF ReaderInv, LinesOfStream
<1>13. lines' \in Seq(Seq(Bytes)) /\ \A n \in DOMAIN lines' : lines'[n] \in Texts
  <2>1. /\ lines' \in Seq(Seq(Bytes)) /\ DOMAIN lines' = 1 .. Len(lines) + 1
        /\ lines'[Len(lines) + 1] = line /\ \A n \in 1 .. Len(lines) : lines'[n] = lines[n]
    BY <1>3, <1>5, <1>9
  <2>2. \A n \in 1 .. Len(lines) : lines[n] \in Texts
    BY <1>3 DEF ReaderInv
  <2>3. ASSUME NEW n \in 1 .. Len(lines) + 1 PROVE lines'[n] \in Texts
    <3>1. n = Len(lines) + 1 \/ n \in 1 .. Len(lines)
      BY ONLY <1>3, n \in 1 .. Len(lines) + 1
    <3> QED BY ONLY <3>1, <2>1, <2>2, <1>8
  <2> QED BY ONLY <2>1, <2>3
<1>14. ReaderTypeOK'
  BY <1>1, <1>2, <1>3, <1>4, <1>13 DEF ReaderInv, ReaderTypeOK
<1>15. pc' = "scan" => buf_pos' <= buf_sz'
  BY <1>1, <1>2, <1>3, <1>4
<1> QED BY <1>8, <1>9, <1>12, <1>13, <1>14, <1>15 DEF ReaderInv

\* memmove brings the carried bytes to the front.
LEMMA MovedCarried ==
    ASSUME ReaderInv, pc = "scan"
    PROVE  /\ Moved \in Buffers
           /\ buf_sz - buf_pos \in Nat
           /\ Slice(Moved, 0, buf_sz - buf_pos) = Carried
<1> DEFINE l == buf_sz - buf_pos
<1>1. /\ BUF_SZ \in Nat /\ buf \in Buffers /\ buf_pos \in Nat /\ buf_sz \in Nat /\ buf_sz <= BUF_SZ
      /\ buf_pos <= buf_sz /\ l \in Nat /\ buf_pos + l = buf_sz
  BY ReaderTypes DEF ReaderInv
<1>2. Moved \in Buffers
  BY <1>1 DEF Moved, Buffers
<1>3. ASSUME NEW p \in 1 .. l PROVE Moved[0 + p - 1] = buf[buf_pos + p - 1]
  <2>1. 0 + p - 1 \in DOMAIN buf /\ 0 + p - 1 < buf_sz - buf_pos /\ buf_pos + (0 + p - 1) = buf_pos + p - 1
    BY <1>1 DEF Buffers
  <2> QED BY <2>1 DEF Moved
<1>4. Slice(Moved, 0, l) = Slice(buf, buf_pos, l)
  <2> HIDE DEF l
  <2> QED BY <1>1, <1>3, SliceEqual
<1> QED BY <1>1, <1>2, <1>4 DEF Carried

\* The partial line is carried to the front of the buffer.
LEMMA KeepStep == ReaderInv /\ KeepPartial => ReaderInv' /\ lines' = lines
<1> SUFFICES ASSUME ReaderInv, KeepPartial PROVE ReaderInv' /\ lines' = lines
  OBVIOUS
<1> DEFINE l == buf_sz - buf_pos
<1>1. /\ pc = "scan" /\ pc' = "read" /\ buf_pos <= buf_sz /\ buf' = Moved /\ buf_pos' = l /\ l < BUF_SZ
      /\ FirstNL(buf, buf_pos, buf_sz) = {} /\ lines' = lines
      /\ UNCHANGED <<input, buf_sz, original>>
  BY DEF KeepPartial, ReaderInv
<1>2. Moved \in Buffers /\ l \in Nat /\ Slice(Moved, 0, l) = Carried
  BY <1>1, MovedCarried
<1>3. Carried' = Carried /\ Joined' = Joined
  BY <1>1, <1>2, SameLines DEF Carried
<1>4. /\ BUF_SZ \in Nat /\ buf \in Buffers /\ buf_pos \in Nat /\ buf_sz \in Nat /\ buf_sz <= BUF_SZ
  BY ReaderTypes
<1>5. \A p \in DOMAIN Carried : Carried[p] # NL
  <2>1. Carried = Slice(buf, buf_pos, l)
    BY <1>1 DEF Carried
  <2>2. ASSUME NEW p \in 1 .. l PROVE buf[buf_pos + p - 1] # NL
    <3>1. buf_pos + p - 1 \in buf_pos .. buf_sz - 1
      BY <1>2, <1>4
    <3> QED BY <1>1, <1>4, <3>1, NoNewline
  <2> QED BY <2>1, <2>2 DEF Slice
<1>6. LinesOfStream'
  BY <1>1, <1>3, <1>5 DEF ReaderInv, LinesOfStream
<1>7. ReaderTypeOK'
  BY <1>1, <1>2, <1>4 DEF ReaderInv, ReaderTypeOK, Buffers
<1> QED BY <1>1, <1>6, <1>7 DEF ReaderInv

\* A full buffer without a '\n' is a line.
LEMMA FullLineStep ==
    ReaderInv /\ FullLine => ReaderInv' /\ \E line \in Texts : lines' = Append(lines, line)
<1> SUFFICES ASSUME ReaderInv, FullLine
             PROVE  ReaderInv' /\ \E line \in Texts : lines' = Append(lines, line)
  OBVIOUS
<1>1. /\ pc = "scan" /\ pc' = "read" /\ buf_pos <= buf_sz /\ buf' = Moved /\ buf_pos' = 0
      /\ buf_sz - buf_pos = BUF_SZ
      /\ lines' = Append(lines, Slice(Moved, 0, BUF_SZ))
      /\ UNCHANGED <<input, buf_sz, original>>
  BY DEF FullLine, ReaderInv
<1>2. Moved \in Buffers /\ Slice(Moved, 0, BUF_SZ) = Carried
  BY <1>1, MovedCarried
<1>3. /\ BUF_SZ \in Nat /\ lines \in Seq(Seq(Bytes)) /\ Carried \in Seq(Bytes) /\ Joined \in Seq(Bytes)
      /\ Len(lines) \in Nat
  BY ReaderTypes
<1>4. Len(Carried) = BUF_SZ /\ Carried \in [1 .. BUF_SZ -> Bytes]
  <2>1. 0 + BUF_SZ <= BUF_SZ
    BY <1>3
  <2> QED BY <1>2, <1>3, <2>1, SliceType, SliceFunction
<1>5. Carried \in Texts
  BY <1>3, <1>4 DEF Texts
<1>6. lines' = Append(lines, Carried)
  BY <1>1, <1>2
<1>7. Joined' = Joined \o Carried
  <2>1. Joined' = Joined \o Carried \o <<>>
    BY <1>3, <1>4, <1>6, LineOut DEF Ending
  <2>2. Joined \o Carried \in Seq(Bytes)
    BY <1>3, ConcatProperties
  <2> QED BY <2>1, <2>2, ConcatEmptySeq
<1>8. Carried' = <<>>
  BY <1>1, SliceEmpty DEF Carried
<1>9. Joined' \o Carried' = Joined \o Carried
  <2>1. Joined \o Carried \in Seq(Bytes)
    BY <1>3, ConcatProperties
  <2> QED BY <1>7, <1>8, <2>1, ConcatEmptySeq
<1>10. LinesOfStream'
  <2>1. \A p \in DOMAIN Carried' : Carried'[p] # NL
    BY <1>8
  <2>2. (Joined' \o Carried') \o input' = original'
    BY <1>1, <1>9 DEF ReaderInv, LinesOfStream
  <2> QED BY <2>1, <2>2 DEF LinesOfStream
<1>11. lines' \in Seq(Seq(Bytes)) /\ \A n \in DOMAIN lines' : lines'[n] \in Texts
  <2>1. /\ lines' \in Seq(Seq(Bytes)) /\ DOMAIN lines' = 1 .. Len(lines) + 1
        /\ lines'[Len(lines) + 1] = Carried /\ \A n \in 1 .. Len(lines) : lines'[n] = lines[n]
    BY <1>3, <1>6
  <2>2. \A n \in 1 .. Len(lines) : lines[n] \in Texts
    BY <1>3 DEF ReaderInv
  <2>3. ASSUME NEW n \in 1 .. Len(lines) + 1 PROVE lines'[n] \in Texts
    <3>1. n = Len(lines) + 1 \/ n \in 1 .. Len(lines)
      BY ONLY <1>3, n \in 1 .. Len(lines) + 1
    <3> QED BY ONLY <3>1, <2>1, <2>2, <1>5
  <2> QED BY ONLY <2>1, <2>3
<1>12. ReaderTypeOK'
  BY <1>1, <1>2, <1>3, <1>11 DEF ReaderInv, ReaderTypeOK, Buffers
<1> QED BY <1>1, <1>5, <1>6, <1>10, <1>11, <1>12 DEF ReaderInv

\* What the two programs see of the reader.
LEMMA QuietStep == ReaderInv /\ Quiet => ReaderInv' /\ lines' = lines
BY ReadStep, KeepStep DEF Quiet

\* A line is handed out because it ended in the buffer or because it fills it.
LEMMA LineStep ==
    ReaderInv /\ Line => ReaderInv' /\ \E line \in Texts : lines' = Append(lines, line)
BY NextLineStep, FullLineStep DEF Line

\* The reader is left alone.
LEMMA ReaderStutter == ReaderInv /\ UNCHANGED readerVars => ReaderInv'
<1> SUFFICES ASSUME ReaderInv, UNCHANGED readerVars PROVE ReaderInv'
  OBVIOUS
<1>1. UNCHANGED <<pc, input, buf, buf_pos, buf_sz, original, lines>>
  BY DEF readerVars
<1>2. Joined' = Joined /\ Carried' = Carried
  BY <1>1, SameLines DEF Carried
<1> QED BY <1>1, <1>2 DEF ReaderInv, ReaderTypeOK, LinesOfStream

(***************************************************************************)
(* hash_insert on mmuniq-hash's table of fixed size.                       *)
(***************************************************************************)
\* A slot index never leaves the array (line 107: bm[i & size_mask]).
LEMMA SlotInTable ==
    ASSUME NEW mask \in Nat, NEW p \in Nat
    PROVE  Hash!SlotOf(p, mask) \in 0 .. mask
BY DEF Hash!SlotOf

\* The probe loop breaks at one place only.
LEMMA StopUnique ==
    ASSUME NEW h \in Hash!Hashes, NEW mask \in Nat, NEW bm, NEW p, NEW q,
           Hash!StopsAt(h, bm, mask, p), Hash!StopsAt(h, bm, mask, q)
    PROVE  p = q
<1>1. p \in Nat /\ q \in Nat
  BY HashAssumption DEF Hash!StopsAt, Hash!Probes, Hash!Hashes
<1>2. ~(p < q) /\ ~(q < p)
  BY DEF Hash!StopsAt
<1> QED BY <1>1, <1>2

\* What an insertion that took a free slot did to the table (lines 108-111).
LEMMA InsertedAt ==
    ASSUME NEW h \in Hash!Hashes, NEW mask \in Nat, NEW bm \in Hash!Tables(mask),
           Hash!Miss(h, bm, mask) = "inserted"
    PROVE  \E p \in Hash!Probes(h) :
              /\ Hash!StopsAt(h, bm, mask, p)
              /\ bm[Hash!SlotOf(p, mask)] = 0
              /\ Hash!SlotOf(p, mask) \in 0 .. mask
              /\ Hash!Inserted(h, bm, mask) = [bm EXCEPT ![Hash!SlotOf(p, mask)] = h]
<1>1. ~Hash!Overflows(h, bm, mask)
  BY DEF Hash!Miss
<1> DEFINE p == CHOOSE p \in Hash!Probes(h) : Hash!StopsAt(h, bm, mask, p)
<1>2. p \in Hash!Probes(h) /\ Hash!StopsAt(h, bm, mask, p)
  BY <1>1 DEF Hash!Overflows
<1>3. bm[Hash!SlotOf(p, mask)] = 0
  BY <1>1 DEF Hash!Miss
<1>4. p \in Nat
  BY <1>2, HashAssumption DEF Hash!Probes, Hash!Hashes
<1>5. Hash!Inserted(h, bm, mask) = [bm EXCEPT ![Hash!SlotOf(p, mask)] = h]
  BY DEF Hash!Inserted
<1>6. Hash!SlotOf(p, mask) \in 0 .. mask
  BY <1>4, SlotInTable
<1> HIDE DEF p
<1> QED BY <1>2, <1>3, <1>5, <1>6

\* hash_insert answers with one of its three results.
LEMMA MissCases ==
    ASSUME NEW h \in Hash!Hashes, NEW mask \in Nat, NEW bm \in Hash!Tables(mask)
    PROVE  Hash!Miss(h, bm, mask) \in {"inserted", "present", "overflow"}
BY DEF Hash!Miss

\* The table stays an array of hashes of the same size.
LEMMA InsertedType ==
    ASSUME NEW h \in Hash!Hashes, NEW mask \in Nat, NEW bm \in Hash!Tables(mask)
    PROVE  Hash!Inserted(h, bm, mask) \in Hash!Tables(mask)
<1>1. CASE Hash!Miss(h, bm, mask) = "inserted"
  BY <1>1, InsertedAt DEF Hash!Tables
<1>2. CASE Hash!Miss(h, bm, mask) # "inserted"
  BY <1>2 DEF Hash!Inserted
<1> QED BY <1>1, <1>2

\* A fresh mapping has no broken chain.
LEMMA EmptyChain ==
    ASSUME NEW mask \in Nat
    PROVE  /\ Hash!EmptyTable(mask) \in Hash!Tables(mask)
           /\ Hash!ChainIntact(Hash!EmptyTable(mask), mask)
           /\ Hash!Stored(Hash!EmptyTable(mask)) = {}
BY HashAssumption DEF Hash!EmptyTable, Hash!Tables, Hash!Hashes, Hash!ChainIntact, Hash!Stored

\* Insertion keeps every stored hash reachable: only free slots are taken,
\* and a free slot lies on no other hash's path.
LEMMA InsertKeepsChains ==
    ASSUME NEW h \in Hash!Hashes, NEW mask \in Nat, NEW bm \in Hash!Tables(mask),
           Hash!ChainIntact(bm, mask)
    PROVE  Hash!ChainIntact(Hash!Inserted(h, bm, mask), mask)
<1>1. CASE Hash!Miss(h, bm, mask) # "inserted"
  BY <1>1 DEF Hash!Inserted
<1>2. CASE Hash!Miss(h, bm, mask) = "inserted"
  <2> DEFINE new == Hash!Inserted(h, bm, mask)
  <2>1. PICK p \in Hash!Probes(h) :
              /\ Hash!StopsAt(h, bm, mask, p)
              /\ bm[Hash!SlotOf(p, mask)] = 0
              /\ Hash!SlotOf(p, mask) \in 0 .. mask
              /\ new = [bm EXCEPT ![Hash!SlotOf(p, mask)] = h]
    BY <1>2, InsertedAt
  <2> DEFINE t == Hash!SlotOf(p, mask)
  <2>2. /\ new[t] = h
        /\ \A s \in 0 .. mask : s # t => new[s] = bm[s]
    BY <2>1 DEF Hash!Tables
  \* A path of the old table avoids t, so it reads the same in the new one.
  <2>3. ASSUME NEW g \in Hash!Hashes, NEW q \in Hash!Probes(g), Hash!StopsAt(g, bm, mask, q)
        PROVE  \A m \in Hash!Probes(g) : m < q => new[Hash!SlotOf(m, mask)] \notin {0, g}
    <3> SUFFICES ASSUME NEW m \in Hash!Probes(g), m < q
                 PROVE  new[Hash!SlotOf(m, mask)] \notin {0, g}
      OBVIOUS
    <3>1. bm[Hash!SlotOf(m, mask)] \notin {0, g}
      BY <2>3 DEF Hash!StopsAt
    <3>2. Hash!SlotOf(m, mask) # t
      BY <3>1, <2>1
    <3>3. Hash!SlotOf(m, mask) \in 0 .. mask
      BY SlotInTable, HashAssumption DEF Hash!Probes, Hash!Hashes
    <3> QED BY <3>1, <3>2, <3>3, <2>2
  <2>4. SUFFICES ASSUME NEW s \in 0 .. mask, new[s] # 0
                 PROVE  \E q \in Hash!Probes(new[s]) : /\ Hash!SlotOf(q, mask) = s
                                                  /\ Hash!StopsAt(new[s], new, mask, q)
    BY DEF Hash!ChainIntact
  <2>5. CASE s = t
    <3>1. \A m \in Hash!Probes(h) : m < p => new[Hash!SlotOf(m, mask)] \notin {0, h}
      BY <2>1, <2>3
    <3>2. Hash!StopsAt(h, new, mask, p)
      BY <2>1, <2>2, <3>1 DEF Hash!StopsAt
    <3> QED BY <2>5, <2>2, <3>2
  <2>6. CASE s # t
    <3>1. new[s] = bm[s] /\ bm[s] \in Hash!Hashes
      BY <2>6, <2>2 DEF Hash!Tables
    <3>2. PICK q \in Hash!Probes(bm[s]) : Hash!SlotOf(q, mask) = s /\ Hash!StopsAt(bm[s], bm, mask, q)
      BY <3>1, <2>4 DEF Hash!ChainIntact
    <3>3. Hash!StopsAt(bm[s], new, mask, q)
      BY <3>1, <3>2, <2>3 DEF Hash!StopsAt
    <3> QED BY <3>1, <3>2, <3>3
  <2> QED BY <2>5, <2>6
<1> QED BY <1>1, <1>2

\* hash_insert answers "inserted" only for a hash the table does not hold and
\* "present" only for one it does hold (or for the reserved 0, never stored).
LEMMA InsertAnswersTruly ==
    ASSUME NEW h \in Hash!Hashes, NEW mask \in Nat, NEW bm \in Hash!Tables(mask),
           Hash!ChainIntact(bm, mask)
    PROVE  /\ Hash!Miss(h, bm, mask) = "inserted" => h \notin Hash!Stored(bm)
           /\ Hash!Miss(h, bm, mask) = "present" => h \in Hash!Stored(bm)
<1>1. ASSUME Hash!Miss(h, bm, mask) = "inserted", h \in Hash!Stored(bm)
      PROVE  FALSE
  <2>1. PICK p \in Hash!Probes(h) : Hash!StopsAt(h, bm, mask, p) /\ bm[Hash!SlotOf(p, mask)] = 0
    BY <1>1, InsertedAt
  <2>2. PICK s \in 0 .. mask : bm[s] = h /\ h # 0
    BY <1>1 DEF Hash!Stored, Hash!Tables
  <2>3. PICK q \in Hash!Probes(h) : Hash!SlotOf(q, mask) = s /\ Hash!StopsAt(h, bm, mask, q)
    BY <2>2 DEF Hash!ChainIntact
  <2>4. p = q
    BY <2>1, <2>3, StopUnique
  <2> QED BY <2>1, <2>2, <2>3, <2>4
<1>2. ASSUME Hash!Miss(h, bm, mask) = "present"
      PROVE  h \in Hash!Stored(bm)
  <2> DEFINE p == CHOOSE p \in Hash!Probes(h) : Hash!StopsAt(h, bm, mask, p)
  <2>1. ~Hash!Overflows(h, bm, mask)
    BY <1>2 DEF Hash!Miss
  <2>2. p \in Hash!Probes(h) /\ Hash!StopsAt(h, bm, mask, p)
    BY <2>1 DEF Hash!Overflows
  <2>3. bm[Hash!SlotOf(p, mask)] # 0
    BY <1>2, <2>1 DEF Hash!Miss
  <2> HIDE DEF p
  <2>4. bm[Hash!SlotOf(p, mask)] = h
    BY <2>2, <2>3 DEF Hash!StopsAt
  <2>5. Hash!SlotOf(p, mask) \in DOMAIN bm
    BY <2>2, SlotInTable, HashAssumption DEF Hash!Probes, Hash!Hashes, Hash!Tables
  <2> QED BY <2>3, <2>4, <2>5 DEF Hash!Stored
<1> QED BY <1>1, <1>2

\* The stored set gains exactly the inserted hash.
LEMMA InsertStores ==
    ASSUME NEW h \in Hash!Hashes, NEW mask \in Nat, NEW bm \in Hash!Tables(mask)
    PROVE  Hash!Stored(Hash!Inserted(h, bm, mask)) =
               IF Hash!Miss(h, bm, mask) = "inserted" THEN Hash!Stored(bm) \cup ({h} \ {0})
               ELSE Hash!Stored(bm)
<1>1. CASE Hash!Miss(h, bm, mask) # "inserted"
  BY <1>1 DEF Hash!Inserted
<1>2. CASE Hash!Miss(h, bm, mask) = "inserted"
  <2>1. PICK t \in 0 .. mask : bm[t] = 0 /\ Hash!Inserted(h, bm, mask) = [bm EXCEPT ![t] = h]
    BY <1>2, InsertedAt
  <2>2. DOMAIN bm = 0 .. mask
    BY DEF Hash!Tables
  <2> QED BY <1>2, <2>1, <2>2 DEF Hash!Stored
<1> QED BY <1>1, <1>2

\* A hash has one slot.
LEMMA StoredOnce ==
    ASSUME NEW mask \in Nat, NEW bm \in Hash!Tables(mask), Hash!ChainIntact(bm, mask),
           NEW s \in 0 .. mask, NEW t \in 0 .. mask, bm[s] = bm[t], bm[s] # 0
    PROVE  s = t
<1>1. bm[s] \in Hash!Hashes
  BY DEF Hash!Tables
<1>2. PICK p \in Hash!Probes(bm[s]) : Hash!SlotOf(p, mask) = s /\ Hash!StopsAt(bm[s], bm, mask, p)
  BY DEF Hash!ChainIntact
<1>3. PICK q \in Hash!Probes(bm[s]) : Hash!SlotOf(q, mask) = t /\ Hash!StopsAt(bm[s], bm, mask, q)
  BY DEF Hash!ChainIntact
<1>4. p = q
  BY <1>1, <1>2, <1>3, StopUnique
<1> QED BY <1>2, <1>3, <1>4

\* No insertion of a hash that is stored gives up.
LEMMA StoredIsFound ==
    ASSUME NEW mask \in Nat, NEW bm \in Hash!Tables(mask), Hash!ChainIntact(bm, mask),
           NEW h \in Hash!Stored(bm)
    PROVE  Hash!Miss(h, bm, mask) # "overflow"
<1>1. PICK s \in 0 .. mask : bm[s] = h /\ h # 0
  BY DEF Hash!Stored, Hash!Tables
<1>2. \E p \in Hash!Probes(h) : Hash!StopsAt(h, bm, mask, p)
  BY <1>1 DEF Hash!ChainIntact
<1>3. ~Hash!Overflows(h, bm, mask)
  BY <1>2 DEF Hash!Overflows
<1> QED BY <1>3 DEF Hash!Miss

\* The counter of conflicts counts something.
LEMMA ConflictsType == ASSUME NEW h PROVE Hash!Conflicts(h) \in Nat
<1> DEFINE C == {p \in Hash!Probes(h) :
                   \A q \in Hash!Probes(h) : q <= p => table[Hash!SlotOf(q, global_size_mask)] \notin {0, h}}
<1>1. IsFiniteSet(0 .. HashMod - 1) /\ C \subseteq 0 .. HashMod - 1
  BY HashAssumption, FS_Interval DEF Hash!Probes, Hash!Hashes
<1>2. Cardinality(C) \in Nat
  BY <1>1, FS_Subset, FS_CardinalityType
<1>3. Hash!Conflicts(h) = Cardinality(C)
  BY DEF Hash!Conflicts, Hash!Cardinality, Cardinality
<1> QED BY <1>2, <1>3

\* Doubling passes every number.
LEMMA ShiftsGrow ==
    ASSUME NEW n \in Nat
    PROVE  /\ Hash!Shifts(n) \in [0 .. n -> Nat]
           /\ \A e \in 0 .. n : Hash!Shifts(n)[e] > e
<1> DEFINE Step(g, e) == IF e = 0 THEN 1 ELSE 2 * g[e - 1]
           Solves(g, m) == \A e \in 0 .. m : g[e] = Step(g, e)
           S == {m \in Nat : \E g \in [0 .. m -> Nat] : Solves(g, m)}
<1>1. 0 \in S
  <2> DEFINE g == [e \in 0 .. 0 |-> 1]
  <2>1. g \in [0 .. 0 -> Nat] /\ Solves(g, 0)
    OBVIOUS
  <2> HIDE DEF g, Solves
  <2> QED BY <2>1
<1>2. ASSUME NEW m \in Nat, m \in S PROVE m + 1 \in S
  <2>1. PICK g \in [0 .. m -> Nat] : Solves(g, m)
    BY <1>2
  <2> DEFINE h == [e \in 0 .. m + 1 |-> IF e = m + 1 THEN 2 * g[m] ELSE g[e]]
  <2>2. g[m] \in Nat /\ h \in [0 .. m + 1 -> Nat]
    OBVIOUS
  <2>3. h[m + 1] = 2 * g[m] /\ \A e \in 0 .. m : h[e] = g[e]
    OBVIOUS
  <2> HIDE DEF h
  <2>4. ASSUME NEW e \in 0 .. m + 1 PROVE h[e] = Step(h, e)
    <3>1. CASE e = m + 1
      <4>1. e # 0 /\ e - 1 = m /\ h[e - 1] = g[m]
        BY <2>3, <3>1
      <4> QED BY <2>3, <3>1, <4>1
    <3>2. CASE e # m + 1
      <4>1. e \in 0 .. m /\ (e # 0 => e - 1 \in 0 .. m)
        BY <3>2
      <4>2. g[e] = Step(g, e)
        BY <2>1, <4>1
      <4> QED BY <2>3, <4>1, <4>2
    <3> QED BY <3>1, <3>2
  <2>5. Solves(h, m + 1)
    BY <2>4
  <2> HIDE DEF Solves
  <2> QED BY <2>2, <2>5
<1>3. PICK g \in [0 .. n -> Nat] : Solves(g, n)
  <2>1. n \in S
    <3> HIDE DEF S
    <3> QED BY <1>1, <1>2, Induction
  <2> QED BY <2>1
<1>4. g = [e \in 0 .. n |-> Step(g, e)]
  BY <1>3
<1> DEFINE s == Hash!Shifts(n)
<1>5. s = [e \in 0 .. n |-> Step(s, e)]
  <2>1. s = CHOOSE f : f = [e \in 0 .. n |-> Step(f, e)]
    BY DEF Hash!Shifts
  <2> HIDE DEF s, Step
  <2> QED BY <1>4, <2>1
<1> HIDE DEF s
<1> DEFINE T == {e \in Nat : e <= n => s[e] \in Nat /\ s[e] > e}
<1>6. 0 \in T
  BY <1>5
<1>7. ASSUME NEW e \in Nat, e \in T PROVE e + 1 \in T
  <2> SUFFICES ASSUME e + 1 <= n PROVE s[e + 1] \in Nat /\ s[e + 1] > e + 1
    OBVIOUS
  <2>1. s[e] \in Nat /\ s[e] > e
    BY <1>7
  <2>2. s[e + 1] = 2 * s[e]
    <3>1. e + 1 \in 0 .. n /\ e + 1 # 0 /\ (e + 1) - 1 = e
      OBVIOUS
    <3>2. s[e + 1] = Step(s, e + 1)
      BY <1>5, <3>1
    <3> QED BY <3>1, <3>2
  <2> QED BY <2>1, <2>2
<1>8. \A e \in 0 .. n : s[e] \in Nat /\ s[e] > e
  <2>1. Nat \subseteq T
    <3> HIDE DEF T
    <3> QED BY <1>6, <1>7, Induction
  <2> QED BY <2>1
<1> QED BY <1>5, <1>8 DEF s

\* The table has more slots than lines are expected (-n).
LEMMA MaskLarge ==
    ASSUME NEW n \in Nat
    PROVE  Hash!MaskFor(n) \in Nat /\ n <= Hash!MaskFor(n)
<1> DEFINE s == Hash!Shifts(n)
           T == {e \in 0 .. n : n < s[e]}
           First(e) == n < s[e] /\ \A d \in 0 .. e - 1 : s[d] <= n
<1>1. s \in [0 .. n -> Nat] /\ \A e \in 0 .. n : s[e] > e
  BY ShiftsGrow
<1> HIDE DEF s
<1>2. T \in SUBSET Nat /\ n \in T
  BY <1>1
<1>3. PICK e \in T : \A d \in T : ~(d < e)
  BY <1>2, Least
<1>4. ASSUME NEW d \in 0 .. e - 1 PROVE s[d] <= n
  <2>1. d \in 0 .. n /\ d < e /\ s[d] \in Nat
    BY <1>1, <1>3
  <2>2. d \notin T
    BY <1>3, <2>1
  <2> QED BY <2>1, <2>2
<1>5. e \in 0 .. n /\ First(e)
  BY <1>3, <1>4
<1> DEFINE c == CHOOSE f \in 0 .. n : First(f)
<1>6. c \in 0 .. n /\ First(c)
  <2> HIDE DEF First
  <2> QED BY <1>5
<1>7. Hash!MaskFor(n) = s[c] - 1
  BY DEF Hash!MaskFor, s
<1> HIDE DEF c
<1>8. s[c] \in Nat /\ n < s[c]
  BY <1>1, <1>6
<1> QED BY <1>7, <1>8

(***************************************************************************)
(* mmuniq-hash: the table holds the hashes of the lines written.           *)
(***************************************************************************)

\* HashAt and IsWritten of Hash, of any lines and any output.
Printed(w) == {w[m] : m \in DOMAIN w}
HashesOf(ls, ns) == {HashOf(ls[n]) : n \in ns}
LeftOut(ls, w) ==
    {n \in DOMAIN ls : /\ n \notin Printed(w)
                       /\ \A m \in 1 .. n - 1 :
                            m \in Printed(w) /\ HashOf(ls[m]) = HashOf(ls[n]) => HashOf(ls[n]) = 0}

HashInv ==
    /\ Hash!TypeOK
    /\ global_size_mask = Hash!MaskFor(global_size)
    /\ Hash!ChainIntact(table, global_size_mask)
    /\ Hash!Stored(table) \subseteq HashesOf(lines, DOMAIN lines)
    /\ global_repeated = 0 => /\ Hash!Stored(table) = HashesOf(lines, Printed(written)) \ {0}
                              /\ overflow_count = Cardinality(LeftOut(lines, written))

\* The counter is about the lines the invariant counts.
LEMMA OverflowMeans ==
    Hash!OverflowExact <=>
        (global_repeated = 0 => overflow_count = Cardinality(LeftOut(lines, written)))
<1>1. \A n : Hash!IsWritten(n) <=> n \in Printed(written)
  BY DEF Hash!IsWritten, Printed
<1> DEFINE H == {n \in DOMAIN lines :
                    ~Hash!IsWritten(n) /\ \A m \in 1 .. n - 1 :
                        Hash!IsWritten(m) /\ Hash!HashAt(m) = Hash!HashAt(n) => Hash!HashAt(n) = 0}
<1>2. H = LeftOut(lines, written)
  BY <1>1 DEF Hash!HashAt, LeftOut
<1>3. Hash!OverflowExact <=> (global_repeated = 0 => overflow_count = Cardinality(H))
  BY DEF Hash!OverflowExact, Hash!Cardinality, Cardinality
<1> QED BY <1>2, <1>3

\* A further line leaves what was said of the earlier ones.
LEMMA LeftOutAppend ==
    ASSUME NEW ls \in Seq(Texts), NEW line \in Texts, NEW w \in Seq(1 .. Len(ls))
    PROVE  LET N == Len(ls) + 1
               ms == Append(ls, line)
           IN  /\ LeftOut(ms, Append(w, N)) = LeftOut(ls, w)
               /\ (\E m \in Printed(w) : HashOf(ls[m]) = HashOf(line) /\ HashOf(line) # 0)
                     => LeftOut(ms, w) = LeftOut(ls, w)
               /\ (\A m \in Printed(w) : HashOf(ls[m]) = HashOf(line) => HashOf(line) = 0)
                     => LeftOut(ms, w) = LeftOut(ls, w) \cup {N}
               /\ N \notin LeftOut(ls, w) /\ IsFiniteSet(LeftOut(ls, w))
               /\ LeftOut(ls, w) \subseteq 1 .. Len(ls)
               /\ Printed(Append(w, N)) = Printed(w) \cup {N}
               /\ Printed(w) \subseteq 1 .. Len(ls)
<1> DEFINE N == Len(ls) + 1
           ms == Append(ls, line)
<1>1. /\ Len(ls) \in Nat /\ DOMAIN ls = 1 .. Len(ls) /\ DOMAIN ms = 1 .. N
      /\ ms[N] = line /\ \A n \in 1 .. Len(ls) : ms[n] = ls[n]
  OBVIOUS
<1>2. Printed(w) \subseteq 1 .. Len(ls)
  BY DEF Printed
<1>3. Printed(Append(w, N)) = Printed(w) \cup {N}
  <2>1. /\ Len(w) \in Nat /\ DOMAIN w = 1 .. Len(w) /\ DOMAIN Append(w, N) = 1 .. Len(w) + 1
        /\ Append(w, N)[Len(w) + 1] = N /\ \A n \in 1 .. Len(w) : Append(w, N)[n] = w[n]
    OBVIOUS
  <2> QED BY <2>1 DEF Printed
<1> HIDE DEF ms
<1>4. IsFiniteSet(LeftOut(ls, w)) /\ LeftOut(ls, w) \subseteq 1 .. Len(ls)
  <2>1. LeftOut(ls, w) \subseteq 1 .. Len(ls) /\ IsFiniteSet(1 .. Len(ls))
    BY <1>1, FS_Interval DEF LeftOut
  <2> QED BY <2>1, FS_Subset
<1>5. N \notin LeftOut(ls, w) /\ N \notin 1 .. Len(ls) /\ N \in Nat /\ 1 .. N = 1 .. Len(ls) \cup {N}
  BY <1>1, <1>4
<1>6. ASSUME NEW x, NEW n \in 1 .. Len(ls), x = Append(w, N) \/ x = w
      PROVE  n \in LeftOut(ms, x) <=> n \in LeftOut(ls, w)
  <2>1. \A m \in 1 .. Len(ls) : m \in Printed(x) <=> m \in Printed(w)
    BY <1>3, <1>5, <1>6
  <2>2. ms[n] = ls[n] /\ \A m \in 1 .. n - 1 : m \in 1 .. Len(ls) /\ ms[m] = ls[m]
    BY <1>1
  <2>3. n \in DOMAIN ms /\ n \in DOMAIN ls
    BY <1>1
  <2> QED BY <2>1, <2>2, <2>3 DEF LeftOut
<1>7. N \notin LeftOut(ms, Append(w, N))
  BY <1>3 DEF LeftOut
<1>8. \A x : LeftOut(ms, x) \subseteq 1 .. N
  BY <1>1 DEF LeftOut
<1>9. N \in LeftOut(ms, w) <=> \A m \in Printed(w) : HashOf(ls[m]) = HashOf(line) => HashOf(line) = 0
  <2>1. N - 1 = Len(ls) /\ N \notin Printed(w) /\ N \in DOMAIN ms
    BY <1>1, <1>2, <1>5
  <2>2. N \in LeftOut(ms, w) <=>
           \A m \in 1 .. Len(ls) : m \in Printed(w) /\ HashOf(ms[m]) = HashOf(ms[N]) => HashOf(ms[N]) = 0
    BY <2>1 DEF LeftOut
  <2> QED BY <2>2, <1>1, <1>2
<1> HIDE DEF N
<1>10. LeftOut(ms, Append(w, N)) = LeftOut(ls, w)
  BY <1>4, <1>5, <1>6, <1>7, <1>8
<1>11. (\E m \in Printed(w) : HashOf(ls[m]) = HashOf(line) /\ HashOf(line) # 0)
            => LeftOut(ms, w) = LeftOut(ls, w)
  BY <1>4, <1>5, <1>6, <1>8, <1>9
<1>12. (\A m \in Printed(w) : HashOf(ls[m]) = HashOf(line) => HashOf(line) = 0)
            => LeftOut(ms, w) = LeftOut(ls, w) \cup {N}
  BY <1>4, <1>5, <1>6, <1>8, <1>9
<1> QED BY <1>2, <1>3, <1>4, <1>5, <1>10, <1>11, <1>12 DEF N, ms

\* Lines are what the hash is taken of.
LEMMA LinesAreTexts ==
    ASSUME ReaderInv
    PROVE  lines \in Seq(Texts) /\ Len(lines) \in Nat /\ DOMAIN lines = 1 .. Len(lines)
<1>1. lines \in Seq(Seq(Bytes)) /\ \A n \in DOMAIN lines : lines[n] \in Texts
  BY DEF ReaderInv, ReaderTypeOK
<1>2. lines \in [1 .. Len(lines) -> Texts] /\ Len(lines) \in Nat
  BY <1>1
<1>3. lines \in Seq(Texts)
  BY <1>2, IsASeq
<1> QED BY <1>1, <1>3

\* The types the steps below rest on.
LEMMA HashTypes ==
    ASSUME HashInv
    PROVE  /\ global_size_mask \in Nat /\ table \in Hash!Tables(global_size_mask)
           /\ global_repeated \in {0, 1} /\ global_size \in Nat
           /\ written \in Seq(1 .. Len(lines))
           /\ overflow_count \in Nat /\ hash_conflicts \in Nat /\ line_count = Len(lines)
BY HashAssumption DEF HashInv, Hash!TypeOK

\* The table starts out empty.
LEMMA HashInit == ReaderInv /\ lines = <<>> /\ Hash!Init => HashInv
<1> SUFFICES ASSUME ReaderInv, lines = <<>>, Hash!Init PROVE HashInv
  OBVIOUS
<1>1. global_size \in Nat /\ global_size_mask \in Nat /\ global_size_mask = Hash!MaskFor(global_size)
  BY HashAssumption, MaskLarge DEF Hash!Init
<1>2. /\ table \in Hash!Tables(global_size_mask) /\ Hash!ChainIntact(table, global_size_mask)
      /\ Hash!Stored(table) = {}
  BY <1>1, EmptyChain DEF Hash!Init
<1>3. /\ Len(lines) = 0 /\ DOMAIN lines = {} /\ written = <<>> /\ written \in Seq(1 .. Len(lines))
      /\ Printed(written) = {}
  BY DEF Hash!Init, Printed
<1>4. Hash!TypeOK
  BY <1>1, <1>2, <1>3, SameReader DEF Hash!TypeOK, Hash!Init, ReaderInv
<1>5. Cardinality(LeftOut(lines, written)) = 0
  BY <1>3, FS_EmptySet DEF LeftOut
<1>6. overflow_count = 0
  BY DEF Hash!Init
<1> QED BY <1>1, <1>2, <1>3, <1>4, <1>5, <1>6 DEF HashInv, HashesOf

\* What no line changes.
LEMMA HashQuiet ==
    ReaderInv' /\ HashInv /\ lines' = lines /\ UNCHANGED Hash!tabVars => HashInv'
<1> SUFFICES ASSUME ReaderInv', HashInv, lines' = lines, UNCHANGED Hash!tabVars PROVE HashInv'
  OBVIOUS
<1>1. UNCHANGED <<global_repeated, global_size, global_size_mask, table, overflow_count,
                  hash_conflicts, line_count, written>>
  BY DEF Hash!tabVars
<1>2. Hash!TypeOK'
  <2>1. Hash!ReaderTypeOK'
    BY SameReader DEF ReaderInv, Hash!ReaderTypeOK, ReaderTypeOK, Hash!Bytes, Bytes
  <2> QED BY <1>1, <2>1 DEF HashInv, Hash!TypeOK
<1> QED BY <1>1, <1>2 DEF HashInv

\* process_line in terms of the table before it.
LEMMA HashLine ==
    ASSUME ReaderInv, ReaderInv', HashInv,
           NEW line \in Texts, lines' = Append(lines, line), Hash!ProcessLine(line)
    PROVE  HashInv'
<1> DEFINE h == HashOf(line)
           N == Len(lines) + 1
           mask == global_size_mask
           miss1 == Hash!Miss(h, table, mask)
<1>1. /\ lines \in Seq(Texts) /\ Len(lines) \in Nat /\ DOMAIN lines = 1 .. Len(lines)
      /\ Len(lines') = N /\ DOMAIN lines' = 1 .. N /\ lines'[N] = line
      /\ \A n \in 1 .. Len(lines) : lines'[n] = lines[n]
  BY LinesAreTexts
<1>2. /\ h \in Hash!Hashes /\ mask \in Nat /\ table \in Hash!Tables(mask)
      /\ Hash!ChainIntact(table, mask)
  BY HashTypes, HashAssumption DEF HashInv, Hash!Hashes
<1>3. /\ line_count' = line_count + 1 /\ hash_conflicts' = hash_conflicts + Hash!Conflicts(h)
      /\ table' = Hash!Inserted(h, table, mask)
      /\ overflow_count' = IF miss1 = "overflow" THEN overflow_count + 1 ELSE overflow_count
      /\ written' = IF (global_repeated = 1) <=> (miss1 \in {"present", "overflow"})
                    THEN Append(written, line_count') ELSE written
      /\ global_repeated' = global_repeated /\ global_size' = global_size /\ mask' = mask
  BY DEF Hash!ProcessLine, Hash!Found, Hash!MissOf
<1> HIDE DEF miss1
<1>4. /\ line_count' = N /\ written \in Seq(1 .. Len(lines)) /\ global_repeated \in {0, 1}
      /\ overflow_count \in Nat
  BY <1>1, <1>3, HashTypes
<1>5. written' = Append(written, N) \/ written' = written
  BY <1>3, <1>4
<1>6. Printed(Append(written, N)) = Printed(written) \cup {N} /\ Printed(written) \subseteq 1 .. Len(lines)
  BY <1>1, <1>4, LeftOutAppend
<1>7. miss1 \in {"inserted", "present", "overflow"}
  BY <1>2, MissCases DEF miss1
<1>8. Hash!TypeOK'
  <2>1. Hash!ReaderTypeOK'
    BY SameReader DEF ReaderInv, Hash!ReaderTypeOK, ReaderTypeOK, Hash!Bytes, Bytes
  <2>2. table' \in Hash!Tables(mask)
    BY <1>2, <1>3, InsertedType
  <2>3. hash_conflicts' \in Nat /\ overflow_count' \in Nat
    <3>1. Hash!Conflicts(h) \in Nat
      BY ConflictsType
    <3>2. overflow_count \in Nat /\ hash_conflicts \in Nat
      BY HashTypes
    <3> HIDE DEF h
    <3> QED BY ONLY <1>3, <3>1, <3>2
  <2>4. written' \in Seq(1 .. N)
    <3>1. 1 .. Len(lines) \subseteq 1 .. N /\ N \in 1 .. N
      BY <1>1
    <3>2. written \in Seq(1 .. N)
      BY <3>1, <1>4
    <3>3. Append(written, N) \in Seq(1 .. N)
      <4> HIDE DEF N
      <4> QED BY <3>1, <3>2, AppendProperties
    <3> QED BY ONLY <3>2, <3>3, <1>5
  <2>5. /\ global_repeated' \in {0, 1} /\ global_size' \in GlobalSizes /\ global_size_mask' \in Nat
        /\ table' \in Hash!Tables(global_size_mask') /\ line_count' = Len(lines')
    BY <1>1, <1>2, <1>3, <1>4, <2>2 DEF HashInv, Hash!TypeOK
  <2> QED BY <1>1, <2>1, <2>3, <2>4, <2>5 DEF Hash!TypeOK
<1>9. Hash!ChainIntact(table', mask')
  BY <1>2, <1>3, InsertKeepsChains
<1>10. Hash!Stored(table') = IF miss1 = "inserted" THEN Hash!Stored(table) \cup ({h} \ {0})
                             ELSE Hash!Stored(table)
  BY <1>2, <1>3, InsertStores DEF miss1
<1>11. HashesOf(lines', DOMAIN lines') = HashesOf(lines, DOMAIN lines) \cup {h}
  <2>1. 1 .. N = 1 .. Len(lines) \cup {N}
    BY <1>1
  <2> HIDE DEF N
  <2> QED BY <1>1, <2>1 DEF HashesOf
<1>12. Hash!Stored(table') \subseteq HashesOf(lines', DOMAIN lines')
  BY <1>10, <1>11 DEF HashInv
<1>13. HashesOf(lines', Printed(written)) = HashesOf(lines, Printed(written))
  BY <1>1, <1>6 DEF HashesOf
<1>14. HashesOf(lines', Printed(written) \cup {N}) = HashesOf(lines, Printed(written)) \cup {h}
  <2> HIDE DEF N
  <2> QED BY <1>1, <1>6 DEF HashesOf
<1>15. ASSUME global_repeated' = 0
       PROVE  /\ Hash!Stored(table') = HashesOf(lines', Printed(written')) \ {0}
              /\ overflow_count' = Cardinality(LeftOut(lines', written'))
  <2>1. /\ Hash!Stored(table) = HashesOf(lines, Printed(written)) \ {0}
        /\ overflow_count = Cardinality(LeftOut(lines, written))
    BY <1>3, <1>15 DEF HashInv
  <2>2. CASE miss1 = "inserted"
    <3>1. written' = Append(written, N) /\ overflow_count' = overflow_count
      BY <1>3, <1>4, <1>15, <2>2
    <3>2. LeftOut(lines', written') = LeftOut(lines, written)
      BY <1>1, <1>4, <3>1, LeftOutAppend
    <3> QED BY <1>6, <1>10, <1>14, <2>1, <2>2, <3>1, <3>2
  <2>3. CASE miss1 = "present"
    <3>1. written' = written /\ overflow_count' = overflow_count
      BY <1>3, <1>4, <1>15, <2>3
    <3>2. h \in HashesOf(lines, Printed(written)) \ {0}
      BY <1>2, <2>1, <2>3, InsertAnswersTruly DEF miss1
    <3>3. \E m \in Printed(written) : HashOf(lines[m]) = HashOf(line) /\ HashOf(line) # 0
      BY <3>2 DEF HashesOf
    <3>4. LeftOut(lines', written) = LeftOut(lines, written)
      BY <1>1, <1>4, <3>3, LeftOutAppend, SMTT(40)
    <3> QED BY <1>10, <1>13, <2>1, <2>3, <3>1, <3>4
  <2>4. CASE miss1 = "overflow"
    <3>1. written' = written /\ overflow_count' = overflow_count + 1
      BY <1>3, <1>4, <1>15, <2>4
    <3>2. h \notin Hash!Stored(table)
      BY <1>2, <2>4, StoredIsFound DEF miss1
    <3>3. \A m \in Printed(written) : HashOf(lines[m]) = HashOf(line) => HashOf(line) = 0
      BY <2>1, <3>2 DEF HashesOf
    <3>4. /\ LeftOut(lines', written) = LeftOut(lines, written) \cup {N}
          /\ N \notin LeftOut(lines, written) /\ IsFiniteSet(LeftOut(lines, written))
      BY <1>1, <1>4, <3>3, LeftOutAppend
    <3>5. Cardinality(LeftOut(lines', written)) = Cardinality(LeftOut(lines, written)) + 1
      <4> HIDE DEF N
      <4> QED BY <3>4, FS_AddElement
    <3> QED BY <1>10, <1>13, <2>1, <2>4, <3>1, <3>5
  <2> QED BY <1>7, <2>2, <2>3, <2>4
<1> QED BY <1>3, <1>8, <1>9, <1>12, <1>15 DEF HashInv

\* The table keeps a free slot for the estimated number of lines.
LEMMA HashRoom == ASSUME ReaderInv, HashInv PROVE Hash!RoomForEstimate
<1> DEFINE D == HashesOf(lines, DOMAIN lines)
           mask == global_size_mask
<1>1. lines \in Seq(Texts) /\ global_size \in Nat /\ mask \in Nat /\ global_size <= mask
      /\ table \in [0 .. mask -> Hash!Hashes]
  BY LinesAreTexts, HashTypes, MaskLarge DEF HashInv, Hash!Tables
<1>2. IsFiniteSet(D)
  <2>1. D \subseteq 0 .. HashMod - 1 /\ IsFiniteSet(0 .. HashMod - 1)
    <3>1. \A n \in DOMAIN lines : lines[n] \in Texts
      BY <1>1
    <3>2. D \subseteq 0 .. HashMod - 1
      BY <3>1, HashAssumption DEF HashesOf
    <3>3. 0 \in Int /\ HashMod - 1 \in Int
      BY HashAssumption
    <3> QED BY <3>2, <3>3, FS_Interval
  <2> QED BY <2>1, FS_Subset
<1>3. Hash!Stored(table) \in SUBSET D
  BY DEF HashInv
<1>4. ASSUME Cardinality(D) <= global_size, \A s \in 0 .. mask : table[s] # 0
      PROVE  FALSE
  <2>1. IsFiniteSet(Hash!Stored(table)) /\ Cardinality(Hash!Stored(table)) <= Cardinality(D)
        /\ Cardinality(Hash!Stored(table)) \in Nat /\ Cardinality(D) \in Nat
    BY <1>2, <1>3, FS_Subset, FS_CardinalityType
  <2>2. table \in [0 .. mask -> Hash!Stored(table)]
    BY <1>1, <1>4 DEF Hash!Stored
  <2>3. \A s, t \in 0 .. mask : table[s] = table[t] => s = t
    BY <1>1, <1>4, StoredOnce DEF HashInv, Hash!Tables
  <2>4. table \in Injection(0 .. mask, Hash!Stored(table))
    BY <2>2, <2>3 DEF Injection, IsInjective
  <2>5. Cardinality(0 .. mask) <= Cardinality(Hash!Stored(table))
    BY <2>1, <2>4, FS_Injection
  <2>6. Cardinality(0 .. mask) = mask + 1
    BY <1>1, FS_Interval
  <2> QED BY <1>1, <1>4, <2>1, <2>5, <2>6
<1>5. {Hash!HashAt(n) : n \in DOMAIN lines} = D
  BY DEF Hash!HashAt, HashesOf
<1>6. Hash!RoomForEstimate <=>
        (Cardinality(D) <= global_size => \E s \in 0 .. mask : table[s] = 0)
  BY <1>5 DEF Hash!RoomForEstimate, Hash!Cardinality, Cardinality
<1> QED BY <1>4, <1>6

(***************************************************************************)
(* mmuniq-bloom: the rounds of a line and the bit map.                     *)
(***************************************************************************)

\* A number is its word and its place in the word.
LEMMA WordAndPlace ==
    ASSUME NEW a \in Nat, NEW b \in Nat, NEW w \in Nat \ {0}
    PROVE  /\ a % w \in 0 .. w - 1 /\ a \div w \in Nat
           /\ a \div w = b \div w /\ a % w = b % w => a = b
           /\ a <= b => a \div w <= b \div w
<1>1. /\ a % w \in 0 .. w - 1 /\ a \div w \in Nat /\ a = w * (a \div w) + (a % w)
      /\ b % w \in 0 .. w - 1 /\ b \div w \in Nat /\ b = w * (b \div w) + (b % w)
  OBVIOUS
<1> DEFINE q == a \div w
           p == b \div w
           r == a % w
           s == b % w
<1>2. q \in Nat /\ p \in Nat /\ r \in 0 .. w - 1 /\ s \in 0 .. w - 1
      /\ a = w * q + r /\ b = w * p + s
  BY <1>1
<1> HIDE DEF q, p, r, s
<1>3. a <= b => q <= p
  <2> SUFFICES ASSUME p + 1 <= q PROVE b < a
    BY <1>2
  <2>1. w * (p + 1) <= w * q
    <3>1. PICK d \in Nat : q = p + 1 + d
      <4>1. q - (p + 1) \in Nat /\ q = p + 1 + (q - (p + 1))
        BY <1>2
      <4> QED BY <4>1
    <3>2. w * q = w * (p + 1) + w * d /\ w * d \in Nat /\ w * (p + 1) \in Nat
      BY <1>2, <3>1
    <3> QED BY <3>2
  <2>2. w * (p + 1) = w * p + w /\ w * p \in Nat /\ w * q \in Nat
    BY <1>2
  <2> QED BY <1>2, <2>1, <2>2
<1> QED BY <1>1, <1>2, <1>3 DEF p, q, r, s

\* The bit number with index j, and the first n of a line.
BitAt(line, j) ==
    Bloom!Masked(IF j % 8 < 4 THEN SipState(line, 8 * (j \div 8))[j % 8]
                 ELSE Swap(SipState(line, 8 * (j \div 8))[(j % 8) - 4]))
Bits(line, n) == {BitAt(line, j) : j \in 0 .. n - 1}
SetOf(map) == {n \in 0 .. BloomMask : n % WORD \in map[n \div WORD]}
Maps == [0 .. BloomMask \div WORD -> SUBSET (0 .. WORD - 1)]

\* A bit number is inside the bit map (line 122: & bm->m_mask).
LEMMA BitInMap ==
    ASSUME NEW line \in Texts, NEW most \in Ks, NEW j \in 0 .. most - 1
    PROVE  BitAt(line, j) \in 0 .. BloomMask
<1> DEFINE q == j \div 8
           r == j % 8
<1>1. most \in Nat /\ j \in Nat /\ BloomMask \in Nat
  BY BloomAssumption
<1>2. q \in Nat /\ r \in 0 .. 7 /\ j = 8 * q + r
  BY <1>1
<1> HIDE DEF q, r
<1>3. 8 * q \in 0 .. most
  BY <1>1, <1>2
<1>4. ASSUME NEW v \in Nat PROVE Bloom!Masked(v) \in 0 .. BloomMask
  BY <1>1 DEF Bloom!Masked
<1>5. CASE r < 4
  <2>1. SipState(line, 8 * q)[r] \in Nat
    BY <1>2, <1>3, <1>5, BloomAssumption
  <2> QED BY <2>1, <1>4, <1>5 DEF BitAt, q, r
<1>6. CASE ~(r < 4)
  <2>1. r - 4 \in 0 .. 3
    BY <1>2, <1>6
  <2>2. Swap(SipState(line, 8 * q)[r - 4]) \in Nat
    BY <1>3, <2>1, BloomAssumption
  <2> QED BY <2>2, <1>4, <1>6 DEF BitAt, q, r
<1> QED BY <1>5, <1>6

\* bitmap_getset sets the bits it was given and no others.
LEMMA SettingSets ==
    ASSUME NEW map \in Maps, NEW set \in SUBSET (0 .. BloomMask)
    PROVE  Bloom!Setting(map, set) \in Maps /\ SetOf(Bloom!Setting(map, set)) = SetOf(map) \cup set
<1> DEFINE new == Bloom!Setting(map, set)
           W == 0 .. BloomMask \div WORD
<1>1. WORD \in Nat \ {0} /\ BloomMask \in Nat
  BY BloomAssumption
<1>2. ASSUME NEW n \in 0 .. BloomMask
      PROVE  n \in Nat /\ n % WORD \in 0 .. WORD - 1 /\ n \div WORD \in W
  <2> DEFINE q == n \div WORD
             e == BloomMask \div WORD
  <2>1. n \in Nat /\ n <= BloomMask
    BY <1>1
  <2>2. n % WORD \in 0 .. WORD - 1 /\ q \in Nat /\ e \in Nat /\ q <= e
    BY <1>1, <2>1, WordAndPlace
  <2> HIDE DEF q, e
  <2>3. q \in 0 .. e
    BY <2>2
  <2> QED BY <2>1, <2>2, <2>3 DEF q, e
<1>3. ASSUME NEW m \in 0 .. BloomMask, NEW n \in 0 .. BloomMask,
             m \div WORD = n \div WORD, m % WORD = n % WORD
      PROVE  m = n
  <2>1. m \in Nat /\ n \in Nat
    BY <1>1
  <2> QED BY ONLY <1>1, <1>3, <2>1, WordAndPlace
<1> HIDE DEF W
<1>4. \A w \in W : new[w] = map[w] \cup {n % WORD : n \in {b \in set : b \div WORD = w}}
  BY DEF Bloom!Setting, Maps, W
<1>5. new \in Maps
  <2>1. new = [w \in W |-> map[w] \cup {n % WORD : n \in {b \in set : b \div WORD = w}}]
    BY DEF Bloom!Setting, Maps, W
  <2>2. \A w \in W : map[w] \cup {n % WORD : n \in {b \in set : b \div WORD = w}} \in SUBSET (0 .. WORD - 1)
    BY <1>2 DEF Maps, W
  <2> QED BY <2>1, <2>2 DEF Maps, W
<1> HIDE DEF new
<1>6. ASSUME NEW n \in 0 .. BloomMask
      PROVE  n % WORD \in new[n \div WORD] <=> n % WORD \in map[n \div WORD] \/ n \in set
  <2>1. n \div WORD \in W
    BY <1>2
  <2>2. n % WORD \in {m % WORD : m \in {b \in set : b \div WORD = n \div WORD}} <=> n \in set
    BY <1>3
  <2> QED BY <1>4, <2>1, <2>2
<1>7. SetOf(new) = SetOf(map) \cup set
  BY <1>6 DEF SetOf
<1> QED BY <1>5, <1>7 DEF new

\* The bit numbers taken so far for the current line.
Taken == IF i < k THEN i ELSE k

\* One round takes the next eight bit numbers, or those that are left: no
\* entry of res is used that the round did not fill (line 114).
LEMMA RoundTakes ==
    ASSUME Bloom!CurrentLine \in Texts, k \in Ks, i \in Nat, i % 8 = 0, i < k
    PROVE  /\ Bloom!RoundBits \subseteq 0 .. BloomMask
           /\ Bits(Bloom!CurrentLine, i) \cup Bloom!RoundBits
                = Bits(Bloom!CurrentLine, IF i + 8 < k THEN i + 8 ELSE k)
<1> DEFINE cur == Bloom!CurrentLine
           last == IF i + 8 < k THEN i + 7 ELSE k - 1
<1>1. k \in Nat /\ last \in Nat /\ last < k /\ last <= i + 7 /\ i <= last
      /\ last + 1 = (IF i + 8 < k THEN i + 8 ELSE k)
  BY BloomAssumption
<1>2. ASSUME NEW j \in i .. last PROVE Bloom!Filled[j % 8] = BitAt(cur, j)
  <2>1. j \in Nat /\ j % 8 \in 0 .. 7 /\ 8 * (j \div 8) = i /\ j % 8 = j - i
    BY <1>1
  <2>2. CASE j % 8 < 4
    <3>1. Bloom!Filled[j % 8] = Bloom!Masked(SipState(cur, i)[j % 8])
      BY <2>1, <2>2 DEF Bloom!Filled
    <3> QED BY <2>1, <2>2, <3>1 DEF BitAt
  <2>3. CASE ~(j % 8 < 4)
    <3>1. Bloom!UpperHalfUsed
      BY <1>1, <2>1, <2>3 DEF Bloom!UpperHalfUsed
    <3>2. Bloom!Filled[j % 8] = Bloom!Masked(Swap(SipState(cur, i)[(j % 8) - 4]))
      BY <2>1, <2>3, <3>1 DEF Bloom!Filled
    <3> QED BY <2>1, <2>3, <3>2 DEF BitAt
  <2> QED BY <2>2, <2>3
<1>3. Bloom!RoundBits = {BitAt(cur, j) : j \in i .. last}
  BY <1>2 DEF Bloom!RoundBits
<1>4. ASSUME NEW j \in i .. last PROVE BitAt(cur, j) \in 0 .. BloomMask
  <2>1. j \in 0 .. k - 1
    BY <1>1
  <2> QED BY <2>1, BitInMap
<1>5. (0 .. i - 1) \cup (i .. last) = 0 .. (last + 1) - 1
  BY <1>1
<1> HIDE DEF last
<1>6. Bits(cur, i) \cup Bloom!RoundBits = Bits(cur, last + 1)
  BY <1>3, <1>5 DEF Bits
<1> QED BY <1>1, <1>3, <1>4, <1>6

\* What the bits of all the lines written cover, and what was decided of the
\* first lines.
Cover(ls, ns, n) == UNION {Bits(ls[m], n) : m \in ns}
Decided(ls, w, n, upto) ==
    \A m \in 1 .. upto :
        m \in Printed(w) <=> ~(Bits(ls[m], n) \subseteq Cover(ls, Printed(w) \cap 1 .. m - 1, n))

BloomInv ==
    /\ Bloom!TypeOK
    /\ k \in Ks /\ global_repeated \in {0, 1} /\ dummy_run \in {0, 1}
    /\ tested \subseteq 0 .. BloomMask
    /\ bpc # "idle" => Len(lines) > 0
    /\ bpc = "round" => i % 8 = 0 /\ i < k
    /\ bpc = "print" => i >= k
    /\ written \in Seq(1 .. Bloom!Finished)
    /\ dummy_run = 0 /\ global_repeated = 0 =>
          /\ Decided(lines, written, k, Bloom!Finished)
          /\ bpc = "idle" => SetOf(bits) = Cover(lines, Printed(written), k)
          /\ bpc # "idle" =>
                /\ SetOf(bits) = Cover(lines, Printed(written), k)
                                   \cup Bits(lines[Len(lines)], Taken)
                /\ miss = 0 <=> Bits(lines[Len(lines)], Taken)
                                   \subseteq Cover(lines, Printed(written), k)

\* The property is about the lines the invariant is about.
LEMMA DecidedMeans ==
    Bloom!WrittenIffUncovered <=>
        (dummy_run = 0 /\ global_repeated = 0 => Decided(lines, written, k, Bloom!Finished))
<1>1. \A n : Bloom!IsWritten(n) <=> n \in Printed(written)
  BY DEF Bloom!IsWritten, Printed
<1>2. \A line : Bloom!BitsOf(line) = Bits(line, k)
  BY DEF Bloom!BitsOf, Bits, BitAt
<1>3. ASSUME NEW n
      PROVE  {m \in 1 .. n - 1 : Bloom!IsWritten(m)} = Printed(written) \cap 1 .. n - 1
  BY <1>1
<1>4. ASSUME NEW n
      PROVE  Bloom!Covered(lines[n], {m \in 1 .. n - 1 : Bloom!IsWritten(m)})
                <=> Bits(lines[n], k) \subseteq Cover(lines, Printed(written) \cap 1 .. n - 1, k)
  BY <1>2, <1>3 DEF Bloom!Covered, Cover
<1> QED BY <1>1, <1>4 DEF Bloom!WrittenIffUncovered, Decided

\* A further line leaves what was covered and decided.
LEMMA CoverAppend ==
    ASSUME NEW ls \in Seq(Texts), NEW line \in Texts, NEW w \in Seq(1 .. Len(ls)), NEW n
    PROVE  /\ Cover(Append(ls, line), Printed(w), n) = Cover(ls, Printed(w), n)
           /\ Decided(ls, w, n, Len(ls)) => Decided(Append(ls, line), w, n, Len(ls))
<1>1. \A m \in 1 .. Len(ls) : Append(ls, line)[m] = ls[m]
  OBVIOUS
<1>2. Printed(w) \subseteq 1 .. Len(ls)
  BY DEF Printed
<1>3. ASSUME NEW ns \in SUBSET (1 .. Len(ls))
      PROVE  Cover(Append(ls, line), ns, n) = Cover(ls, ns, n)
  BY <1>1 DEF Cover
<1>4. \A m : Printed(w) \cap 1 .. m - 1 \in SUBSET (1 .. Len(ls))
  BY <1>2
<1> QED BY <1>1, <1>2, <1>3, <1>4 DEF Decided

\* What is written of a new line does not touch what was decided before it.
LEMMA PrintedAppend ==
    ASSUME NEW ls \in Seq(Texts), NEW n, NEW N \in Nat, NEW w \in Seq(1 .. N)
    PROVE  /\ Printed(w) \subseteq 1 .. N
           /\ Printed(Append(w, N + 1)) = Printed(w) \cup {N + 1}
           /\ Append(w, N + 1) \in Seq(1 .. N + 1) /\ w \in Seq(1 .. N + 1)
           /\ Decided(ls, w, n, N) => Decided(ls, Append(w, N + 1), n, N)
<1>1. Printed(w) \subseteq 1 .. N
  BY DEF Printed
<1>2. Printed(Append(w, N + 1)) = Printed(w) \cup {N + 1}
  <2> DEFINE e == N + 1
             v == Append(w, e)
  <2>1. w \in Seq(Nat) /\ e \in Nat
    <3>1. 1 .. N \subseteq Nat
      OBVIOUS
    <3> QED BY <3>1
  <2> HIDE DEF e
  <2>2. /\ Len(w) \in Nat /\ DOMAIN w = 1 .. Len(w) /\ DOMAIN v = 1 .. Len(w) + 1
        /\ v[Len(w) + 1] = e /\ \A m \in 1 .. Len(w) : v[m] = w[m]
    BY <2>1
  <2>3. 1 .. Len(w) + 1 = 1 .. Len(w) \cup {Len(w) + 1}
    BY <2>2
  <2> HIDE DEF v
  <2>4. Printed(v) = Printed(w) \cup {e}
    BY <2>2, <2>3 DEF Printed
  <2> QED BY <2>4 DEF v, e
<1>3. w \in Seq(1 .. N + 1) /\ Append(w, N + 1) \in Seq(1 .. N + 1)
  <2>1. 1 .. N \subseteq 1 .. N + 1 /\ N + 1 \in 1 .. N + 1
    OBVIOUS
  <2>2. w \in Seq(1 .. N + 1)
    BY <2>1
  <2> QED BY <2>1, <2>2, AppendProperties
<1>4. ASSUME NEW m \in 1 .. N
      PROVE  /\ m \in Printed(Append(w, N + 1)) <=> m \in Printed(w)
             /\ Printed(Append(w, N + 1)) \cap 1 .. m - 1 = Printed(w) \cap 1 .. m - 1
  BY <1>2
<1>5. Decided(ls, w, n, N) => Decided(ls, Append(w, N + 1), n, N)
  BY <1>4 DEF Decided
<1> QED BY <1>1, <1>2, <1>3, <1>5

\* A sequence over a set is one over a larger set.
LEMMA SeqLarger == ASSUME NEW S, NEW T, S \subseteq T, NEW w \in Seq(S) PROVE w \in Seq(T)
OBVIOUS

\* The types the steps below rest on.
LEMMA BloomTypes ==
    ASSUME ReaderInv, BloomInv
    PROVE  /\ lines \in Seq(Texts) /\ Len(lines) \in Nat /\ k \in Ks /\ k \in Nat /\ i \in Nat
           /\ bits \in Maps /\ miss \in {0, 1} /\ bpc \in {"idle", "round", "print"}
           /\ Bloom!Finished \in Nat
           /\ bpc = "idle" => Bloom!Finished = Len(lines)
           /\ bpc # "idle" => Bloom!Finished + 1 = Len(lines) /\ Bloom!CurrentLine \in Texts
                              /\ Bloom!CurrentLine = lines[Len(lines)]
<1>1. lines \in Seq(Texts) /\ Len(lines) \in Nat
  BY LinesAreTexts
<1>2. k \in Ks /\ k \in Nat /\ i \in Nat /\ bits \in Maps /\ miss \in {0, 1}
      /\ bpc \in {"idle", "round", "print"}
  BY BloomAssumption DEF BloomInv, Bloom!TypeOK, Maps
<1>3. bpc # "idle" => Len(lines) \in 1 .. Len(lines) /\ lines[Len(lines)] \in Texts
  BY <1>1 DEF BloomInv
<1>4. bpc = "idle" => Bloom!Finished = Len(lines)
  BY DEF Bloom!Finished
<1>5. bpc # "idle" => Bloom!Finished + 1 = Len(lines) /\ Bloom!Finished \in Nat
  BY <1>1 DEF Bloom!Finished, BloomInv
<1> QED BY <1>1, <1>2, <1>3, <1>4, <1>5 DEF Bloom!CurrentLine

\* The types follow from the rest.
LEMMA BloomTypeOK ==
    ASSUME ReaderInv, bpc \in {"idle", "round", "print"}, i \in Nat, miss \in {0, 1}, bits \in Maps,
           written \in Seq(1 .. Bloom!Finished)
    PROVE  Bloom!TypeOK
<1>1. Bloom!ReaderTypeOK
  BY SameReader DEF ReaderInv
<1>2. Len(lines) \in Nat
  BY LinesAreTexts
<1>3. 1 .. Bloom!Finished \subseteq 1 .. Len(lines)
  BY <1>2 DEF Bloom!Finished
<1>4. written \in Seq(1 .. Len(lines))
  BY ONLY <1>3, written \in Seq(1 .. Bloom!Finished), SeqLarger, Zenon
<1> QED BY <1>1, <1>4 DEF Bloom!TypeOK, Maps

\* The bit map starts out empty.
LEMMA BloomInit == ReaderInv /\ lines = <<>> /\ Bloom!Init => BloomInv
<1> SUFFICES ASSUME ReaderInv, lines = <<>>, Bloom!Init PROVE BloomInv
  OBVIOUS
<1>1. /\ k \in Ks /\ global_repeated \in {0, 1} /\ dummy_run \in {0, 1}
      /\ bits = [w \in 0 .. BloomMask \div WORD |-> {}]
      /\ bpc = "idle" /\ i = 0 /\ miss = 0 /\ written = <<>> /\ tested = {}
  BY DEF Bloom!Init
<1>2. bits \in Maps
  BY <1>1 DEF Maps
<1>3. Bloom!Finished = 0 /\ written \in Seq(1 .. Bloom!Finished) /\ Printed(written) = {}
  BY <1>1 DEF Bloom!Finished, Printed
<1>4. Bloom!TypeOK
  BY <1>1, <1>2, <1>3, BloomTypeOK
<1>5. SetOf(bits) = {}
  <2>1. \A n \in 0 .. BloomMask : n \div WORD \in 0 .. BloomMask \div WORD
    <3>1. WORD \in Nat \ {0} /\ BloomMask \in Nat
      BY BloomAssumption
    <3> SUFFICES ASSUME NEW n \in 0 .. BloomMask PROVE n \div WORD \in 0 .. BloomMask \div WORD
      OBVIOUS
    <3> DEFINE q == n \div WORD
               e == BloomMask \div WORD
    <3>2. n \in Nat /\ n <= BloomMask
      BY <3>1
    <3>3. q \in Nat /\ e \in Nat /\ q <= e
      BY <3>1, <3>2, WordAndPlace
    <3> HIDE DEF q, e
    <3>4. q \in 0 .. e
      BY <3>3
    <3> QED BY <3>4 DEF q, e
  <2> QED BY <1>1, <2>1 DEF SetOf
<1>6. Cover(lines, Printed(written), k) = {} /\ Decided(lines, written, k, Bloom!Finished)
  BY <1>3 DEF Cover, Decided
<1>7. i % 8 = 0 /\ tested \subseteq 0 .. BloomMask
  BY <1>1
<1>8. SetOf(bits) = Cover(lines, Printed(written), k)
  BY ONLY <1>5, <1>6
<1>9. bpc = "idle" /\ ~(bpc # "idle") /\ bpc # "round" /\ bpc # "print"
  BY ONLY <1>1
<1> QED BY <1>1, <1>3, <1>4, <1>6, <1>7, <1>8, <1>9, Zenon DEF BloomInv

\* What the filter keeps while it waits.
LEMMA BloomQuiet ==
    ReaderInv' /\ BloomInv /\ lines' = lines /\ UNCHANGED Bloom!bloomVars => BloomInv'
<1> SUFFICES ASSUME ReaderInv', BloomInv, lines' = lines, UNCHANGED Bloom!bloomVars PROVE BloomInv'
  OBVIOUS
<1>1. UNCHANGED <<k, global_repeated, dummy_run, bits, bpc, i, miss, written, tested>>
  BY DEF Bloom!bloomVars
<1>2. Bloom!TypeOK'
  <2>1. Bloom!ReaderTypeOK'
    BY SameReader DEF ReaderInv, Bloom!ReaderTypeOK, ReaderTypeOK, Bloom!Bytes, Bytes
  <2> QED BY <1>1, <2>1 DEF BloomInv, Bloom!TypeOK
<1>3. Bloom!Finished' = Bloom!Finished /\ Taken' = Taken
  BY <1>1 DEF Bloom!Finished, Taken
<1> QED BY <1>1, <1>2, <1>3 DEF BloomInv

\* No bit number has been taken yet.
LEMMA NoBits == ASSUME NEW line PROVE Bits(line, 0) = {}
BY DEF Bits

\* process_line is called with the next line.
LEMMA BloomBegin ==
    ASSUME ReaderInv, ReaderInv', BloomInv, Bloom!Begin,
           NEW line \in Texts, lines' = Append(lines, line)
    PROVE  BloomInv'
<1>1. /\ bpc = "idle" /\ bpc' = (IF k > 0 THEN "round" ELSE "print")
      /\ i' = 0 /\ miss' = 0 /\ tested' = {}
      /\ UNCHANGED <<k, global_repeated, dummy_run, bits, written>>
  BY DEF Bloom!Begin
<1>2. /\ lines \in Seq(Texts) /\ Len(lines) \in Nat /\ k \in Nat /\ bits \in Maps
      /\ Bloom!Finished = Len(lines)
  BY <1>1, BloomTypes
<1>3. /\ Len(lines') = Len(lines) + 1 /\ lines'[Len(lines')] = line
  BY <1>2
<1>4. bpc' # "idle" /\ Bloom!Finished' = Bloom!Finished
  BY <1>1, <1>2, <1>3 DEF Bloom!Finished
<1>5. written' \in Seq(1 .. Bloom!Finished')
  BY <1>1, <1>4 DEF BloomInv
<1>6. Bloom!TypeOK'
  <2>1. Bloom!ReaderTypeOK'
    BY SameReader DEF ReaderInv, Bloom!ReaderTypeOK, ReaderTypeOK, Bloom!Bytes, Bytes
  <2>2. written' \in Seq(1 .. Len(lines'))
    <3>1. 1 .. Bloom!Finished' \subseteq 1 .. Len(lines')
      BY <1>2, <1>3, <1>4
    <3> QED BY ONLY <3>1, <1>5, SeqLarger, Zenon
  <2>3. bpc' \in {"idle", "round", "print"} /\ i' \in Nat /\ miss' \in {0, 1} /\ bits' \in Maps
    BY <1>1, <1>2
  <2> QED BY <2>1, <2>2, <2>3 DEF Bloom!TypeOK, Maps
<1>7. Taken' = 0 /\ Bits(lines'[Len(lines')], Taken') = {}
  <2>1. Taken' = 0
    BY <1>1, <1>2 DEF Taken
  <2> QED BY <2>1, NoBits
<1>8. ASSUME dummy_run' = 0, global_repeated' = 0
      PROVE  /\ Decided(lines', written', k', Bloom!Finished')
             /\ SetOf(bits') = Cover(lines', Printed(written'), k')
  <2>1. /\ Decided(lines, written, k, Len(lines))
        /\ SetOf(bits) = Cover(lines, Printed(written), k)
    BY <1>1, <1>2, <1>8 DEF BloomInv
  <2>2. written \in Seq(1 .. Len(lines))
    BY <1>2 DEF BloomInv
  <2>3. /\ Cover(lines', Printed(written), k) = Cover(lines, Printed(written), k)
        /\ Decided(lines', written, k, Len(lines))
    BY ONLY <1>2, <2>1, <2>2, CoverAppend, line \in Texts, lines' = Append(lines, line)
  <2>4. SetOf(bits') = SetOf(bits)
    BY <1>1
  <2> QED BY <1>1, <1>2, <1>4, <2>1, <2>3, <2>4
<1>9. /\ k' \in Ks /\ global_repeated' \in {0, 1} /\ dummy_run' \in {0, 1}
      /\ tested' \subseteq 0 .. BloomMask /\ Len(lines') > 0 /\ i' % 8 = 0
      /\ (bpc' = "round" => i' < k') /\ (bpc' = "print" => i' >= k')
  BY <1>1, <1>2, <1>3 DEF BloomInv
<1> QED BY <1>1, <1>4, <1>5, <1>6, <1>7, <1>8, <1>9 DEF BloomInv

\* One round of process_line.
LEMMA BloomRound == ASSUME ReaderInv, ReaderInv', BloomInv, Bloom!Round PROVE BloomInv'
<1> DEFINE cur == lines[Len(lines)]
           cover == Cover(lines, Printed(written), k)
<1>1. /\ bpc = "round" /\ i' = i + 8 /\ bpc' = (IF i + 8 < k THEN "round" ELSE "print")
      /\ UNCHANGED <<k, global_repeated, dummy_run, written>> /\ lines' = lines
      /\ IF dummy_run = 1 THEN UNCHANGED <<bits, miss, tested>>
         ELSE /\ miss' = IF Bloom!RoundBits \subseteq SetOf(bits) THEN miss ELSE 1
              /\ bits' = Bloom!Setting(bits, Bloom!RoundBits)
              /\ tested' = tested \cup Bloom!RoundBits
  BY DEF Bloom!Round, Bloom!readerVars, Bloom!SetBits, SetOf
<1>2. /\ lines \in Seq(Texts) /\ Len(lines) \in Nat /\ k \in Ks /\ k \in Nat /\ i \in Nat
      /\ bits \in Maps /\ miss \in {0, 1} /\ cur \in Texts /\ Bloom!CurrentLine = cur
      /\ i % 8 = 0 /\ i < k /\ Len(lines) > 0 /\ BloomMask \in Nat
  BY <1>1, BloomTypes, BloomAssumption DEF BloomInv
<1>3. /\ Bloom!RoundBits \subseteq 0 .. BloomMask
      /\ Bits(cur, Taken) \cup Bloom!RoundBits = Bits(cur, Taken')
  <2>1. Taken = i /\ Taken' = IF i + 8 < k THEN i + 8 ELSE k
    BY <1>1, <1>2 DEF Taken
  <2> QED BY <1>2, <2>1, RoundTakes
<1>4. Bloom!Finished' = Bloom!Finished /\ bpc' # "idle" /\ bpc' \in {"round", "print"}
  BY <1>1 DEF Bloom!Finished
<1>5. Bloom!Setting(bits, Bloom!RoundBits) \in Maps
      /\ SetOf(Bloom!Setting(bits, Bloom!RoundBits)) = SetOf(bits) \cup Bloom!RoundBits
  BY <1>2, <1>3, SettingSets
<1>6. bits' \in Maps /\ miss' \in {0, 1} /\ tested' \subseteq 0 .. BloomMask
  BY <1>1, <1>2, <1>3, <1>5 DEF BloomInv
<1>7. written' \in Seq(1 .. Bloom!Finished')
  BY <1>1, <1>4 DEF BloomInv
<1>8. Bloom!TypeOK'
  <2>1. Bloom!ReaderTypeOK'
    BY SameReader DEF ReaderInv, Bloom!ReaderTypeOK, ReaderTypeOK, Bloom!Bytes, Bytes
  <2>2. written' \in Seq(1 .. Len(lines'))
    BY <1>1 DEF BloomInv, Bloom!TypeOK
  <2>3. i' \in Nat
    BY <1>1, <1>2
  <2> QED BY <1>4, <1>6, <2>1, <2>2, <2>3 DEF Bloom!TypeOK, Maps
<1>9. ASSUME dummy_run' = 0, global_repeated' = 0
      PROVE  /\ Decided(lines', written', k', Bloom!Finished')
             /\ SetOf(bits') = cover \cup Bits(cur, Taken')
             /\ miss' = 0 <=> Bits(cur, Taken') \subseteq cover
  <2>1. /\ Decided(lines, written, k, Bloom!Finished)
        /\ SetOf(bits) = cover \cup Bits(cur, Taken)
        /\ miss = 0 <=> Bits(cur, Taken) \subseteq cover
    BY <1>1, <1>9 DEF BloomInv
  <2>2. /\ miss' = IF Bloom!RoundBits \subseteq SetOf(bits) THEN miss ELSE 1
        /\ SetOf(bits') = SetOf(bits) \cup Bloom!RoundBits
    BY <1>1, <1>5, <1>9
  <2>3. SetOf(bits') = cover \cup Bits(cur, Taken')
    <3> HIDE DEF cover, cur
    <3> QED BY ONLY <1>3, <2>1, <2>2
  <2>4. miss' = 0 <=> Bits(cur, Taken') \subseteq cover
    <3> HIDE DEF cover, cur
    <3>1. CASE miss = 0
      <4>1. Bits(cur, Taken) \subseteq cover /\ SetOf(bits) = cover
        BY ONLY <3>1, <2>1
      <4>2. miss' = 0 <=> Bloom!RoundBits \subseteq cover
        BY ONLY <3>1, <4>1, <2>2
      <4>3. Bits(cur, Taken') \subseteq cover <=> Bloom!RoundBits \subseteq cover
        BY ONLY <4>1, <1>3, Zenon
      <4> QED BY ONLY <4>2, <4>3
    <3>2. CASE miss # 0
      <4>1. miss' # 0
        BY <3>2, <2>2
      <4>2. ~(Bits(cur, Taken) \subseteq cover)
        BY <3>2, <2>1
      <4> QED BY ONLY <4>1, <4>2, <1>3
    <3> QED BY <3>1, <3>2
  <2>5. Decided(lines', written', k', Bloom!Finished')
    BY <1>1, <1>4, <2>1
  <2> QED BY <2>3, <2>4, <2>5
<1>10. /\ k' \in Ks /\ global_repeated' \in {0, 1} /\ dummy_run' \in {0, 1} /\ Len(lines') > 0
       /\ i' % 8 = 0 /\ (bpc' = "round" => i' < k') /\ (bpc' = "print" => i' >= k')
  BY <1>1, <1>2 DEF BloomInv
<1>11. lines'[Len(lines')] = cur /\ Cover(lines', Printed(written'), k') = cover
  BY <1>1
<1> HIDE DEF cur, cover
<1> QED BY <1>4, <1>6, <1>7, <1>8, <1>9, <1>10, <1>11, Zenon DEF BloomInv

\* process_line decides what to write.
LEMMA BloomPrint == ASSUME ReaderInv, ReaderInv', BloomInv, Bloom!PrintLine PROVE BloomInv'
<1> DEFINE N == Bloom!Finished
           cur == lines[Len(lines)]
           cover == Cover(lines, Printed(written), k)
<1>1. /\ bpc = "print" /\ bpc' = "idle"
      /\ written' = IF Bloom!Wanted THEN Append(written, Len(lines)) ELSE written
      /\ UNCHANGED <<k, global_repeated, dummy_run, bits, i, miss, tested>> /\ lines' = lines
  BY DEF Bloom!PrintLine, Bloom!readerVars
<1>2. /\ lines \in Seq(Texts) /\ Len(lines) \in Nat /\ k \in Nat /\ i \in Nat /\ N \in Nat
      /\ N + 1 = Len(lines) /\ bits \in Maps /\ miss \in {0, 1} /\ i >= k
  BY <1>1, BloomTypes DEF BloomInv
<1>3. Taken = k /\ Bloom!Finished' = N + 1
  <2>1. Taken = k
    BY <1>2 DEF Taken
  <2>2. Bloom!Finished' = Len(lines)
    BY <1>1 DEF Bloom!Finished
  <2> QED BY <1>2, <2>1, <2>2
<1>4. written \in Seq(1 .. N)
  BY DEF BloomInv
<1> HIDE DEF N
<1>5. /\ Printed(written) \subseteq 1 .. N
      /\ Printed(Append(written, N + 1)) = Printed(written) \cup {N + 1}
      /\ Append(written, N + 1) \in Seq(1 .. N + 1) /\ written \in Seq(1 .. N + 1)
      /\ Decided(lines, written, k, N) => Decided(lines, Append(written, N + 1), k, N)
  BY <1>2, <1>4, PrintedAppend
<1>6. written' = Append(written, N + 1) \/ written' = written
  BY <1>1, <1>2
<1>7. written' \in Seq(1 .. N + 1)
  BY ONLY <1>5, <1>6
<1>8. Bloom!TypeOK'
  <2>1. Bloom!ReaderTypeOK'
    BY SameReader DEF ReaderInv, Bloom!ReaderTypeOK, ReaderTypeOK, Bloom!Bytes, Bytes
  <2>2. written' \in Seq(1 .. Len(lines'))
    BY <1>1, <1>2, <1>7
  <2> QED BY <1>1, <1>2, <2>1, <2>2 DEF Bloom!TypeOK, Maps
<1>9. ASSUME dummy_run' = 0, global_repeated' = 0
      PROVE  /\ Decided(lines, written', k, N + 1)
             /\ SetOf(bits) = Cover(lines, Printed(written'), k)
  <2>1. /\ Decided(lines, written, k, N)
        /\ SetOf(bits) = cover \cup Bits(cur, k)
        /\ miss = 0 <=> Bits(cur, k) \subseteq cover
    BY <1>1, <1>3, <1>9 DEF BloomInv, N
  <2>2. Bloom!Wanted <=> miss = 1
    BY <1>1, <1>9 DEF Bloom!Wanted
  <2>3. lines[N + 1] = cur
    BY <1>2
  <2>4. /\ N + 1 \notin Printed(written) /\ Printed(written) \cap 1 .. N = Printed(written)
        /\ 1 .. N + 1 = 1 .. N \cup {N + 1} /\ (N + 1) - 1 = N /\ N + 1 \notin 1 .. N
    BY <1>2, <1>5
  <2>5. CASE miss = 1
    <3>1. written' = Append(written, N + 1)
      BY <1>1, <1>2, <2>2, <2>5
    <3>2. Printed(written') \cap 1 .. N = Printed(written) /\ N + 1 \in Printed(written')
          /\ Printed(written') = Printed(written) \cup {N + 1}
      BY <1>5, <2>4, <3>1
    <3>3. ~(Bits(cur, k) \subseteq cover)
      BY <2>1, <2>5
    <3>4. Decided(lines, written', k, N)
      BY <1>5, <2>1, <3>1
    <3>5. Decided(lines, written', k, N + 1)
      BY ONLY <2>3, <2>4, <3>2, <3>3, <3>4 DEF Decided
    <3>6. Cover(lines, Printed(written'), k) = cover \cup Bits(cur, k)
      BY ONLY <2>3, <3>2 DEF Cover
    <3> QED BY <2>1, <3>5, <3>6
  <2>6. CASE miss # 1
    <3>1. written' = written /\ Bits(cur, k) \subseteq cover
      BY <1>1, <1>2, <2>1, <2>2, <2>6
    <3>2. SetOf(bits) = cover
      BY <2>1, <3>1
    <3>3. Decided(lines, written', k, N + 1)
      BY ONLY <2>1, <2>3, <2>4, <3>1 DEF Decided
    <3> QED BY <3>1, <3>2, <3>3
  <2> QED BY <2>5, <2>6
<1>10. /\ k' \in Ks /\ global_repeated' \in {0, 1} /\ dummy_run' \in {0, 1}
       /\ tested' \subseteq 0 .. BloomMask /\ written' \in Seq(1 .. Bloom!Finished')
  BY <1>1, <1>3, <1>7 DEF BloomInv
<1>11. dummy_run' = 0 /\ global_repeated' = 0 =>
          /\ Decided(lines', written', k', Bloom!Finished')
          /\ SetOf(bits') = Cover(lines', Printed(written'), k')
  BY <1>1, <1>3, <1>9
<1> QED BY <1>1, <1>8, <1>10, <1>11 DEF BloomInv

(***************************************************************************)
(* The theorems.                                                           *)
(***************************************************************************)
IInv ==
    /\ ReaderInv
    /\ kind \in {"hash", "bloom"}
    /\ kind = "hash" => HashInv
    /\ kind = "bloom" => BloomInv

\* Both programs start in the invariant.
LEMMA FixedInit == Init => IInv
<1> SUFFICES ASSUME Init PROVE IInv
  OBVIOUS
<1>1. InitReader /\ lines = <<>>
  BY DEF Init, InitReader
<1>2. ReaderInv
  BY <1>1, ReaderInit
<1>3. CASE kind = "hash" /\ Hash!Init
  BY <1>1, <1>2, <1>3, HashInit DEF IInv
<1>4. CASE kind = "bloom" /\ Bloom!Init
  BY <1>1, <1>2, <1>4, BloomInit DEF IInv
<1> QED BY <1>3, <1>4 DEF Init

\* Each step of mmuniq-hash.
LEMMA HashNext == ReaderInv /\ HashInv /\ Hash!Next => ReaderInv' /\ HashInv'
<1> SUFFICES ASSUME ReaderInv, HashInv, Hash!Next PROVE ReaderInv' /\ HashInv'
  OBVIOUS
<1>1. CASE Hash!Quiet /\ UNCHANGED Hash!tabVars
  BY <1>1, SameReader, QuietStep, HashQuiet
<1>2. CASE Hash!Line /\ Hash!ProcessLine(lines'[Len(lines')])
  <2>1. ReaderInv'
    BY <1>2, SameReader, LineStep
  <2>2. PICK line \in Texts : lines' = Append(lines, line)
    BY <1>2, SameReader, LineStep
  <2>3. lines'[Len(lines')] = line
    BY <2>2, LinesAreTexts
  <2>4. Hash!ProcessLine(line)
    BY <1>2, <2>3
  <2> QED BY <2>1, <2>2, <2>4, HashLine
<1>3. CASE Hash!Terminated
  <2>1. UNCHANGED readerVars /\ UNCHANGED Hash!tabVars /\ lines' = lines
    BY <1>3 DEF Hash!Terminated, Hash!vars, Hash!readerVars, readerVars
  <2>2. ReaderInv'
    BY <2>1, ReaderStutter
  <2> QED BY <2>1, <2>2, HashQuiet
<1> QED BY <1>1, <1>2, <1>3 DEF Hash!Next

\* Each step of mmuniq-bloom.
LEMMA BloomNext == ReaderInv /\ BloomInv /\ Bloom!Next => ReaderInv' /\ BloomInv'
<1> SUFFICES ASSUME ReaderInv, BloomInv, Bloom!Next PROVE ReaderInv' /\ BloomInv'
  OBVIOUS
<1>1. CASE Bloom!Begin
  <2>1. Line
    BY <1>1, SameReader DEF Bloom!Begin
  <2>2. ReaderInv'
    BY <2>1, LineStep
  <2>3. PICK line \in Texts : lines' = Append(lines, line)
    BY <2>1, LineStep
  <2> QED BY <1>1, <2>2, <2>3, BloomBegin
<1>2. ASSUME UNCHANGED Bloom!readerVars PROVE ReaderInv' /\ lines' = lines
  <2>1. UNCHANGED readerVars /\ lines' = lines
    BY <1>2 DEF Bloom!readerVars, readerVars
  <2> QED BY <2>1, ReaderStutter
<1>3. CASE Bloom!Round
  <2>1. UNCHANGED Bloom!readerVars
    BY <1>3 DEF Bloom!Round, Bloom!readerVars
  <2> QED BY <1>2, <1>3, <2>1, BloomRound
<1>4. CASE Bloom!PrintLine
  <2>1. UNCHANGED Bloom!readerVars
    BY <1>4 DEF Bloom!PrintLine, Bloom!readerVars
  <2> QED BY <1>2, <1>4, <2>1, BloomPrint
<1>5. CASE Bloom!ReadOn
  <2>1. Quiet /\ UNCHANGED Bloom!bloomVars
    BY <1>5, SameReader DEF Bloom!ReadOn
  <2> QED BY <2>1, QuietStep, BloomQuiet
<1>6. CASE Bloom!Terminated
  <2>1. UNCHANGED Bloom!readerVars /\ UNCHANGED Bloom!bloomVars
    BY <1>6 DEF Bloom!Terminated, Bloom!vars, Bloom!readerVars, Bloom!bloomVars
  <2> QED BY <1>2, <2>1, BloomQuiet
<1> QED BY <1>1, <1>3, <1>4, <1>5, <1>6 DEF Bloom!Next

\* Each step of either program keeps it: one case per action.
LEMMA FixedStep == IInv /\ [Next]_vars => IInv'
<1> SUFFICES ASSUME IInv, [Next]_vars PROVE IInv'
  OBVIOUS
<1>1. CASE Next
  BY <1>1, HashNext, BloomNext DEF IInv, Next
<1>2. CASE UNCHANGED vars
  <2>1. /\ UNCHANGED readerVars /\ lines' = lines /\ kind' = kind
        /\ UNCHANGED Hash!tabVars /\ UNCHANGED Bloom!bloomVars
    BY <1>2 DEF vars, readerVars, hashVars, bloomVars, Hash!tabVars, Bloom!bloomVars
  <2>2. ReaderInv'
    BY <2>1, ReaderStutter DEF IInv
  <2> QED BY <2>1, <2>2, HashQuiet, BloomQuiet DEF IInv
<1> QED BY <1>1, <1>2

\* The inductive invariant: where the reader is in the stream, what the table
\* holds, and what the bit map covers.
THEOREM FixedInvariant == Spec => []IInv
<1>1. Init => IInv
  BY FixedInit
<1>2. IInv /\ [Next]_vars => IInv'
  BY FixedStep
<1> QED BY <1>1, <1>2, PTL DEF Spec

\* No character of the input is lost, invented or handed out twice by the read
\* loop of either program, however read() cuts it, and every variable keeps
\* its type.
THEOREM FixedEveryLineOnce == Spec => []EveryLineOnce
<1>1. IInv => EveryLineOnce
  BY DEF IInv, EveryLineOnce, TypeOK, ReaderInv, HashInv, BloomInv
<1> QED BY <1>1, FixedInvariant, PTL

\* overflow_count is exactly the number of lines mmuniq-hash left out although
\* nothing in the table said it had seen them.
THEOREM FixedOverflowExact == Spec => []OverflowExact
<1>1. IInv => OverflowExact
  BY OverflowMeans DEF IInv, OverflowExact, HashInv
<1> QED BY <1>1, FixedInvariant, PTL

\* -n lines of different hashes do not fill the table of mmuniq-hash.
THEOREM FixedRoomForEstimate == Spec => []RoomForEstimate
<1>1. IInv => RoomForEstimate
  BY HashRoom DEF IInv, RoomForEstimate
<1> QED BY <1>1, FixedInvariant, PTL

\* mmuniq-bloom never takes an entry of res that siphash24 and bswap_64 did not
\* fill in this round for a bit number.
THEOREM FixedNoStaleHash == Spec => []NoStaleHash
<1>1. IInv => NoStaleHash
  <2> SUFFICES ASSUME IInv, kind = "bloom" PROVE Bloom!NoStaleHash
    BY DEF NoStaleHash
  <2>1. tested \subseteq 0 .. BloomMask /\ BloomMask \in Nat
    BY BloomAssumption DEF IInv, BloomInv
  <2>2. Bloom!Unset \notin 0 .. BloomMask
    BY <2>1 DEF Bloom!Unset
  <2> QED BY <2>1, <2>2 DEF Bloom!NoStaleHash
<1> QED BY <1>1, FixedInvariant, PTL

\* What mmuniq-bloom leaves out is what a Bloom filter of the lines it wrote
\* covers, and nothing else.
THEOREM FixedWrittenIffUncovered == Spec => []WrittenIffUncovered
<1>1. IInv => WrittenIffUncovered
  BY DecidedMeans DEF IInv, WrittenIffUncovered, BloomInv
<1> QED BY <1>1, FixedInvariant, PTL
=============================================================================
