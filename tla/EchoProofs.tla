----------------------------- MODULE EchoProofs -----------------------------
(***************************************************************************)
(* The echo servers with any clients, bursts and buffers.                  *)
(***************************************************************************)
EXTENDS EchoServers, SequenceTheorems, TLAPS

\* A byte is its connection and its place in what the client sent there.
Bytes == Conns \X Nat
Words == Seq(Bytes)

\* Bytes of c in the order in which they were sent.
InOrder(w, c, last) ==
    /\ \A k \in 1 .. Len(w) : w[k][1] = c /\ w[k][2] <= last
    /\ \A k, l \in 1 .. Len(w) : k < l => w[k][2] < w[l][2]
\* All that was sent first, each byte once.
Unbroken(w, c) == \A k \in 1 .. Len(w) : w[k] = <<c, k>>

-----------------------------------------------------------------------------
(* The inductive invariant *)

\* A connection is being served.
Serving == spc \in {"recv", "send", "in", "out", "write", "read", "reap", "events",
                    "update", "poll", "delete"}

\* The bytes the server has taken from the connection it serves and not given back.
Hold ==
    CASE kind = "naive" -> IF spc = "send" THEN SubSeq(buf, m + 1, Len(buf)) ELSE <<>>
      [] kind = "splice" -> IF spc = "out" THEN pipe ELSE <<>>
      [] kind = "iosubmit" ->
           IF spc = "write" THEN SubSeq(buf, m + 1, nbytes)
           ELSE IF (spc = "reap" /\ ring[2] > 0) \/ (spc = "events" /\ events[2] > 0)
                THEN buf ELSE <<>>
      [] kind = "sockmap" -> IF spc \in {"poll", "delete"} THEN flight ELSE <<>>
HoldOf(c) == IF c = cd THEN Hold ELSE <<>>

\* A connection that can still get something back.
Waiting == {backlog[k] : k \in DOMAIN backlog}
Live(c) == ~rst[c] /\ (c \in Waiting \/ (c = cd /\ Serving))

\* All that the connection was and will be given back.
Whole(c) == IF Live(c) THEN back[c] \o (HoldOf(c) \o c2s[c]) ELSE back[c]

\* It is in order, and without signals it is all of what was sent.
Flow(c) ==
    /\ InOrder(Whole(c), c, sent[c])
    /\ ~signals => Unbroken(Whole(c), c)
    /\ ~signals /\ Live(c) => Len(Whole(c)) = sent[c]
Flows == \A c \in Conns : Flow(c)

\* What a client waits for is what it has not sent and what is under way.
UnderWay(c) == Len(c2s[c]) + Len(HoldOf(c)) + Len(s2c[c])
Balance(c) == ~signals /\ Live(c) /\ ~fin[c] => rx_bytes[c] = tx_bytes[c] + UnderWay(c)
Balances == \A c \in Conns : Balance(c)

\* A client between its bursts.
Burst(c) ==
    /\ cpc[c] \in {"new", "send", "recv", "print"} => burst_i[c] < BurstCount
    /\ cpc[c] = "print" /\ ~told[c] => tx_bytes[c] = 0 /\ rx_bytes[c] = 0
    /\ told[c] => rst[c]
    /\ fin[c] => cpc[c] \in {"closed", "dead"}
    /\ ~told[c] => \A k \in DOMAIN printed[c] : printed[c][k] = 0
Bursts == \A c \in Conns : Burst(c)

\* The connections and the queue of those to be accepted.
NoServer == spc \in {"prepare", "start", "abort"}
\* Nothing has happened yet on a connection that is not made.
Fresh(c) ==
    /\ c \notin Waiting /\ c # cd
    /\ c2s[c] = <<>> /\ s2c[c] = <<>> /\ back[c] = <<>> /\ sent[c] = 0 /\ ~fin[c]
\* Each connection waits, or is served, once.
Queue ==
    /\ NoServer => backlog = <<>> /\ cd = NoConn /\ \A c \in Conns : cpc[c] \in {"new", "dead"} /\ rst[c] /\ ~told[c]
    /\ \A k, l \in DOMAIN backlog : backlog[k] = backlog[l] => k = l
    /\ cd \notin Waiting
    /\ \A c \in Conns : cpc[c] = "new" => Fresh(c)

\* Nobody is forgotten.
Attended ==
    /\ Serving \/ spc = "close" => cd \in Conns
    /\ spc = "close" => fin[cd] \/ rst[cd] \/ signals
    /\ spc = "exit" => (kind \in {"splice", "iosubmit"} \/ signals) /\ \A c \in Conns : fin[c] \/ rst[c]
    /\ ~signals => \A c \in Conns :
        cpc[c] \notin {"new", "dead"} /\ ~rst[c] /\ ~fin[c] => Live(c)

\* What the results of the two halves of an io_submit say.
Results(w, x) ==
    /\ w < 0 => rst[cd] \/ signals
    /\ x > 0 => x = Len(buf)
    /\ x <= 0 => fin[cd] \/ rst[cd]

\* The inner state of each server.
Inner ==
    /\ kind \in {"naive", "splice", "iosubmit", "sockmap"}
    /\ kind = "splice" => (spc = "in" => pipe = <<>>)
    /\ kind = "iosubmit" =>
        /\ NoServer => ring = <<>>
        /\ spc = "write" => nbytes <= Len(buf)
        /\ spc = "read" => /\ Len(ring) = 1 /\ (ring[1] < 0 => rst[cd] \/ signals)
                           /\ m = nbytes \/ rst[cd] \/ signals
        /\ spc = "reap" => Len(ring) = 2 /\ Results(ring[1], ring[2])
        /\ spc = "events" => ring = <<>> /\ Results(events[1], events[2])
    /\ kind = "sockmap" =>
        /\ slot = (IF spc \in {"poll", "delete"} THEN cd ELSE NoConn)
        /\ slot = NoConn => flight = <<>>
        /\ spc = "delete" => fin[cd] \/ rst[cd] \/ signals

\* The clients' counters.
Tables ==
    /\ tx_bytes \in [Conns -> Nat] /\ rx_bytes \in [Conns -> Nat]
    /\ printed \in [Conns -> Seq(Nat)]

\* The inductive invariant.
IInv == TypeOK /\ Tables /\ Flows /\ Balances /\ Bursts /\ Queue /\ Attended /\ Inner

-----------------------------------------------------------------------------
(* Words *)

\* What a concatenation is made of.
LEMMA JoinType ==
    ASSUME NEW x \in Words, NEW y \in Words
    PROVE  /\ x \o y \in Words /\ Len(x) \in Nat /\ Len(y) \in Nat
           /\ Len(x \o y) = Len(x) + Len(y)
           /\ \A k \in 1 .. Len(x) : (x \o y)[k] = x[k]
           /\ \A k \in 1 .. Len(y) : (x \o y)[Len(x) + k] = y[k]
<1>1. /\ x \o y \in Words /\ Len(x \o y) = Len(x) + Len(y)
      /\ \A k \in 1 .. Len(x) + Len(y) : (x \o y)[k] = IF k <= Len(x) THEN x[k] ELSE y[k - Len(x)]
  BY ConcatProperties DEF Words
<1>2. Len(x) \in Nat /\ Len(y) \in Nat
  BY LenProperties DEF Words
<1>3. ASSUME NEW k \in 1 .. Len(x) PROVE (x \o y)[k] = x[k]
  <2>1. k \in 1 .. Len(x) + Len(y) /\ k <= Len(x)
    BY <1>2
  <2> QED BY <1>1, <2>1
<1>4. ASSUME NEW k \in 1 .. Len(y) PROVE (x \o y)[Len(x) + k] = y[k]
  <2>1. Len(x) + k \in 1 .. Len(x) + Len(y) /\ ~(Len(x) + k <= Len(x)) /\ (Len(x) + k) - Len(x) = k
    BY <1>2
  <2> QED BY <1>1, <2>1
<1> QED BY <1>1, <1>2, <1>3, <1>4

\* Words are put together in any grouping, and with nothing.
LEMMA Regroup ==
    ASSUME NEW x \in Words, NEW y \in Words, NEW z \in Words
    PROVE  (x \o y) \o z = x \o (y \o z)
BY ConcatAssociative DEF Words
\* The empty word leaves a word as it is.
LEMMA Nothing ==
    /\ <<>> \in Words /\ Len(<<>>) = 0
    /\ \A x \in Words : x \o <<>> = x /\ <<>> \o x = x
<1>1. ASSUME NEW x \in Words PROVE x \o <<>> = x /\ <<>> \o x = x
  BY ConcatEmptySeq DEF Words
<1> QED BY <1>1, EmptySeq DEF Words

\* A word is cut anywhere into two.
LEMMA Split ==
    ASSUME NEW x \in Words, NEW k \in 0 .. Len(x)
    PROVE  /\ SubSeq(x, 1, k) \in Words /\ SubSeq(x, k + 1, Len(x)) \in Words
           /\ Len(SubSeq(x, 1, k)) = k /\ Len(SubSeq(x, k + 1, Len(x))) = Len(x) - k
           /\ SubSeq(x, 1, k) \o SubSeq(x, k + 1, Len(x)) = x
<1> DEFINE L == Len(x)
           y == SubSeq(x, 1, k)
           z == SubSeq(x, k + 1, L)
<1>1. L \in Nat /\ k \in Nat /\ k <= L /\ \A i \in 1 .. L : x[i] \in Bytes
  BY LenProperties, ElementOfSeq DEF Words
<1>2. (\A i \in 1 .. k : x[i] \in Bytes) /\ (\A i \in k + 1 .. L : x[i] \in Bytes)
  <2> HIDE DEF L
  <2> QED BY <1>1
<1>3. /\ y \in Words /\ Len(y) = IF 1 <= k THEN k - 1 + 1 ELSE 0
      /\ \A i \in 1 .. k - 1 + 1 : y[i] = x[1 + i - 1]
  BY <1>1, <1>2, SubSeqProperties DEF Words
<1>4. /\ z \in Words /\ Len(z) = IF k + 1 <= L THEN L - (k + 1) + 1 ELSE 0
      /\ \A i \in 1 .. L - (k + 1) + 1 : z[i] = x[k + 1 + i - 1]
  <2>1. k + 1 \in Int /\ L \in Int
    BY <1>1
  <2> HIDE DEF L
  <2> QED BY <2>1, <1>2, SubSeqProperties DEF Words
<1> HIDE DEF L, y, z
<1>5. Len(y) = k /\ \A i \in 1 .. k : y[i] = x[i]
  BY <1>1, <1>3
<1>6. Len(z) = L - k /\ \A i \in 1 .. L - k : z[i] = x[k + i]
  <2>1. Len(z) = L - k
    BY <1>1, <1>4
  <2>2. ASSUME NEW i \in 1 .. L - k PROVE z[i] = x[k + i]
    <3>1. i \in 1 .. L - (k + 1) + 1 /\ k + 1 + i - 1 = k + i
      BY <1>1
    <3> QED BY <3>1, <1>4
  <2> QED BY <2>1, <2>2
<1>7. /\ y \o z \in Words /\ Len(y \o z) = Len(y) + Len(z)
      /\ \A i \in 1 .. Len(y) : (y \o z)[i] = y[i]
      /\ \A i \in 1 .. Len(z) : (y \o z)[Len(y) + i] = z[i]
  BY ONLY <1>3, <1>4, JoinType
<1>8. Len(y \o z) = L
  BY <1>1, <1>5, <1>6, <1>7
<1>9. ASSUME NEW i \in 1 .. L PROVE (y \o z)[i] = x[i]
  <2>1. CASE i <= k
    BY <2>1, <1>1, <1>5, <1>7
  <2>2. CASE ~(i <= k)
    <3>1. i - k \in 1 .. L - k /\ k + (i - k) = i
      BY <2>2, <1>1
    <3>2. (y \o z)[k + (i - k)] = z[i - k]
      BY <3>1, <1>5, <1>6, <1>7
    <3> QED BY <3>1, <3>2, <1>6
  <2> QED BY <2>1, <2>2
<1>10. y \o z = x
  <2>1. x \in Seq(Bytes) /\ y \o z \in Seq(Bytes) /\ Len(x) = L
    BY <1>7 DEF Words, L
  <2> QED BY <2>1, <1>8, <1>9, SeqEqual
<1> QED BY <1>3, <1>4, <1>5, <1>6, <1>10 DEF y, z, L

\* A word that picks some bytes of an ordered one, in their order, is ordered.
LEMMA Picked ==
    ASSUME NEW v \in Words, NEW w \in Words, NEW c, NEW last, InOrder(w, c, last),
           NEW f \in [1 .. Len(v) -> 1 .. Len(w)],
           \A k \in 1 .. Len(v) : v[k] = w[f[k]],
           \A k, l \in 1 .. Len(v) : k < l => f[k] < f[l]
    PROVE  InOrder(v, c, last)
<1>1. ASSUME NEW k \in 1 .. Len(v) PROVE v[k][1] = c /\ v[k][2] <= last
  <2>1. f[k] \in 1 .. Len(w)
    OBVIOUS
  <2> QED BY <2>1 DEF InOrder
<1>2. ASSUME NEW k \in 1 .. Len(v), NEW l \in 1 .. Len(v), k < l PROVE v[k][2] < v[l][2]
  <2>1. f[k] \in 1 .. Len(w) /\ f[l] \in 1 .. Len(w) /\ f[k] < f[l]
    BY <1>2
  <2> QED BY <2>1 DEF InOrder
<1> QED BY <1>1, <1>2 DEF InOrder

\* What comes first of an ordered word is ordered, of an unbroken one unbroken.
LEMMA Prefix ==
    ASSUME NEW x \in Words, NEW y \in Words, NEW c, NEW last
    PROVE  /\ InOrder(x \o y, c, last) => InOrder(x, c, last)
           /\ Unbroken(x \o y, c) => Unbroken(x, c)
<1>1. /\ x \o y \in Words /\ Len(x) \in Nat /\ Len(y) \in Nat /\ Len(x \o y) = Len(x) + Len(y)
      /\ \A k \in 1 .. Len(x) : (x \o y)[k] = x[k]
  BY JoinType
<1>2. \A k \in 1 .. Len(x) : k \in 1 .. Len(x \o y)
  BY <1>1
<1> DEFINE w == x \o y
<1> HIDE DEF w
<1>3. /\ InOrder(w, c, last) => InOrder(x, c, last)
      /\ Unbroken(w, c) => Unbroken(x, c)
  BY <1>1, <1>2 DEF InOrder, Unbroken, w
<1> QED BY <1>3 DEF w

\* So is one with its middle cut out.
LEMMA CutOut ==
    ASSUME NEW x \in Words, NEW y \in Words, NEW z \in Words, NEW c, NEW last,
           InOrder(x \o (y \o z), c, last)
    PROVE  InOrder(x \o z, c, last)
<1> DEFINE v == x \o z
           u == y \o z
           w == x \o u
           f == [k \in 1 .. Len(v) |-> IF k <= Len(x) THEN k ELSE k + Len(y)]
<1>1. /\ u \in Words /\ Len(u) = Len(y) + Len(z)
      /\ \A k \in 1 .. Len(z) : u[Len(y) + k] = z[k]
      /\ Len(x) \in Nat /\ Len(y) \in Nat /\ Len(z) \in Nat
  BY JoinType
<1>2. /\ v \in Words /\ Len(v) = Len(x) + Len(z)
      /\ \A k \in 1 .. Len(x) : v[k] = x[k]
      /\ \A k \in 1 .. Len(z) : v[Len(x) + k] = z[k]
  BY JoinType
<1> HIDE DEF u, v
<1>3. /\ w \in Words /\ Len(w) = Len(x) + Len(u)
      /\ \A k \in 1 .. Len(x) : w[k] = x[k]
      /\ \A k \in 1 .. Len(u) : w[Len(x) + k] = u[k]
  BY <1>1, JoinType
<1>4. InOrder(w, c, last)
  BY DEF u
<1> HIDE DEF w
<1>5. ASSUME NEW k \in 1 .. Len(v) PROVE f[k] \in 1 .. Len(w) /\ v[k] = w[f[k]]
  <2>1. CASE k <= Len(x)
    <3>1. k \in 1 .. Len(x) /\ k \in 1 .. Len(w) /\ f[k] = k
      BY <2>1, <1>1, <1>3
    <3> QED BY <3>1, <1>2, <1>3
  <2>2. CASE ~(k <= Len(x))
    <3> DEFINE i == k - Len(x)
    <3>1. i \in 1 .. Len(z) /\ Len(x) + i = k /\ Len(y) + i \in 1 .. Len(u)
      BY <2>2, <1>1, <1>2
    <3>2. f[k] = Len(x) + (Len(y) + i)
      BY <2>2, <1>1, <1>2
    <3> HIDE DEF i, f
    <3>3. v[Len(x) + i] = z[i] /\ u[Len(y) + i] = z[i]
      BY <1>1, <1>2, <3>1
    <3>4. w[Len(x) + (Len(y) + i)] = u[Len(y) + i]
      BY <1>3, <3>1
    <3>5. f[k] \in 1 .. Len(w)
      BY <3>1, <3>2, <1>1, <1>3
    <3> QED BY <3>1, <3>2, <3>3, <3>4, <3>5
  <2> QED BY <2>1, <2>2
<1>6. \A k, l \in 1 .. Len(v) : k < l => f[k] < f[l]
  BY <1>1, <1>2
<1>7. f \in [1 .. Len(v) -> 1 .. Len(w)]
  BY <1>5
<1> HIDE DEF f
<1>8. InOrder(v, c, last)
  BY <1>2, <1>3, <1>4, <1>5, <1>6, <1>7, Picked
<1> QED BY <1>8 DEF v

\* What is sent next is a word,
SentAfter(x, c, s, j) == x \in Words /\ Len(x) = j /\ \A k \in 1 .. j : x[k] = <<c, s + k>>
\* which is what ClientSend adds,
LEMMA NextWord ==
    ASSUME NEW c \in Conns, NEW s \in Nat, NEW j \in Nat,
           NEW x, x = [k \in 1 .. j |-> <<c, s + k>>]
    PROVE  SentAfter(x, c, s, j)
<1>1. \A k \in 1 .. j : <<c, s + k>> \in Bytes
  BY DEF Bytes
<1>2. x \in Words
  <2>1. x \in [1 .. j -> Bytes]
    BY <1>1
  <2> QED BY ONLY <2>1, j \in Nat DEF Words
<1>3. x \in Seq(Bytes) /\ DOMAIN x = 1 .. j
  BY <1>2 DEF Words
<1>4. Len(x) = j
  BY <1>3, LenProperties
<1> QED BY <1>2, <1>4 DEF SentAfter

\* and continues what was sent before.
LEMMA SentNext ==
    ASSUME NEW w \in Words, NEW c \in Conns, NEW s \in Nat, NEW j \in Nat, NEW x, SentAfter(x, c, s, j)
    PROVE  /\ InOrder(w, c, s) => InOrder(w, c, s + j) /\ InOrder(w \o x, c, s + j)
           /\ Unbroken(w, c) /\ Len(w) = s => Unbroken(w \o x, c) /\ Len(w \o x) = s + j
<1>1. x \in Words /\ Len(x) = j
  BY DEF SentAfter
<1>2. \A k \in 1 .. j : x[k] = <<c, s + k>>
  BY DEF SentAfter
<1>3. /\ w \o x \in Words /\ Len(w) \in Nat /\ Len(w \o x) = Len(w) + j
      /\ \A k \in 1 .. Len(w) : (w \o x)[k] = w[k]
      /\ \A k \in 1 .. j : (w \o x)[Len(w) + k] = <<c, s + k>>
  <2>1. /\ w \o x \in Words /\ Len(w) \in Nat /\ Len(w \o x) = Len(w) + Len(x)
        /\ \A k \in 1 .. Len(w) : (w \o x)[k] = w[k]
        /\ \A k \in 1 .. Len(x) : (w \o x)[Len(w) + k] = x[k]
    BY ONLY <1>1, w \in Words, JoinType
  <2> QED BY ONLY <1>1, <1>2, <2>1
<1>4. \A k \in 1 .. Len(w) : w[k][2] \in Nat
  BY ElementOfSeq DEF Words, Bytes
<1> DEFINE v == w \o x
<1> HIDE DEF v
<1>5. \A k \in 1 .. Len(v) : \/ k \in 1 .. Len(w) /\ v[k] = w[k]
                             \/ k - Len(w) \in 1 .. j /\ v[k] = <<c, s + (k - Len(w))>>
  <2> TAKE k \in 1 .. Len(v)
  <2>1. CASE k <= Len(w)
    BY <2>1, <1>3 DEF v
  <2>2. CASE ~(k <= Len(w))
    <3>1. k - Len(w) \in 1 .. j /\ Len(w) + (k - Len(w)) = k
      BY <2>2, <1>3 DEF v
    <3> QED BY <3>1, <1>3 DEF v
  <2> QED BY <2>1, <2>2
<1>6. ASSUME InOrder(w, c, s) PROVE InOrder(w, c, s + j) /\ InOrder(v, c, s + j)
  <2>1. InOrder(w, c, s + j)
    <3>1. ASSUME NEW k \in 1 .. Len(w) PROVE w[k][1] = c /\ w[k][2] <= s + j
      <4>1. w[k][1] = c /\ w[k][2] <= s /\ w[k][2] \in Nat
        BY <1>4, <1>6 DEF InOrder
      <4> QED BY <4>1
    <3> QED BY <3>1, <1>6 DEF InOrder
  <2>2. ASSUME NEW k \in 1 .. Len(v) PROVE v[k][1] = c /\ v[k][2] <= s + j
    BY <2>1, <2>2, <1>5, SMTT(30) DEF InOrder
  <2>3. ASSUME NEW k \in 1 .. Len(v), NEW l \in 1 .. Len(v), k < l PROVE v[k][2] < v[l][2]
    <3>1. Len(v) \in Nat /\ Len(w) \in Nat
      BY <1>3 DEF v
    <3>2. CASE k \in 1 .. Len(w) /\ l \in 1 .. Len(w)
      <4>1. v[k] = w[k] /\ v[l] = w[l]
        BY <1>3, <3>2 DEF v
      <4> QED BY <4>1, <3>2, <1>6, <2>3 DEF InOrder
    <3>3. CASE k \in 1 .. Len(w) /\ l \notin 1 .. Len(w)
      <4>1. v[k] = w[k] /\ w[k][2] <= s /\ w[k][2] \in Nat
        BY <1>3, <1>4, <3>3, <1>6 DEF v, InOrder
      <4>2. v[l] = <<c, s + (l - Len(w))>> /\ l - Len(w) \in 1 .. j
        BY <1>5, <3>3
      <4> QED BY <4>1, <4>2
    <3>4. CASE k \notin 1 .. Len(w)
      <4>1. v[k] = <<c, s + (k - Len(w))>> /\ k - Len(w) \in 1 .. j
        BY <1>5, <3>4
      <4>2. l \notin 1 .. Len(w)
        BY <3>1, <3>4, <2>3
      <4>3. v[l] = <<c, s + (l - Len(w))>> /\ l - Len(w) \in 1 .. j
        BY <1>5, <4>2
      <4> QED BY <4>1, <4>3, <3>1, <2>3
    <3> QED BY <3>2, <3>3, <3>4
  <2> QED BY <2>1, <2>2, <2>3 DEF InOrder
<1>7. ASSUME Unbroken(w, c), Len(w) = s PROVE Unbroken(v, c) /\ Len(v) = s + j
  <2>1. Len(v) = s + j
    BY <1>3, <1>7 DEF v
  <2>2. ASSUME NEW k \in 1 .. Len(v) PROVE v[k] = <<c, k>>
    <3>1. CASE k \in 1 .. Len(w) /\ v[k] = w[k]
      BY <3>1, <1>7 DEF Unbroken
    <3>2. CASE k - Len(w) \in 1 .. j /\ v[k] = <<c, s + (k - Len(w))>>
      BY <3>2, <1>7
    <3> QED BY <1>5, <3>1, <3>2
  <2> QED BY <2>1, <2>2 DEF Unbroken
<1> QED BY <1>6, <1>7 DEF v

-----------------------------------------------------------------------------
(* What a step of a server does to a connection *)

\* It moves the connection's bytes on ...
Steady(c) ==
    /\ Live(c) /\ Live(c)'
    /\ Whole(c)' = Whole(c) /\ UnderWay(c)' = UnderWay(c)
\* ... or is done with it, gives it nothing and has a reason ...
Gone(c) ==
    /\ ~Live(c)' /\ back'[c] = back[c]
    /\ Live(c) => rst'[c] \/ fin[c] \/ signals
\* ... or loses what it holds to a signal.
Cut(c) ==
    /\ signals /\ Live(c) /\ Live(c)'
    /\ back'[c] = back[c] /\ c2s'[c] = c2s[c] /\ HoldOf(c)' = <<>>
Outcome(c) == Steady(c) \/ Gone(c) \/ Cut(c)

\* What the servers leave alone.
Apart == UNCHANGED <<clientVars, fin, told, kind, signals>>

\* What is under way are words.
Wordy == Hold \in Words /\ \A c \in Conns : c2s[c] \in Words /\ s2c[c] \in Words /\ back[c] \in Words
\* What is on its way to be given back is a word.
LEMMA HoldWord ==
    ASSUME Wordy, NEW c \in Conns
    PROVE  /\ HoldOf(c) \in Words /\ HoldOf(c) \o c2s[c] \in Words
           /\ Len(HoldOf(c) \o c2s[c]) = Len(HoldOf(c)) + Len(c2s[c])
<1>1. HoldOf(c) \in Words /\ c2s[c] \in Words
  BY Nothing DEF Wordy, HoldOf
<1> QED BY ONLY <1>1, JoinType

\* Whatever the outcome, what comes back stays in order.
LEMMA OutcomeFlow ==
    ASSUME Wordy, Apart, NEW c \in Conns, Flow(c), Outcome(c)
    PROVE  Flow(c)'
<1>1. sent'[c] = sent[c] /\ signals' = signals
  BY DEF Apart, clientVars
<1> DEFINE x == back[c]
           h == HoldOf(c)
           z == c2s[c]
<1>2. x \in Words /\ h \in Words /\ z \in Words /\ h \o z \in Words
  BY HoldWord DEF Wordy
<1>3. CASE Steady(c)
  <2>1. Live(c) /\ Live(c)' /\ Whole(c)' = Whole(c)
    BY <1>3 DEF Steady
  <2> QED BY <2>1, <1>1 DEF Flow
<1>4. CASE Gone(c)
  <2>1. ~Live(c)' /\ Whole(c)' = x
    BY <1>4 DEF Gone, Whole
  <2>2. InOrder(x, c, sent[c]) /\ (~signals => Unbroken(x, c))
    <3>1. CASE Live(c)
      <4>1. Whole(c) = x \o (h \o z)
        BY <3>1 DEF Whole
      <4> HIDE DEF x, h, z
      <4>2. /\ InOrder(x \o (h \o z), c, sent[c]) => InOrder(x, c, sent[c])
            /\ Unbroken(x \o (h \o z), c) => Unbroken(x, c)
        BY ONLY <1>2, Prefix
      <4> QED BY <4>1, <4>2 DEF Flow
    <3>2. CASE ~Live(c)
      BY <3>2 DEF Flow, Whole
    <3> QED BY <3>1, <3>2
  <2> HIDE DEF x
  <2> QED BY <2>1, <2>2, <1>1 DEF Flow
<1>5. CASE Cut(c)
  <2>1. /\ signals /\ Whole(c) = x \o (h \o z)
        /\ Whole(c)' = x \o (<<>> \o z)
    BY <1>5 DEF Cut, Whole
  <2>2. Whole(c)' = x \o z
    BY <2>1, <1>2, Nothing
  <2> HIDE DEF x, h, z
  <2>3. InOrder(x \o (h \o z), c, sent[c])
    BY <2>1 DEF Flow
  <2>4. InOrder(x \o z, c, sent[c])
    BY ONLY <1>2, <2>3, CutOut
  <2> QED BY <2>1, <2>2, <2>4, <1>1 DEF Flow
<1> QED BY <1>3, <1>4, <1>5 DEF Outcome

\* Whatever the outcome, what is under way is what the client waits for.
LEMMA OutcomeBalance ==
    ASSUME Apart, NEW c \in Conns, Balance(c), Outcome(c)
    PROVE  Balance(c)'
<1>1. rx_bytes' = rx_bytes /\ tx_bytes' = tx_bytes /\ fin' = fin /\ signals' = signals
  BY DEF Apart, clientVars
<1>2. signals \/ ~Live(c)' \/ (Live(c) /\ UnderWay(c)' = UnderWay(c))
  BY DEF Outcome, Steady, Gone, Cut
<1> QED BY <1>1, <1>2 DEF Balance

-----------------------------------------------------------------------------
(* The kinds of steps the servers take *)

Others(c) == c2s'[c] = c2s[c] /\ s2c'[c] = s2c[c] /\ back'[c] = back[c]

\* The next connection is accepted,
Accepts ==
    /\ spc = "accept" /\ Serving' /\ Hold' = <<>>
    /\ backlog # <<>> /\ cd' = Head(backlog) /\ backlog' = Tail(backlog)
    /\ UNCHANGED <<c2s, s2c, back, rst>>
\* bytes are received,
Moves ==
    /\ Serving /\ Serving'
    /\ UNCHANGED <<cd, backlog, s2c, back, rst>>
    /\ \E k \in 0 .. Len(c2s[cd]) :
        /\ c2s' = [c2s EXCEPT ![cd] = SubSeq(c2s[cd], k + 1, Len(c2s[cd]))]
        /\ Hold' = Hold \o SubSeq(c2s[cd], 1, k)
\* bytes are sent,
Gives ==
    /\ Serving /\ Serving' /\ ~rst[cd]
    /\ UNCHANGED <<cd, backlog, c2s, rst>>
    /\ \E k \in 1 .. Len(Hold) :
        /\ kind # "sockmap" => k <= Room(cd)
        /\ Given(cd, SubSeq(Hold, 1, k))
        /\ Hold' = SubSeq(Hold, k + 1, Len(Hold))
\* nothing that anyone sees happens, or what is held is lost,
Idles ==
    /\ Serving /\ Serving'
    /\ UNCHANGED <<cd, connVars>>
    /\ Hold' = Hold \/ (Hold' = <<>> /\ (signals \/ rst[cd]))
\* the connection comes to its end,
Ends ==
    /\ Serving /\ spc' = "close"
    /\ UNCHANGED <<cd, connVars>>
    /\ fin[cd] \/ rst[cd] \/ signals
\* is closed,
Closes ==
    /\ spc = "close" /\ spc' = "accept"
    /\ Hangup({cd}) /\ UNCHANGED <<cd, backlog, c2s, s2c, back>>
\* the process ends,
Exits ==
    /\ spc' = "exit" /\ (kind \in {"splice", "iosubmit"} \/ signals)
    /\ Hangup(Conns) /\ UNCHANGED <<c2s, s2c, back>>
    /\ \/ Serving /\ UNCHANGED <<cd, backlog>>
       \/ spc = "accept" /\ backlog # <<>> /\ cd' = Head(backlog) /\ backlog' = Tail(backlog)
\* or has not begun.
Starts ==
    /\ NoServer
    /\ \/ NoServer' /\ UNCHANGED rst
       \/ spc' = "accept" /\ rst' \in [Conns -> BOOLEAN]
    /\ UNCHANGED <<cd, backlog, c2s, s2c, back>>

\* The types that are the same for all servers.
Common ==
    /\ EchoTypeOK
    /\ signals \in BOOLEAN
    /\ kind # "sockmap" => \A c \in Conns : Len(s2c[c]) <= DOWN
\* The connections' buffers hold words.
LEMMA CommonWords ==
    ASSUME Common, Hold \in Words
    PROVE  Wordy /\ DOMAIN c2s = Conns /\ DOMAIN s2c = Conns /\ DOMAIN back = Conns
BY DEF Common, EchoTypeOK, Wordy, Words, Bytes

\* A connection the step is not about keeps going or stays where it is.
LEMMA Outsider ==
    ASSUME NEW c \in Conns, c # cd, c # cd', (c \in Waiting)' <=> c \in Waiting,
           Others(c), rst'[c] = rst[c]
    PROVE  Outcome(c)
<1>1. HoldOf(c) = <<>> /\ HoldOf(c)' = <<>>
  BY DEF HoldOf
<1>2. Live(c)' <=> Live(c)
  BY DEF Live
<1>3. CASE Live(c)
  <2>1. Whole(c)' = Whole(c) /\ UnderWay(c)' = UnderWay(c)
    BY <1>1, <1>2, <1>3 DEF Whole, UnderWay, Others
  <2> QED BY <2>1, <1>2, <1>3 DEF Outcome, Steady
<1>4. CASE ~Live(c)
  BY <1>2, <1>4 DEF Outcome, Gone, Others
<1> QED BY <1>3, <1>4

\* One that was hung up is gone.
LEMMA HungUp ==
    ASSUME NEW c \in Conns, back'[c] = back[c], rst'[c]
    PROVE  Outcome(c)
BY DEF Outcome, Gone, Live

\* The queue without its first.
LEMMA TailWaiting ==
    ASSUME backlog \in Seq(Conns), backlog # <<>>, backlog' = Tail(backlog),
           \A k, l \in DOMAIN backlog : backlog[k] = backlog[l] => k = l
    PROVE  /\ Head(backlog) \in Conns /\ Head(backlog) \in Waiting /\ Head(backlog) \notin Waiting'
           /\ \A c : c # Head(backlog) => ((c \in Waiting)' <=> c \in Waiting)
           /\ backlog' \in Seq(Conns)
           /\ (\A k, l \in DOMAIN backlog : backlog[k] = backlog[l] => k = l)'
<1> DEFINE q == Tail(backlog)
           L == Len(backlog)
<1>1. /\ L \in Nat \ {0} /\ DOMAIN backlog = 1 .. L
      /\ q \in Seq(Conns) /\ Len(q) = L - 1 /\ Head(backlog) = backlog[1] /\ Head(backlog) \in Conns
      /\ \A k \in 1 .. L - 1 : q[k] = backlog[k + 1]
  BY HeadTailProperties, EmptySeq, LenProperties
<1>2. DOMAIN q = 1 .. L - 1
  BY <1>1, LenProperties
<1> HIDE DEF L, q
<1>3. backlog' = q
  BY DEF q
<1>4. \A k \in 1 .. L - 1 : k + 1 \in 1 .. L /\ k + 1 # 1
  BY <1>1
<1>5. ASSUME NEW k \in DOMAIN q, NEW l \in DOMAIN q, q[k] = q[l] PROVE k = l
  <2>1. k + 1 \in DOMAIN backlog /\ l + 1 \in DOMAIN backlog /\ backlog[k + 1] = backlog[l + 1]
    BY <1>1, <1>2, <1>4, <1>5
  <2>2. k + 1 = l + 1 /\ k \in Int /\ l \in Int
    BY <2>1, <1>2
  <2> QED BY ONLY <2>2
<1>6. 1 \in DOMAIN backlog
  BY <1>1
<1>7. Head(backlog) \in Waiting
  BY <1>1, <1>6 DEF Waiting
<1>8. ASSUME Head(backlog) \in {q[k] : k \in DOMAIN q} PROVE FALSE
  <2>1. PICK k \in DOMAIN q : q[k] = Head(backlog)
    BY <1>8
  <2>2. k + 1 \in DOMAIN backlog /\ backlog[k + 1] = backlog[1] /\ k + 1 # 1
    BY <2>1, <1>1, <1>2, <1>4
  <2> QED BY <2>2, <1>6
<1>9. ASSUME NEW c, c # Head(backlog)
      PROVE  c \in {q[k] : k \in DOMAIN q} <=> c \in Waiting
  <2>1. ASSUME NEW k \in DOMAIN q, c = q[k] PROVE c \in Waiting
    BY <2>1, <1>1, <1>2, <1>4 DEF Waiting
  <2>2. ASSUME NEW k \in DOMAIN backlog, c = backlog[k] PROVE c \in {q[l] : l \in DOMAIN q}
    <3>1. k # 1 /\ k \in 1 .. L
      BY <2>2, <1>1, <1>9
    <3>2. k - 1 \in 1 .. L - 1 /\ (k - 1) + 1 = k
      BY ONLY <3>1, <1>1
    <3>3. q[k - 1] = c /\ k - 1 \in DOMAIN q
      BY <3>2, <2>2, <1>1, <1>2
    <3> QED BY <3>3
  <2> QED BY <2>1, <2>2 DEF Waiting
<1>10. Waiting' = {q[k] : k \in DOMAIN q}
  BY <1>3 DEF Waiting
<1>11. (\A k, l \in DOMAIN backlog : backlog[k] = backlog[l] => k = l)'
  BY <1>3, <1>5
<1>12. Head(backlog) \notin Waiting' /\ \A c : c # Head(backlog) => ((c \in Waiting)' <=> c \in Waiting)
  BY <1>8, <1>9, <1>10, ZenonT(30)
<1>13. backlog' \in Seq(Conns) /\ Head(backlog) \in Conns
  BY <1>1, <1>3
<1> QED BY ONLY <1>7, <1>11, <1>12, <1>13

\* What a step of a server leaves true of the queue and of who is attended to.
LEMMA KeepQueue ==
    ASSUME Queue, Apart, ~NoServer', UNCHANGED <<cd, backlog>>, \A c \in Conns : c # cd => Others(c)
    PROVE  Queue'
<1>1. cpc' = cpc /\ sent' = sent /\ fin' = fin
  BY DEF Apart, clientVars
<1>2. Waiting' = Waiting
  BY DEF Waiting
<1>3. ASSUME NEW c \in Conns, cpc'[c] = "new" PROVE Fresh(c)'
  <2>1. Fresh(c)
    BY <1>1, <1>3 DEF Queue
  <2> QED BY <2>1, <1>1, <1>2 DEF Fresh, Others
<1> QED BY <1>1, <1>2, <1>3 DEF Queue

\* The queue when its first is accepted.
LEMMA TakeQueue ==
    ASSUME Queue, Apart, ~NoServer', backlog \in Seq(Conns), backlog # <<>>,
           cd' = Head(backlog), backlog' = Tail(backlog), \A c \in Conns : Others(c)
    PROVE  Queue'
<1>1. cpc' = cpc /\ sent' = sent /\ fin' = fin
  BY DEF Apart, clientVars
<1>2. \A k, l \in DOMAIN backlog : backlog[k] = backlog[l] => k = l
  BY DEF Queue
<1>3. /\ Head(backlog) \in Waiting /\ cd' \notin Waiting'
      /\ \A c : c # Head(backlog) => ((c \in Waiting)' <=> c \in Waiting)
      /\ (\A k, l \in DOMAIN backlog : backlog[k] = backlog[l] => k = l)'
  BY <1>2, TailWaiting
<1>4. ASSUME NEW c \in Conns, cpc'[c] = "new" PROVE Fresh(c)'
  <2>1. Fresh(c)
    BY <1>1, <1>4 DEF Queue
  <2>2. c # Head(backlog)
    BY <2>1, <1>3 DEF Fresh
  <2> QED BY <2>1, <2>2, <1>1, <1>3 DEF Fresh, Others
<1> QED BY <1>1, <1>3, <1>4 DEF Queue

\* Whatever the outcomes, who still waits is still attended to.
LEMMA KeepAttended ==
    ASSUME Attended, Apart, \A c \in Conns : Outcome(c) /\ (rst[c] => rst'[c])
    PROVE  (~signals => \A c \in Conns :
              cpc[c] \notin {"new", "dead"} /\ ~rst[c] /\ ~fin[c] => Live(c))'
<1>1. cpc' = cpc /\ fin' = fin /\ signals' = signals
  BY DEF Apart, clientVars
<1>2. ASSUME ~signals, NEW c \in Conns, cpc[c] \notin {"new", "dead"}, ~rst'[c], ~fin[c] PROVE Live(c)'
  <2>1. Live(c) /\ Outcome(c)
    BY <1>2 DEF Attended
  <2> QED BY <2>1, <1>2 DEF Outcome, Steady, Gone, Cut
<1> QED BY <1>1, <1>2

\* The common types after a step of a server,
LEMMA KeepTypes ==
    ASSUME Common, Apart, backlog' \in Seq(Conns), rst' \in [Conns -> BOOLEAN],
           c2s' \in [Conns -> Words], s2c' \in [Conns -> Words], back' \in [Conns -> Words],
           \A c \in Conns : Len(c2s'[c]) <= UP,
           kind # "sockmap" => \A c \in Conns : Len(s2c'[c]) <= DOWN
    PROVE  Common'
<1>1. /\ cpc' = cpc /\ burst_i' = burst_i /\ tx_bytes' = tx_bytes /\ rx_bytes' = rx_bytes
      /\ sent' = sent /\ printed' = printed /\ fin' = fin /\ told' = told
      /\ kind' = kind /\ signals' = signals
  BY DEF Apart, clientVars
<1>2. EchoTypeOK'
  BY <1>1 DEF Common, EchoTypeOK, Words, Bytes
<1> QED BY <1>1, <1>2 DEF Common

\* and what they say of the connections.
LEMMA CommonTypes ==
    ASSUME Common
    PROVE  /\ c2s \in [Conns -> Words] /\ s2c \in [Conns -> Words] /\ back \in [Conns -> Words]
           /\ rst \in [Conns -> BOOLEAN] /\ fin \in [Conns -> BOOLEAN] /\ backlog \in Seq(Conns)
           /\ \A c \in Conns : Len(c2s[c]) <= UP
           /\ kind # "sockmap" => \A c \in Conns : Len(s2c[c]) <= DOWN
BY DEF Common, EchoTypeOK, Words, Bytes
\* Accepting changes nothing for any connection, the accepted one included.
LEMMA AcceptsSound ==
    ASSUME Common, Queue, Attended, Apart, Accepts
    PROVE  Common' /\ Queue' /\ Attended' /\ \A c \in Conns : Outcome(c)
<1>1. /\ spc = "accept" /\ Serving' /\ ~Serving /\ ~NoServer' /\ spc' # "close" /\ spc' # "exit"
      /\ backlog # <<>> /\ cd' = Head(backlog) /\ backlog' = Tail(backlog)
      /\ c2s' = c2s /\ s2c' = s2c /\ back' = back /\ rst' = rst /\ Hold' = <<>>
  BY DEF Accepts, Serving, NoServer
<1>2. \A k, l \in DOMAIN backlog : backlog[k] = backlog[l] => k = l
  BY DEF Queue
<1>3. /\ Head(backlog) \in Conns /\ Head(backlog) \in Waiting /\ Head(backlog) \notin Waiting'
      /\ \A c : c # Head(backlog) => ((c \in Waiting)' <=> c \in Waiting)
      /\ backlog' \in Seq(Conns)
  BY <1>1, <1>2, CommonTypes, TailWaiting
<1>4. Queue'
  BY <1>1, CommonTypes, TakeQueue DEF Others
<1>5. Common'
  BY <1>1, <1>3, CommonTypes, KeepTypes
<1>6. ASSUME NEW c \in Conns PROVE Outcome(c)
  <2>1. CASE c = Head(backlog)
    <3>1. c # cd
      BY <2>1, <1>3 DEF Queue
    <3>2. HoldOf(c) = <<>> /\ HoldOf(c)' = <<>>
      BY <3>1, <2>1, <1>1 DEF HoldOf
    <3>3. Live(c)' <=> Live(c)
      BY <2>1, <1>1, <1>3 DEF Live
    <3>4. CASE Live(c)
      <4>1. Whole(c)' = Whole(c) /\ UnderWay(c)' = UnderWay(c)
        BY <3>2, <3>3, <3>4, <1>1 DEF Whole, UnderWay
      <4> QED BY <4>1, <3>3, <3>4 DEF Outcome, Steady
    <3>5. CASE ~Live(c)
      BY <3>3, <3>5, <1>1 DEF Outcome, Gone
    <3> QED BY <3>4, <3>5
  <2>2. CASE c # Head(backlog) /\ c = cd
    <3>1. c \notin Waiting /\ c \notin Waiting' /\ c # cd'
      BY <2>2, <1>1, <1>3 DEF Queue
    <3>2. ~Live(c) /\ ~Live(c)'
      BY <3>1, <1>1 DEF Live
    <3> QED BY <3>2, <1>1 DEF Outcome, Gone
  <2>3. CASE c # Head(backlog) /\ c # cd
    BY <2>3, <1>1, <1>3, Outsider DEF Others
  <2> QED BY <2>1, <2>2, <2>3
<1>7. Attended'
  BY <1>1, <1>3, <1>6, KeepAttended DEF Attended
<1> QED BY <1>4, <1>5, <1>6, <1>7

\* A step nobody sees may only lose what a signal or a reset makes it lose.
LEMMA IdlesSound ==
    ASSUME Common, Queue, Attended, Apart, Idles
    PROVE  Common' /\ Queue' /\ Attended' /\ \A c \in Conns : Outcome(c)
<1>1. /\ Serving /\ Serving' /\ ~NoServer' /\ spc' # "close" /\ spc' # "exit"
      /\ cd' = cd /\ cd \in Conns /\ backlog' = backlog
      /\ c2s' = c2s /\ s2c' = s2c /\ back' = back /\ rst' = rst /\ Waiting' = Waiting
      /\ Hold' = Hold \/ (Hold' = <<>> /\ (signals \/ rst[cd]))
  BY DEF Idles, Serving, NoServer, connVars, Attended, Waiting
<1>2. Queue'
  BY <1>1, KeepQueue DEF Others
<1>3. Common'
  BY <1>1, CommonTypes, KeepTypes
<1>4. ASSUME NEW c \in Conns PROVE Outcome(c)
  <2>1. CASE c # cd
    BY <2>1, <1>1, Outsider DEF Others
  <2>2. CASE c = cd
    <3>1. Live(c)' <=> Live(c)
      BY <1>1 DEF Live
    <3>2. CASE ~Live(c)
      BY <3>1, <3>2, <1>1 DEF Outcome, Gone
    <3>3. CASE Live(c) /\ Hold' = Hold
      <4>1. HoldOf(c)' = HoldOf(c)
        BY <3>3, <1>1 DEF HoldOf
      <4>2. Whole(c)' = Whole(c) /\ UnderWay(c)' = UnderWay(c)
        BY <4>1, <3>1, <1>1 DEF Whole, UnderWay
      <4> QED BY <4>2, <3>1, <3>3 DEF Outcome, Steady
    <3>4. CASE Live(c) /\ Hold' = <<>> /\ (signals \/ rst[cd])
      <4>1. signals
        BY <3>4, <2>2 DEF Live
      <4>2. HoldOf(c)' = <<>>
        BY <3>4 DEF HoldOf
      <4> QED BY <4>1, <4>2, <3>1, <3>4, <1>1 DEF Outcome, Cut
    <3> QED BY <3>2, <3>3, <3>4, <1>1
  <2> QED BY <2>1, <2>2
<1>5. Attended'
  BY <1>1, <1>4, KeepAttended DEF Attended
<1> QED BY <1>2, <1>3, <1>4, <1>5

\* A connection that comes to its end had a reason to.
LEMMA EndsSound ==
    ASSUME Common, Queue, Attended, Apart, Ends
    PROVE  Common' /\ Queue' /\ Attended' /\ \A c \in Conns : Outcome(c)
<1>1. /\ Serving /\ ~Serving' /\ spc' = "close" /\ ~NoServer'
      /\ cd' = cd /\ cd \in Conns /\ backlog' = backlog
      /\ c2s' = c2s /\ s2c' = s2c /\ back' = back /\ rst' = rst /\ Waiting' = Waiting
      /\ fin[cd] \/ rst[cd] \/ signals
      /\ fin' = fin /\ signals' = signals
  BY DEF Ends, Serving, NoServer, connVars, Attended, Waiting, Apart
<1>2. Queue'
  BY <1>1, KeepQueue DEF Others
<1>3. Common'
  BY <1>1, CommonTypes, KeepTypes
<1>4. ASSUME NEW c \in Conns PROVE Outcome(c)
  <2>1. CASE c # cd
    BY <2>1, <1>1, Outsider DEF Others
  <2>2. CASE c = cd
    <3>1. ~Live(c)'
      BY <2>2, <1>1 DEF Live, Queue
    <3> QED BY <3>1, <2>2, <1>1 DEF Outcome, Gone
  <2> QED BY <2>1, <2>2
<1>5. Attended'
  BY <1>1, <1>4, KeepAttended DEF Attended
<1> QED BY <1>2, <1>3, <1>4, <1>5

\* Closing hangs up the connection that came to its end.
LEMMA ClosesSound ==
    ASSUME Common, Queue, Attended, Apart, Closes
    PROVE  Common' /\ Queue' /\ Attended' /\ \A c \in Conns : Outcome(c)
<1>1. /\ spc = "close" /\ spc' = "accept" /\ ~Serving /\ ~Serving' /\ ~NoServer'
      /\ cd' = cd /\ cd \in Conns /\ backlog' = backlog
      /\ c2s' = c2s /\ s2c' = s2c /\ back' = back /\ Waiting' = Waiting
      /\ rst' = [c \in Conns |-> rst[c] \/ (c \in {cd} /\ ~fin[c])]
  BY DEF Closes, Serving, NoServer, Attended, Waiting, Hangup
<1>2. Queue'
  BY <1>1, KeepQueue DEF Others
<1>3. rst' \in [Conns -> BOOLEAN]
  BY <1>1, CommonTypes
<1>4. Common'
  BY <1>1, <1>3, CommonTypes, KeepTypes
<1>5. ASSUME NEW c \in Conns PROVE Outcome(c) /\ (rst[c] => rst'[c])
  <2>1. CASE c # cd
    <3>1. rst'[c] = rst[c]
      BY <2>1, <1>1, CommonTypes
    <3> QED BY <3>1, <2>1, <1>1, Outsider DEF Others
  <2>2. CASE c = cd
    <3>1. ~Live(c) /\ ~Live(c)'
      BY <2>2, <1>1 DEF Live, Queue
    <3> QED BY <3>1, <1>1 DEF Outcome, Gone
  <2> QED BY <2>1, <2>2
<1>6. Attended'
  BY <1>1, <1>5, KeepAttended DEF Attended
<1> QED BY <1>2, <1>4, <1>5, <1>6

\* When the process ends every client is hung up.
LEMMA ExitsSound ==
    ASSUME Common, Queue, Attended, Apart, Exits
    PROVE  Common' /\ Queue' /\ Attended' /\ \A c \in Conns : Outcome(c)
<1>1. /\ spc' = "exit" /\ ~Serving' /\ ~NoServer' /\ (kind \in {"splice", "iosubmit"} \/ signals)
      /\ c2s' = c2s /\ s2c' = s2c /\ back' = back
      /\ rst' = [c \in Conns |-> rst[c] \/ (c \in Conns /\ ~fin[c])]
      /\ fin' = fin /\ signals' = signals /\ kind' = kind
  BY DEF Exits, Serving, NoServer, Hangup, Apart
<1>2. rst' \in [Conns -> BOOLEAN]
  BY <1>1, CommonTypes
<1>3. \A c \in Conns : (fin[c] \/ rst'[c]) /\ (rst[c] => rst'[c]) /\ (rst'[c] => rst[c] \/ ~fin[c])
  BY <1>1
<1>4. \A c \in Conns : ~rst'[c] => rst'[c] = rst[c]
  BY <1>1, <1>2, CommonTypes
<1>5. CASE UNCHANGED <<cd, backlog>>
  <2>1. cd' = cd /\ backlog' = backlog /\ Waiting' = Waiting
    BY <1>5 DEF Waiting
  <2>2. Queue'
    BY <2>1, <1>1, KeepQueue DEF Others
  <2>3. Common'
    BY <2>1, <1>1, <1>2, CommonTypes, KeepTypes
  <2>4. ASSUME NEW c \in Conns PROVE Outcome(c)
    <3>1. CASE rst'[c]
      BY <3>1, <1>1, HungUp
    <3>2. CASE ~rst'[c] /\ c # cd
      <4>1. rst'[c] = rst[c]
        BY <3>2, <1>4
      <4> QED BY <4>1, <3>2, <2>1, <1>1, Outsider DEF Others
    <3>3. CASE ~rst'[c] /\ c = cd
      <4>1. ~Live(c)' /\ fin[c]
        BY <3>3, <2>1, <1>1, <1>3 DEF Live, Queue
      <4> QED BY <4>1, <1>1 DEF Outcome, Gone
    <3> QED BY <3>1, <3>2, <3>3
  <2>5. Attended'
    BY <1>1, <1>3, <2>4, KeepAttended DEF Attended
  <2> QED BY <2>2, <2>3, <2>4, <2>5
<1>6. CASE spc = "accept" /\ backlog # <<>> /\ cd' = Head(backlog) /\ backlog' = Tail(backlog)
  <2>1. \A k, l \in DOMAIN backlog : backlog[k] = backlog[l] => k = l
    BY DEF Queue
  <2>2. /\ Head(backlog) \in Conns /\ Head(backlog) \in Waiting /\ Head(backlog) \notin Waiting'
        /\ \A c : c # Head(backlog) => ((c \in Waiting)' <=> c \in Waiting)
        /\ backlog' \in Seq(Conns)
    BY <1>6, <2>1, CommonTypes, TailWaiting
  <2>3. Queue'
    BY <1>1, <1>6, CommonTypes, TakeQueue DEF Others
  <2>4. Common'
    BY <2>2, <1>1, <1>2, CommonTypes, KeepTypes
  <2>5. ~Serving
    BY <1>6 DEF Serving
  <2>6. ASSUME NEW c \in Conns PROVE Outcome(c)
    <3>1. CASE rst'[c]
      BY <3>1, <1>1, HungUp
    <3>2. CASE ~rst'[c] /\ c = Head(backlog)
      <4>1. ~Live(c)' /\ fin[c]
        BY <3>2, <2>2, <1>1, <1>3 DEF Live
      <4> QED BY <4>1, <1>1 DEF Outcome, Gone
    <3>3. CASE ~rst'[c] /\ c # Head(backlog) /\ c = cd
      <4>1. c \notin Waiting /\ c \notin Waiting'
        BY <3>3, <2>2 DEF Queue
      <4>2. ~Live(c) /\ ~Live(c)'
        BY <4>1, <2>5, <1>1 DEF Live
      <4> QED BY <4>2, <1>1 DEF Outcome, Gone
    <3>4. CASE ~rst'[c] /\ c # Head(backlog) /\ c # cd
      <4>1. rst'[c] = rst[c] /\ c # cd'
        BY <3>4, <1>4, <1>6
      <4> QED BY <4>1, <3>4, <2>2, <1>1, Outsider DEF Others
    <3> QED BY <3>1, <3>2, <3>3, <3>4
  <2>7. Attended'
    BY <1>1, <1>3, <2>6, KeepAttended DEF Attended
  <2> QED BY <2>3, <2>4, <2>6, <2>7
<1> QED BY <1>5, <1>6 DEF Exits

\* Before the server listens there are no connections.
LEMMA StartsSound ==
    ASSUME Common, Queue, Attended, Apart, Starts
    PROVE  Common' /\ Queue' /\ Attended' /\ \A c \in Conns : Outcome(c)
<1>1. /\ NoServer /\ cd' = cd /\ cd = NoConn /\ backlog' = backlog /\ backlog = <<>>
      /\ c2s' = c2s /\ s2c' = s2c /\ back' = back /\ Waiting' = Waiting
      /\ \/ NoServer' /\ rst' = rst
         \/ spc' = "accept" /\ rst' \in [Conns -> BOOLEAN]
      /\ \A c \in Conns : cpc[c] \in {"new", "dead"} /\ rst[c] /\ ~told[c]
  BY DEF Starts, Queue, Waiting
<1>2. cpc' = cpc /\ sent' = sent /\ fin' = fin /\ signals' = signals /\ told' = told
  BY DEF Apart, clientVars
<1>3. ~Serving /\ ~Serving' /\ spc' # "close" /\ spc' # "exit" /\ Waiting = {}
  BY <1>1 DEF Serving, NoServer, Waiting
<1>4. Queue'
  <2>1. ASSUME NEW c \in Conns, cpc'[c] = "new" PROVE Fresh(c)'
    BY <2>1, <1>1, <1>2 DEF Queue, Fresh
  <2>2. (NoServer' => backlog' = <<>> /\ cd' = NoConn /\ \A c \in Conns : cpc'[c] \in {"new", "dead"} /\ rst'[c] /\ ~told'[c])
    BY <1>1, <1>2 DEF NoServer
  <2> QED BY <2>1, <2>2, <1>1 DEF Queue
<1>5. Common'
  BY <1>1, CommonTypes, KeepTypes
<1>6. ASSUME NEW c \in Conns PROVE Outcome(c)
  <2>1. ~Live(c) /\ ~Live(c)'
    BY <1>1, <1>3 DEF Live
  <2> QED BY <2>1, <1>1 DEF Outcome, Gone
<1>7. Attended'
  BY <1>1, <1>2, <1>3 DEF Attended
<1> QED BY <1>4, <1>5, <1>6, <1>7

\* Receiving moves bytes from the connection to the server.
LEMMA MovesSound ==
    ASSUME Common, Hold \in Words, Queue, Attended, Apart, Moves
    PROVE  Common' /\ Queue' /\ Attended' /\ \A c \in Conns : Outcome(c)
<1>1. /\ Serving /\ Serving' /\ ~NoServer' /\ spc' # "close" /\ spc' # "exit"
      /\ cd' = cd /\ cd \in Conns /\ backlog' = backlog
      /\ s2c' = s2c /\ back' = back /\ rst' = rst /\ Waiting' = Waiting
  BY DEF Moves, Serving, NoServer, Attended, Waiting
<1> DEFINE x == c2s[cd]
<1>2. PICK k \in 0 .. Len(x) : /\ c2s' = [c2s EXCEPT ![cd] = SubSeq(x, k + 1, Len(x))]
                              /\ Hold' = Hold \o SubSeq(x, 1, k)
  BY DEF Moves
<1> DEFINE y == SubSeq(x, 1, k)
           z == SubSeq(x, k + 1, Len(x))
<1>3. x \in Words
  BY <1>1, CommonTypes
<1> HIDE DEF x
<1>4. /\ y \in Words /\ z \in Words /\ y \o z = x
      /\ Len(y) = k /\ Len(z) = Len(x) - k
  BY <1>3, Split
<1>5. k \in Nat /\ Len(x) \in Nat /\ k <= Len(x)
  BY <1>3, LenProperties DEF Words
<1> HIDE DEF y, z
<1>6. c2s'[cd] = z /\ (\A c \in Conns : c # cd => c2s'[c] = c2s[c]) /\ Hold' = Hold \o y
  BY <1>1, <1>2, CommonTypes DEF y, z
<1>7. Queue'
  BY <1>1, <1>6, KeepQueue DEF Others
<1>8. c2s' \in [Conns -> Words]
  BY <1>2, <1>4, CommonTypes DEF z
<1>9. \A c \in Conns : Len(c2s'[c]) <= UP
  <2>1. Len(x) <= UP
    BY <1>1, CommonTypes DEF x
  <2>2. Len(z) <= UP
    BY <2>1, <1>4, <1>5, EchoAssumption
  <2> QED BY <2>2, <1>6, CommonTypes
<1>10. Common'
  BY <1>1, <1>8, <1>9, CommonTypes, KeepTypes
<1>11. ASSUME NEW c \in Conns PROVE Outcome(c)
  <2>1. CASE c # cd
    BY <2>1, <1>1, <1>6, Outsider DEF Others
  <2>2. CASE c = cd
    <3>1. Live(c)' <=> Live(c)
      BY <1>1 DEF Live
    <3>2. CASE ~Live(c)
      BY <3>1, <3>2, <1>1 DEF Outcome, Gone
    <3>3. CASE Live(c)
      <4>1. Hold' \o z = Hold \o x
        <5>1. (Hold \o y) \o z = Hold \o (y \o z)
          BY ONLY <1>4, Hold \in Words, Regroup
        <5> QED BY <5>1, <1>4, <1>6
      <4>2. Len(z) + Len(Hold') = Len(x) + Len(Hold)
        <5>1. Len(Hold \o y) = Len(Hold) + Len(y) /\ Len(Hold) \in Nat
          BY ONLY <1>4, Hold \in Words, JoinType
        <5> QED BY ONLY <5>1, <1>4, <1>5, <1>6
      <4>3. HoldOf(c) = Hold /\ HoldOf(c)' = Hold' /\ c2s[c] = x /\ c2s'[c] = z
        BY <2>2, <1>1, <1>6 DEF HoldOf, x
      <4>4. Whole(c)' = Whole(c)
        BY <4>1, <4>3, <3>1, <3>3, <1>1 DEF Whole
      <4>5. UnderWay(c)' = UnderWay(c)
        BY <4>2, <4>3, <1>1 DEF UnderWay
      <4> QED BY <4>4, <4>5, <3>1, <3>3 DEF Outcome, Steady
    <3> QED BY <3>2, <3>3
  <2> QED BY <2>1, <2>2
<1>12. Attended'
  BY <1>1, <1>11, KeepAttended DEF Attended
<1> QED BY <1>7, <1>10, <1>11, <1>12

\* Sending moves bytes from the server to the connection.
LEMMA GivesSound ==
    ASSUME Common, Hold \in Words, Queue, Attended, Apart, Gives
    PROVE  /\ Common' /\ Queue' /\ Attended' /\ \A c \in Conns : Outcome(c)
           /\ cd \in Conns /\ Live(cd) /\ Live(cd)' /\ \A c \in Conns : c # cd => back'[c] = back[c]
           /\ back' \in [Conns -> Words] /\ Len(back[cd]) < Len(back'[cd])
<1>1. /\ Serving /\ Serving' /\ ~NoServer' /\ spc' # "close" /\ spc' # "exit" /\ ~rst[cd]
      /\ cd' = cd /\ cd \in Conns /\ backlog' = backlog
      /\ c2s' = c2s /\ rst' = rst /\ Waiting' = Waiting
  BY DEF Gives, Serving, NoServer, Attended, Waiting
<1>2. PICK k \in 1 .. Len(Hold) : /\ kind # "sockmap" => k <= Room(cd)
                                 /\ Given(cd, SubSeq(Hold, 1, k))
                                 /\ Hold' = SubSeq(Hold, k + 1, Len(Hold))
  BY DEF Gives
<1> DEFINE x == SubSeq(Hold, 1, k)
           y == SubSeq(Hold, k + 1, Len(Hold))
<1>3. Len(Hold) \in Nat
  BY LenProperties DEF Words
<1>4. k \in 0 .. Len(Hold) /\ k \in Nat \ {0}
  BY <1>3
<1>5. /\ x \in Words /\ y \in Words /\ x \o y = Hold
      /\ Len(x) = k /\ Len(y) = Len(Hold) - k
  BY <1>4, Split
<1>6. /\ s2c' = [s2c EXCEPT ![cd] = s2c[cd] \o x]
      /\ back' = [back EXCEPT ![cd] = back[cd] \o x]
  BY <1>2 DEF Given
<1> HIDE DEF x
<1>7. /\ s2c'[cd] = s2c[cd] \o x /\ back'[cd] = back[cd] \o x
      /\ \A c \in Conns : c # cd => s2c'[c] = s2c[c] /\ back'[c] = back[c]
      /\ Hold' = y
  BY <1>1, <1>2, <1>6, CommonTypes
<1> HIDE DEF y
<1>8. s2c[cd] \in Words /\ back[cd] \in Words /\ c2s[cd] \in Words
  BY <1>1, CommonTypes
<1>9. /\ s2c[cd] \o x \in Words /\ Len(s2c[cd] \o x) = Len(s2c[cd]) + k /\ Len(s2c[cd]) \in Nat
      /\ back[cd] \o x \in Words /\ Len(back[cd] \o x) = Len(back[cd]) + k /\ Len(back[cd]) \in Nat
  <2>1. s2c[cd] \o x \in Words /\ Len(s2c[cd] \o x) = Len(s2c[cd]) + Len(x) /\ Len(s2c[cd]) \in Nat
    BY ONLY <1>5, <1>8, JoinType
  <2>2. back[cd] \o x \in Words /\ Len(back[cd] \o x) = Len(back[cd]) + Len(x) /\ Len(back[cd]) \in Nat
    BY ONLY <1>5, <1>8, JoinType
  <2> QED BY ONLY <2>1, <2>2, <1>5
<1>10. Queue'
  BY <1>1, <1>7, KeepQueue DEF Others
<1>11. s2c' \in [Conns -> Words] /\ back' \in [Conns -> Words]
  BY <1>6, <1>9, CommonTypes
<1>12. kind # "sockmap" => \A c \in Conns : Len(s2c'[c]) <= DOWN
  <2>1. kind # "sockmap" => Len(s2c'[cd]) <= DOWN
    BY <1>2, <1>4, <1>7, <1>9, EchoAssumption DEF Room
  <2> QED BY <2>1, <1>7, CommonTypes
<1>13. Common'
  BY <1>1, <1>11, <1>12, CommonTypes, KeepTypes
<1>14. Live(cd) /\ Live(cd)'
  BY <1>1 DEF Live
<1>15. Outcome(cd)
  <2>1. HoldOf(cd) = Hold /\ HoldOf(cd)' = y
    BY <1>1, <1>7 DEF HoldOf
  <2>2. (back[cd] \o x) \o (y \o c2s[cd]) = back[cd] \o (Hold \o c2s[cd])
    <3> DEFINE u == y \o c2s[cd]
               v == back[cd]
    <3>1. u \in Words /\ v \in Words
      BY ONLY <1>5, <1>8, JoinType
    <3> HIDE DEF u, v
    <3>2. (v \o x) \o u = v \o (x \o u)
      <4>1. x \in Words
        BY <1>5
      <4> QED BY ONLY <3>1, <4>1, Regroup
    <3>3. (x \o y) \o c2s[cd] = x \o (y \o c2s[cd])
      <4> DEFINE z == c2s[cd]
      <4>1. x \in Words /\ y \in Words /\ z \in Words
        BY <1>5, <1>8
      <4> HIDE DEF z
      <4>2. (x \o y) \o z = x \o (y \o z)
        BY ONLY <4>1, Regroup
      <4> QED BY <4>2 DEF z
    <3> QED BY <3>2, <3>3, <1>5 DEF u, v
  <2>3. Whole(cd)' = (back[cd] \o x) \o (y \o c2s[cd])
    <3>1. Whole(cd)' = back'[cd'] \o (HoldOf(cd)' \o c2s'[cd'])
      BY <1>14 DEF Whole
    <3> QED BY <3>1, <2>1, <1>1, <1>7
  <2>4. Whole(cd) = back[cd] \o (Hold \o c2s[cd])
    BY <1>14, <2>1 DEF Whole
  <2>5. UnderWay(cd)' = UnderWay(cd)
    <3>1. UnderWay(cd)' = Len(c2s[cd]) + Len(y) + Len(s2c[cd] \o x)
      BY <2>1, <1>1, <1>7 DEF UnderWay
    <3>2. UnderWay(cd) = Len(c2s[cd]) + Len(Hold) + Len(s2c[cd])
      BY <2>1 DEF UnderWay
    <3>3. PICK i \in Nat, j \in Nat, l \in Nat : Len(c2s[cd]) = i /\ Len(Hold) = j /\ Len(s2c[cd]) = l
      BY <1>3, <1>8, <1>9, LenProperties DEF Words
    <3>4. Len(y) = j - k /\ Len(s2c[cd] \o x) = l + k
      BY <3>3, <1>5, <1>9
    <3>5. i + (j - k) + (l + k) = i + j + l
      BY ONLY <1>4, i \in Nat, j \in Nat, l \in Nat, k \in Nat
    <3> QED BY <3>1, <3>2, <3>3, <3>4, <3>5
  <2> QED BY <2>2, <2>3, <2>4, <2>5, <1>14 DEF Outcome, Steady
<1>16. ASSUME NEW c \in Conns PROVE Outcome(c)
  <2>1. CASE c # cd
    BY <2>1, <1>1, <1>7, Outsider DEF Others
  <2> QED BY <2>1, <1>15
<1>17. Attended'
  BY <1>1, <1>16, KeepAttended DEF Attended
<1>18. Len(back[cd]) < Len(back'[cd])
  BY <1>4, <1>7, <1>9
<1> QED BY <1>1, <1>7, <1>10, <1>11, <1>13, <1>14, <1>16, <1>17, <1>18

\* What any step of a server is.
ServerEffect ==
    Apart /\ (Accepts \/ Moves \/ Gives \/ Idles \/ Ends \/ Closes \/ Exits \/ Starts)
\* All kinds of steps are sound.
LEMMA EffectSound ==
    ASSUME Common, Hold \in Words, Queue, Attended, ServerEffect
    PROVE  Common' /\ Queue' /\ Attended' /\ \A c \in Conns : Outcome(c)
BY AcceptsSound, MovesSound, GivesSound, IdlesSound, EndsSound, ClosesSound, ExitsSound, StartsSound
   DEF ServerEffect

-----------------------------------------------------------------------------
(* The bytes the servers hold *)

\* The part of a word from after position i to position j, and how it is cut.
LEMMA Middle ==
    ASSUME NEW x \in Words, NEW j \in 0 .. Len(x), NEW i \in 0 .. j
    PROVE  /\ SubSeq(x, i + 1, j) \in Words /\ Len(SubSeq(x, i + 1, j)) = j - i
           /\ \A k \in 0 .. j - i :
                /\ SubSeq(SubSeq(x, i + 1, j), 1, k) = SubSeq(x, i + 1, i + k)
                /\ SubSeq(SubSeq(x, i + 1, j), k + 1, j - i) = SubSeq(x, i + k + 1, j)
<1> DEFINE y == SubSeq(x, i + 1, j)
<1>1. Len(x) \in Nat /\ i \in Nat /\ j \in Nat /\ i <= j /\ j <= Len(x)
      /\ \A l \in 1 .. Len(x) : x[l] \in Bytes
  BY LenProperties, ElementOfSeq DEF Words
<1>2. \A p \in 1 .. Len(x) + 1, q \in 0 .. Len(x) :
        /\ SubSeq(x, p, q) \in Words
        /\ Len(SubSeq(x, p, q)) = IF p <= q THEN q - p + 1 ELSE 0
        /\ \A l \in 1 .. q - p + 1 : SubSeq(x, p, q)[l] = x[p + l - 1]
  <2> TAKE p \in 1 .. Len(x) + 1, q \in 0 .. Len(x)
  <2>1. p \in Int /\ q \in Int /\ \A l \in p .. q : x[l] \in Bytes
    BY <1>1
  <2> QED BY ONLY <2>1, SubSeqProperties DEF Words
<1>3. /\ y \in Words /\ Len(y) = j - i
      /\ \A l \in 1 .. j - i : y[l] = x[i + l]
  <2>1. i + 1 \in 1 .. Len(x) + 1 /\ j \in 0 .. Len(x) /\ j - (i + 1) + 1 = j - i
    BY <1>1
  <2>2. Len(y) = IF i + 1 <= j THEN j - i ELSE 0
    BY <1>2, <2>1
  <2>3. Len(y) = j - i
    BY <2>2, <1>1
  <2>4. ASSUME NEW l \in 1 .. j - i PROVE y[l] = x[i + l]
    <3>1. y[l] = x[i + 1 + l - 1] /\ i + 1 + l - 1 = i + l
      BY <1>1, <1>2, <2>1
    <3> QED BY <3>1
  <2> QED BY <1>2, <2>1, <2>3, <2>4
<1> HIDE DEF y
<1>4. \A p \in 1 .. Len(y) + 1, q \in 0 .. Len(y) :
        /\ SubSeq(y, p, q) \in Words
        /\ Len(SubSeq(y, p, q)) = IF p <= q THEN q - p + 1 ELSE 0
        /\ \A l \in 1 .. q - p + 1 : SubSeq(y, p, q)[l] = y[p + l - 1]
  <2> TAKE p \in 1 .. Len(y) + 1, q \in 0 .. Len(y)
  <2>1. Len(y) \in Nat /\ \A l \in 1 .. Len(y) : y[l] \in Bytes
    BY <1>3, LenProperties, ElementOfSeq DEF Words
  <2>2. p \in Int /\ q \in Int /\ \A l \in p .. q : y[l] \in Bytes
    BY <2>1
  <2> QED BY ONLY <2>2, SubSeqProperties DEF Words
<1>5. ASSUME NEW k \in 0 .. j - i
      PROVE  /\ SubSeq(y, 1, k) = SubSeq(x, i + 1, i + k)
             /\ SubSeq(y, k + 1, j - i) = SubSeq(x, i + k + 1, j)
  <2> DEFINE a == SubSeq(y, 1, k)
             b == SubSeq(x, i + 1, i + k)
             d == SubSeq(y, k + 1, j - i)
             e == SubSeq(x, i + k + 1, j)
  <2>1. k \in Nat /\ k <= j - i /\ k <= Len(y) /\ Len(y) = j - i
    BY <1>1, <1>3
  <2>2. a \in Words /\ Len(a) = k /\ \A l \in 1 .. k : a[l] = x[i + l]
    <3>1. 1 \in 1 .. Len(y) + 1 /\ k \in 0 .. Len(y) /\ k - 1 + 1 = k
      BY <2>1, <1>1
    <3>2. a \in Words /\ Len(a) = (IF 1 <= k THEN k ELSE 0) /\ \A l \in 1 .. k : a[l] = y[1 + l - 1]
      BY <3>1, <1>4
    <3>3. Len(a) = k
      BY <3>2, <2>1
    <3>4. ASSUME NEW l \in 1 .. k PROVE a[l] = x[i + l]
      <4>1. 1 + l - 1 = l /\ l \in 1 .. j - i
        BY <2>1, <1>1
      <4> QED BY <4>1, <3>2, <1>3
    <3> QED BY <3>2, <3>3, <3>4
  <2>3. b \in Words /\ Len(b) = k /\ \A l \in 1 .. k : b[l] = x[i + l]
    <3>1. i + 1 \in 1 .. Len(x) + 1 /\ i + k \in 0 .. Len(x) /\ i + k - (i + 1) + 1 = k
      BY <2>1, <1>1
    <3>2. b \in Words /\ Len(b) = (IF i + 1 <= i + k THEN k ELSE 0)
          /\ \A l \in 1 .. k : b[l] = x[i + 1 + l - 1]
      BY <3>1, <1>2
    <3>3. Len(b) = k
      BY <3>2, <2>1, <1>1
    <3>4. ASSUME NEW l \in 1 .. k PROVE b[l] = x[i + l]
      <4>1. i + 1 + l - 1 = i + l
        BY <2>1, <1>1
      <4> QED BY <4>1, <3>2
    <3> QED BY <3>2, <3>3, <3>4
  <2>4. d \in Words /\ Len(d) = j - i - k /\ \A l \in 1 .. j - i - k : d[l] = x[i + k + l]
    <3>1. k + 1 \in 1 .. Len(y) + 1 /\ j - i \in 0 .. Len(y) /\ j - i - (k + 1) + 1 = j - i - k
      BY <2>1, <1>1
    <3>2. d \in Words /\ Len(d) = (IF k + 1 <= j - i THEN j - i - k ELSE 0)
          /\ \A l \in 1 .. j - i - k : d[l] = y[k + 1 + l - 1]
      BY <3>1, <1>4
    <3>3. Len(d) = j - i - k
      BY <3>2, <2>1, <1>1
    <3>4. ASSUME NEW l \in 1 .. j - i - k PROVE d[l] = x[i + k + l]
      <4>1. k + 1 + l - 1 = k + l /\ k + l \in 1 .. j - i /\ i + (k + l) = i + k + l
        BY <2>1, <1>1
      <4>2. d[l] = y[k + l] /\ y[k + l] = x[i + (k + l)]
        BY <4>1, <3>2, <1>3
      <4> QED BY <4>1, <4>2
    <3> QED BY <3>2, <3>3, <3>4
  <2>5. e \in Words /\ Len(e) = j - i - k /\ \A l \in 1 .. j - i - k : e[l] = x[i + k + l]
    <3>1. i + k + 1 \in 1 .. Len(x) + 1 /\ j \in 0 .. Len(x) /\ j - (i + k + 1) + 1 = j - i - k
      BY <2>1, <1>1
    <3>2. e \in Words /\ Len(e) = (IF i + k + 1 <= j THEN j - i - k ELSE 0)
          /\ \A l \in 1 .. j - i - k : e[l] = x[i + k + 1 + l - 1]
      BY <3>1, <1>2
    <3>3. Len(e) = j - i - k
      BY <3>2, <2>1, <1>1
    <3>4. ASSUME NEW l \in 1 .. j - i - k PROVE e[l] = x[i + k + l]
      <4>1. i + k + 1 + l - 1 = i + k + l
        BY <2>1, <1>1
      <4> QED BY <4>1, <3>2
    <3> QED BY <3>2, <3>3, <3>4
  <2> HIDE DEF a, b, d, e
  <2>6. a = b
    <3>1. a \in Seq(Bytes) /\ b \in Seq(Bytes) /\ Len(a) = Len(b) /\ \A l \in 1 .. Len(a) : a[l] = b[l]
      BY <2>2, <2>3 DEF Words
    <3> QED BY ONLY <3>1, SeqEqual
  <2>7. d = e
    <3>1. d \in Seq(Bytes) /\ e \in Seq(Bytes) /\ Len(d) = Len(e) /\ \A l \in 1 .. Len(d) : d[l] = e[l]
      BY <2>4, <2>5 DEF Words
    <3> QED BY ONLY <3>1, SeqEqual
  <2> QED BY <2>6, <2>7 DEF a, b, d, e
<1> QED BY <1>3, <1>5 DEF y

\* All of a word is the word, and what follows is nothing.
LEMMA AllOf ==
    ASSUME NEW x \in Words
    PROVE  SubSeq(x, 1, Len(x)) = x /\ SubSeq(x, Len(x) + 1, Len(x)) = <<>>
<1> DEFINE y == SubSeq(x, 1, Len(x))
           z == SubSeq(x, Len(x) + 1, Len(x))
<1>1. Len(x) \in Nat /\ Len(x) \in 0 .. Len(x)
  BY LenProperties DEF Words
<1>2. y \in Words /\ y \o z = x
  BY <1>1, Split
<1>3. z = <<>>
  BY <1>1, SubSeqEmpty
<1> HIDE DEF y, z
<1>4. y \o <<>> = y
  BY <1>2, Nothing
<1> QED BY <1>2, <1>3, <1>4 DEF y, z

\* What a receive brings is the first of what has arrived.
LEMMA ReceivedFirst ==
    ASSUME NEW x \in Words, NEW max \in Nat,
           NEW bytes \in {SubSeq(x, 1, i) : i \in {j \in 1 .. Len(x) : j <= max}}
    PROVE  /\ bytes \in Words /\ Len(bytes) \in 1 .. Len(x) /\ Len(bytes) <= max
           /\ bytes = SubSeq(x, 1, Len(bytes))
<1>1. PICK i \in 1 .. Len(x) : i <= max /\ bytes = SubSeq(x, 1, i)
  OBVIOUS
<1>2. Len(x) \in Nat /\ i \in 0 .. Len(x)
  BY LenProperties DEF Words
<1>3. bytes \in Words /\ Len(bytes) = i
  BY <1>1, <1>2, Split
<1> QED BY <1>1, <1>3

\* What a server holds are bytes it received.
LEMMA HoldType == TypeOK /\ Inner => Hold \in Words
<1> SUFFICES ASSUME TypeOK, Inner PROVE Hold \in Words
  OBVIOUS
<1>1. CASE kind = "naive"
  <2>1. buf \in Words /\ m \in 0 .. Len(buf) /\ Len(buf) \in Nat
    BY <1>1, LenProperties DEF TypeOK, Naive!ServerTypeOK, Words, Bytes
  <2>2. Len(buf) \in 0 .. Len(buf)
    BY <2>1
  <2>3. SubSeq(buf, m + 1, Len(buf)) \in Words
    BY <2>1, <2>2, Middle
  <2> QED BY <2>3, <1>1, Nothing DEF Hold
<1>2. CASE kind = "splice"
  <2>1. pipe \in Words
    BY <1>2 DEF TypeOK, Splice!ServerTypeOK, Words, Bytes
  <2> QED BY <2>1, <1>2, Nothing DEF Hold
<1>3. CASE kind = "iosubmit"
  <2>1. buf \in Words /\ m \in 0 .. nbytes /\ nbytes \in Nat /\ Len(buf) \in Nat
    BY <1>3, LenProperties, EchoAssumption DEF TypeOK, Iosubmit!ServerTypeOK, Words, Bytes
  <2>2. CASE spc = "write"
    <3>1. nbytes \in 0 .. Len(buf)
      BY <2>1, <2>2, <1>3 DEF Inner
    <3>2. SubSeq(buf, m + 1, nbytes) \in Words
      BY <2>1, <3>1, Middle
    <3> QED BY <3>2, <2>2, <1>3 DEF Hold
  <2>3. CASE spc # "write"
    BY <2>1, <2>3, <1>3, Nothing DEF Hold
  <2> QED BY <2>2, <2>3
<1>4. CASE kind = "sockmap"
  <2>1. flight \in Words
    BY <1>4 DEF TypeOK, Sockmap!ServerTypeOK, Words, Bytes
  <2> QED BY <2>1, <1>4, Nothing DEF Hold
<1> QED BY <1>1, <1>2, <1>3, <1>4 DEF Inner

-----------------------------------------------------------------------------
(* Every step of every server is of one of these kinds *)
\* net_bind_tcp starts the server, or not.
LEMMA ListenEffect ==
    ASSUME TypeOK, Inner, Queue, Listen, UNCHANGED <<kind, signals>>
    PROVE  ServerEffect /\ Inner' /\ (Common' => TypeOK')
<1>1. /\ spc = "start" /\ spc' \in {"accept", "abort"} /\ NoServer
      /\ spc' = "accept" \/ (NoServer' /\ rst' = rst)
      /\ spc' = "accept" => rst' = [c \in Conns |-> FALSE]
      /\ c2s' = c2s /\ s2c' = s2c /\ back' = back /\ backlog' = backlog /\ cd' = cd
      /\ UNCHANGED <<bufVars, aioVars, pipeVars, mapVars>>
  BY DEF Listen, Listening, NoServer
<1>2. Apart
  BY DEF Listen, Apart
<1>3. Starts
  BY <1>1 DEF Starts
<1>4. Inner'
  BY <1>1 DEF Inner, NoServer, bufVars, aioVars, pipeVars, mapVars, Listen
<1>5. Common' => TypeOK'
  BY <1>1, <1>2 DEF TypeOK, Common, Apart, Inner, bufVars, aioVars, pipeVars, mapVars,
       Naive!ServerTypeOK, Splice!ServerTypeOK, Iosubmit!ServerTypeOK, Sockmap!ServerTypeOK, NoServer
<1> QED BY <1>2, <1>3, <1>4, <1>5 DEF ServerEffect

\* Every step of echo-naive.
LEMMA NaiveEffect ==
    ASSUME TypeOK, Inner, Queue, Attended, kind = "naive", Naive!ServerNext,
           UNCHANGED <<kind, signals, aioVars, pipeVars, mapVars>>
    PROVE  ServerEffect /\ Inner' /\ (Common' => TypeOK')
<1> USE DEF Naive!echoVars, Naive!clientVars, Naive!connVars
<1>1. /\ buf \in Words /\ m \in 0 .. Len(buf) /\ Len(buf) \in Nat
      /\ cd \in Conns \cup {NoConn} /\ c2s \in [Conns -> Words]
  <2>1. buf \in Words /\ m \in 0 .. Len(buf) /\ cd \in Conns \cup {NoConn} /\ c2s \in [Conns -> Words]
    BY DEF TypeOK, EchoTypeOK, Naive!ServerTypeOK, Words, Bytes
  <2> QED BY <2>1, LenProperties DEF Words
<1>2. Inner'
  BY DEF Inner
<1>3. ASSUME /\ spc' \in {"accept", "recv", "send", "close", "exit"}
             /\ cd' \in Conns \cup {NoConn} /\ buf' \in Words /\ m' \in 0 .. Len(buf')
      PROVE  Common' => TypeOK'
  BY <1>3 DEF TypeOK, Common, Naive!ServerTypeOK, Words, Bytes
<1>4. Hold = (IF spc = "send" THEN SubSeq(buf, m + 1, Len(buf)) ELSE <<>>)
  BY DEF Hold
<1>5. Hold' = (IF spc' = "send" THEN SubSeq(buf', m' + 1, Len(buf')) ELSE <<>>)
  BY DEF Hold
<1>6. Serving => cd \in Conns
  BY DEF Attended
<1>7. CASE Naive!Accept
  <2>1. Apart /\ Accepts
    BY <1>5, <1>7 DEF Naive!Accept, Apart, Accepts, Serving, clientVars
  <2>2. cd' \in Conns
    <3>1. backlog \in Seq(Conns) /\ backlog # <<>> /\ cd' = Head(backlog)
      BY <1>7 DEF Naive!Accept, TypeOK, EchoTypeOK
    <3> QED BY <3>1, HeadTailProperties
  <2>3. Common' => TypeOK'
    BY <2>2, <1>1, <1>3, <1>7 DEF Naive!Accept
  <2> QED BY <2>1, <2>3, <1>2 DEF ServerEffect
<1>8. CASE Naive!Recv
  <2>1. cd \in Conns
    BY <1>6, <1>8 DEF Naive!Recv, Serving
  <2>2. PICK bytes \in {SubSeq(c2s[cd], 1, i) : i \in {j \in 1 .. Len(c2s[cd]) : j <= BUFFER_SIZE}} :
           buf' = bytes /\ c2s' = [c2s EXCEPT ![cd] = SubSeq(c2s[cd], Len(bytes) + 1, Len(c2s[cd]))]
    BY <1>8 DEF Naive!Recv, Naive!Received, Naive!Taken
  <2>3. /\ bytes \in Words /\ Len(bytes) \in 1 .. Len(c2s[cd])
        /\ bytes = SubSeq(c2s[cd], 1, Len(bytes))
    <3>1. c2s[cd] \in Words /\ BUFFER_SIZE \in Nat
      BY <1>1, <2>1, EchoAssumption
    <3> QED BY <3>1, ReceivedFirst
  <2>4. m' = 0 /\ Len(bytes) \in Nat /\ Len(bytes) \in 0 .. Len(c2s[cd]) /\ Len(bytes) \in 0 .. Len(bytes)
    <3>1. m' = 0 /\ Len(c2s[cd]) \in Nat
      BY <1>1, <1>8, <2>1, LenProperties DEF Naive!Recv, Words
    <3>2. PICK i \in Nat, j \in Nat : Len(bytes) = i /\ Len(c2s[cd]) = j
      BY <3>1, <2>3, LenProperties DEF Words
    <3>3. i \in 1 .. j
      BY ONLY <3>2, <2>3
    <3>4. i \in 0 .. j /\ i \in 0 .. i
      BY ONLY <3>3, i \in Nat, j \in Nat
    <3> QED BY ONLY <3>1, <3>2, <3>4
  <2>5. Hold = <<>> /\ Hold' = bytes
    <3>1. Hold = <<>> /\ Hold' = SubSeq(bytes, 1, Len(bytes))
      BY <1>4, <1>5, <1>8, <2>2, <2>4 DEF Naive!Recv
    <3> QED BY ONLY <3>1, <2>3, AllOf
  <2>6. Apart /\ Moves
    <3>1. Hold' = Hold \o SubSeq(c2s[cd], 1, Len(bytes))
      BY <2>3, <2>5, Nothing
    <3>2. Apart /\ Serving /\ Serving' /\ UNCHANGED <<cd, backlog, s2c, back, rst>>
      BY <1>8 DEF Naive!Recv, Apart, Serving, clientVars
    <3> QED BY <3>1, <3>2, <2>2, <2>4 DEF Moves
  <2>7. Common' => TypeOK'
    <3>1. spc' = "send" /\ cd' = cd /\ buf' = bytes
      BY <1>8, <2>2 DEF Naive!Recv
    <3>2. buf' \in Words /\ m' \in 0 .. Len(buf')
      <4>1. 0 \in 0 .. Len(bytes)
        BY ONLY <2>4
      <4> QED BY ONLY <3>1, <2>3, <2>4, <4>1
    <3> QED BY <3>1, <3>2, <1>1, <1>3
  <2> QED BY <2>6, <2>7, <1>2 DEF ServerEffect
<1>9. CASE Naive!RecvEnd
  <2>1. Apart /\ Ends
    BY <1>9 DEF Naive!RecvEnd, Naive!AtEnd, Apart, Ends, Serving, clientVars, connVars
  <2>2. Common' => TypeOK'
    BY <1>1, <1>3, <1>9 DEF Naive!RecvEnd
  <2> QED BY <2>1, <2>2, <1>2 DEF ServerEffect
<1>10. CASE Naive!Send
  <2> DEFINE L == Len(buf)
  <2>1. cd \in Conns /\ ~rst[cd] /\ spc = "send"
    BY <1>6, <1>10 DEF Naive!Send, Serving
  <2>2. PICK k \in 1 .. L - m :
          /\ k <= Room(cd) /\ Given(cd, SubSeq(buf, m + 1, m + k))
          /\ m' = m + k
    BY <1>10 DEF Naive!Send, Naive!Given, Naive!Room, Given, Room
  <2>3. buf' = buf /\ spc' = IF m' = L THEN "recv" ELSE "send"
    BY <1>10 DEF Naive!Send
  <2>4. /\ L \in 0 .. L /\ m \in 0 .. L /\ k \in 0 .. L - m /\ m + k \in 0 .. L /\ k \in 1 .. L - m
        /\ m \in Nat /\ L \in Nat /\ k \in Nat
    BY <1>1
  <2>5. /\ SubSeq(buf, m + 1, L) \in Words /\ Len(SubSeq(buf, m + 1, L)) = L - m
        /\ SubSeq(SubSeq(buf, m + 1, L), 1, k) = SubSeq(buf, m + 1, m + k)
        /\ SubSeq(SubSeq(buf, m + 1, L), k + 1, L - m) = SubSeq(buf, m + k + 1, L)
    <3> HIDE DEF L
    <3> QED BY <2>4, <1>1, Middle DEF L
  <2>6. Hold = SubSeq(buf, m + 1, L)
    BY <2>1, <1>4
  <2>7. Hold' = SubSeq(buf, m + k + 1, L)
    <3>1. CASE m' = L
      <4>1. SubSeq(buf, m + k + 1, L) = <<>> /\ Hold' = <<>>
        <5>1. m + k + 1 \in Int /\ L \in Int /\ L < m + k + 1
          BY <3>1, <2>2, <2>4
        <5>2. Hold' = <<>>
          BY <3>1, <2>3, <1>5
        <5> QED BY <5>1, <5>2, SubSeqEmpty
      <4> QED BY <4>1
    <3>2. CASE m' # L
      BY <3>2, <2>2, <2>3, <1>5
    <3> QED BY <3>1, <3>2
  <2>8. Apart /\ Gives
    <3>1. Apart /\ Serving /\ Serving' /\ UNCHANGED <<cd, backlog, c2s, rst>>
      BY <1>10, <2>3 DEF Naive!Send, Apart, Serving, clientVars
    <3>2. k \in 1 .. Len(Hold) /\ SubSeq(Hold, 1, k) = SubSeq(buf, m + 1, m + k)
          /\ Hold' = SubSeq(Hold, k + 1, Len(Hold))
      BY <2>4, <2>5, <2>6, <2>7
    <3>3. /\ kind # "sockmap" => k <= Room(cd)
          /\ Given(cd, SubSeq(Hold, 1, k))
      BY <3>2, <2>2
    <3> QED BY <3>1, <3>2, <3>3, <2>1 DEF Gives
  <2>9. Common' => TypeOK'
    <3>1. cd' = cd /\ spc' \in {"recv", "send"} /\ m' \in 0 .. Len(buf')
      BY <1>10, <2>2, <2>3, <2>4 DEF Naive!Send
    <3> QED BY <3>1, <2>3, <1>1, <1>3
  <2> QED BY <2>8, <2>9, <1>2 DEF ServerEffect
<1>11. CASE Naive!SendReset
  <2>1. Apart /\ Ends
    BY <1>11 DEF Naive!SendReset, Apart, Ends, Serving, clientVars, connVars
  <2>2. Common' => TypeOK'
    BY <1>1, <1>3, <1>11 DEF Naive!SendReset
  <2> QED BY <2>1, <2>2, <1>2 DEF ServerEffect
<1>12. CASE Naive!SendInterrupted
  <2>1. Apart /\ Idles
    BY <1>5, <1>12 DEF Naive!SendInterrupted, Apart, Idles, Serving, clientVars, connVars
  <2>2. Common' => TypeOK'
    BY <1>1, <1>3, <1>12 DEF Naive!SendInterrupted
  <2> QED BY <2>1, <2>2, <1>2 DEF ServerEffect
<1>13. CASE Naive!SendShort
  <2>1. Apart /\ Exits
    BY <1>13 DEF Naive!SendShort, Naive!Hangup, Hangup, Apart, Exits, Serving, clientVars
  <2>2. Common' => TypeOK'
    BY <1>1, <1>3, <1>13 DEF Naive!SendShort
  <2> QED BY <2>1, <2>2, <1>2 DEF ServerEffect
<1>14. CASE Naive!Close
  <2>1. Apart /\ Closes
    BY <1>14 DEF Naive!Close, Naive!Hangup, Hangup, Apart, Closes, clientVars
  <2>2. Common' => TypeOK'
    BY <1>1, <1>3, <1>14 DEF Naive!Close
  <2> QED BY <2>1, <2>2, <1>2 DEF ServerEffect
<1> QED BY <1>7, <1>8, <1>9, <1>10, <1>11, <1>12, <1>13, <1>14 DEF Naive!ServerNext

\* Every step of echo-splice.
LEMMA SpliceEffect ==
    ASSUME TypeOK, Inner, Queue, Attended, kind = "splice", Splice!ServerNext,
           UNCHANGED <<kind, signals, bufVars, aioVars, mapVars>>
    PROVE  ServerEffect /\ Inner' /\ (Common' => TypeOK')
<1> USE DEF Splice!echoVars, Splice!clientVars, Splice!connVars
<1>1. /\ pipe \in Words /\ Len(pipe) \in Nat /\ Len(pipe) <= SPLICE_MAX
      /\ n \in 0 .. SPLICE_MAX /\ pipes \in 0 .. MaxPipes /\ SPLICE_MAX \in Nat /\ MaxPipes \in Nat
      /\ cd \in Conns \cup {NoConn} /\ c2s \in [Conns -> Words]
  <2>1. /\ pipe \in Words /\ Len(pipe) <= SPLICE_MAX /\ n \in 0 .. SPLICE_MAX /\ pipes \in 0 .. MaxPipes
        /\ cd \in Conns \cup {NoConn} /\ c2s \in [Conns -> Words]
    BY DEF TypeOK, EchoTypeOK, Splice!ServerTypeOK, Words, Bytes
  <2> QED BY <2>1, LenProperties, ServersAssumption DEF Words
<1>2. ASSUME spc' = "in" => pipe' = <<>> PROVE Inner'
  BY <1>2 DEF Inner
<1>3. ASSUME /\ spc' \in {"accept", "in", "out", "close", "exit"}
             /\ cd' \in Conns \cup {NoConn} /\ pipe' \in Words /\ Len(pipe') <= SPLICE_MAX
             /\ n' \in 0 .. SPLICE_MAX /\ pipes' \in 0 .. MaxPipes
      PROVE  Common' => TypeOK'
  BY <1>3 DEF TypeOK, Common, Splice!ServerTypeOK, Words, Bytes
<1>4. Hold = (IF spc = "out" THEN pipe ELSE <<>>)
  BY DEF Hold
<1>5. Hold' = (IF spc' = "out" THEN pipe' ELSE <<>>)
  BY DEF Hold
<1>6. Serving => cd \in Conns
  BY DEF Attended
<1>7. CASE Splice!Accept
  <2>1. cd' \in Conns
    <3>1. backlog \in Seq(Conns) /\ backlog # <<>> /\ cd' = Head(backlog)
      BY <1>7 DEF Splice!Accept, TypeOK, EchoTypeOK
    <3> QED BY <3>1, HeadTailProperties
  <2>2. CASE pipes > 0
    <3>1. Apart /\ Accepts
      BY <1>5, <1>7, <2>2 DEF Splice!Accept, Apart, Accepts, Serving, clientVars
    <3>2. spc' = "in" /\ pipe' = <<>> /\ pipes' = pipes - 1 /\ n' = n
      BY <1>7, <2>2 DEF Splice!Accept
    <3>3. pipes' \in 0 .. MaxPipes /\ pipe' \in Words /\ Len(pipe') <= SPLICE_MAX
      BY <3>2, <2>2, <1>1, Nothing
    <3> QED BY <3>1, <3>2, <3>3, <2>1, <1>1, <1>2, <1>3 DEF ServerEffect
  <2>3. CASE ~(pipes > 0)
    <3>1. Apart /\ Exits
      BY <1>7, <2>3 DEF Splice!Accept, Splice!Hangup, Hangup, Apart, Exits, Serving, clientVars
    <3>2. spc' = "exit" /\ pipe' = pipe /\ pipes' = pipes /\ n' = n
      BY <1>7, <2>3 DEF Splice!Accept
    <3> QED BY <3>1, <3>2, <2>1, <1>1, <1>2, <1>3 DEF ServerEffect
  <2> QED BY <2>2, <2>3
<1>8. CASE Splice!SpliceIn
  <2>1. cd \in Conns /\ spc = "in" /\ spc' = "out" /\ pipe = <<>>
    BY <1>6, <1>8 DEF Splice!SpliceIn, Serving, Inner
  <2>2. PICK bytes \in {SubSeq(c2s[cd], 1, i) : i \in {j \in 1 .. Len(c2s[cd]) : j <= SPLICE_MAX}} :
           /\ pipe' = pipe \o bytes /\ n' = Len(bytes)
           /\ c2s' = [c2s EXCEPT ![cd] = SubSeq(c2s[cd], Len(bytes) + 1, Len(c2s[cd]))]
    BY <1>8 DEF Splice!SpliceIn, Splice!Received, Splice!Taken
  <2>3. /\ bytes \in Words /\ Len(bytes) \in 1 .. Len(c2s[cd]) /\ Len(bytes) <= SPLICE_MAX
        /\ bytes = SubSeq(c2s[cd], 1, Len(bytes))
    <3>1. c2s[cd] \in Words /\ SPLICE_MAX \in Nat
      BY <1>1, <2>1
    <3> QED BY <3>1, <2>2, ReceivedFirst
  <2>4. Len(bytes) \in 0 .. Len(c2s[cd]) /\ Len(bytes) \in 0 .. SPLICE_MAX
    <3>1. PICK i \in Nat, j \in Nat : Len(bytes) = i /\ Len(c2s[cd]) = j
      BY <1>1, <2>1, <2>3, LenProperties DEF Words
    <3>2. i \in 1 .. j /\ i <= SPLICE_MAX
      BY ONLY <3>1, <2>3
    <3>3. i \in 0 .. j /\ i \in 0 .. SPLICE_MAX
      BY ONLY <3>2, i \in Nat, j \in Nat, <1>1
    <3> QED BY ONLY <3>1, <3>3
  <2>5. pipe' = bytes /\ Hold = <<>> /\ Hold' = bytes
    BY <2>1, <2>2, <2>3, <1>4, <1>5, Nothing
  <2>6. Apart /\ Moves
    <3>1. Hold' = Hold \o SubSeq(c2s[cd], 1, Len(bytes))
      BY <2>3, <2>5, Nothing
    <3>2. Apart /\ Serving /\ Serving' /\ UNCHANGED <<cd, backlog, s2c, back, rst>>
      BY <1>8 DEF Splice!SpliceIn, Apart, Serving, clientVars
    <3> QED BY <3>1, <3>2, <2>2, <2>4 DEF Moves
  <2>7. Common' => TypeOK'
    <3>1. cd' = cd /\ pipes' = pipes
      BY <1>8 DEF Splice!SpliceIn
    <3> QED BY <3>1, <2>1, <2>2, <2>3, <2>4, <2>5, <1>1, <1>3
  <2> QED BY <2>1, <2>6, <2>7, <1>2 DEF ServerEffect
<1>9. CASE Splice!SpliceInEnd
  <2>1. Apart /\ Ends
    BY <1>9 DEF Splice!SpliceInEnd, Splice!AtEnd, Apart, Ends, Serving, clientVars, connVars
  <2>2. spc' = "close" /\ cd' = cd /\ pipe' = pipe /\ n' = n /\ pipes' = pipes
    BY <1>9 DEF Splice!SpliceInEnd
  <2> QED BY <2>1, <2>2, <1>1, <1>2, <1>3 DEF ServerEffect
<1>10. CASE Splice!SpliceOut
  <2> DEFINE L == Len(pipe)
  <2>1. cd \in Conns /\ ~rst[cd] /\ spc = "out" /\ cd' = cd /\ n' = n /\ pipes' = pipes
    BY <1>6, <1>10 DEF Splice!SpliceOut, Serving
  <2>2. PICK k \in 1 .. L :
          /\ k <= Room(cd) /\ Given(cd, SubSeq(pipe, 1, k))
          /\ pipe' = SubSeq(pipe, k + 1, L)
    BY <1>10 DEF Splice!SpliceOut, Splice!Given, Splice!Room, Given, Room
  <2>3. spc' = IF pipe' = <<>> THEN "in" ELSE "out"
    BY <1>10 DEF Splice!SpliceOut
  <2>4. Hold = pipe /\ Hold' = pipe'
    BY <2>1, <2>3, <1>4, <1>5
  <2>5. pipe' \in Words /\ Len(pipe') = L - k
    <3>1. k \in 0 .. Len(pipe)
      BY <1>1
    <3> QED BY ONLY <3>1, <2>2, <1>1, Split
  <2>6. Len(pipe') <= SPLICE_MAX
    BY <2>5, <1>1
  <2>7. Apart /\ Gives
    <3>1. Apart /\ Serving /\ Serving' /\ UNCHANGED <<cd, backlog, c2s, rst>>
      BY <1>10, <2>3 DEF Splice!SpliceOut, Apart, Serving, clientVars
    <3> QED BY <3>1, <2>1, <2>2, <2>4 DEF Gives
  <2>8. Common' => TypeOK'
    BY <2>1, <2>3, <2>5, <2>6, <1>1, <1>3
  <2>9. Inner'
    BY <2>3, <1>2
  <2> QED BY <2>7, <2>8, <2>9 DEF ServerEffect
<1>11. CASE Splice!SpliceOutReset
  <2>1. spc' \in {"close", "exit"} /\ cd' = cd /\ pipe' = pipe /\ n' = n /\ pipes' = pipes
    BY <1>11 DEF Splice!SpliceOutReset
  <2>2. CASE Len(pipe) = n /\ ~Splice!Piped(cd)
    <3>1. Apart /\ Ends
      BY <1>11, <2>2 DEF Splice!SpliceOutReset, Apart, Ends, Serving, clientVars, connVars
    <3> QED BY <3>1, <2>1, <1>1, <1>2, <1>3 DEF ServerEffect
  <2>3. CASE ~(Len(pipe) = n /\ ~Splice!Piped(cd))
    <3>1. Apart /\ Exits
      BY <1>11, <2>3 DEF Splice!SpliceOutReset, Splice!Hangup, Hangup, Apart, Exits, Serving, clientVars
    <3> QED BY <3>1, <2>1, <1>1, <1>2, <1>3 DEF ServerEffect
  <2> QED BY <2>2, <2>3
<1>12. CASE Splice!Close
  <2>1. Apart /\ Closes
    BY <1>12 DEF Splice!Close, Splice!Hangup, Hangup, Apart, Closes, clientVars
  <2>2. spc' = "accept" /\ cd' = cd /\ pipe' = pipe /\ n' = n /\ pipes' = pipes
    BY <1>12 DEF Splice!Close
  <2> QED BY <2>1, <2>2, <1>1, <1>2, <1>3 DEF ServerEffect
<1> QED BY <1>7, <1>8, <1>9, <1>10, <1>11, <1>12 DEF Splice!ServerNext

\* Every step of echo-sockmap, the kernel's included.
LEMMA SockmapEffect ==
    ASSUME TypeOK, Inner, Queue, Attended, kind = "sockmap", Sockmap!ServerNext,
           UNCHANGED <<kind, signals, bufVars, aioVars, pipeVars>>
    PROVE  ServerEffect /\ Inner' /\ (Common' => TypeOK')
<1> USE DEF Sockmap!echoVars, Sockmap!clientVars, Sockmap!connVars
<1>1. /\ flight \in Words /\ slot \in {cd, NoConn} /\ early \in 0 .. UP /\ UP \in Nat
      /\ cd \in Conns \cup {NoConn} /\ c2s \in [Conns -> Words] /\ NoConn \notin Conns
      /\ \A c \in Conns : Len(c2s[c]) <= UP
  BY EchoAssumption DEF TypeOK, EchoTypeOK, Sockmap!ServerTypeOK, Words, Bytes
<1>2. /\ slot = (IF spc \in {"poll", "delete"} THEN cd ELSE NoConn)
      /\ slot = NoConn => flight = <<>>
      /\ spc = "delete" => fin[cd] \/ rst[cd] \/ signals
  BY DEF Inner
<1>3. ASSUME /\ slot' = (IF spc' \in {"poll", "delete"} THEN cd' ELSE NoConn)
             /\ slot' = NoConn => flight' = <<>>
             /\ spc' = "delete" => fin'[cd'] \/ rst'[cd'] \/ signals'
      PROVE  Inner'
  BY <1>3 DEF Inner
<1>4. ASSUME /\ spc' \in {"prepare", "start", "abort", "accept", "update", "poll", "delete", "close"}
             /\ cd' \in Conns \cup {NoConn} /\ slot' \in {cd', NoConn}
             /\ early' \in 0 .. UP /\ flight' \in Words
      PROVE  Common' => TypeOK'
  BY <1>4 DEF TypeOK, Common, Sockmap!ServerTypeOK, Words, Bytes
<1>5. Hold = (IF spc \in {"poll", "delete"} THEN flight ELSE <<>>)
  BY DEF Hold
<1>6. Hold' = (IF spc' \in {"poll", "delete"} THEN flight' ELSE <<>>)
  BY DEF Hold
<1>7. Serving => cd \in Conns
  BY DEF Attended
<1>8. CASE Sockmap!Prepare
  <2>1. Apart /\ Starts
    BY <1>8 DEF Sockmap!Prepare, Apart, Starts, NoServer, clientVars
  <2>2. Inner' /\ (Common' => TypeOK')
    BY <1>1, <1>2, <1>3, <1>4, <1>8 DEF Sockmap!Prepare
  <2> QED BY <2>1, <2>2 DEF ServerEffect
<1>9. CASE Sockmap!Accept
  <2>1. Apart /\ Accepts
    BY <1>6, <1>9 DEF Sockmap!Accept, Apart, Accepts, Serving, clientVars
  <2>2. cd' \in Conns
    <3>1. backlog \in Seq(Conns) /\ backlog # <<>> /\ cd' = Head(backlog)
      BY <1>9 DEF Sockmap!Accept, TypeOK, EchoTypeOK
    <3> QED BY <3>1, HeadTailProperties
  <2>3. spc = "accept" /\ spc' = "update" /\ slot' = slot /\ early' = early /\ flight' = flight
    BY <1>9 DEF Sockmap!Accept
  <2>4. Inner' /\ (Common' => TypeOK')
    BY <2>2, <2>3, <1>1, <1>2, <1>3, <1>4
  <2> QED BY <2>1, <2>4 DEF ServerEffect
<1>10. CASE Sockmap!Update
  <2>1. /\ spc = "update" /\ spc' = "poll" /\ slot' = cd /\ early' = Len(c2s[cd])
        /\ cd' = cd /\ flight' = flight /\ cd \in Conns
    BY <1>7, <1>10 DEF Sockmap!Update, Serving
  <2>2. flight = <<>>
    BY <2>1, <1>2
  <2>3. Apart /\ Idles
    BY <2>1, <2>2, <1>5, <1>6, <1>10 DEF Sockmap!Update, Apart, Idles, Serving, clientVars, connVars
  <2>4. early' \in 0 .. UP
    <3>1. Len(c2s[cd]) \in Nat /\ Len(c2s[cd]) <= UP
      BY <2>1, <1>1, LenProperties DEF Words
    <3> QED BY <3>1, <2>1, <1>1
  <2>5. Inner' /\ (Common' => TypeOK')
    BY <2>1, <2>2, <2>4, <1>1, <1>3, <1>4
  <2> QED BY <2>3, <2>5 DEF ServerEffect
<1>11. CASE Sockmap!UpdateClosed
  <2>1. Apart /\ Ends
    BY <1>11 DEF Sockmap!UpdateClosed, Apart, Ends, Serving, clientVars, connVars
  <2>2. Inner' /\ (Common' => TypeOK')
    BY <1>1, <1>2, <1>3, <1>4, <1>11 DEF Sockmap!UpdateClosed
  <2> QED BY <2>1, <2>2 DEF ServerEffect
<1>12. CASE Sockmap!Poll
  <2>1. Apart /\ Idles
    BY <1>5, <1>6, <1>12 DEF Sockmap!Poll, Apart, Idles, Serving, clientVars, connVars
  <2>2. Inner' /\ (Common' => TypeOK')
    BY <1>1, <1>2, <1>3, <1>4, <1>12 DEF Sockmap!Poll
  <2> QED BY <2>1, <2>2 DEF ServerEffect
<1>13. CASE Sockmap!Delete
  <2>1. Apart /\ Ends
    BY <1>2, <1>13 DEF Sockmap!Delete, Apart, Ends, Serving, clientVars, connVars
  <2>2. Inner' /\ (Common' => TypeOK')
    BY <1>1, <1>3, <1>4, <1>13, Nothing DEF Sockmap!Delete
  <2> QED BY <2>1, <2>2 DEF ServerEffect
<1>14. CASE Sockmap!Close
  <2>1. Apart /\ Closes
    BY <1>14 DEF Sockmap!Close, Sockmap!Hangup, Hangup, Apart, Closes, clientVars
  <2>2. Inner' /\ (Common' => TypeOK')
    BY <1>1, <1>2, <1>3, <1>4, <1>14 DEF Sockmap!Close
  <2> QED BY <2>1, <2>2 DEF ServerEffect
<1>15. CASE Sockmap!Verdict
  <2>1. /\ spc \in {"poll", "delete"} /\ slot = cd /\ cd \in Conns /\ Hold = flight
        /\ spc' = spc /\ cd' = cd /\ slot' = slot /\ early' = 0
        /\ flight' = flight \o c2s[cd] /\ Hold' = flight'
        /\ c2s' = [c2s EXCEPT ![cd] = SubSeq(c2s[cd], Len(c2s[cd]) + 1, Len(c2s[cd]))]
    <3>1. spc \in {"poll", "delete"} /\ slot = cd
      BY <1>2, <1>15 DEF Sockmap!Verdict
    <3>2. cd \in Conns
      BY <3>1, <1>7 DEF Serving
    <3> QED BY <3>1, <3>2, <1>5, <1>6, <1>15 DEF Sockmap!Verdict, Sockmap!Taken
  <2>2. c2s[cd] \in Words /\ Len(c2s[cd]) \in Nat
    BY <2>1, <1>1, LenProperties DEF Words
  <2>3. Len(c2s[cd]) \in 0 .. Len(c2s[cd])
    BY <2>2
  <2>4. SubSeq(c2s[cd], 1, Len(c2s[cd])) = c2s[cd]
    BY <2>2, AllOf
  <2>5. flight' \in Words
    BY <2>1, <2>2, <1>1, JoinType
  <2>6. Apart /\ Moves
    <3>1. Apart /\ Serving /\ Serving' /\ UNCHANGED <<cd, backlog, s2c, back, rst>>
      BY <2>1, <1>15 DEF Sockmap!Verdict, Apart, Serving, clientVars
    <3>2. Hold' = Hold \o SubSeq(c2s[cd], 1, Len(c2s[cd]))
      BY <2>1, <2>4
    <3> QED BY <3>1, <3>2, <2>1, <2>3 DEF Moves
  <2>7. fin' = fin /\ rst' = rst
    BY <1>15 DEF Sockmap!Verdict
  <2>8. Inner'
    BY <2>1, <2>7, <1>1, <1>2, <1>3
  <2>9. Common' => TypeOK'
    BY <2>1, <2>5, <1>1, <1>4
  <2> QED BY <2>6, <2>8, <2>9 DEF ServerEffect
<1>16. CASE Sockmap!Transmit
  <2>1. /\ spc \in {"poll", "delete"} /\ slot = cd /\ cd \in Conns /\ Hold = flight /\ ~rst[cd]
        /\ spc' = spc /\ cd' = cd /\ slot' = slot /\ early' = early
        /\ flight # <<>> /\ flight' = <<>> /\ Hold' = <<>>
        /\ Given(cd, flight) /\ fin' = fin /\ rst' = rst
    <3>1. spc \in {"poll", "delete"} /\ slot = cd
      BY <1>2, <1>16 DEF Sockmap!Transmit
    <3>2. cd \in Conns
      BY <3>1, <1>7 DEF Serving
    <3> QED BY <3>1, <3>2, <1>5, <1>6, <1>16 DEF Sockmap!Transmit, Sockmap!Given, Given
  <2>2. Len(flight) \in Nat \ {0} /\ Len(flight) \in 1 .. Len(flight)
    <3>1. Len(flight) \in Nat \ {0}
      BY <2>1, <1>1, EmptySeq DEF Words
    <3> QED BY <3>1
  <2>3. SubSeq(flight, 1, Len(flight)) = flight /\ SubSeq(flight, Len(flight) + 1, Len(flight)) = <<>>
    BY <1>1, AllOf
  <2>4. Apart /\ Gives
    <3>1. Apart /\ Serving /\ Serving' /\ UNCHANGED <<cd, backlog, c2s, rst>>
      BY <2>1, <1>16 DEF Sockmap!Transmit, Apart, Serving, clientVars
    <3> QED BY <3>1, <2>1, <2>2, <2>3 DEF Gives
  <2>5. Inner' /\ (Common' => TypeOK')
    BY <2>1, <1>1, <1>2, <1>3, <1>4, Nothing
  <2> QED BY <2>4, <2>5 DEF ServerEffect
<1> QED BY <1>8, <1>9, <1>10, <1>11, <1>12, <1>13, <1>14, <1>15, <1>16 DEF Sockmap!ServerNext

\* What appending a result to the ring makes of it.
LEMMA RingAppend ==
    ASSUME NEW S, NEW q \in Seq(S), NEW v \in S
    PROVE  /\ Append(q, v) \in Seq(S) /\ Len(Append(q, v)) = Len(q) + 1
           /\ Append(q, v)[Len(q) + 1] = v
           /\ \A k \in 1 .. Len(q) : Append(q, v)[k] = q[k]
OBVIOUS
\* Every step of echo-iosubmit.
LEMMA IosubmitEffect ==
    ASSUME TypeOK, Inner, Queue, Attended, kind = "iosubmit", Iosubmit!ServerNext,
           UNCHANGED <<kind, signals, pipeVars, mapVars>>
    PROVE  ServerEffect /\ Inner' /\ (Common' => TypeOK')
<1> USE DEF Iosubmit!echoVars, Iosubmit!clientVars, Iosubmit!connVars
<1> DEFINE R == -1 .. BUFFER_SIZE
<1>1. /\ buf \in Words /\ Len(buf) \in Nat /\ nbytes \in 0 .. BUFFER_SIZE /\ m \in 0 .. nbytes
      /\ BUFFER_SIZE \in Nat \ {0} /\ nbytes \in Nat /\ m \in Nat
      /\ ring \in Seq(R) /\ Len(ring) \in Nat /\ events \in Seq(R) /\ Len(events) = 2
      /\ spc \in {"accept", "write", "close"} => ring = <<>>
      /\ cd \in Conns \cup {NoConn} /\ c2s \in [Conns -> Words]
  <2>1. /\ buf \in Words /\ nbytes \in 0 .. BUFFER_SIZE /\ m \in 0 .. nbytes
        /\ ring \in Seq(R) /\ events \in Seq(R) /\ Len(events) = 2
        /\ spc \in {"accept", "write", "close"} => ring = <<>>
        /\ cd \in Conns \cup {NoConn} /\ c2s \in [Conns -> Words]
    BY DEF TypeOK, EchoTypeOK, Iosubmit!ServerTypeOK, Words, Bytes
  <2>2. Len(buf) \in Nat /\ Len(ring) \in Nat
    BY <2>1, LenProperties DEF Words
  <2> QED BY <2>1, <2>2, EchoAssumption
<1>2. /\ spc = "write" => nbytes <= Len(buf)
      /\ spc = "read" => /\ Len(ring) = 1 /\ (ring[1] < 0 => rst[cd] \/ signals)
                         /\ m = nbytes \/ rst[cd] \/ signals
      /\ spc = "reap" => Len(ring) = 2 /\ Results(ring[1], ring[2])
      /\ spc = "events" => ring = <<>> /\ Results(events[1], events[2])
  BY DEF Inner
<1>3. ASSUME /\ ~NoServer'
             /\ spc' = "write" => nbytes' <= Len(buf')
             /\ spc' = "read" => /\ Len(ring') = 1 /\ (ring'[1] < 0 => rst'[cd'] \/ signals')
                                 /\ m' = nbytes' \/ rst'[cd'] \/ signals'
             /\ spc' = "reap" => Len(ring') = 2 /\ Results(ring[1], ring[2])'
             /\ spc' = "events" => ring' = <<>> /\ Results(events[1], events[2])'
      PROVE  Inner'
  BY <1>3 DEF Inner
<1>4. ASSUME /\ spc' \in {"accept", "write", "read", "reap", "events", "close", "exit"}
             /\ cd' \in Conns \cup {NoConn} /\ buf' \in Words
             /\ nbytes' \in 0 .. BUFFER_SIZE /\ m' \in 0 .. nbytes'
             /\ events' \in Seq(R) /\ Len(events') = 2 /\ ring' \in Seq(R) /\ Len(ring') <= 2
             /\ spc' \in {"accept", "write", "close"} => ring' = <<>>
      PROVE  Common' => TypeOK'
  BY <1>4 DEF TypeOK, Common, Iosubmit!ServerTypeOK, Words, Bytes
<1>5. Hold = (IF spc = "write" THEN SubSeq(buf, m + 1, nbytes)
              ELSE IF (spc = "reap" /\ ring[2] > 0) \/ (spc = "events" /\ events[2] > 0)
                   THEN buf ELSE <<>>)
  BY DEF Hold
<1>6. Hold' = (IF spc' = "write" THEN SubSeq(buf', m' + 1, nbytes')
               ELSE IF (spc' = "reap" /\ ring'[2] > 0) \/ (spc' = "events" /\ events'[2] > 0)
                    THEN buf' ELSE <<>>)
  BY DEF Hold
<1>7. Serving => cd \in Conns
  BY DEF Attended
<1>8. <<>> \in Seq(R) /\ Len(<<>>) = 0
  BY EmptySeq
<1> HIDE DEF R
<1>9. CASE Iosubmit!Accept
  <2>1. /\ spc = "accept" /\ spc' = "write" /\ nbytes' = 0 /\ m' = 0 /\ buf' = buf
        /\ ring' = <<>> /\ events' = events
    BY <1>1, <1>9 DEF Iosubmit!Accept
  <2>2. Hold' = <<>>
    <3>1. Hold' = SubSeq(buf, 0 + 1, 0)
      BY <2>1, <1>6
    <3> QED BY <3>1, SubSeqEmpty
  <2>3. Apart /\ Accepts
    BY <2>2, <1>9 DEF Iosubmit!Accept, Apart, Accepts, Serving, clientVars
  <2>4. cd' \in Conns
    <3>1. backlog \in Seq(Conns) /\ backlog # <<>> /\ cd' = Head(backlog)
      BY <1>9 DEF Iosubmit!Accept, TypeOK, EchoTypeOK
    <3> QED BY <3>1, HeadTailProperties
  <2>5. Inner'
    BY <2>1, <1>1, <1>3 DEF NoServer
  <2>6. Common' => TypeOK'
    BY <2>1, <2>4, <1>1, <1>4, <1>8
  <2> QED BY <2>3, <2>5, <2>6 DEF ServerEffect
<1>10. CASE Iosubmit!Write
  <2>1. /\ cd \in Conns /\ ~rst[cd] /\ spc = "write" /\ spc' = "write" /\ cd' = cd /\ buf' = buf
        /\ nbytes' = nbytes /\ ring' = ring /\ events' = events /\ ring = <<>>
    BY <1>1, <1>7, <1>10 DEF Iosubmit!Write, Serving
  <2>2. PICK k \in 1 .. nbytes - m :
          /\ k <= Room(cd) /\ Given(cd, SubSeq(buf, m + 1, m + k))
          /\ m' = m + k
    BY <1>10 DEF Iosubmit!Write, Iosubmit!Given, Iosubmit!Room, Given, Room
  <2>3. /\ nbytes \in 0 .. Len(buf) /\ m \in 0 .. nbytes /\ k \in 0 .. nbytes - m
        /\ m + k \in 0 .. nbytes /\ k \in 1 .. nbytes - m
    BY <2>1, <1>1, <1>2
  <2>4. /\ SubSeq(buf, m + 1, nbytes) \in Words /\ Len(SubSeq(buf, m + 1, nbytes)) = nbytes - m
        /\ SubSeq(SubSeq(buf, m + 1, nbytes), 1, k) = SubSeq(buf, m + 1, m + k)
        /\ SubSeq(SubSeq(buf, m + 1, nbytes), k + 1, nbytes - m) = SubSeq(buf, m + k + 1, nbytes)
    BY <2>3, <1>1, Middle
  <2>5. Hold = SubSeq(buf, m + 1, nbytes) /\ Hold' = SubSeq(buf, m + k + 1, nbytes)
    BY <2>1, <2>2, <1>5, <1>6
  <2>6. Apart /\ Gives
    <3>1. Apart /\ Serving /\ Serving' /\ UNCHANGED <<cd, backlog, c2s, rst>>
      BY <1>10 DEF Iosubmit!Write, Apart, Serving, clientVars
    <3>2. k \in 1 .. Len(Hold) /\ SubSeq(Hold, 1, k) = SubSeq(buf, m + 1, m + k)
          /\ Hold' = SubSeq(Hold, k + 1, Len(Hold))
      BY <2>3, <2>4, <2>5
    <3>3. /\ kind # "sockmap" => k <= Room(cd)
          /\ Given(cd, SubSeq(Hold, 1, k))
      BY <3>2, <2>2
    <3> QED BY <3>1, <3>2, <3>3, <2>1 DEF Gives
  <2>7. Inner'
    BY <2>1, <1>2, <1>3 DEF NoServer
  <2>8. Common' => TypeOK'
    BY <2>1, <2>2, <2>3, <1>1, <1>4, <1>8
  <2> QED BY <2>6, <2>7, <2>8 DEF ServerEffect
<1>11. CASE Iosubmit!WriteDone
  <2> DEFINE v == IF m = 0 /\ (nbytes > 0 \/ rst[cd]) THEN -1 ELSE m
  <2>1. /\ spc = "write" /\ spc' = "read" /\ cd' = cd /\ buf' = buf /\ nbytes' = nbytes /\ m' = m
        /\ ring = <<>> /\ ring' = Append(ring, v) /\ events' = events
        /\ m = nbytes \/ rst[cd] \/ signals
        /\ rst' = rst /\ fin' = fin /\ signals' = signals
    BY <1>1, <1>11 DEF Iosubmit!WriteDone
  <2>2. v \in R /\ (v < 0 => m # nbytes \/ rst[cd])
    BY <1>1 DEF R
  <2> HIDE DEF v
  <2>3. ring' \in Seq(R) /\ Len(ring') = 1 /\ ring'[1] = v
    BY <2>1, <2>2, <1>8, RingAppend
  <2>4. Hold' = <<>>
    BY <2>1, <1>6
  <2>5. m = nbytes => Hold = <<>>
    <3> SUFFICES ASSUME m = nbytes PROVE Hold = <<>>
      OBVIOUS
    <3>1. Hold = SubSeq(buf, nbytes + 1, nbytes)
      BY <2>1, <1>5
    <3> QED BY <3>1, <1>1, SubSeqEmpty
  <2>6. Apart /\ Idles
    BY <2>1, <2>4, <2>5, <1>11 DEF Iosubmit!WriteDone, Apart, Idles, Serving, clientVars, connVars
  <2>7. Inner'
    BY <2>1, <2>2, <2>3, <1>3 DEF NoServer
  <2>8. Common' => TypeOK'
    BY <2>1, <2>3, <1>1, <1>4
  <2> QED BY <2>6, <2>7, <2>8 DEF ServerEffect
<1>12. CASE Iosubmit!ReadSome
  <2>1. cd \in Conns /\ spc = "read" /\ spc' = "reap" /\ cd' = cd /\ nbytes' = nbytes /\ m' = m
        /\ events' = events /\ Len(ring) = 1 /\ rst' = rst /\ fin' = fin /\ signals' = signals
    BY <1>2, <1>7, <1>12 DEF Iosubmit!ReadSome, Serving
  <2>2. PICK bytes \in {SubSeq(c2s[cd], 1, i) : i \in {j \in 1 .. Len(c2s[cd]) : j <= BUFFER_SIZE}} :
           /\ buf' = bytes /\ ring' = Append(ring, Len(bytes))
           /\ c2s' = [c2s EXCEPT ![cd] = SubSeq(c2s[cd], Len(bytes) + 1, Len(c2s[cd]))]
    BY <1>12 DEF Iosubmit!ReadSome, Iosubmit!Received, Iosubmit!Taken
  <2>3. /\ bytes \in Words /\ Len(bytes) \in 1 .. Len(c2s[cd]) /\ Len(bytes) <= BUFFER_SIZE
        /\ bytes = SubSeq(c2s[cd], 1, Len(bytes))
    <3>1. c2s[cd] \in Words /\ BUFFER_SIZE \in Nat
      BY <1>1, <2>1
    <3> QED BY <3>1, <2>2, ReceivedFirst
  <2>4. Len(bytes) \in 0 .. Len(c2s[cd]) /\ Len(bytes) \in R /\ Len(bytes) > 0
    <3>1. PICK i \in Nat, j \in Nat : Len(bytes) = i /\ Len(c2s[cd]) = j
      BY <1>1, <2>1, <2>3, LenProperties DEF Words
    <3>2. i \in 1 .. j /\ i <= BUFFER_SIZE
      BY ONLY <3>1, <2>3
    <3>3. i \in 0 .. j /\ i \in R /\ i > 0
      BY ONLY <3>2, i \in Nat, j \in Nat, <1>1 DEF R
    <3> QED BY ONLY <3>1, <3>3
  <2>5. ring' \in Seq(R) /\ Len(ring') = 2 /\ ring'[2] = Len(bytes) /\ ring'[1] = ring[1]
    <3>1. /\ ring' \in Seq(R) /\ Len(ring') = Len(ring) + 1 /\ ring'[Len(ring) + 1] = Len(bytes)
          /\ \A k \in 1 .. Len(ring) : ring'[k] = ring[k]
      BY ONLY <1>1, <2>2, <2>4, RingAppend
    <3> QED BY <3>1, <2>1
  <2>6. Hold = <<>> /\ Hold' = bytes
    BY <2>1, <2>2, <2>4, <2>5, <1>5, <1>6
  <2>7. Apart /\ Moves
    <3>1. Hold' = Hold \o SubSeq(c2s[cd], 1, Len(bytes))
      BY <2>3, <2>6, Nothing
    <3>2. Apart /\ Serving /\ Serving' /\ UNCHANGED <<cd, backlog, s2c, back, rst>>
      BY <1>12 DEF Iosubmit!ReadSome, Apart, Serving, clientVars
    <3> QED BY <3>1, <3>2, <2>2, <2>4 DEF Moves
  <2>8. Results(ring[1], ring[2])'
    BY <2>1, <2>2, <2>4, <2>5, <1>2 DEF Results
  <2>9. Inner'
    BY <2>1, <2>5, <2>8, <1>3 DEF NoServer
  <2>10. Common' => TypeOK'
    <3>1. spc' = "reap" /\ cd' \in Conns \cup {NoConn} /\ buf' \in Words
      BY <2>1, <2>2, <2>3, <1>1
    <3>2. nbytes' \in 0 .. BUFFER_SIZE /\ m' \in 0 .. nbytes' /\ events' \in Seq(R) /\ Len(events') = 2
      BY <2>1, <1>1
    <3>3. ring' \in Seq(R) /\ Len(ring') <= 2
      BY <2>5
    <3> QED BY <3>1, <3>2, <3>3, <1>4
  <2> QED BY <2>7, <2>9, <2>10 DEF ServerEffect
<1>13. CASE Iosubmit!ReadEnd
  <2> DEFINE v == IF rst[cd] THEN -1 ELSE 0
  <2>1. /\ cd \in Conns /\ spc = "read" /\ spc' = "reap" /\ cd' = cd /\ buf' = buf
        /\ nbytes' = nbytes /\ m' = m /\ events' = events /\ Len(ring) = 1
        /\ ring' = Append(ring, v) /\ rst' = rst /\ fin' = fin /\ signals' = signals
        /\ fin[cd] \/ rst[cd]
    BY <1>2, <1>7, <1>13 DEF Iosubmit!ReadEnd, Iosubmit!AtEnd, Serving
  <2>2. v \in R /\ ~(v > 0)
    BY <1>1 DEF R
  <2> HIDE DEF v
  <2>3. ring' \in Seq(R) /\ Len(ring') = 2 /\ ring'[2] = v /\ ring'[1] = ring[1]
    <3>1. /\ ring' \in Seq(R) /\ Len(ring') = Len(ring) + 1 /\ ring'[Len(ring) + 1] = v
          /\ \A k \in 1 .. Len(ring) : ring'[k] = ring[k]
      <4>1. ring \in Seq(R) /\ v \in R /\ ring' = Append(ring, v)
        BY <1>1, <2>1, <2>2
      <4> QED BY ONLY <4>1, RingAppend
    <3> QED BY <3>1, <2>1
  <2>4. Hold = <<>> /\ Hold' = <<>>
    BY <2>1, <2>2, <2>3, <1>5, <1>6
  <2>5. Apart /\ Idles
    BY <2>4, <1>13 DEF Iosubmit!ReadEnd, Apart, Idles, Serving, clientVars, connVars
  <2>6. Results(ring[1], ring[2])'
    BY <2>1, <2>2, <2>3, <1>2 DEF Results
  <2>7. Inner'
    BY <2>1, <2>3, <2>6, <1>3 DEF NoServer
  <2>8. Common' => TypeOK'
    BY <2>1, <2>3, <1>1, <1>4
  <2> QED BY <2>5, <2>7, <2>8 DEF ServerEffect
<1>14. CASE Iosubmit!io_getevents
  <2>1. /\ spc = "reap" /\ spc' = "events" /\ cd' = cd /\ buf' = buf /\ nbytes' = nbytes /\ m' = m
        /\ Len(ring) = 2 /\ rst' = rst /\ fin' = fin /\ signals' = signals /\ cd \in Conns
    BY <1>2, <1>7, <1>14 DEF Iosubmit!io_getevents, Serving
  <2>2. /\ events' = [k \in 1 .. 2 |-> IF k <= 2 THEN ring[k] ELSE 0]
        /\ ring' = SubSeq(ring, 2 + 1, 2)
    BY <2>1, <1>14 DEF Iosubmit!io_getevents
  <2>3. events'[1] = ring[1] /\ events'[2] = ring[2] /\ ring' = <<>>
    BY <2>2, SubSeqEmpty
  <2>4. events' \in Seq(R) /\ Len(events') = 2
    <3>1. ring[1] \in R /\ ring[2] \in R
      <4>1. ring \in Seq(R) /\ 1 \in 1 .. Len(ring) /\ 2 \in 1 .. Len(ring)
        BY <2>1, <1>1
      <4> QED BY ONLY <4>1, ElementOfSeq
    <3>2. events' \in [1 .. 2 -> R]
      BY <2>2, <3>1
    <3>3. events' \in Seq(R)
      <4>1. \E j \in Nat : events' \in [1 .. j -> R]
        BY ONLY <3>2, 2 \in Nat
      <4> QED BY ONLY <4>1, SeqDef
    <3>4. DOMAIN events' = 1 .. 2
      BY <2>2
    <3> QED BY <3>3, <3>4, LenProperties
  <2>5. Hold' = Hold
    BY <2>1, <2>3, <1>5, <1>6
  <2>6. Apart /\ Idles
    BY <2>5, <1>14 DEF Iosubmit!io_getevents, Apart, Idles, Serving, clientVars, connVars
  <2>7. Results(events[1], events[2])'
    BY <2>1, <2>3, <1>2 DEF Results
  <2>8. Inner'
    BY <2>1, <2>3, <2>7, <1>3 DEF NoServer
  <2>9. Common' => TypeOK'
    BY <2>1, <2>3, <2>4, <1>1, <1>4, <1>8
  <2> QED BY <2>6, <2>8, <2>9 DEF ServerEffect
<1>15. CASE Iosubmit!Events
  <2>1. /\ spc = "events" /\ cd' = cd /\ buf' = buf /\ ring' = ring /\ events' = events
        /\ ring = <<>> /\ Results(events[1], events[2]) /\ cd \in Conns
        /\ rst' = rst /\ fin' = fin /\ signals' = signals
    BY <1>2, <1>7, <1>15 DEF Iosubmit!Events, Serving
  <2>2. events[1] \in R /\ events[2] \in R
    <3>1. events \in Seq(R) /\ 1 \in 1 .. Len(events) /\ 2 \in 1 .. Len(events)
      BY <1>1
    <3> QED BY ONLY <3>1, ElementOfSeq
  <2>3. CASE events[1] < 0 \/ events[2] <= 0
    <3>1. spc' = "close" /\ nbytes' = nbytes /\ m' = m
      BY <2>3, <1>15 DEF Iosubmit!Events
    <3>2. Apart /\ Ends
      BY <2>1, <2>3, <3>1, <1>15 DEF Iosubmit!Events, Results, Apart, Ends, Serving, clientVars, connVars
    <3>3. Inner' /\ (Common' => TypeOK')
      BY <2>1, <3>1, <1>1, <1>3, <1>4, <1>8 DEF NoServer
    <3> QED BY <3>2, <3>3 DEF ServerEffect
  <2>4. CASE ~(events[1] < 0 \/ events[2] <= 0)
    <3>1. spc' = "write" /\ nbytes' = events[2] /\ m' = 0
      BY <2>4, <1>15 DEF Iosubmit!Events
    <3>2. events[2] = Len(buf) /\ events[2] > 0 /\ events[2] \in 1 .. BUFFER_SIZE
      BY <2>1, <2>2, <2>4, <1>1 DEF Results, R
    <3>3. Hold = buf
      BY <2>1, <3>2, <1>5
    <3>4. Hold' = buf
      <4>1. Hold' = SubSeq(buf, 0 + 1, Len(buf))
        BY <2>1, <3>1, <3>2, <1>6
      <4> QED BY <4>1, <1>1, AllOf
    <3>5. Apart /\ Idles
      BY <2>1, <3>1, <3>3, <3>4, <1>15 DEF Iosubmit!Events, Apart, Idles, Serving, clientVars, connVars
    <3>6. nbytes' <= Len(buf') /\ nbytes' \in 0 .. BUFFER_SIZE /\ m' \in 0 .. nbytes'
      BY <2>1, <3>1, <3>2, <1>1
    <3>7. Inner' /\ (Common' => TypeOK')
      BY <2>1, <3>1, <3>6, <1>1, <1>3, <1>4, <1>8 DEF NoServer
    <3> QED BY <3>5, <3>7 DEF ServerEffect
  <2> QED BY <2>3, <2>4
<1>16. CASE Iosubmit!Close
  <2>1. Apart /\ Closes
    BY <1>16 DEF Iosubmit!Close, Iosubmit!Hangup, Hangup, Apart, Closes, clientVars
  <2>2. /\ spc = "close" /\ spc' = "accept" /\ cd' = cd /\ buf' = buf /\ nbytes' = nbytes /\ m' = m
        /\ ring' = ring /\ events' = events
    BY <1>16 DEF Iosubmit!Close
  <2>3. Inner' /\ (Common' => TypeOK')
    BY <2>2, <1>1, <1>3, <1>4, <1>8 DEF NoServer
  <2> QED BY <2>1, <2>3 DEF ServerEffect
<1>17. CASE Iosubmit!WritePiped
  <2>1. Apart /\ Exits
    BY <1>17 DEF Iosubmit!WritePiped, Iosubmit!Hangup, Hangup, Apart, Exits, Serving, clientVars
  <2>2. /\ spc = "write" /\ spc' = "exit" /\ cd' = cd /\ buf' = buf /\ nbytes' = nbytes /\ m' = m
        /\ ring' = ring /\ events' = events
    BY <1>17 DEF Iosubmit!WritePiped
  <2>3. Inner' /\ (Common' => TypeOK')
    BY <2>2, <1>1, <1>3, <1>4, <1>8 DEF NoServer
  <2> QED BY <2>1, <2>3 DEF ServerEffect
<1> QED BY <1>9, <1>10, <1>11, <1>12, <1>13, <1>14, <1>15, <1>16, <1>17 DEF Iosubmit!ServerNext

-----------------------------------------------------------------------------
(* The steps of the clients and of the network *)

\* The server stands still.
Quiet == UNCHANGED <<kind, signals, serverVars>>
\* It holds what it held.
LEMMA QuietServer ==
    ASSUME Quiet
    PROVE  /\ Hold' = Hold /\ (Serving' <=> Serving) /\ (NoServer' <=> NoServer)
           /\ cd' = cd /\ spc' = spc /\ signals' = signals /\ kind' = kind
           /\ \A c : HoldOf(c)' = HoldOf(c)
<1>1. /\ spc' = spc /\ cd' = cd /\ kind' = kind /\ signals' = signals
      /\ UNCHANGED <<bufVars, aioVars, pipeVars, mapVars>>
  BY DEF Quiet, serverVars
<1>2. Hold' = Hold
  BY <1>1 DEF Hold, bufVars, aioVars, pipeVars, mapVars
<1> QED BY <1>1, <1>2 DEF Serving, NoServer, HoldOf

\* Connections are closed and torn down once and for all.
Grown == \A c \in Conns : (fin[c] => fin'[c]) /\ (rst[c] => rst'[c])
\* Its inner state stays sound when connections are only closed or torn down.
LEMMA QuietInner ==
    ASSUME TypeOK, Inner, Attended, Quiet, Grown,
           EchoTypeOK', kind # "sockmap" => \A c \in Conns : Len(s2c'[c]) <= DOWN
    PROVE  TypeOK' /\ Inner'
<1>1. /\ spc' = spc /\ cd' = cd /\ kind' = kind /\ signals' = signals
      /\ UNCHANGED <<bufVars, aioVars, pipeVars, mapVars>>
  BY DEF Quiet, serverVars
<1>2. NoServer' <=> NoServer
  BY <1>1 DEF NoServer
<1>3. TypeOK'
  BY <1>1 DEF TypeOK, bufVars, aioVars, pipeVars, mapVars,
       Naive!ServerTypeOK, Splice!ServerTypeOK, Iosubmit!ServerTypeOK, Sockmap!ServerTypeOK
<1>4. spc \in {"read", "reap", "events", "delete"} => (fin[cd] => fin'[cd]) /\ (rst[cd] => rst'[cd])
  BY DEF Attended, Serving, Grown
<1>5. Inner'
  <2>1. UNCHANGED <<kind, signals, spc, cd, buf, m, nbytes, ring, events, pipe, slot, flight>>
    BY <1>1 DEF bufVars, aioVars, pipeVars, mapVars
  <2>2. CASE kind = "iosubmit"
    <3>1. spc \in {"reap", "events"} => \A w, x : Results(w, x) => Results(w, x)'
      BY <2>1, <1>4 DEF Results
    <3>2. (spc = "reap" => Results(ring[1], ring[2])') /\ (spc = "events" => Results(events[1], events[2])')
      BY <3>1, <2>1, <2>2 DEF Inner, Results
    <3> QED BY <3>2, <2>1, <2>2, <1>2, <1>4 DEF Inner
  <2>3. CASE kind # "iosubmit"
    BY <2>1, <2>3, <1>4 DEF Inner
  <2> QED BY <2>2, <2>3
<1> QED BY <1>3, <1>5

\* Nothing happens to the others.
Still(c) ==
    /\ cpc'[c] = cpc[c] /\ burst_i'[c] = burst_i[c] /\ tx_bytes'[c] = tx_bytes[c] /\ rx_bytes'[c] = rx_bytes[c]
    /\ sent'[c] = sent[c] /\ printed'[c] = printed[c]
    /\ c2s'[c] = c2s[c] /\ s2c'[c] = s2c[c] /\ back'[c] = back[c]
    /\ fin'[c] = fin[c] /\ rst'[c] = rst[c] /\ told'[c] = told[c]
\* and nothing that holds of them changes.
LEMMA Bystander ==
    ASSUME Quiet, NEW c \in Conns, Still(c), (c \in Waiting)' <=> c \in Waiting
    PROVE  /\ Live(c)' <=> Live(c)
           /\ (Flow(c) => Flow(c)') /\ (Balance(c) => Balance(c)') /\ (Burst(c) => Burst(c)')
<1>1. HoldOf(c)' = HoldOf(c) /\ cd' = cd /\ (Serving' <=> Serving) /\ signals' = signals
  BY QuietServer
<1>2. Live(c)' <=> Live(c)
  BY <1>1 DEF Live, Still
<1>3. Whole(c)' = Whole(c) /\ UnderWay(c)' = UnderWay(c)
  BY <1>1, <1>2 DEF Whole, UnderWay, Still
<1>4. Flow(c) => Flow(c)'
  BY <1>1, <1>2, <1>3 DEF Flow, Still
<1>5. Balance(c) => Balance(c)'
  BY <1>1, <1>2, <1>3 DEF Balance, Still
<1>6. Burst(c) => Burst(c)'
  BY DEF Burst, Still
<1> QED BY <1>2, <1>4, <1>5, <1>6

\* A step about one connection that is already there.
LEMMA ClientStep ==
    ASSUME IInv, Quiet, NEW c \in Conns, \A d \in Conns : d # c => Still(d),
           EchoTypeOK', Tables', kind # "sockmap" => Len(s2c'[c]) <= DOWN,
           backlog' = backlog,
           fin[c] => fin'[c], rst[c] => rst'[c],
           cpc'[c] # "new", cpc'[c] # "dead" => cpc[c] \notin {"new", "dead"},
           NoServer => rst'[c] /\ ~told'[c],
           Flow(c)', Balance(c)', Burst(c)'
    PROVE  IInv'
<1>1. /\ (Serving' <=> Serving) /\ (NoServer' <=> NoServer) /\ Waiting' = Waiting
      /\ cd' = cd /\ spc' = spc /\ signals' = signals /\ kind' = kind
  BY QuietServer DEF Waiting
<1>2. Grown
  BY DEF Grown, Still
<1>3. kind # "sockmap" => \A d \in Conns : Len(s2c'[d]) <= DOWN
  BY DEF IInv, TypeOK, Still
<1>4. TypeOK' /\ Inner'
  BY <1>2, <1>3, QuietInner DEF IInv
<1>5. ASSUME NEW d \in Conns PROVE Flow(d)' /\ Balance(d)' /\ Burst(d)'
  BY <1>1, Bystander DEF IInv, Flows, Balances, Bursts
<1>6. Queue'
  <2>1. NoServer' => \A d \in Conns : cpc'[d] \in {"new", "dead"} /\ rst'[d] /\ ~told'[d]
    <3> SUFFICES ASSUME NoServer, NEW d \in Conns
                 PROVE  cpc'[d] \in {"new", "dead"} /\ rst'[d] /\ ~told'[d]
      BY <1>1
    <3>1. /\ cpc[d] \in {"new", "dead"} /\ rst[d] /\ ~told[d]
          /\ cpc[c] \in {"new", "dead"}
      BY DEF IInv, Queue
    <3> QED BY <3>1 DEF Still
  <2>2. ASSUME NEW d \in Conns, cpc'[d] = "new" PROVE Fresh(d)'
    <3>1. d # c /\ Still(d)
      BY <2>2
    <3>2. Fresh(d)
      BY <2>2, <3>1 DEF Still, IInv, Queue
    <3> QED BY <3>1, <3>2, <1>1 DEF Fresh, Still
  <2> QED BY <2>1, <2>2, <1>1 DEF IInv, Queue
<1>7. Attended'
  <2>1. ASSUME ~signals, NEW d \in Conns, cpc'[d] \notin {"new", "dead"}, ~rst'[d], ~fin'[d] PROVE Live(d)'
    <3>1. cpc[d] \notin {"new", "dead"} /\ ~rst[d] /\ ~fin[d]
      BY <2>1 DEF Still
    <3>2. Live(d)
      BY <2>1, <3>1 DEF IInv, Attended
    <3> QED BY <3>2, <2>1, <1>1 DEF Live
  <2>2. spc = "close" => fin'[cd] \/ rst'[cd] \/ signals
    BY <1>2 DEF IInv, Attended, Grown
  <2>3. spc = "exit" => \A d \in Conns : fin'[d] \/ rst'[d]
    BY <1>2 DEF IInv, Attended, Grown
  <2> QED BY <2>1, <2>2, <2>3, <1>1 DEF IInv, Attended
<1> QED BY <1>4, <1>5, <1>6, <1>7 DEF IInv, Flows, Balances, Bursts

\* What trunc_iov leaves is no more than was desired.
LEMMA Truncated ==
    ASSUME NEW c \in Conns, NEW d \in Nat, NEW k \in 1 .. trunc_iov(iov_cnt(c), BUFFER_SIZE, d)
    PROVE  k \in 1 .. d
<1> DEFINE i == iov_cnt(c)
<1>1. i \in Int /\ BUFFER_SIZE \in Int
  BY EchoAssumption DEF iov_cnt
<1> HIDE DEF i
<1> DEFINE p == i * BUFFER_SIZE
<1>2. p \in Int
  BY <1>1
<1> HIDE DEF p
<1>3. trunc_iov(i, BUFFER_SIZE, d) = IF d <= p THEN d ELSE p
  BY DEF trunc_iov, p
<1>4. k \in 1 .. (IF d <= p THEN d ELSE p)
  BY <1>3 DEF i
<1> QED BY <1>2, <1>4

\* A client goes on to its next system call, or dies.
LEMMA TurnStep ==
    ASSUME IInv, Quiet, NEW c \in Conns, NEW p \in {"dead", "send", "recv", "print"},
           cpc' = [cpc EXCEPT ![c] = p],
           UNCHANGED <<burst_i, tx_bytes, rx_bytes, sent, printed, c2s, s2c, fin, rst, backlog, back>>,
           told' = told \/ (cpc[c] = "send" /\ rst[c] /\ told' = [told EXCEPT ![c] = TRUE]),
           p # "dead" => cpc[c] \in {"send", "recv"},
           p = "print" /\ ~told'[c] => tx_bytes[c] = 0 /\ rx_bytes[c] = 0
    PROVE  IInv'
<1>1. EchoTypeOK /\ Tables
  BY DEF IInv, TypeOK
<1>2. /\ \A d \in Conns : d # c => Still(d)
      /\ cpc'[c] = p /\ (told[c] => told'[c]) /\ (told'[c] => told[c] \/ (rst[c] /\ cpc[c] = "send"))
  BY <1>1 DEF EchoTypeOK, Still
<1>3. EchoTypeOK' /\ Tables'
  BY <1>1 DEF EchoTypeOK, Tables
<1>4. kind # "sockmap" => Len(s2c'[c]) <= DOWN
  BY DEF IInv, TypeOK
<1>5. Live(c)' <=> Live(c)
  BY QuietServer DEF Live, Waiting
<1>6. Whole(c)' = Whole(c) /\ UnderWay(c)' = UnderWay(c)
  BY <1>5, QuietServer DEF Whole, UnderWay
<1>7. Flow(c)' /\ Balance(c)'
  BY <1>5, <1>6, QuietServer DEF IInv, Flows, Balances, Flow, Balance
<1>8. Burst(c)'
  <2>1. Burst(c)
    BY DEF IInv, Bursts
  <2> QED BY <2>1, <1>2 DEF Burst
<1>9. NoServer => rst'[c] /\ ~told'[c]
  <2>1. NoServer => cpc[c] \in {"new", "dead"} /\ rst[c] /\ ~told[c]
    BY DEF IInv, Queue
  <2> QED BY <2>1, <1>2
<1> QED BY <1>2, <1>3, <1>4, <1>7, <1>8, <1>9, ClientStep

\* What remains to be done says where the loop goes.
LEMMA LoopGoes ==
    ASSUME NEW x \in Nat, NEW y \in Nat
    PROVE  /\ LoopPc(x, y) \in {"dead", "send", "recv", "print"} /\ LoopPc(x, y) # "dead"
           /\ LoopPc(x, y) = "print" => x = 0 /\ y = 0
BY DEF LoopPc
\* The steps of a client that only change what it does next.
LEMMA TurnsKeep ==
    ASSUME IInv, Quiet, NEW c \in Conns,
           \/ Refused(c) \/ ClientSendFull(c) \/ ClientSendError(c) \/ ClientKilled(c)
           \/ ClientRecvEmpty(c) \/ ClientRecvError(c)
    PROVE  IInv'
<1>1. CASE Refused(c)
  BY <1>1, TurnStep DEF Refused, connVars
<1>2. CASE ClientSendFull(c)
  BY <1>2, TurnStep DEF ClientSendFull, connVars
<1>3. CASE ClientSendError(c)
  <2>1. told'[c]
    BY <1>3 DEF ClientSendError, IInv, TypeOK, EchoTypeOK
  <2> QED BY <2>1, <1>3, TurnStep DEF ClientSendError
<1>4. CASE ClientKilled(c)
  BY <1>4, TurnStep DEF ClientKilled, connVars
<1>5. CASE ClientRecvEmpty(c)
  <2> DEFINE p == LoopPc(tx_bytes[c], rx_bytes[c])
  <2>1. p \in {"dead", "send", "recv", "print"} /\ (p = "print" => tx_bytes[c] = 0 /\ rx_bytes[c] = 0)
    BY LoopGoes DEF IInv, Tables
  <2>2. cpc' = [cpc EXCEPT ![c] = p] /\ cpc[c] = "recv"
    BY <1>5 DEF ClientRecvEmpty
  <2> HIDE DEF p
  <2> QED BY <2>1, <2>2, <1>5, TurnStep DEF ClientRecvEmpty, connVars
<1>6. CASE ClientRecvError(c)
  BY <1>6, TurnStep DEF ClientRecvError, connVars
<1> QED BY <1>1, <1>2, <1>3, <1>4, <1>5, <1>6

\* A new connection is last in the queue and nothing is under way on it.
LEMMA ConnectKeeps ==
    ASSUME IInv, Quiet, NEW c \in Conns, Connect(c)
    PROVE  IInv'
<1>1. EchoTypeOK /\ Tables
  BY DEF IInv, TypeOK
<1>2. /\ cpc[c] = "new" /\ ~rst[c] /\ backlog' = Append(backlog, c) /\ cpc' = [cpc EXCEPT ![c] = "send"]
      /\ tx_bytes' = [tx_bytes EXCEPT ![c] = BurstSz[c]] /\ rx_bytes' = [rx_bytes EXCEPT ![c] = BurstSz[c]]
      /\ UNCHANGED <<burst_i, sent, printed, c2s, s2c, fin, rst, told, back>>
  BY DEF Connect
<1>3. /\ (Serving' <=> Serving) /\ (NoServer' <=> NoServer) /\ cd' = cd /\ spc' = spc /\ signals' = signals
      /\ kind' = kind /\ \A d : HoldOf(d)' = HoldOf(d)
  BY QuietServer
<1>4. Fresh(c) /\ ~NoServer
  BY <1>2 DEF IInv, Queue
<1>5. \A d \in Conns : d # c => Still(d)
  BY <1>1, <1>2 DEF Still, EchoTypeOK, Tables
<1>6. EchoTypeOK' /\ Tables'
  <2>1. backlog' \in Seq(Conns)
    BY <1>1, <1>2 DEF EchoTypeOK
  <2>2. BurstSz[c] \in Nat /\ BurstSz[c] \in 0 .. BurstSz[c]
    BY EchoAssumption
  <2>3. cpc' \in [Conns -> {"new", "send", "recv", "print", "closed", "dead"}]
    BY <1>1, <1>2 DEF EchoTypeOK
  <2>4. /\ tx_bytes' \in [Conns -> Nat] /\ rx_bytes' \in [Conns -> Nat]
        /\ \A d \in Conns : tx_bytes'[d] \in 0 .. BurstSz[d] /\ rx_bytes'[d] \in 0 .. BurstSz[d]
    BY <1>1, <1>2, <2>2 DEF EchoTypeOK, Tables
  <2> QED BY <1>1, <1>2, <2>1, <2>3, <2>4 DEF EchoTypeOK, Tables
<1>7. TypeOK' /\ Inner'
  <2>1. Grown
    BY <1>2 DEF Grown
  <2>2. kind # "sockmap" => \A d \in Conns : Len(s2c'[d]) <= DOWN
    BY <1>2 DEF IInv, TypeOK
  <2> QED BY <2>1, <2>2, <1>6, QuietInner DEF IInv
<1>8. /\ Waiting' = Waiting \cup {c}
      /\ \A k, l \in DOMAIN backlog' : backlog'[k] = backlog'[l] => k = l
  <2> DEFINE L == Len(backlog)
             q == backlog'
  <2>1. /\ L \in Nat /\ DOMAIN backlog = 1 .. L /\ DOMAIN q = 1 .. L + 1
        /\ (\A k \in 1 .. L : q[k] = backlog[k]) /\ q[L + 1] = c
    BY <1>1, <1>2, LenProperties DEF EchoTypeOK
  <2> HIDE DEF L, q
  <2>2. \A k \in 1 .. L : k \in 1 .. L + 1 /\ k # L + 1
    BY <2>1
  <2>3. \A k \in 1 .. L + 1 : k \in 1 .. L \/ k = L + 1
    BY <2>1
  <2>4. L + 1 \in 1 .. L + 1
    BY <2>1
  <2>5. c \notin {backlog[k] : k \in 1 .. L}
    BY <1>4, <2>1 DEF Fresh, Waiting
  <2>6. \A k, l \in 1 .. L : backlog[k] = backlog[l] => k = l
    BY <2>1 DEF IInv, Queue
  <2>7. {q[k] : k \in 1 .. L + 1} = {backlog[k] : k \in 1 .. L} \cup {c}
    BY <2>1, <2>2, <2>3, <2>4
  <2>8. \A k, l \in 1 .. L + 1 : q[k] = q[l] => k = l
    BY <2>1, <2>3, <2>5, <2>6
  <2> QED BY <2>1, <2>7, <2>8 DEF Waiting, q
<1>9. Flow(c)' /\ Balance(c)' /\ Burst(c)'
  <2>1. /\ c2s'[c] = <<>> /\ s2c'[c] = <<>> /\ back'[c] = <<>> /\ sent'[c] = 0
        /\ HoldOf(c)' = <<>>
    BY <1>2, <1>3, <1>4 DEF Fresh, HoldOf
  <2>2. Whole(c)' = <<>> /\ UnderWay(c)' = 0 /\ Len(<<>>) = 0
    BY <2>1, Nothing DEF Whole, UnderWay
  <2>3. Flow(c)'
    BY <2>1, <2>2 DEF Flow, InOrder, Unbroken
  <2>4. tx_bytes'[c] = BurstSz[c] /\ rx_bytes'[c] = BurstSz[c] /\ BurstSz[c] \in Nat
    BY <1>1, <1>2, EchoAssumption DEF Tables
  <2>5. Balance(c)'
    BY <2>2, <2>4 DEF Balance
  <2>6. Burst(c)'
    <3>1. Burst(c)
      BY DEF IInv, Bursts
    <3>2. cpc'[c] = "send"
      BY <1>1, <1>2 DEF EchoTypeOK
    <3> QED BY <3>1, <3>2, <1>2 DEF Burst
  <2> QED BY <2>3, <2>5, <2>6
<1>10. ASSUME NEW d \in Conns PROVE Flow(d)' /\ Balance(d)' /\ Burst(d)'
  BY <1>5, <1>8, <1>9, Bystander DEF IInv, Flows, Balances, Bursts
<1>11. Queue'
  <2>1. cd' \notin Waiting'
    BY <1>3, <1>4, <1>8 DEF Fresh, IInv, Queue
  <2>2. ASSUME NEW d \in Conns, cpc'[d] = "new" PROVE Fresh(d)'
    <3>1. d # c
      BY <2>2, <1>1, <1>2 DEF EchoTypeOK
    <3>2. Fresh(d)
      BY <2>2, <3>1, <1>5 DEF Still, IInv, Queue
    <3> QED BY <3>1, <3>2, <1>3, <1>5, <1>8 DEF Fresh, Still
  <2> QED BY <2>1, <2>2, <1>3, <1>4, <1>8 DEF Queue
<1>12. Attended'
  <2>1. ASSUME ~signals, NEW d \in Conns, cpc'[d] \notin {"new", "dead"}, ~rst'[d], ~fin'[d] PROVE Live(d)'
    <3>1. CASE d = c
      BY <3>1, <1>2, <1>8 DEF Live
    <3>2. CASE d # c
      <4>1. Live(d)
        BY <2>1, <3>2, <1>5 DEF Still, IInv, Attended
      <4> QED BY <4>1, <2>1, <1>3, <1>8 DEF Live
    <3> QED BY <3>1, <3>2
  <2> QED BY <2>1, <1>2, <1>3 DEF IInv, Attended
<1> QED BY <1>6, <1>7, <1>10, <1>11, <1>12 DEF IInv, Flows, Balances, Bursts

\* What is sent is under way.
LEMMA SendKeeps ==
    ASSUME IInv, Quiet, NEW c \in Conns, ClientSend(c)
    PROVE  IInv'
<1>1. EchoTypeOK /\ Tables /\ Flow(c) /\ Balance(c) /\ Burst(c)
  BY DEF IInv, TypeOK, Flows, Balances, Bursts
<1>2. PICK k \in 1 .. trunc_iov(iov_cnt(c), BUFFER_SIZE, tx_bytes[c]) :
        /\ Len(c2s[c]) + k <= UP
        /\ c2s' = [c2s EXCEPT ![c] = c2s[c] \o [i \in 1 .. k |-> <<c, sent[c] + i>>]]
        /\ sent' = [sent EXCEPT ![c] = sent[c] + k]
        /\ tx_bytes' = [tx_bytes EXCEPT ![c] = tx_bytes[c] - k]
  BY DEF ClientSend
<1>3. /\ cpc[c] = "send" /\ ~rst[c]
      /\ cpc' = [cpc EXCEPT ![c] = IF rx_bytes[c] > 0 THEN "recv" ELSE LoopPc(tx_bytes'[c], 0)]
      /\ UNCHANGED <<burst_i, rx_bytes, printed, s2c, fin, rst, told, backlog, back>>
  BY DEF ClientSend
<1> DEFINE x == [i \in 1 .. k |-> <<c, sent[c] + i>>]
<1>4. /\ tx_bytes[c] \in Nat /\ rx_bytes[c] \in Nat /\ sent[c] \in Nat /\ tx_bytes[c] <= BurstSz[c]
      /\ BurstSz[c] \in Nat
  BY <1>1, EchoAssumption DEF EchoTypeOK, Tables
<1>5. k \in 1 .. tx_bytes[c]
  BY <1>2, <1>4, Truncated
<1>6. k \in Nat \ {0} /\ tx_bytes[c] - k \in Nat /\ tx_bytes[c] - k \in 0 .. BurstSz[c]
  BY <1>4, <1>5
<1>7. c2s[c] \in Words /\ s2c[c] \in Words /\ back[c] \in Words /\ HoldOf(c) \in Words
  <2>1. Wordy
    BY HoldType, CommonWords DEF IInv, TypeOK, Common
  <2> QED BY <2>1, HoldWord DEF Wordy
<1>8. /\ x \in Words /\ Len(x) = k
      /\ \A w \in Words :
           /\ InOrder(w, c, sent[c]) => InOrder(w, c, sent[c] + k) /\ InOrder(w \o x, c, sent[c] + k)
           /\ Unbroken(w, c) /\ Len(w) = sent[c] => Unbroken(w \o x, c) /\ Len(w \o x) = sent[c] + k
  <2>1. x = [i \in 1 .. k |-> <<c, sent[c] + i>>] /\ k \in Nat /\ sent[c] \in Nat
    BY <1>4, <1>6
  <2> HIDE DEF x
  <2>2. SentAfter(x, c, sent[c], k)
    BY <2>1, NextWord
  <2>3. ASSUME NEW w \in Words
        PROVE  /\ InOrder(w, c, sent[c]) => InOrder(w, c, sent[c] + k) /\ InOrder(w \o x, c, sent[c] + k)
               /\ Unbroken(w, c) /\ Len(w) = sent[c] => Unbroken(w \o x, c) /\ Len(w \o x) = sent[c] + k
    <3>1. k \in Nat /\ sent[c] \in Nat /\ w \in Words /\ c \in Conns /\ SentAfter(x, c, sent[c], k)
      BY <2>1, <2>2
    <3> QED BY ONLY <3>1, SentNext
  <2>4. x \in Words /\ Len(x) = k
    BY <2>2 DEF SentAfter
  <2> QED BY <2>3, <2>4
<1>9. c2s' = [c2s EXCEPT ![c] = c2s[c] \o x]
  BY <1>2
<1> HIDE DEF x
<1>10. c2s[c] \o x \in Words /\ Len(c2s[c] \o x) = Len(c2s[c]) + k /\ Len(c2s[c]) \in Nat
  BY ONLY <1>7, <1>8, JoinType
<1>11. /\ c2s'[c] = c2s[c] \o x /\ sent'[c] = sent[c] + k /\ tx_bytes'[c] = tx_bytes[c] - k
       /\ rx_bytes'[c] = rx_bytes[c] /\ s2c'[c] = s2c[c] /\ back'[c] = back[c]
       /\ cpc'[c] = IF rx_bytes[c] > 0 THEN "recv" ELSE LoopPc(tx_bytes[c] - k, 0)
  BY <1>1, <1>2, <1>3, <1>9 DEF EchoTypeOK, Tables
<1>12. \A d \in Conns : d # c => Still(d)
  BY <1>1, <1>2, <1>3, <1>9 DEF Still, EchoTypeOK, Tables
<1>13. /\ cpc'[c] \in {"send", "recv", "print"}
       /\ cpc'[c] = "print" => tx_bytes'[c] = 0 /\ rx_bytes'[c] = 0
  BY <1>4, <1>6, <1>11 DEF LoopPc
<1>14. EchoTypeOK' /\ Tables'
  <2>1. c2s' \in [Conns -> Seq(Conns \X Nat)] /\ \A d \in Conns : Len(c2s'[d]) <= UP
    <3>1. c2s[c] \o x \in Seq(Conns \X Nat)
      BY <1>10 DEF Words, Bytes
    <3>2. c2s' \in [Conns -> Seq(Conns \X Nat)]
      BY <3>1, <1>1, <1>9 DEF EchoTypeOK
    <3>3. Len(c2s'[c]) <= UP
      BY <1>2, <1>10, <1>11
    <3>4. \A d \in Conns : d # c => Len(c2s'[d]) <= UP
      BY <1>1, <1>12 DEF Still, EchoTypeOK
    <3> QED BY <3>2, <3>3, <3>4
  <2>2. sent' \in [Conns -> Nat] /\ tx_bytes' \in [Conns -> Nat] /\ \A d \in Conns : tx_bytes'[d] \in 0 .. BurstSz[d]
    <3>1. sent[c] + k \in Nat
      BY <1>4, <1>6
    <3> QED BY <3>1, <1>1, <1>2, <1>6 DEF EchoTypeOK, Tables
  <2>3. cpc' \in [Conns -> {"new", "send", "recv", "print", "closed", "dead"}]
    <3>1. \A d \in Conns : cpc'[d] \in {"new", "send", "recv", "print", "closed", "dead"}
      BY <1>1, <1>12, <1>13 DEF Still, EchoTypeOK
    <3> QED BY <3>1, <1>1, <1>3 DEF EchoTypeOK
  <2> QED BY <2>1, <2>2, <2>3, <1>1, <1>3 DEF EchoTypeOK, Tables
<1>15. /\ (Live(c)' <=> Live(c)) /\ HoldOf(c)' = HoldOf(c) /\ signals' = signals
  <2>1. Waiting' = Waiting /\ rst' = rst
    BY <1>3 DEF Waiting
  <2> QED BY <2>1, QuietServer DEF Live
<1>16. Flow(c)'
  <2>1. CASE Live(c)
    <3> DEFINE u == HoldOf(c) \o c2s[c]
               w == back[c] \o u
    <3>1. u \in Words
      BY ONLY <1>7, JoinType
    <3> HIDE DEF u
    <3>6. w \in Words
      BY ONLY <3>1, <1>7, JoinType
    <3>2. back[c] \o (HoldOf(c) \o (c2s[c] \o x)) = w \o x
      <4>1. u \o x = HoldOf(c) \o (c2s[c] \o x)
        <5> DEFINE h == HoldOf(c)
                   z == c2s[c]
        <5>1. h \in Words /\ z \in Words /\ x \in Words
          BY <1>7, <1>8
        <5> HIDE DEF h, z
        <5>2. (h \o z) \o x = h \o (z \o x)
          BY ONLY <5>1, Regroup
        <5> QED BY <5>2 DEF u, h, z
      <4>2. w \o x = back[c] \o (u \o x)
        <5> DEFINE v == back[c]
        <5>1. v \in Words /\ u \in Words /\ x \in Words
          BY <3>1, <1>7, <1>8
        <5> HIDE DEF v
        <5>2. (v \o u) \o x = v \o (u \o x)
          BY ONLY <5>1, Regroup
        <5> QED BY <5>2 DEF v
      <4> QED BY <4>1, <4>2
    <3>3. Whole(c) = w /\ Whole(c)' = back[c] \o (HoldOf(c) \o (c2s[c] \o x))
      BY <2>1, <1>11, <1>15 DEF Whole, u
    <3> HIDE DEF w
    <3>4. InOrder(w, c, sent[c]) /\ (~signals => Unbroken(w, c) /\ Len(w) = sent[c])
      BY <1>1, <2>1, <3>3 DEF Flow
    <3>5. InOrder(w \o x, c, sent[c] + k)
          /\ (~signals => Unbroken(w \o x, c) /\ Len(w \o x) = sent[c] + k)
      BY <1>8, <3>6, <3>4
    <3> QED BY <3>2, <3>3, <3>5, <1>11, <1>15 DEF Flow
  <2>2. CASE ~Live(c)
    <3>1. Whole(c) = back[c] /\ Whole(c)' = back[c]
      BY <2>2, <1>11, <1>15 DEF Whole
    <3>2. InOrder(back[c], c, sent[c] + k) /\ (~signals => Unbroken(back[c], c))
      BY <3>1, <1>1, <1>7, <1>8 DEF Flow
    <3> QED BY <2>2, <3>1, <3>2, <1>11, <1>15 DEF Flow
  <2> QED BY <2>1, <2>2
<1>17. Balance(c)'
  <2>1. UnderWay(c)' = UnderWay(c) + k /\ UnderWay(c) \in Nat
    <3>1. PICK i \in Nat, j \in Nat, l \in Nat :
             Len(c2s[c]) = i /\ Len(HoldOf(c)) = j /\ Len(s2c[c]) = l
      BY <1>7, LenProperties DEF Words
    <3>2. UnderWay(c) = i + j + l /\ UnderWay(c)' = (i + k) + j + l
      BY <3>1, <1>10, <1>11, <1>15 DEF UnderWay
    <3> QED BY ONLY <3>2, <1>6, i \in Nat, j \in Nat, l \in Nat
  <2>2. (~signals /\ Live(c) /\ ~fin[c]) => rx_bytes[c] = tx_bytes[c] + UnderWay(c)
    BY <1>1 DEF Balance
  <2>3. rx_bytes[c] = tx_bytes[c] + UnderWay(c) => rx_bytes'[c] = tx_bytes'[c] + UnderWay(c)'
    BY <2>1, <1>4, <1>6, <1>11
  <2> QED BY <2>2, <2>3, <1>3, <1>15 DEF Balance
<1>18. Burst(c)'
  BY <1>1, <1>3, <1>13 DEF Burst
<1>19. NoServer => rst'[c] /\ ~told'[c]
  BY <1>3 DEF IInv, Queue
<1>20. kind # "sockmap" => Len(s2c'[c]) <= DOWN
  BY <1>3 DEF IInv, TypeOK
<1> QED BY <1>3, <1>12, <1>13, <1>14, <1>16, <1>17, <1>18, <1>19, <1>20, ClientStep

\* What is received is no longer waited for.
LEMMA RecvKeeps ==
    ASSUME IInv, Quiet, NEW c \in Conns, ClientRecv(c)
    PROVE  IInv'
<1>1. EchoTypeOK /\ Tables /\ Flow(c) /\ Balance(c) /\ Burst(c)
  BY DEF IInv, TypeOK, Flows, Balances, Bursts
<1>2. PICK k \in 1 .. Len(s2c[c]) :
        /\ k <= trunc_iov(iov_cnt(c), BUFFER_SIZE, rx_bytes[c])
        /\ s2c' = [s2c EXCEPT ![c] = SubSeq(s2c[c], k + 1, Len(s2c[c]))]
        /\ rx_bytes' = [rx_bytes EXCEPT ![c] = rx_bytes[c] - k]
  BY DEF ClientRecv
<1>3. /\ cpc[c] = "recv"
      /\ cpc' = [cpc EXCEPT ![c] = IF Blocking(c) /\ rx_bytes'[c] > 0 /\ ~rst[c]
                                  THEN "recv" ELSE LoopPc(tx_bytes[c], rx_bytes'[c])]
      /\ UNCHANGED <<burst_i, tx_bytes, sent, printed, c2s, fin, rst, told, backlog, back>>
  BY DEF ClientRecv
<1>4. /\ tx_bytes[c] \in Nat /\ rx_bytes[c] \in Nat /\ rx_bytes[c] <= BurstSz[c] /\ BurstSz[c] \in Nat
      /\ s2c[c] \in Words /\ c2s[c] \in Words /\ Len(s2c[c]) \in Nat
  <2>1. /\ tx_bytes[c] \in Nat /\ rx_bytes[c] \in Nat /\ rx_bytes[c] <= BurstSz[c] /\ BurstSz[c] \in Nat
        /\ s2c[c] \in Words /\ c2s[c] \in Words
    <3>1. tx_bytes[c] \in Nat /\ rx_bytes[c] \in Nat /\ BurstSz[c] \in Nat
      BY <1>1, EchoAssumption DEF Tables
    <3>2. rx_bytes[c] <= BurstSz[c]
      BY <3>1, <1>1 DEF EchoTypeOK
    <3>3. s2c[c] \in Words /\ c2s[c] \in Words
      BY <1>1 DEF EchoTypeOK, Words, Bytes
    <3> QED BY <3>1, <3>2, <3>3
  <2> QED BY <2>1, LenProperties DEF Words
<1>5. k \in 1 .. rx_bytes[c]
  <2>1. trunc_iov(iov_cnt(c), BUFFER_SIZE, rx_bytes[c]) \in Int
    <3>1. iov_cnt(c) \in Int /\ BUFFER_SIZE \in Int
      BY EchoAssumption DEF iov_cnt
    <3> QED BY <3>1, <1>4 DEF trunc_iov
  <2>2. k \in 1 .. trunc_iov(iov_cnt(c), BUFFER_SIZE, rx_bytes[c])
    BY <2>1, <1>2, <1>4
  <2> QED BY <2>2, <1>4, Truncated
<1>6. /\ k \in Nat \ {0} /\ k \in 0 .. Len(s2c[c])
      /\ rx_bytes[c] - k \in Nat /\ rx_bytes[c] - k \in 0 .. BurstSz[c]
  BY <1>4, <1>5
<1> DEFINE y == SubSeq(s2c[c], k + 1, Len(s2c[c]))
<1>7. y \in Words /\ Len(y) = Len(s2c[c]) - k
  BY <1>4, <1>6, Split
<1>8. s2c' = [s2c EXCEPT ![c] = y]
  BY <1>2
<1> HIDE DEF y
<1>9. /\ s2c'[c] = y /\ rx_bytes'[c] = rx_bytes[c] - k /\ tx_bytes'[c] = tx_bytes[c]
      /\ c2s'[c] = c2s[c] /\ back'[c] = back[c] /\ sent'[c] = sent[c]
      /\ cpc'[c] \in {"recv", LoopPc(tx_bytes[c], rx_bytes[c] - k)}
  BY <1>1, <1>2, <1>3, <1>8 DEF EchoTypeOK, Tables
<1>10. \A d \in Conns : d # c => Still(d)
  BY <1>1, <1>2, <1>3, <1>8 DEF Still, EchoTypeOK, Tables
<1>11. /\ cpc'[c] \in {"send", "recv", "print"}
       /\ cpc'[c] = "print" => tx_bytes'[c] = 0 /\ rx_bytes'[c] = 0
  BY <1>4, <1>6, <1>9 DEF LoopPc
<1>12. EchoTypeOK' /\ Tables'
  <2>1. s2c' \in [Conns -> Seq(Conns \X Nat)]
    <3>1. y \in Seq(Conns \X Nat)
      BY <1>7 DEF Words, Bytes
    <3> QED BY <3>1, <1>1, <1>8 DEF EchoTypeOK
  <2>2. rx_bytes' \in [Conns -> Nat] /\ \A d \in Conns : rx_bytes'[d] \in 0 .. BurstSz[d]
    BY <1>1, <1>2, <1>6 DEF EchoTypeOK, Tables
  <2>3. cpc' \in [Conns -> {"new", "send", "recv", "print", "closed", "dead"}]
    <3>1. \A d \in Conns : cpc'[d] \in {"new", "send", "recv", "print", "closed", "dead"}
      BY <1>1, <1>10, <1>11 DEF Still, EchoTypeOK
    <3> QED BY <3>1, <1>1, <1>3 DEF EchoTypeOK
  <2> QED BY <2>1, <2>2, <2>3, <1>1, <1>3 DEF EchoTypeOK, Tables
<1>13. /\ (Live(c)' <=> Live(c)) /\ HoldOf(c)' = HoldOf(c) /\ signals' = signals
  <2>1. Waiting' = Waiting /\ rst' = rst
    BY <1>3 DEF Waiting
  <2> QED BY <2>1, QuietServer DEF Live
<1>14. Flow(c)'
  <2>1. Whole(c)' = Whole(c)
    BY <1>9, <1>13 DEF Whole
  <2> QED BY <2>1, <1>1, <1>9, <1>13 DEF Flow
<1>15. Balance(c)'
  <2>1. HoldOf(c) \in Words
    BY HoldType, Nothing DEF IInv, HoldOf
  <2>2. PICK i \in Nat, j \in Nat, l \in Nat :
           Len(c2s[c]) = i /\ Len(HoldOf(c)) = j /\ Len(s2c[c]) = l
    BY <1>4, <2>1, LenProperties DEF Words
  <2>3. UnderWay(c) = i + j + l /\ UnderWay(c)' = i + j + (l - k)
    BY <2>2, <1>7, <1>9, <1>13 DEF UnderWay
  <2>4. (~signals /\ Live(c) /\ ~fin[c]) => rx_bytes[c] = tx_bytes[c] + UnderWay(c)
    BY <1>1 DEF Balance
  <2>5. rx_bytes[c] = tx_bytes[c] + UnderWay(c) => rx_bytes'[c] = tx_bytes'[c] + UnderWay(c)'
    BY <2>3, <1>4, <1>6, <1>9
  <2> QED BY <2>4, <2>5, <1>3, <1>13 DEF Balance
<1>16. Burst(c)'
  BY <1>1, <1>3, <1>11 DEF Burst
<1>17. NoServer => rst'[c] /\ ~told'[c]
  BY <1>3 DEF IInv, Queue
<1>18. kind # "sockmap" => Len(s2c'[c]) <= DOWN
  <2>1. kind # "sockmap" => Len(s2c[c]) <= DOWN
    BY DEF IInv, TypeOK
  <2> QED BY <2>1, <1>4, <1>6, <1>7, <1>9, EchoAssumption
<1> QED BY <1>3, <1>10, <1>11, <1>12, <1>14, <1>15, <1>16, <1>17, <1>18, ClientStep

\* A burst that is over left nothing under way, so the next starts afresh.
LEMMA PrintKeeps ==
    ASSUME IInv, Quiet, NEW c \in Conns, PrintBurst(c)
    PROVE  IInv'
<1>1. EchoTypeOK /\ Tables /\ Flow(c) /\ Balance(c) /\ Burst(c)
  BY DEF IInv, TypeOK, Flows, Balances, Bursts
<1>2. /\ cpc[c] = "print"
      /\ printed' = [printed EXCEPT ![c] = Append(printed[c], rx_bytes[c])]
      /\ burst_i' = [burst_i EXCEPT ![c] = burst_i[c] + 1]
      /\ UNCHANGED <<sent, c2s, s2c, rst, told, backlog, back>>
  BY DEF PrintBurst
<1>3. \/ /\ burst_i[c] + 1 < BurstCount
         /\ tx_bytes' = [tx_bytes EXCEPT ![c] = BurstSz[c]]
         /\ rx_bytes' = [rx_bytes EXCEPT ![c] = BurstSz[c]]
         /\ cpc' = [cpc EXCEPT ![c] = "send"]
         /\ fin' = fin
      \/ /\ cpc' = [cpc EXCEPT ![c] = "closed"]
         /\ fin' = [fin EXCEPT ![c] = ~rst[c]]
         /\ tx_bytes' = tx_bytes /\ rx_bytes' = rx_bytes
  BY DEF PrintBurst, MoreBursts
<1>4. \A d \in Conns : d # c => Still(d)
  <2>1. ASSUME NEW d \in Conns, d # c
        PROVE  /\ cpc'[d] = cpc[d] /\ fin'[d] = fin[d]
               /\ tx_bytes'[d] = tx_bytes[d] /\ rx_bytes'[d] = rx_bytes[d]
    BY <2>1, <1>1, <1>3 DEF EchoTypeOK, Tables
  <2>2. ASSUME NEW d \in Conns, d # c
        PROVE  burst_i'[d] = burst_i[d] /\ printed'[d] = printed[d]
    BY <2>2, <1>1, <1>2 DEF EchoTypeOK, Tables
  <2> QED BY <2>1, <2>2, <1>2 DEF Still
<1>5. /\ cpc'[c] \in {"send", "closed"} /\ cpc' \in [Conns -> {"new", "send", "recv", "print", "closed", "dead"}]
      /\ fin' \in [Conns -> BOOLEAN] /\ ~fin[c] /\ (fin'[c] => cpc'[c] = "closed")
      /\ cpc'[c] = "closed" /\ ~rst[c] => fin'[c]
      /\ cpc'[c] = "send" => fin' = fin /\ rx_bytes'[c] = BurstSz[c] /\ tx_bytes'[c] = BurstSz[c]
  <2>1. ~fin[c] /\ fin \in [Conns -> BOOLEAN] /\ rst \in [Conns -> BOOLEAN] /\ c \in Conns
        /\ cpc \in [Conns -> {"new", "send", "recv", "print", "closed", "dead"}]
        /\ tx_bytes \in [Conns -> Nat] /\ rx_bytes \in [Conns -> Nat]
    BY <1>1, <1>2 DEF EchoTypeOK, Burst, Tables
  <2> QED BY <2>1, <1>3
<1>6. burst_i[c] \in Nat /\ burst_i[c] < BurstCount /\ BurstCount \in Nat /\ burst_i'[c] = burst_i[c] + 1
  BY <1>1, <1>2, EchoAssumption DEF Burst, EchoTypeOK
<1>7. rx_bytes[c] \in Nat /\ rx_bytes[c] \in 0 .. BurstSz[c] /\ BurstSz[c] \in Nat /\ BurstSz[c] \in 0 .. BurstSz[c]
  <2>1. rx_bytes[c] \in Nat /\ rx_bytes[c] \in 0 .. BurstSz[c] /\ BurstSz[c] \in Nat
    BY <1>1, EchoAssumption DEF EchoTypeOK, Tables
  <2> QED BY <2>1
<1>8. /\ printed[c] \in Seq(0 .. BurstSz[c]) /\ printed'[c] = Append(printed[c], rx_bytes[c])
      /\ printed'[c] \in Seq(0 .. BurstSz[c])
      /\ \A k \in DOMAIN printed'[c] : \/ k \in DOMAIN printed[c] /\ printed'[c][k] = printed[c][k]
                                    \/ printed'[c][k] = rx_bytes[c]
  <2>1. printed[c] \in Seq(0 .. BurstSz[c]) /\ printed'[c] = Append(printed[c], rx_bytes[c])
    BY <1>1, <1>2 DEF EchoTypeOK, Tables
  <2> DEFINE P == printed[c]
             S == 0 .. BurstSz[c]
             b == rx_bytes[c]
  <2>2. P \in Seq(S) /\ b \in S /\ printed'[c] = Append(P, b)
    BY <2>1, <1>7
  <2> HIDE DEF P, S, b
  <2>3. /\ Append(P, b) \in Seq(S) /\ Len(Append(P, b)) = Len(P) + 1
        /\ Append(P, b)[Len(P) + 1] = b
        /\ \A k \in 1 .. Len(P) : Append(P, b)[k] = P[k]
    BY ONLY <2>2, RingAppend
  <2>4. /\ DOMAIN P = 1 .. Len(P) /\ Len(P) \in Nat
        /\ DOMAIN Append(P, b) = 1 .. Len(P) + 1
    BY <2>2, <2>3, LenProperties
  <2>5. ASSUME NEW k \in 1 .. Len(P) + 1 PROVE k \in 1 .. Len(P) \/ k = Len(P) + 1
    BY <2>4
  <2>6. \A k \in DOMAIN Append(P, b) : \/ k \in DOMAIN P /\ Append(P, b)[k] = P[k]
                                       \/ Append(P, b)[k] = b
    BY <2>3, <2>4, <2>5
  <2> QED BY <2>2, <2>3, <2>6 DEF P, S, b
<1>9. EchoTypeOK' /\ Tables'
  <2>1. burst_i' \in [Conns -> 0 .. BurstCount]
    <3>1. burst_i[c] + 1 \in 0 .. BurstCount
      BY <1>6
    <3> QED BY <3>1, <1>1, <1>2 DEF EchoTypeOK
  <2>2. tx_bytes' \in [Conns -> Nat] /\ rx_bytes' \in [Conns -> Nat]
        /\ \A d \in Conns : tx_bytes'[d] \in 0 .. BurstSz[d] /\ rx_bytes'[d] \in 0 .. BurstSz[d]
    BY <1>1, <1>3, <1>7 DEF EchoTypeOK, Tables
  <2>3. \A d \in Conns : printed'[d] \in Seq(0 .. BurstSz[d])
    BY <1>1, <1>4, <1>8 DEF Still, EchoTypeOK
  <2>4. printed' \in [Conns -> Seq(Nat)]
    <3>1. Append(printed[c], rx_bytes[c]) \in Seq(Nat)
      <4>1. printed[c] \in Seq(Nat) /\ rx_bytes[c] \in Nat
        BY <1>1, <1>7 DEF Tables
      <4> QED BY ONLY <4>1, RingAppend
    <3> QED BY <3>1, <1>1, <1>2 DEF Tables
  <2> QED BY <2>1, <2>2, <2>3, <2>4, <1>1, <1>2, <1>5 DEF EchoTypeOK, Tables
<1>10. (Live(c)' <=> Live(c)) /\ HoldOf(c)' = HoldOf(c) /\ signals' = signals
  <2>1. Waiting' = Waiting /\ rst' = rst
    BY <1>2 DEF Waiting
  <2> QED BY <2>1, QuietServer DEF Live
<1>11. Whole(c)' = Whole(c) /\ UnderWay(c)' = UnderWay(c)
  BY <1>2, <1>10 DEF Whole, UnderWay
<1>12. Flow(c)'
  BY <1>1, <1>2, <1>10, <1>11 DEF Flow
<1>13. Balance(c)'
  <2> SUFFICES ASSUME ~signals, Live(c), ~fin'[c]
               PROVE  rx_bytes'[c] = tx_bytes'[c] + UnderWay(c)
    BY <1>10, <1>11 DEF Balance
  <2>1. fin' = fin /\ rx_bytes'[c] = BurstSz[c] /\ tx_bytes'[c] = BurstSz[c]
    BY <1>5 DEF Live
  <2>2. tx_bytes[c] = 0 /\ rx_bytes[c] = 0
    BY <1>1, <1>2 DEF Burst, Live
  <2>3. 0 = 0 + UnderWay(c)
    BY <2>1, <2>2, <1>1 DEF Balance
  <2>4. UnderWay(c) \in Nat
    <3>1. c2s[c] \in Words /\ s2c[c] \in Words /\ HoldOf(c) \in Words
      <4>1. Wordy
        BY HoldType, CommonWords DEF IInv, TypeOK, Common
      <4> QED BY <4>1, HoldWord DEF Wordy
    <3>2. Len(c2s[c]) \in Nat /\ Len(s2c[c]) \in Nat /\ Len(HoldOf(c)) \in Nat
      BY <3>1, LenProperties DEF Words
    <3>3. PICK i \in Nat, j \in Nat, l \in Nat :
             Len(c2s[c]) = i /\ Len(HoldOf(c)) = j /\ Len(s2c[c]) = l
      BY <3>2
    <3>4. UnderWay(c) = i + j + l
      BY <3>3 DEF UnderWay
    <3> QED BY ONLY <3>4, i \in Nat, j \in Nat, l \in Nat
  <2> QED BY <2>1, <2>3, <2>4, <1>7
<1>14. Burst(c)'
  <2>1. cpc'[c] = "send" => burst_i'[c] < BurstCount
    BY <1>1, <1>3, <1>6 DEF EchoTypeOK
  <2>2. ~told[c] => \A k \in DOMAIN printed'[c] : printed'[c][k] = 0
    BY <1>1, <1>2, <1>8 DEF Burst
  <2>3. fin'[c] => cpc'[c] = "closed"
    BY <1>5
  <2> QED BY <2>1, <2>2, <2>3, <1>1, <1>2, <1>5 DEF Burst
<1>15. NoServer => rst'[c] /\ ~told'[c]
  BY <1>2 DEF IInv, Queue
<1>16. kind # "sockmap" => Len(s2c'[c]) <= DOWN
  BY <1>2 DEF IInv, TypeOK
<1> QED BY <1>2, <1>4, <1>5, <1>9, <1>12, <1>13, <1>14, <1>15, <1>16, ClientStep

\* An interrupted client leaves everything where it is.
LEMMA InterruptKeeps ==
    ASSUME IInv, Quiet, NEW c \in Conns, ClientInterrupted(c)
    PROVE  IInv'
<1>1. EchoTypeOK /\ Tables /\ Flow(c) /\ Balance(c) /\ Burst(c)
  BY DEF IInv, TypeOK, Flows, Balances, Bursts
<1>2. /\ cpc[c] \in {"send", "recv", "print"}
      /\ cpc' = [cpc EXCEPT ![c] = "dead"] /\ fin' = [fin EXCEPT ![c] = ~rst[c]]
      /\ burst_i' = burst_i /\ tx_bytes' = tx_bytes /\ rx_bytes' = rx_bytes
      /\ sent' = sent /\ printed' = printed /\ c2s' = c2s /\ s2c' = s2c
      /\ rst' = rst /\ told' = told /\ backlog' = backlog /\ back' = back
  BY DEF ClientInterrupted
<1>3. \A d \in Conns : d # c => Still(d)
  BY <1>1, <1>2 DEF Still, EchoTypeOK
<1>4. /\ cpc'[c] = "dead" /\ ~fin[c] /\ (~rst[c] => fin'[c])
      /\ cpc' \in [Conns -> {"new", "send", "recv", "print", "closed", "dead"}]
      /\ fin' \in [Conns -> BOOLEAN]
  BY <1>1, <1>2 DEF EchoTypeOK, Burst
<1>5. EchoTypeOK' /\ Tables'
  BY <1>1, <1>2, <1>4 DEF EchoTypeOK, Tables
<1>6. (Live(c)' <=> Live(c)) /\ HoldOf(c)' = HoldOf(c) /\ signals' = signals
  <2>1. Waiting' = Waiting /\ rst' = rst
    BY <1>2 DEF Waiting
  <2> QED BY <2>1, QuietServer DEF Live
<1>7. Whole(c)' = Whole(c)
  BY <1>2, <1>6 DEF Whole
<1>8. Flow(c)'
  BY <1>1, <1>2, <1>6, <1>7 DEF Flow
<1>9. Balance(c)'
  BY <1>4, <1>6 DEF Balance, Live
<1>10. Burst(c)'
  BY <1>1, <1>2, <1>4 DEF Burst
<1>11. NoServer => rst'[c] /\ ~told'[c]
  BY <1>2 DEF IInv, Queue
<1>12. kind # "sockmap" => Len(s2c'[c]) <= DOWN
  BY <1>2 DEF IInv, TypeOK
<1> QED BY <1>2, <1>3, <1>4, <1>5, <1>8, <1>9, <1>10, <1>11, <1>12, ClientStep

\* A connection that is torn down loses what is under way, and gets nothing more.
LEMMA TornKeeps ==
    ASSUME IInv, Quiet, NEW c \in Conns, cpc[c] # "new", ~rst[c], TornDown(c)
    PROVE  IInv'
<1>1. EchoTypeOK /\ Tables /\ Flow(c) /\ Balance(c) /\ Burst(c) /\ Wordy
  BY HoldType, CommonWords DEF IInv, TypeOK, Flows, Balances, Bursts, Common
<1>2. /\ cpc[c] # "new" /\ ~rst[c] /\ rst' = [rst EXCEPT ![c] = TRUE]
      /\ UNCHANGED <<clientVars, fin, told, backlog, back>>
  BY DEF TornDown
<1>3. PICK k \in 0 .. Len(c2s[c]) : c2s' = [c2s EXCEPT ![c] = SubSeq(c2s[c], 1, k)]
  BY DEF TornDown
<1>4. PICK l \in 0 .. Len(s2c[c]) : s2c' = [s2c EXCEPT ![c] = SubSeq(s2c[c], 1, l)]
  BY DEF TornDown
<1> DEFINE x == SubSeq(c2s[c], 1, k)
           y == SubSeq(s2c[c], 1, l)
<1>5. c2s[c] \in Words /\ s2c[c] \in Words /\ Len(c2s[c]) \in Nat /\ Len(s2c[c]) \in Nat
  <2>1. c2s[c] \in Words /\ s2c[c] \in Words
    BY <1>1 DEF Wordy
  <2> QED BY <2>1, LenProperties DEF Words
<1>6. x \in Words /\ Len(x) = k /\ y \in Words /\ Len(y) = l
  BY <1>5, Split
<1>7. c2s' = [c2s EXCEPT ![c] = x] /\ s2c' = [s2c EXCEPT ![c] = y]
  BY <1>3, <1>4
<1> HIDE DEF x, y
<1>8. /\ cpc' = cpc /\ burst_i' = burst_i /\ tx_bytes' = tx_bytes /\ rx_bytes' = rx_bytes
      /\ sent' = sent /\ printed' = printed
      /\ rst'[c] = TRUE /\ c2s'[c] = x /\ s2c'[c] = y
  BY <1>1, <1>2, <1>7 DEF EchoTypeOK, clientVars
<1>9. \A d \in Conns : d # c => Still(d)
  BY <1>1, <1>2, <1>7, <1>8 DEF Still, EchoTypeOK
<1>10. EchoTypeOK' /\ Tables'
  <2>1. c2s' \in [Conns -> Seq(Conns \X Nat)] /\ s2c' \in [Conns -> Seq(Conns \X Nat)]
    <3>1. x \in Seq(Conns \X Nat) /\ y \in Seq(Conns \X Nat)
      BY <1>6 DEF Words, Bytes
    <3> QED BY <3>1, <1>1, <1>7 DEF EchoTypeOK
  <2>2. \A d \in Conns : Len(c2s'[d]) <= UP
    <3>1. Len(c2s'[c]) <= UP
      <4>1. Len(c2s[c]) <= UP
        BY <1>1 DEF EchoTypeOK
      <4> QED BY <4>1, <1>3, <1>5, <1>6, <1>8, EchoAssumption
    <3> QED BY <3>1, <1>1, <1>9 DEF Still, EchoTypeOK
  <2>3. rst' \in [Conns -> BOOLEAN]
    BY <1>1, <1>2 DEF EchoTypeOK
  <2> QED BY <2>1, <2>2, <2>3, <1>1, <1>2, <1>8 DEF EchoTypeOK, Tables
<1>11. Flow(c)' /\ Balance(c)'
  <2>1. Outcome(c)
    BY <1>2, <1>8, HungUp
  <2>2. Apart
    BY <1>2, QuietServer DEF Apart
  <2> QED BY <2>1, <2>2, <1>1, OutcomeFlow, OutcomeBalance
<1>12. Burst(c)'
  BY <1>1, <1>2, <1>8 DEF Burst
<1>13. NoServer => rst'[c] /\ ~told'[c]
  BY <1>2, <1>8 DEF IInv, Queue
<1>14. kind # "sockmap" => Len(s2c'[c]) <= DOWN
  <2>1. kind # "sockmap" => Len(s2c[c]) <= DOWN
    BY DEF IInv, TypeOK
  <2> QED BY <2>1, <1>4, <1>5, <1>6, <1>8, EchoAssumption
<1> QED BY <1>2, <1>8, <1>9, <1>10, <1>11, <1>12, <1>13, <1>14, ClientStep

-----------------------------------------------------------------------------
(* The invariant *)
\* A step of the server is of one of the kinds,
LEMMA ServersDo ==
    ASSUME IInv, ServerNext, UNCHANGED <<kind, signals>>
    PROVE  ServerEffect /\ Inner' /\ (Common' => TypeOK')
<1>1. TypeOK /\ Inner /\ Queue /\ Attended
  BY DEF IInv
<1> QED BY <1>1, ListenEffect, NaiveEffect, SpliceEffect, IosubmitEffect, SockmapEffect DEF ServerNext

\* and keeps the invariant.
LEMMA ServerKeeps ==
    ASSUME IInv, ServerNext, UNCHANGED <<kind, signals>>
    PROVE  IInv'
<1>1. ServerEffect /\ Inner' /\ (Common' => TypeOK')
  BY ServersDo
<1>2. Common /\ Hold \in Words /\ Queue /\ Attended
  BY HoldType DEF IInv, TypeOK, Common
<1>3. Common' /\ Queue' /\ Attended' /\ \A c \in Conns : Outcome(c)
  BY <1>1, <1>2, EffectSound
<1>4. Wordy /\ Apart
  BY <1>1, <1>2, CommonWords DEF ServerEffect
<1>5. Flows' /\ Balances'
  BY <1>3, <1>4, OutcomeFlow, OutcomeBalance DEF IInv, Flows, Balances
<1>6. Tables'
  BY <1>4 DEF IInv, Tables, Apart, clientVars
<1>7. ASSUME NEW c \in Conns, told[c] PROVE rst'[c]
  <2>1. rst[c]
    BY <1>7 DEF IInv, Bursts, Burst
  <2>2. ~NoServer
    BY <1>7 DEF IInv, Queue
  <2>3. rst' = rst \/ \A d \in Conns : rst[d] => rst'[d]
    BY <1>1, <2>2 DEF ServerEffect, Accepts, Moves, Gives, Idles, Ends, Closes, Exits, Starts, Hangup, connVars
  <2> QED BY <2>1, <2>3
<1>8. Bursts'
  <2>1. ASSUME NEW c \in Conns PROVE Burst(c)'
    <3>1. Burst(c)
      BY DEF IInv, Bursts
    <3> QED BY <3>1, <1>4, <1>7 DEF Burst, Apart, clientVars
  <2> QED BY <2>1 DEF Bursts
<1> QED BY <1>1, <1>3, <1>5, <1>6, <1>8 DEF IInv

\* So do the steps of the clients.
LEMMA ClientsKeep ==
    ASSUME IInv, Clients, UNCHANGED <<kind, signals>>
    PROVE  IInv'
<1>1. Quiet
  BY DEF Clients, Quiet
<1>2. PICK c \in Conns : ClientNext(c) \/ ClientInterrupted(c) \/ Reset(c)
  BY DEF Clients, ClientsOnly
<1>3. CASE Unwanted(c)
  <2>1. cpc[c] # "new" /\ ~rst[c] /\ TornDown(c)
    BY <1>3 DEF Unwanted, IInv, Bursts, Burst
  <2> QED BY <2>1, <1>1, TornKeeps
<1>4. CASE Reset(c)
  <2>1. cpc[c] # "new" /\ ~rst[c] /\ TornDown(c)
    BY <1>4 DEF Reset
  <2> QED BY <2>1, <1>1, TornKeeps
<1>5. CASE ClientNext(c) /\ ~Unwanted(c)
  BY <1>1, <1>5, ConnectKeeps, TurnsKeep, SendKeeps, RecvKeeps, PrintKeeps DEF ClientNext
<1> QED BY <1>1, <1>2, <1>3, <1>4, <1>5, InterruptKeeps

\* It holds at the start.
LEMMA InitInv == Init => IInv
<1> SUFFICES ASSUME Init PROVE IInv
  OBVIOUS
<1>1. /\ cpc = [c \in Conns |-> "new"] /\ burst_i = [c \in Conns |-> 0]
      /\ tx_bytes = [c \in Conns |-> 0] /\ rx_bytes = [c \in Conns |-> 0]
      /\ sent = [c \in Conns |-> 0] /\ printed = [c \in Conns |-> <<>>]
      /\ c2s = [c \in Conns |-> <<>>] /\ s2c = [c \in Conns |-> <<>>]
      /\ fin = [c \in Conns |-> FALSE] /\ rst = [c \in Conns |-> TRUE] /\ told = [c \in Conns |-> FALSE]
      /\ backlog = <<>> /\ back = [c \in Conns |-> <<>>]
  BY DEF Init, InitEcho
<1>2. /\ kind \in {"naive", "splice", "iosubmit", "sockmap"} /\ signals \in BOOLEAN
      /\ spc = IF kind = "sockmap" THEN "prepare" ELSE "start"
      /\ cd = NoConn /\ buf = <<>> /\ m = 0 /\ nbytes = 0 /\ ring = <<>> /\ events = <<0, 0>>
      /\ pipe = <<>> /\ n = 0 /\ pipes \in 1 .. MaxPipes
      /\ slot = NoConn /\ early = 0 /\ flight = <<>>
  BY ServersAssumption DEF Init, Naive!InitServer, Splice!InitServer, Iosubmit!InitServer, Sockmap!InitServer
<1>3. NoServer /\ ~Serving /\ spc \notin {"close", "exit", "write", "read", "reap", "events", "in", "delete", "poll"}
  BY <1>2 DEF NoServer, Serving
<1>4. Waiting = {} /\ \A c \in Conns : ~Live(c)
  BY <1>1 DEF Waiting, Live
<1>5. NoConn \notin Conns /\ BurstCount \in Nat \ {0} /\ UP \in Nat /\ DOWN \in Nat
  BY EchoAssumption
<1>6. /\ \A S : <<>> \in Seq(S)
      /\ Len(<<>>) = 0
  BY EmptySeq
<1>7. EchoTypeOK
  <2>1. \A c \in Conns : BurstSz[c] \in Nat /\ 0 \in 0 .. BurstSz[c]
    BY EchoAssumption
  <2>2. 0 \in 0 .. BurstCount
    BY <1>5
  <2>3. /\ \A c \in Conns : /\ tx_bytes[c] \in 0 .. BurstSz[c] /\ rx_bytes[c] \in 0 .. BurstSz[c]
                            /\ printed[c] \in Seq(0 .. BurstSz[c])
        /\ \A c \in Conns : Len(c2s[c]) <= UP
    BY <2>1, <1>1, <1>5, <1>6
  <2> QED BY <2>2, <2>3, <1>1, <1>6 DEF EchoTypeOK
<1>8. TypeOK
  <2>1. kind # "sockmap" => \A c \in Conns : Len(s2c[c]) <= DOWN
    BY <1>1, <1>5, <1>6
  <2>2. kind = "naive" => Naive!ServerTypeOK
    BY <1>2, <1>6 DEF Naive!ServerTypeOK
  <2>3. kind = "splice" => Splice!ServerTypeOK
    BY <1>2, <1>6, ServersAssumption DEF Splice!ServerTypeOK
  <2>4. kind = "iosubmit" => Iosubmit!ServerTypeOK
    <3>1. 0 \in -1 .. BUFFER_SIZE /\ 0 \in 0 .. BUFFER_SIZE /\ 0 \in 0 .. 0
      BY EchoAssumption
    <3>2. events \in Seq(-1 .. BUFFER_SIZE) /\ Len(events) = 2
      BY <1>2, <3>1
    <3> QED BY <3>1, <3>2, <1>2, <1>6 DEF Iosubmit!ServerTypeOK
  <2>5. kind = "sockmap" => Sockmap!ServerTypeOK
    <3>1. 0 \in 0 .. UP
      BY <1>5
    <3> QED BY <3>1, <1>2, <1>6 DEF Sockmap!ServerTypeOK
  <2> QED BY <2>1, <2>2, <2>3, <2>4, <2>5, <1>2, <1>7 DEF TypeOK
<1>9. Tables
  BY <1>1, <1>6 DEF Tables
<1>10. ASSUME NEW c \in Conns PROVE Flow(c) /\ Balance(c) /\ Burst(c)
  <2>1. Whole(c) = <<>>
    BY <1>1, <1>4 DEF Whole
  <2>2. Flow(c)
    BY <2>1, <1>4, <1>6 DEF Flow, InOrder, Unbroken
  <2> QED BY <2>2, <1>1, <1>4, <1>5 DEF Balance, Burst
<1>11. Queue
  BY <1>1, <1>2, <1>3, <1>4, <1>5 DEF Queue, Fresh
<1>12. Attended
  BY <1>1, <1>3 DEF Attended
<1>13. Inner
  BY <1>2, <1>3 DEF Inner
<1> QED BY <1>8, <1>9, <1>10, <1>11, <1>12, <1>13 DEF IInv, Flows, Balances, Bursts

\* The invariant holds of every run of every server.
THEOREM Invariant == Spec => []IInv
<1>1. ASSUME IInv, [Next]_vars PROVE IInv'
  <2>1. CASE Next
    BY <2>1, <1>1, ClientsKeep, ServerKeeps DEF Next
  <2>2. CASE UNCHANGED vars
    <3>1. Quiet /\ UNCHANGED <<clientVars, connVars>>
      BY <2>2 DEF vars, Quiet, serverVars, echoVars
    <3>2. /\ cpc' = cpc /\ burst_i' = burst_i /\ tx_bytes' = tx_bytes /\ rx_bytes' = rx_bytes
          /\ sent' = sent /\ printed' = printed /\ c2s' = c2s /\ s2c' = s2c
          /\ fin' = fin /\ rst' = rst /\ told' = told /\ backlog' = backlog /\ back' = back
      BY <3>1 DEF clientVars, connVars
    <3>3. EchoTypeOK' /\ Tables' /\ Waiting' = Waiting
      BY <3>2, <1>1 DEF IInv, TypeOK, EchoTypeOK, Tables, Waiting
    <3>4. TypeOK' /\ Inner'
      <4>1. Grown
        BY <3>2 DEF Grown
      <4>2. kind # "sockmap" => \A c \in Conns : Len(s2c'[c]) <= DOWN
        BY <3>2, <1>1 DEF IInv, TypeOK
      <4> QED BY <4>1, <4>2, <3>1, <3>3, <1>1, QuietInner DEF IInv
    <3>5. ASSUME NEW c \in Conns PROVE (Live(c)' <=> Live(c)) /\ Flow(c)' /\ Balance(c)' /\ Burst(c)'
      <4>1. Still(c)
        BY <3>2 DEF Still
      <4> QED BY <4>1, <3>1, <3>3, <1>1, Bystander DEF IInv, Flows, Balances, Bursts
    <3>6. Queue' /\ Attended'
      BY <3>1, <3>2, <3>3, <3>5, <1>1, QuietServer DEF IInv, Queue, Attended, Fresh
    <3> QED BY <3>3, <3>4, <3>5, <3>6 DEF IInv, Flows, Balances, Bursts
  <2> QED BY <1>1, <2>1, <2>2
<1> QED BY <1>1, InitInv, PTL DEF Spec

-----------------------------------------------------------------------------
(* What follows *)

\* What a server says it holds is what it does.
LEMMA HeldIs ==
    ASSUME IInv, NEW c \in Conns, ~signals, Live(c), ~fin[c]
    PROVE  Held(c) = Len(HoldOf(c))
<1>1. ~rst[c] /\ c # NoConn /\ (c = cd => Serving \/ c \in Waiting) /\ (c = cd => c \notin Waiting)
  BY EchoAssumption DEF Live, IInv, Queue
<1>2. HoldOf(c) = (IF c = cd THEN Hold ELSE <<>>) /\ Len(<<>>) = 0
  BY Nothing DEF HoldOf
<1>3. CASE kind = "naive"
  <2>1. Held(c) = IF cd = c /\ spc = "send" THEN Len(buf) - m ELSE 0
    BY <1>3 DEF Held, Naive!Held
  <2>2. Len(SubSeq(buf, m + 1, Len(buf))) = Len(buf) - m
    <3>1. buf \in Words /\ m \in 0 .. Len(buf)
      BY <1>3 DEF IInv, TypeOK, Naive!ServerTypeOK, Words, Bytes
    <3> QED BY <3>1, Split
  <2> QED BY <2>1, <2>2, <1>2, <1>3 DEF Hold
<1>4. CASE kind = "splice"
  BY <1>2, <1>4 DEF Held, Splice!Held, Hold
<1>5. CASE kind = "iosubmit"
  <2>1. Held(c) = IF cd # c THEN 0
                  ELSE IF spc = "write" THEN nbytes - m
                  ELSE IF spc \in {"reap", "events"} THEN Len(buf) ELSE 0
    BY <1>5 DEF Held, Iosubmit!Held
  <2>2. CASE cd # c
    BY <2>1, <2>2, <1>2
  <2>3. CASE cd = c /\ spc = "write"
    <3>1. buf \in Words /\ m \in 0 .. nbytes /\ nbytes \in Nat /\ nbytes <= Len(buf)
      BY <1>5, <2>3, EchoAssumption DEF IInv, TypeOK, Iosubmit!ServerTypeOK, Inner, Words, Bytes
    <3>2. nbytes \in 0 .. Len(buf)
      <4>1. Len(buf) \in Nat
        BY <3>1, LenProperties DEF Words
      <4> QED BY <3>1, <4>1
    <3>3. Len(SubSeq(buf, m + 1, nbytes)) = nbytes - m
      BY <3>1, <3>2, Middle
    <3> QED BY <2>1, <2>3, <3>3, <1>2, <1>5 DEF Hold
  <2>4. CASE cd = c /\ spc \in {"reap", "events"}
    <3>1. \A w, x : Results(w, x) => ~(x <= 0)
      BY <2>4, <1>1 DEF Results
    <3>2. /\ spc = "reap" => Results(ring[1], ring[2]) /\ Len(ring) = 2
          /\ spc = "events" => Results(events[1], events[2])
      BY <1>5 DEF IInv, Inner
    <3>3. (spc = "reap" => ring[2] \in Int) /\ events[2] \in Int
      <4>1. ring \in Seq(-1 .. BUFFER_SIZE) /\ events \in Seq(-1 .. BUFFER_SIZE) /\ Len(events) = 2
        BY <1>5 DEF IInv, TypeOK, Iosubmit!ServerTypeOK
      <4>2. (spc = "reap" => ring[2] \in -1 .. BUFFER_SIZE) /\ events[2] \in -1 .. BUFFER_SIZE
        <5>1. events[2] \in -1 .. BUFFER_SIZE
          <6>1. events \in Seq(-1 .. BUFFER_SIZE) /\ 2 \in 1 .. Len(events)
            BY <4>1
          <6> QED BY ONLY <6>1, ElementOfSeq
        <5>2. ASSUME spc = "reap" PROVE ring[2] \in -1 .. BUFFER_SIZE
          <6>1. Len(ring) = 2
            BY <5>2, <3>2
          <6>2. ring \in Seq(-1 .. BUFFER_SIZE) /\ 2 \in 1 .. Len(ring)
            BY ONLY <4>1, <6>1
          <6> QED BY ONLY <6>2, ElementOfSeq
        <5> QED BY <5>1, <5>2
      <4> QED BY <4>2
    <3>4. (spc = "reap" => ring[2] > 0) /\ (spc = "events" => events[2] > 0)
      BY <3>1, <3>2, <3>3
    <3>5. Hold = buf
      BY <2>4, <3>4, <1>5 DEF Hold
    <3> QED BY <2>1, <2>4, <3>5, <1>2
  <2>5. CASE cd = c /\ spc \notin {"write", "reap", "events"}
    BY <2>1, <2>5, <1>2, <1>5 DEF Hold
  <2> QED BY <2>2, <2>3, <2>4, <2>5
<1>6. CASE kind = "sockmap"
  <2>1. Held(c) = IF slot = c THEN Len(flight) ELSE 0
    BY <1>6 DEF Held, Sockmap!Held
  <2>2. slot = c <=> spc \in {"poll", "delete"} /\ cd = c
    BY <1>1, <1>6 DEF IInv, Inner
  <2> QED BY <2>1, <2>2, <1>2, <1>6 DEF Hold
<1> QED BY <1>3, <1>4, <1>5, <1>6 DEF IInv, Inner

\* Without resets and signals no server loses or invents a byte, however it
\* buffers them: echo-naive.c, echo-splice.c, echo-iosubmit.c and echo-sockmap.c
\* against the bursts of test-burst.c.
THEOREM Conserved == Spec => []Conservation
<1>1. IInv => Conservation
  <2> SUFFICES ASSUME IInv, NEW c \in Conns, ~signals, cpc[c] \notin {"new", "dead"}, ~rst[c], ~fin[c]
               PROVE  rx_bytes[c] = tx_bytes[c] + Len(c2s[c]) + Held(c) + Len(s2c[c])
    BY DEF Conservation, IInv
  <2>1. Live(c)
    BY DEF IInv, Attended
  <2>2. Held(c) = Len(HoldOf(c))
    BY <2>1, HeldIs
  <2>3. rx_bytes[c] = tx_bytes[c] + UnderWay(c)
    BY <2>1 DEF IInv, Balances, Balance
  <2>4. c2s[c] \in Words /\ s2c[c] \in Words /\ HoldOf(c) \in Words /\ tx_bytes[c] \in Nat
    <3>1. Wordy
      BY HoldType, CommonWords DEF IInv, TypeOK, Common
    <3> QED BY <3>1, HoldWord DEF Wordy, IInv, Tables
  <2>5. PICK i \in Nat, j \in Nat, l \in Nat :
           Len(c2s[c]) = i /\ Len(HoldOf(c)) = j /\ Len(s2c[c]) = l
    BY <2>4, LenProperties DEF Words
  <2>6. rx_bytes[c] = tx_bytes[c] + (i + j + l)
    BY <2>3, <2>5 DEF UnderWay
  <2>7. Held(c) = j
    BY <2>2, <2>5
  <2>8. tx_bytes[c] + (i + j + l) = tx_bytes[c] + i + j + l
    BY ONLY <2>4, i \in Nat, j \in Nat, l \in Nat
  <2> QED BY <2>5, <2>6, <2>7, <2>8
<1> QED BY <1>1, Invariant, PTL

\* What a connection is given back comes first of all that it sent.
LEMMA BackInOrder ==
    ASSUME IInv, NEW c \in Conns
    PROVE  /\ back[c] \in Words /\ InOrder(back[c], c, sent[c])
           /\ ~signals => Unbroken(back[c], c)
<1>1. back[c] \in Words /\ HoldOf(c) \o c2s[c] \in Words
  <2>1. Wordy
    BY HoldType, CommonWords DEF IInv, TypeOK, Common
  <2> QED BY <2>1, HoldWord DEF Wordy
<1>2. Flow(c)
  BY DEF IInv, Flows
<1>3. CASE Live(c)
  <2> DEFINE u == HoldOf(c) \o c2s[c]
  <2>1. Whole(c) = back[c] \o u
    BY <1>3 DEF Whole
  <2> HIDE DEF u
  <2>2. /\ InOrder(back[c] \o u, c, sent[c]) => InOrder(back[c], c, sent[c])
        /\ Unbroken(back[c] \o u, c) => Unbroken(back[c], c)
    <3>1. back[c] \in Words /\ u \in Words
      BY <1>1 DEF u
    <3> QED BY ONLY <3>1, Prefix
  <2> QED BY <2>1, <2>2, <1>1, <1>2 DEF Flow
<1>4. CASE ~Live(c)
  BY <1>1, <1>2, <1>4 DEF Flow, Whole
<1> QED BY <1>3, <1>4

\* Bytes come back in the order they were sent and never on another connection,
\* even where a signal makes a server lose some: the partial sends of
\* echo-naive.c:78 and the shared buffer of echo-iosubmit.c included.
THEOREM InOrderBack == Spec => []OrderKept
<1>1. IInv => OrderKept
  <2> SUFFICES ASSUME IInv, NEW c \in Conns
               PROVE  /\ \A k \in DOMAIN back[c] : back[c][k][1] = c
                      /\ \A k \in 1 .. Len(back[c]) - 1 : back[c][k][2] < back[c][k + 1][2]
    BY DEF OrderKept
  <2> DEFINE w == back[c]
  <2>1. w \in Words /\ InOrder(w, c, sent[c])
    BY BackInOrder
  <2> HIDE DEF w
  <2>2. DOMAIN w = 1 .. Len(w) /\ Len(w) \in Nat
    BY <2>1, LenProperties DEF Words
  <2>3. \A k \in 1 .. Len(w) - 1 : k \in 1 .. Len(w) /\ k + 1 \in 1 .. Len(w) /\ k < k + 1
    BY <2>2
  <2> QED BY <2>1, <2>2, <2>3 DEF InOrder, w
<1> QED BY <1>1, Invariant, PTL

-----------------------------------------------------------------------------
(* Who ends a server *)

\* A client that has begun its burst has sent something.
Begun(c) == cpc[c] \notin {"new", "dead"} /\ tx_bytes[c] < BurstSz[c] => sent[c] > 0
\* One that has closed after its bursts left nothing to write.
AllBack(c) ==
    cpc[c] = "closed" /\ fin[c] => back[c] # <<>> /\ c2s[c] = <<>> /\ HoldOf(c) = <<>>
\* Only the first write of echo-iosubmit is empty, and echo-splice's second splice never.
Writes ==
    /\ \A c \in Waiting : back[c] = <<>>
    /\ kind = "iosubmit" /\ spc = "write" /\ nbytes = 0 => back[cd] = <<>>
    /\ kind = "splice" /\ spc = "out" => pipe # <<>> /\ Len(pipe) <= n

\* Without signals.
Settled == ~signals =>
    /\ \A c \in Conns : Begun(c) /\ AllBack(c)
    /\ Writes
    /\ spc = "exit" => cd \in Conns
    /\ ServerSurvives


\* At the last print everything is back.
LEMMA LastPrint ==
    ASSUME IInv, ~signals, NEW c \in Conns, cpc[c] = "print", ~rst[c], Begun(c)
    PROVE  back[c] # <<>> /\ c2s[c] = <<>> /\ HoldOf(c) = <<>>
<1>1. Flow(c) /\ Balance(c) /\ Burst(c) /\ Wordy
  BY HoldType, CommonWords DEF IInv, TypeOK, Flows, Balances, Bursts, Common
<1>2. ~told[c] /\ ~fin[c] /\ tx_bytes[c] = 0 /\ rx_bytes[c] = 0
  BY <1>1 DEF Burst
<1>3. Live(c)
  BY <1>2 DEF IInv, Attended
<1>4. 0 = 0 + UnderWay(c) /\ Len(Whole(c)) = sent[c]
  BY <1>1, <1>2, <1>3 DEF Balance, Flow
<1>5. c2s[c] \in Words /\ s2c[c] \in Words /\ HoldOf(c) \in Words /\ back[c] \in Words
  BY <1>1, HoldWord DEF Wordy
<1>6. PICK i \in Nat, j \in Nat, l \in Nat :
         Len(c2s[c]) = i /\ Len(HoldOf(c)) = j /\ Len(s2c[c]) = l
  BY <1>5, LenProperties DEF Words
<1>7. 0 = 0 + (i + j + l)
  BY <1>4, <1>6 DEF UnderWay
<1>8. i = 0 /\ j = 0
  BY ONLY <1>7, i \in Nat, j \in Nat, l \in Nat
<1>9. c2s[c] = <<>> /\ HoldOf(c) = <<>>
  BY <1>5, <1>6, <1>8, EmptySeq DEF Words
<1>10. Whole(c) = back[c]
  BY <1>3, <1>5, <1>9, Nothing DEF Whole
<1>11. sent[c] > 0
  <2>1. BurstSz[c] \in Nat \ {0}
    BY EchoAssumption
  <2> QED BY <2>1, <1>2 DEF Begun
<1>12. back[c] # <<>>
  <2>1. Len(<<>>) = 0
    BY EmptySeq
  <2> QED BY <2>1, <1>4, <1>10, <1>11
<1> QED BY <1>9, <1>12

\* What a client's step must leave alone.
LEMMA ClientSettles ==
    ASSUME IInv, Settled, ~signals, Quiet, Grown, back' = back,
           \A d \in Waiting' : back[d] = <<>>,
           \A d \in Conns : Begun(d)' /\ AllBack(d)',
           \A d \in Conns : cpc[d] = "dead" => cpc'[d] = "dead"
    PROVE  Settled'
<1>1. Writes /\ ServerSurvives /\ (spc = "exit" => cd \in Conns)
  BY DEF Settled
<1>2. spc' = spc /\ cd' = cd /\ kind' = kind /\ signals' = signals /\ nbytes' = nbytes
      /\ pipe' = pipe /\ n' = n /\ pipes' = pipes
  BY DEF Quiet, serverVars, aioVars, pipeVars
<1>3. Writes'
  BY <1>1, <1>2 DEF Writes
<1>4. spc = "exit" => \/ kind \in {"splice", "iosubmit"} /\ cpc[cd] = "dead" /\ Piped(cd)
                      \/ kind = "splice" /\ (pipes = 0 \/ Len(pipe) < n)
  BY <1>1 DEF ServerSurvives
<1>5. Piped(cd) /\ cd \in Conns => Piped(cd)'
  BY <1>2 DEF Piped, Grown
<1>6. ServerSurvives'
  BY <1>1, <1>2, <1>4, <1>5 DEF ServerSurvives
<1> QED BY <1>1, <1>2, <1>3, <1>6 DEF Settled

\* The steps of the clients and of the network change nobody's mind.
LEMMA ClientsSettle ==
    ASSUME IInv, Settled, ~signals, Clients, UNCHANGED <<kind, signals>>
    PROVE  Settled'
<1>1. Quiet
  BY DEF Clients, Quiet
<1>2. PICK c \in Conns : ClientNext(c) \/ ClientInterrupted(c) \/ Reset(c)
  BY DEF Clients, ClientsOnly
<1>3. EchoTypeOK /\ Tables /\ \A d \in Conns : Burst(d) /\ Begun(d) /\ AllBack(d)
  BY DEF IInv, TypeOK, Bursts, Settled
<1>4. /\ cpc \in [Conns -> {"new", "send", "recv", "print", "closed", "dead"}]
      /\ tx_bytes \in [Conns -> Nat] /\ sent \in [Conns -> Nat]
      /\ fin \in [Conns -> BOOLEAN] /\ rst \in [Conns -> BOOLEAN]
      /\ c2s \in [Conns -> Words]
  BY <1>3 DEF EchoTypeOK, Tables, Words, Bytes
<1>5. \A d \in Conns : HoldOf(d)' = HoldOf(d)
  BY <1>1, QuietServer
<1>6. \A d \in Waiting : back[d] = <<>>
  BY DEF Settled, Writes
<1>7. CASE /\ cpc[c] \notin {"closed", "dead"} /\ \E v \in {"send", "recv", "print", "dead"} : cpc' = [cpc EXCEPT ![c] = v]
           /\ cpc[c] = "new" => cpc'[c] = "dead"
           /\ tx_bytes' = tx_bytes /\ sent' = sent /\ c2s' = c2s /\ back' = back
           /\ rst' = rst /\ backlog' = backlog /\ (fin' = fin \/ (cpc'[c] = "dead" /\ fin' = [fin EXCEPT ![c] = ~rst[c]]))
  <2>1. ASSUME NEW d \in Conns
        PROVE  /\ cpc[d] = "dead" => cpc'[d] = "dead"
               /\ cpc'[d] \notin {"new", "dead"} => cpc[d] \notin {"new", "dead"}
               /\ cpc'[d] = "closed" => cpc[d] = "closed" /\ fin'[d] = fin[d]
               /\ ~fin[d] \/ d # c
    BY <1>3, <1>4, <1>7 DEF Burst
  <2>2. Grown
    BY <1>3, <1>4, <1>7, <2>1 DEF Grown, Burst
  <2>3. \A d \in Conns : Begun(d)' /\ AllBack(d)'
    BY <1>3, <1>5, <1>7, <2>1 DEF Begun, AllBack
  <2>4. Waiting' = Waiting
    BY <1>7 DEF Waiting
  <2> QED BY <1>1, <1>6, <1>7, <2>1, <2>2, <2>3, <2>4, ClientSettles
<1>8. CASE TornDown(c)
  <2>1. /\ UNCHANGED <<cpc, tx_bytes, sent, fin, backlog, back>>
        /\ rst' = [rst EXCEPT ![c] = TRUE]
    BY <1>8 DEF TornDown, clientVars
  <2>2. PICK k \in 0 .. Len(c2s[c]) : c2s' = [c2s EXCEPT ![c] = SubSeq(c2s[c], 1, k)]
    BY <1>8 DEF TornDown
  <2>3. ASSUME NEW d \in Conns, c2s[d] = <<>> PROVE c2s'[d] = <<>>
    <3>1. CASE d = c
      <4>1. k = 0
        BY <2>2, <2>3, <3>1, EmptySeq
      <4>2. SubSeq(c2s[c], 1, 0) = <<>>
        BY <1>4, SubSeqEmpty DEF Words
      <4> QED BY <4>1, <4>2, <2>2, <3>1, <1>4
    <3>2. CASE d # c
      BY <2>2, <2>3, <3>2, <1>4
    <3> QED BY <3>1, <3>2
  <2>4. Grown
    BY <2>1, <1>4 DEF Grown
  <2>5. \A d \in Conns : Begun(d)' /\ AllBack(d)'
    BY <1>3, <1>5, <2>1, <2>3 DEF Begun, AllBack
  <2>6. Waiting' = Waiting
    BY <2>1 DEF Waiting
  <2> QED BY <1>1, <1>6, <2>1, <2>4, <2>5, <2>6, ClientSettles
<1>9. CASE Connect(c)
  <2>1. /\ cpc[c] = "new" /\ backlog' = Append(backlog, c)
        /\ cpc' = [cpc EXCEPT ![c] = "send"] /\ tx_bytes' = [tx_bytes EXCEPT ![c] = BurstSz[c]]
        /\ UNCHANGED <<sent, c2s, fin, rst, back>>
    BY <1>9 DEF Connect
  <2>2. back[c] = <<>>
    BY <2>1 DEF IInv, Queue, Fresh
  <2>3. \A d \in Waiting' : d \in Waiting \/ d = c
    <3>1. backlog \in Seq(Conns)
      BY <1>3 DEF EchoTypeOK
    <3>2. \A k \in DOMAIN Append(backlog, c) : \/ k \in DOMAIN backlog /\ Append(backlog, c)[k] = backlog[k]
                                               \/ Append(backlog, c)[k] = c
      BY <3>1, AppendProperties
    <3> QED BY <3>2, <2>1 DEF Waiting
  <2>4. BurstSz[c] \in Nat /\ ~(BurstSz[c] < BurstSz[c])
    BY EchoAssumption
  <2>5. \A d \in Conns : Begun(d)' /\ AllBack(d)'
    BY <1>3, <1>4, <1>5, <2>1, <2>4 DEF Begun, AllBack
  <2>6. Grown /\ \A d \in Conns : cpc[d] = "dead" => cpc'[d] = "dead"
    BY <2>1, <1>4 DEF Grown
  <2> QED BY <1>1, <1>6, <2>1, <2>2, <2>3, <2>5, <2>6, ClientSettles
<1>10. CASE ClientSend(c)
  <2>1. PICK k \in 1 .. trunc_iov(iov_cnt(c), BUFFER_SIZE, tx_bytes[c]) :
           /\ c2s' = [c2s EXCEPT ![c] = c2s[c] \o [j \in 1 .. k |-> <<c, sent[c] + j>>]]
           /\ sent' = [sent EXCEPT ![c] = sent[c] + k]
           /\ tx_bytes' = [tx_bytes EXCEPT ![c] = tx_bytes[c] - k]
    BY <1>10 DEF ClientSend
  <2>2. cpc[c] = "send" /\ UNCHANGED <<fin, rst, backlog, back>>
    BY <1>10 DEF ClientSend
  <2>3. \E v \in {"send", "recv", "print"} : cpc' = [cpc EXCEPT ![c] = v]
    BY <1>10 DEF ClientSend, LoopPc
  <2>4. sent[c] + k > 0
    <3>1. k \in 1 .. tx_bytes[c]
      BY <2>1, <1>4, Truncated
    <3> QED BY <3>1, <1>4
  <2>5. \A d \in Conns : Begun(d)'
    BY <1>3, <1>4, <2>1, <2>3, <2>4 DEF Begun
  <2>6. \A d \in Conns : AllBack(d)'
    BY <1>3, <1>4, <1>5, <2>1, <2>2, <2>3 DEF AllBack
  <2>7. Grown /\ \A d \in Conns : cpc[d] = "dead" => cpc'[d] = "dead"
    BY <2>2, <2>3, <1>4 DEF Grown
  <2>8. Waiting' = Waiting
    BY <2>2 DEF Waiting
  <2> QED BY <1>1, <1>6, <2>2, <2>5, <2>6, <2>7, <2>8, ClientSettles
<1>11. CASE PrintBurst(c)
  <2>1. cpc[c] = "print" /\ UNCHANGED <<sent, c2s, rst, backlog, back>>
    BY <1>11 DEF PrintBurst
  <2>2. \/ /\ cpc' = [cpc EXCEPT ![c] = "send"] /\ fin' = fin
           /\ tx_bytes' = [tx_bytes EXCEPT ![c] = BurstSz[c]]
        \/ /\ cpc' = [cpc EXCEPT ![c] = "closed"] /\ fin' = [fin EXCEPT ![c] = ~rst[c]]
           /\ tx_bytes' = tx_bytes
    BY <1>11 DEF PrintBurst
  <2>3. ~rst[c] => back[c] # <<>> /\ c2s[c] = <<>> /\ HoldOf(c) = <<>>
    BY <2>1, <1>3, LastPrint
  <2>4. BurstSz[c] \in Nat /\ ~(BurstSz[c] < BurstSz[c]) /\ ~fin[c]
    BY <2>1, <1>3, EchoAssumption DEF Burst
  <2>5. \A d \in Conns : Begun(d)'
    BY <1>3, <1>4, <2>1, <2>2, <2>4 DEF Begun
  <2>6. \A d \in Conns : AllBack(d)'
    BY <1>3, <1>4, <1>5, <2>1, <2>2, <2>3, <2>4 DEF AllBack
  <2>7. Grown /\ \A d \in Conns : cpc[d] = "dead" => cpc'[d] = "dead"
    BY <2>1, <2>2, <2>4, <1>4 DEF Grown
  <2>8. Waiting' = Waiting
    BY <2>1 DEF Waiting
  <2> QED BY <1>1, <1>6, <2>1, <2>5, <2>6, <2>7, <2>8, ClientSettles
<1>12. CASE Refused(c) \/ ClientKilled(c) \/ ClientRecvError(c)
  BY <1>7, <1>12, <1>4 DEF Refused, ClientKilled, ClientRecvError, connVars
<1>13. CASE ClientSendFull(c) \/ ClientSendError(c) \/ ClientRecv(c) \/ ClientRecvEmpty(c)
  BY <1>7, <1>13, <1>4 DEF ClientSendFull, ClientSendError, ClientRecv, ClientRecvEmpty, LoopPc, connVars
<1>14. CASE ClientInterrupted(c)
  BY <1>7, <1>14, <1>4 DEF ClientInterrupted
<1> QED BY <1>2, <1>8, <1>9, <1>10, <1>11, <1>12, <1>13, <1>14 DEF ClientNext, Unwanted, Reset

\* Whatever the server does, nothing comes of a connection that has closed after
\* its bursts, and those that wait have got nothing.
LEMMA EffectSettles ==
    ASSUME IInv, Settled, ~signals, ServerEffect, Inner'
    PROVE  /\ \A c \in Conns : Begun(c)' /\ AllBack(c)'
           /\ \A c \in Waiting' : back'[c] = <<>>
           /\ spc # "exit" /\ (spc' = "exit" => cd' \in Conns)
<1>1. /\ UNCHANGED <<cpc, tx_bytes, sent, fin, kind, signals>>
      /\ Accepts \/ Moves \/ Gives \/ Idles \/ Ends \/ Closes \/ Exits \/ Starts
  BY DEF ServerEffect, Apart, clientVars
<1>2. /\ Wordy /\ \A c \in Conns : AllBack(c) /\ Begun(c)
      /\ \A c \in Waiting : back[c] = <<>>
      /\ cd \notin Waiting /\ Inner
      /\ DOMAIN c2s = Conns /\ DOMAIN back = Conns /\ backlog \in Seq(Conns)
  BY HoldType, CommonWords DEF IInv, TypeOK, Common, EchoTypeOK, Settled, Writes, Queue
<1>3. /\ \A c \in Conns : Begun(c)'
      /\ ~Serving' => Hold' = <<>>
  <2>1. \A c \in Conns : Begun(c)'
    BY <1>1, <1>2 DEF Begun
  <2>2. ~Serving' => Hold' = <<>>
    BY DEF Inner, Serving, Hold
  <2> QED BY <2>1, <2>2
<1>4. spc # "exit"
  BY <1>1 DEF Accepts, Moves, Gives, Idles, Ends, Closes, Exits, Starts, Serving, NoServer
<1>5. Serving => cd \in Conns
  BY DEF IInv, Attended
<1>6. \/ backlog' = backlog /\ cd' = cd
      \/ /\ spc = "accept" /\ backlog # <<>> /\ cd' = Head(backlog) /\ backlog' = Tail(backlog)
         /\ Hold' = <<>> /\ back' = back
  <2>1. CASE Exits
    <3>1. ~Serving'
      BY <2>1 DEF Exits, Serving
    <3>2. Hold' = <<>>
      BY <3>1, <1>3
    <3> QED BY <2>1, <3>2 DEF Exits
  <2> QED BY <1>1, <2>1 DEF Accepts, Moves, Gives, Idles, Ends, Closes, Starts, connVars
<1>7. backlog # <<>> /\ backlog' = Tail(backlog)
        => Head(backlog) \in Conns /\ \A c \in Waiting' : c \in Waiting
  <2>1. \A k, l \in DOMAIN backlog : backlog[k] = backlog[l] => k = l
    BY DEF IInv, Queue
  <2> SUFFICES ASSUME backlog # <<>>, backlog' = Tail(backlog)
               PROVE  Head(backlog) \in Conns /\ \A c \in Waiting' : c \in Waiting
    OBVIOUS
  <2>2. /\ Head(backlog) \in Conns /\ Head(backlog) \notin Waiting'
        /\ \A c : c # Head(backlog) => ((c \in Waiting)' <=> c \in Waiting)
    BY <1>2, <2>1, TailWaiting
  <2> QED BY <2>2
<1>8. spc' = "exit" => cd' \in Conns
  <2>1. spc' = "exit" => Exits
    BY <1>1 DEF Accepts, Moves, Gives, Idles, Ends, Closes, Starts, Serving, NoServer
  <2> QED BY <2>1, <1>5, <1>7 DEF Exits
<1>9. CASE Moves
  <2>1. cd \in Conns /\ UNCHANGED <<cd, backlog, back>> /\ Waiting' = Waiting
    BY <1>5, <1>9 DEF Moves, Waiting
  <2>2. PICK k \in 0 .. Len(c2s[cd]) :
           /\ c2s' = [c2s EXCEPT ![cd] = SubSeq(c2s[cd], k + 1, Len(c2s[cd]))]
           /\ Hold' = Hold \o SubSeq(c2s[cd], 1, k)
    BY <1>9 DEF Moves
  <2>3. ASSUME c2s[cd] = <<>>, Hold = <<>> PROVE c2s'[cd] = <<>> /\ Hold' = <<>>
    <3>1. Len(<<>>) = 0 /\ <<>> \in Words
      BY Nothing
    <3>2. k = 0
      BY <2>2, <2>3, <3>1
    <3>3. SubSeq(<<>>, 0 + 1, 0) = <<>> /\ SubSeq(<<>>, 1, 0) = <<>>
      BY <3>1, SubSeqEmpty DEF Words
    <3>4. <<>> \o <<>> = <<>>
      BY <3>1, Nothing
    <3> QED BY <2>1, <2>2, <2>3, <3>1, <3>2, <3>3, <3>4, <1>2
  <2>4. ASSUME NEW c \in Conns PROVE AllBack(c)'
    <3>1. AllBack(c)
      BY <1>2
    <3> QED BY <3>1, <1>1, <2>1, <2>2, <2>3 DEF AllBack, HoldOf
  <2> QED BY <2>1, <2>4, <1>2, <1>3, <1>4, <1>8
<1>10. CASE Gives
  <2>1. cd \in Conns /\ UNCHANGED <<cd, backlog, c2s>> /\ Waiting' = Waiting
    BY <1>5, <1>10 DEF Gives, Waiting
  <2>2. PICK k \in 1 .. Len(Hold) : back' = [back EXCEPT ![cd] = back[cd] \o SubSeq(Hold, 1, k)]
    BY <1>10 DEF Gives, Given
  <2>3. Hold # <<>>
    BY <2>2, Nothing
  <2>4. ASSUME NEW c \in Conns PROVE AllBack(c)'
    <3>1. AllBack(c)
      BY <1>2
    <3>2. CASE c = cd
      BY <3>1, <3>2, <1>1, <2>3 DEF AllBack, HoldOf
    <3>3. CASE c # cd
      BY <3>1, <3>3, <1>1, <2>1, <2>2 DEF AllBack, HoldOf
    <3> QED BY <3>2, <3>3
  <2> QED BY <2>1, <2>2, <2>4, <1>2, <1>3, <1>4, <1>8
<1>11. CASE ~Moves /\ ~Gives
  <2>1. c2s' = c2s /\ back' = back
    BY <1>1, <1>11 DEF Accepts, Idles, Ends, Closes, Exits, Starts, connVars
  <2>2. Hold' = <<>> \/ (cd' = cd /\ Hold' = Hold)
    <3>1. CASE Ends \/ Closes \/ Exits \/ Starts
      <4>1. ~Serving'
        BY <3>1 DEF Ends, Closes, Exits, Starts, Serving, NoServer
      <4> QED BY <4>1, <1>3
    <3> QED BY <3>1, <1>1, <1>11 DEF Accepts, Idles
  <2>3. ASSUME NEW c \in Conns PROVE AllBack(c)'
    <3>1. AllBack(c)
      BY <1>2
    <3> QED BY <3>1, <1>1, <2>1, <2>2 DEF AllBack, HoldOf
  <2>4. \A c \in Waiting' : c \in Waiting
    <3>1. backlog' = backlog => Waiting' = Waiting
      BY DEF Waiting
    <3> QED BY <3>1, <1>6, <1>7
  <2> QED BY <2>1, <2>3, <2>4, <1>2, <1>3, <1>4, <1>8
<1> QED BY <1>9, <1>10, <1>11

\* Each server's own steps.
LEMMA ServersSettle ==
    ASSUME IInv, IInv', Settled, ~signals, ServerNext, UNCHANGED <<kind, signals>>
    PROVE  Settled'
<1>1. ServerEffect
  BY ServersDo
<1>2. /\ \A c \in Conns : Begun(c)' /\ AllBack(c)'
      /\ \A c \in Waiting' : back'[c] = <<>>
      /\ spc # "exit" /\ (spc' = "exit" => cd' \in Conns)
  BY <1>1, EffectSettles DEF IInv
<1>3. \A c \in Waiting : back[c] = <<>>
  BY DEF Settled, Writes
<1>4. Serving => cd \in Conns
  BY DEF IInv, Attended
<1>5. ASSUME cd \in Conns, fin[cd], Hold # <<>> PROVE cpc[cd] = "dead"
  BY <1>5 DEF IInv, Bursts, Burst, Settled, AllBack, HoldOf
<1>6. CASE Listen
  BY <1>2, <1>6 DEF Listen, Settled, Writes, ServerSurvives
<1>7. CASE kind = "naive" /\ Naive!ServerNext
  <2>1. spc' # "exit"
    BY <1>7 DEF Naive!ServerNext, Naive!Accept, Naive!Recv, Naive!RecvEnd, Naive!Send, Naive!SendReset,
         Naive!SendInterrupted, Naive!SendShort, Naive!Close
  <2> QED BY <2>1, <1>2, <1>7 DEF Settled, Writes, ServerSurvives
<1>8. CASE kind = "sockmap" /\ Sockmap!ServerNext
  <2>1. spc' # "exit"
    BY <1>2, <1>8 DEF Sockmap!ServerNext, Sockmap!Prepare, Sockmap!Accept, Sockmap!Update, Sockmap!UpdateClosed,
         Sockmap!Verdict, Sockmap!Transmit, Sockmap!Poll, Sockmap!Delete, Sockmap!Close
  <2> QED BY <2>1, <1>2, <1>8 DEF Settled, Writes, ServerSurvives
<1>9. CASE kind = "splice" /\ Splice!ServerNext
  <2>1. /\ pipe \in Words /\ Len(pipe) \in Nat /\ n \in Nat /\ pipes \in Nat /\ c2s \in [Conns -> Words]
        /\ spc = "in" => pipe = <<>>
        /\ spc = "out" => pipe # <<>> /\ Len(pipe) <= n
    <3>1. /\ pipe \in Words /\ n \in 0 .. SPLICE_MAX /\ pipes \in 0 .. MaxPipes /\ c2s \in [Conns -> Words]
          /\ SPLICE_MAX \in Nat /\ MaxPipes \in Nat
      BY <1>9, ServersAssumption DEF IInv, TypeOK, EchoTypeOK, Splice!ServerTypeOK, Words, Bytes
    <3>2. Len(pipe) \in Nat
      BY <3>1, LenProperties DEF Words
    <3>3. n \in Nat /\ pipes \in Nat
      BY <3>1
    <3> QED BY <3>1, <3>2, <3>3, <1>9 DEF IInv, Inner, Settled, Writes
  <2>2. kind' = "splice" /\ signals' = signals
    BY <1>9
  <2>3. ASSUME /\ spc' = "out" => pipe' # <<>> /\ Len(pipe') <= n'
               /\ spc' = "exit" => \/ cpc'[cd'] = "dead" /\ Piped(cd)'
                                   \/ pipes' = 0 \/ Len(pipe') < n'
        PROVE  Settled'
    BY <2>2, <2>3, <1>2 DEF Settled, Writes, ServerSurvives
  <2>4. CASE Splice!Accept
    BY <2>1, <2>3, <2>4 DEF Splice!Accept
  <2>5. CASE Splice!SpliceIn
    <3>1. cd \in Conns /\ spc = "in" /\ spc' = "out"
      BY <1>4, <2>5 DEF Splice!SpliceIn, Serving
    <3>2. PICK bytes \in {SubSeq(c2s[cd], 1, i) : i \in {j \in 1 .. Len(c2s[cd]) : j <= SPLICE_MAX}} :
             pipe' = pipe \o bytes /\ n' = Len(bytes)
      BY <2>5 DEF Splice!SpliceIn, Splice!Received
    <3>3. bytes \in Words /\ Len(bytes) \in 1 .. Len(c2s[cd])
      <4>1. c2s[cd] \in Words /\ SPLICE_MAX \in Nat
        BY <2>1, <3>1, ServersAssumption
      <4> QED BY <4>1, <3>2, ReceivedFirst
    <3>4. pipe' = bytes
      BY <3>1, <3>2, <3>3, <2>1, Nothing
    <3>5. Len(bytes) \in Nat /\ bytes # <<>>
      BY <3>3, LenProperties, EmptySeq DEF Words
    <3> QED BY <3>1, <3>2, <3>4, <3>5, <2>3
  <2>6. CASE Splice!SpliceOut
    <3>1. spc = "out" /\ n' = n /\ spc' = IF pipe' = <<>> THEN "in" ELSE "out"
      BY <2>6 DEF Splice!SpliceOut
    <3>2. PICK k \in 1 .. Len(pipe) : pipe' = SubSeq(pipe, k + 1, Len(pipe))
      BY <2>6 DEF Splice!SpliceOut
    <3>3. Len(pipe') = Len(pipe) - k
      <4>1. k \in 0 .. Len(pipe)
        BY <2>1
      <4> QED BY ONLY <4>1, <3>2, <2>1, Split
    <3>4. Len(pipe') <= n
      BY <3>1, <3>3, <2>1
    <3> QED BY <3>1, <3>4, <2>3
  <2>7. CASE Splice!SpliceOutReset
    <3>1. /\ spc = "out" /\ rst[cd] /\ cd \in Conns /\ Hold = pipe
          /\ UNCHANGED <<cd, pipe, n, pipes, fin, cpc>>
      BY <1>4, <1>9, <2>7 DEF Splice!SpliceOutReset, Splice!clientVars, Serving, Hold
    <3>2. CASE spc' = "close"
      BY <3>2, <2>3
    <3>3. CASE Len(pipe) # n
      BY <3>1, <3>3, <2>1, <2>3, <2>7 DEF Splice!SpliceOutReset
    <3>4. CASE spc' = "exit" /\ Len(pipe) = n
      <4>1. fin[cd] /\ rst' = [c \in Conns |-> rst[c] \/ (c \in Conns /\ ~fin[c])]
        BY <2>7, <3>4 DEF Splice!SpliceOutReset, Splice!Hangup, Splice!Piped
      <4>2. cpc[cd] = "dead"
        BY <4>1, <3>1, <2>1, <1>5
      <4>3. Piped(cd)'
        BY <4>1, <3>1 DEF Piped
      <4> QED BY <4>2, <4>3, <3>1, <3>4, <2>3
    <3> QED BY <3>2, <3>3, <3>4, <2>7 DEF Splice!SpliceOutReset
  <2>8. CASE Splice!SpliceInEnd \/ Splice!Close
    BY <2>3, <2>8 DEF Splice!SpliceInEnd, Splice!Close
  <2> QED BY <1>9, <2>4, <2>5, <2>6, <2>7, <2>8 DEF Splice!ServerNext
<1>10. CASE kind = "iosubmit" /\ Iosubmit!ServerNext
  <2>1. /\ buf \in Words /\ Len(buf) \in Nat /\ nbytes \in Nat /\ m \in 0 .. nbytes /\ events[2] \in Int
        /\ spc = "write" => nbytes <= Len(buf)
        /\ spc = "write" /\ nbytes = 0 => back[cd] = <<>>
    <3>1. /\ buf \in Words /\ nbytes \in 0 .. BUFFER_SIZE /\ m \in 0 .. nbytes
          /\ events \in Seq(-1 .. BUFFER_SIZE) /\ Len(events) = 2 /\ BUFFER_SIZE \in Nat
      BY <1>10, EchoAssumption DEF IInv, TypeOK, Iosubmit!ServerTypeOK, Words, Bytes
    <3>2. Len(buf) \in Nat /\ nbytes \in Nat
      BY <3>1, LenProperties DEF Words
    <3>3. events[2] \in Int
      <4>1. 2 \in 1 .. Len(events) /\ events \in Seq(-1 .. BUFFER_SIZE)
        BY <3>1
      <4>2. events[2] \in -1 .. BUFFER_SIZE
        BY ONLY <4>1, ElementOfSeq
      <4> QED BY <4>2, <3>1
    <3> QED BY <3>1, <3>2, <3>3, <1>10 DEF IInv, Inner, Settled, Writes
  <2>2. kind' = "iosubmit" /\ signals' = signals
    BY <1>10
  <2>3. ASSUME /\ spc' = "write" /\ nbytes' = 0 => back'[cd'] = <<>>
               /\ spc' = "exit" => cpc'[cd'] = "dead" /\ Piped(cd)'
        PROVE  Settled'
    BY <2>2, <2>3, <1>2 DEF Settled, Writes, ServerSurvives
  <2>4. CASE Iosubmit!Accept
    <3>1. spc' = "write" /\ back' = back /\ backlog # <<>> /\ cd' = Head(backlog)
      BY <2>4 DEF Iosubmit!Accept
    <3>2. Head(backlog) \in Waiting
      <4>1. backlog \in Seq(Conns)
        BY DEF IInv, TypeOK, EchoTypeOK
      <4>2. 1 \in DOMAIN backlog /\ Head(backlog) = backlog[1]
        BY <4>1, <3>1, HeadTailProperties, LenProperties, EmptySeq
      <4> QED BY <4>2 DEF Waiting
    <3> QED BY <3>1, <3>2, <1>3, <2>3
  <2>5. CASE Iosubmit!Write
    BY <2>1, <2>3, <2>5 DEF Iosubmit!Write
  <2>6. CASE Iosubmit!Events
    BY <2>1, <2>3, <2>6 DEF Iosubmit!Events
  <2>7. CASE Iosubmit!WritePiped
    <3>1. /\ spc = "write" /\ m = 0 /\ rst[cd] /\ fin[cd] /\ cd \in Conns
          /\ rst' = [c \in Conns |-> rst[c] \/ (c \in Conns /\ ~fin[c])]
          /\ UNCHANGED <<cd, cpc, fin>> /\ spc' = "exit"
      BY <1>4, <2>7 DEF Iosubmit!WritePiped, Iosubmit!Hangup, Iosubmit!Piped, Iosubmit!clientVars, Serving
    <3>2. cpc[cd] = "dead"
      <4>1. CASE nbytes = 0
        BY <4>1, <3>1, <2>1 DEF IInv, Bursts, Burst, Settled, AllBack
      <4>2. CASE nbytes # 0
        <5>1. nbytes \in 0 .. Len(buf) /\ 0 \in 0 .. nbytes
          BY <2>1, <3>1
        <5>2. Len(SubSeq(buf, 0 + 1, nbytes)) = nbytes - 0
          BY ONLY <2>1, <5>1, Middle
        <5>3. Hold = SubSeq(buf, 0 + 1, nbytes)
          BY <1>10, <3>1 DEF Hold
        <5>4. Len(Hold) = nbytes - 0 /\ Len(<<>>) = 0
          BY <5>2, <5>3, EmptySeq
        <5>5. nbytes - 0 # 0
          BY ONLY <4>2, <2>1
        <5>6. Hold # <<>>
          BY ONLY <5>4, <5>5
        <5> QED BY <5>6, <3>1, <1>5
      <4> QED BY <4>1, <4>2
    <3>3. Piped(cd)'
      BY <3>1 DEF Piped
    <3> QED BY <3>1, <3>2, <3>3, <2>3
  <2>8. CASE Iosubmit!WriteDone \/ Iosubmit!ReadSome \/ Iosubmit!ReadEnd \/ Iosubmit!io_getevents \/ Iosubmit!Close
    BY <2>3, <2>8 DEF Iosubmit!WriteDone, Iosubmit!ReadSome, Iosubmit!ReadEnd, Iosubmit!io_getevents, Iosubmit!Close
  <2> QED BY <1>10, <2>4, <2>5, <2>6, <2>7, <2>8 DEF Iosubmit!ServerNext
<1> QED BY <1>6, <1>7, <1>8, <1>9, <1>10 DEF ServerNext

\* Without signals a server that ends was brought down by a client interrupted
\* before its bytes were back, where the write cannot go without SIGPIPE
\* (echo-splice.c:98, echo-iosubmit.c:76); or it is echo-splice, out of
\* descriptors or with part of a splice done.
THEOREM Survives == Spec => []ServerSurvives
<1>1. Init => Settled
  <2> SUFFICES ASSUME Init, ~signals PROVE Settled
    BY DEF Settled
  <2>1. /\ cpc = [c \in Conns |-> "new"] /\ backlog = <<>> /\ spc \in {"prepare", "start"}
    BY DEF Init, InitEcho
  <2>2. Waiting = {}
    BY <2>1 DEF Waiting
  <2> QED BY <2>1, <2>2 DEF Settled, Begun, AllBack, Writes, ServerSurvives
<1>2. ASSUME IInv, IInv', Settled, [Next]_vars PROVE Settled'
  <2>1. signals' = signals
    BY <1>2 DEF Next, vars
  <2>2. CASE signals
    BY <2>1, <2>2 DEF Settled
  <2>3. CASE ~signals /\ Next
    BY <1>2, <2>3, ClientsSettle, ServersSettle DEF Next
  <2>4. CASE ~signals /\ UNCHANGED vars
    <3>1. Quiet /\ UNCHANGED <<clientVars, connVars>>
      BY <2>4 DEF vars, Quiet, serverVars, echoVars
    <3>2. UNCHANGED <<cpc, tx_bytes, sent, c2s, fin, rst, back, backlog>>
      BY <3>1 DEF clientVars, connVars
    <3>3. Grown /\ Waiting' = Waiting
      BY <3>2 DEF Grown, Waiting
    <3>4. \A d \in Conns : Begun(d)' /\ AllBack(d)'
      BY <1>2, <2>4, <3>1, <3>2, QuietServer DEF Settled, Begun, AllBack
    <3>5. \A d \in Waiting' : back[d] = <<>>
      BY <1>2, <2>4, <3>3 DEF Settled, Writes
    <3> QED BY <1>2, <2>4, <3>1, <3>2, <3>3, <3>4, <3>5, ClientSettles
  <2> QED BY <1>2, <2>2, <2>3, <2>4
<1>3. Settled => ServerSurvives
  BY DEF Settled, ServerSurvives
<1> QED BY <1>1, <1>2, <1>3, Invariant, PTL DEF Spec

\* test-burst prints a latency when the whole burst is back, unless sendmsg
\* reported a reset.
THEOREM Printed == Spec => []PrintedWhenReflected
<1>1. IInv => PrintedWhenReflected
  BY DEF IInv, Bursts, Burst, PrintedWhenReflected
<1> QED BY <1>1, Invariant, PTL

-----------------------------------------------------------------------------
(* The servers implement the promise *)

\* What was given back is exactly what was sent first.
Faithful ==
    ~signals => \A c \in Conns : Unbroken(back[c], c) /\ Len(back[c]) <= sent[c]
\* It is without signals.
LEMMA IsFaithful == IInv => Faithful
<1> SUFFICES ASSUME IInv, ~signals, NEW c \in Conns
             PROVE  Unbroken(back[c], c) /\ Len(back[c]) <= sent[c]
  BY DEF Faithful
<1> DEFINE w == back[c]
<1>1. w \in Words /\ InOrder(w, c, sent[c]) /\ Unbroken(w, c)
  BY BackInOrder
<1>2. sent[c] \in Nat
  BY DEF IInv, TypeOK, EchoTypeOK
<1> HIDE DEF w
<1>3. Len(w) \in Nat
  BY <1>1, LenProperties DEF Words
<1>4. Len(w) # 0 => Len(w) \in 1 .. Len(w)
  BY <1>3
<1>5. Len(w) # 0 => w[Len(w)] = <<c, Len(w)>> /\ w[Len(w)][2] <= sent[c]
  BY <1>1, <1>4 DEF InOrder, Unbroken
<1>6. Len(w) <= sent[c]
  BY <1>2, <1>3, <1>5
<1> QED BY <1>1, <1>6 DEF w

\* What the promise sees.
Shown == IF signals THEN [c \in Conns |-> <<>>] ELSE back

\* A step that sends back is the promise's.
LEMMA GivesPromised ==
    ASSUME IInv, Faithful, Faithful', Apart, Gives
    PROVE  Promise!Next \/ (sent' = sent /\ Shown' = Shown)
<1>1. sent' = sent /\ signals' = signals
  BY DEF Apart, clientVars
<1>2. CASE signals
  BY <1>1, <1>2 DEF Shown
<1>3. CASE ~signals
  <2>1. /\ cd \in Conns /\ \A c \in Conns : c # cd => back'[c] = back[c]
        /\ back \in [Conns -> Words] /\ back' \in [Conns -> Words] /\ Len(back[cd]) < Len(back'[cd])
    <3>1. Common /\ Hold \in Words /\ Queue /\ Attended
      BY HoldType DEF IInv, TypeOK, Common
    <3> QED BY <3>1, CommonTypes, GivesSound
  <2> DEFINE x == back[cd]
             y == back'[cd]
             z == [k \in 1 .. Len(y) |-> IF k <= Len(x) THEN x[k] ELSE <<cd, k>>]
  <2>2. x \in Words /\ y \in Words /\ Len(x) \in Nat /\ Len(y) \in Nat /\ Len(x) < Len(y)
    <3>1. x \in Words /\ y \in Words
      BY <2>1
    <3> QED BY <3>1, <2>1, LenProperties DEF Words
  <2>3. Unbroken(x, cd) /\ Unbroken(y, cd) /\ Len(y) <= sent[cd]
    BY <2>1, <1>1, <1>3 DEF Faithful, Unbroken
  <2> HIDE DEF x, y
  <2>4. z = y
    <3>1. y = [k \in 1 .. Len(y) |-> y[k]]
      <4>1. y \in Seq(Bytes)
        BY <2>2 DEF Words
      <4>2. y \in [1 .. Len(y) -> Bytes]
        BY ONLY <4>1, LenProperties
      <4> QED BY <4>2
    <3>2. \A k \in 1 .. Len(y) : y[k] = IF k <= Len(x) THEN x[k] ELSE <<cd, k>>
      BY <2>2, <2>3 DEF Unbroken
    <3> QED BY <3>1, <3>2
  <2>5. back' = [back EXCEPT ![cd] = y]
    <3>1. \A c \in Conns : back'[c] = IF c = cd THEN y ELSE back[c]
      BY <2>1 DEF y
    <3> QED BY <3>1, <2>1
  <2>6. Shown = back /\ Shown' = back'
    BY <1>1, <1>3 DEF Shown
  <2>7. Promise!Reflect(cd)
    <3> HIDE DEF z
    <3>1. Len(x) < Len(y) /\ Len(y) <= sent[cd] /\ back' = [back EXCEPT ![cd] = z]
      BY <2>2, <2>3, <2>4, <2>5
    <3> QED BY <3>1, <2>6, <1>1, <1>3 DEF Promise!Reflect, x, y, z
  <2> QED BY <2>1, <2>7 DEF Promise!Next
<1> QED BY <1>2, <1>3

\* The others it does not see.
LEMMA OthersHidden ==
    ASSUME ServerEffect, ~Gives
    PROVE  sent' = sent /\ Shown' = Shown
<1>1. sent' = sent /\ signals' = signals
  BY DEF ServerEffect, Apart, clientVars
<1>2. back' = back
  BY DEF ServerEffect, Accepts, Moves, Idles, Ends, Closes, Exits, Starts, connVars
<1> QED BY <1>1, <1>2 DEF Shown

\* Of the clients' steps it sees those that send.
LEMMA ClientsPromised ==
    ASSUME IInv, Clients, UNCHANGED <<kind, signals>>
    PROVE  Promise!Next \/ (sent' = sent /\ Shown' = Shown)
<1>1. PICK c \in Conns : ClientNext(c) \/ ClientInterrupted(c) \/ Reset(c)
  BY DEF Clients, ClientsOnly
<1>2. CASE ClientSend(c)
  <2>1. sent \in [Conns -> Nat] /\ tx_bytes[c] \in Nat
    BY DEF IInv, TypeOK, EchoTypeOK, Tables
  <2>2. PICK k \in 1 .. trunc_iov(iov_cnt(c), BUFFER_SIZE, tx_bytes[c]) :
          sent' = [sent EXCEPT ![c] = sent[c] + k]
    BY <1>2 DEF ClientSend
  <2>3. k \in 1 .. tx_bytes[c]
    BY <2>1, Truncated
  <2>4. sent'[c] = sent[c] + k /\ sent[c] + k > sent[c] /\ sent' = [sent EXCEPT ![c] = sent'[c]]
    BY <2>1, <2>2, <2>3
  <2>5. Shown' = Shown
    BY <1>2 DEF ClientSend, Shown
  <2>6. Promise!Send(c)
    BY <2>4, <2>5 DEF Promise!Send, Shown
  <2> QED BY <2>6 DEF Promise!Next
<1>3. CASE ~ClientSend(c)
  <2>1. sent' = sent /\ back' = back
    BY <1>1, <1>3 DEF ClientNext, Connect, Refused, ClientSendFull, ClientSendError, ClientKilled, ClientRecv,
         ClientRecvEmpty, ClientRecvError, PrintBurst, ClientInterrupted, Unwanted, Reset, TornDown, clientVars, connVars
  <2> QED BY <2>1 DEF Shown
<1> QED BY <1>2, <1>3

\* Every server implements the promise: without signals each connection gets
\* back, in order, what its client sent on it, and nothing twice; for any number
\* of connections, and any bursts, buffers and resets.
THEOREM Implements == Spec => PromiseSpec
<1>1. Init => Promise!Init
  BY DEF Init, InitEcho, Promise!Init
<1>2. ASSUME IInv, Faithful, Faithful', [Next]_vars PROVE [Promise!Next]_Promise!vars
  <2>1. CASE Clients /\ UNCHANGED <<kind, signals>>
    BY <2>1, <1>2, ClientsPromised DEF Promise!vars, Shown
  <2>2. CASE ServerNext /\ UNCHANGED <<kind, signals>>
    <3>1. ServerEffect
      BY <2>2, <1>2, ServersDo
    <3> QED BY <3>1, <1>2, GivesPromised, OthersHidden DEF ServerEffect, Promise!vars, Shown
  <2>3. CASE UNCHANGED vars
    BY <2>3 DEF vars, echoVars, clientVars, connVars, Promise!vars
  <2> QED BY <1>2, <2>1, <2>2, <2>3 DEF Next
<1>3. Spec => []IInv /\ []Faithful
  BY Invariant, IsFaithful, PTL
<1> QED BY <1>1, <1>2, <1>3, PTL DEF Spec, PromiseSpec, Promise!Spec
=============================================================================
