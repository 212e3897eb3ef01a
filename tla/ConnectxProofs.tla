-------------------------- MODULE ConnectxProofs ---------------------------
(***************************************************************************)
(* connectx with any number of callers, calls, addresses and ports: a      *)
(* connection keeps its datagrams, no port is left locked, and a call that *)
(* nothing disturbs fails only when it has to.                             *)
(***************************************************************************)
EXTENDS Connectx, FiniteSetTheorems, SequenceTheorems, WellFoundedInduction, TLAPS

\* s was bound after t.
Newer(s, t) == \E i, j \in DOMAIN chain : i < j /\ chain[i] = s /\ chain[j] = t

Locked == {"check", "connect", "unlock", "cleanup"}   \* the critical section
Owner == {"connect", "unlock", "done"}

\* The socket a caller has in the kernel's table, by where its call is.
Holds(c) ==
    /\ pc[c] \in {"lock"} \cup Locked => c \in Bound /\ addr[c] = local[c]
    /\ pc[c] \in {"idle", "route", "routed", "random", "search", "bind", "again"} => c \notin Bound
    /\ pc[c] = "done" => c \in Bound /\ peer[c] # NoPeer
    /\ pc[c] = "unlock" => peer[c] = want[c].remote
    /\ pc[c] \in {"routed", "random", "search", "bind"} => local[c].ip # WILDCARD
    /\ c \in Bound =>
          /\ pc[c] \notin {"unlock", "done"} => peer[c] = NoPeer
          /\ pc[c] \notin Locked \cup {"raised"} => reuse[c]
          /\ pc[c] \in Locked => ~reuse[c]
          /\ addr[c].ip # WILDCARD
Holding == \A c \in Callers : Holds(c)

\* The sockets that are not of a call.
Strangers ==
    /\ \A c \in Callers : RouteSock(c) \in Bound =>
          pc[c] = "routed" /\ peer[RouteSock(c)] # NoPeer /\ reuse[RouteSock(c)]
    /\ Plain \in Bound =>
          /\ ~reuse[Plain] /\ peer[Plain] = NoPeer
          /\ \A t \in Bound \ {Plain} : ~Overlap(addr[Plain], addr[t])

\* The remote address of a connection, made or about to be made.
Remote(c) == IF pc[c] = "connect" THEN want[c].remote ELSE peer[c]

\* Nobody who could be taken for c has been bound since c was found.
Newest ==
    \A c \in Callers : pc[c] = "connect" =>
        \A t \in Bound : addr[t] = addr[c] /\ peer[t] = NoPeer => ~Newer(t, c)

Single ==
    \A c, d \in Callers : c # d /\ pc[c] \in Owner /\ pc[d] \in Owner =>
        addr[c] # addr[d] \/ Remote(c) # Remote(d)

\* The port at the k-th place of a search, and what it has passed.
PortAt(c, k) == IF start[c] + k > hi THEN start[c] + k - (hi + 1) + lo ELSE start[c] + k
Passed(c) == \A k \in Nat : k < off[c] =>
    PortAt(c, k) \in skip \/ Found([local[c] EXCEPT !.port = PortAt(c, k)], want[c].remote) # {}

\* Nothing keeps c from its address.
Clear(c) == \A t \in Bound \ {c} :
    /\ ~(addr[t] = local[c] /\ peer[t] = want[c].remote)
    /\ Overlap(addr[t], local[c]) => reuse[t]

Knows(c) ==
    /\ pc[c] = "search" => Passed(c)
    /\ pc[c] \in {"bind", "lock", "check"} /\ want[c].port = 0 => Clear(c)
    /\ pc[c] \in {"lock", "check"} => \A t \in Bound : ~Newer(t, c)
    /\ pc[c] = "cleanup" => want[c].port # 0 /\ Taken(c, local[c], want[c].remote)

\* What a call knows that nothing has disturbed.
Undisturbed ==
    \A c \in Callers : pc[c] \in Busy /\ ~overlapped[c] =>
        (\A d \in Callers \ {c} : pc[d] \notin Busy) /\ Knows(c)

\* A search begins at its first place.
Searching == \A c \in Callers : pc[c] # "search" => off[c] = 0

IInv == TypeOK /\ Holding /\ Strangers /\ Newest /\ Single /\ Searching /\ Undisturbed

-----------------------------------------------------------------------------
(* The kernel's table.                                                     *)

\* The callers' sockets are theirs alone.
LEMMA Apart ==
    ASSUME NEW c \in Callers
    PROVE  /\ c \in Socks /\ RouteSock(c) \in Socks /\ Plain \in Socks
           /\ c # Plain /\ RouteSock(c) # Plain /\ Plain \notin Callers
           /\ RouteSock(c) \notin Callers
           /\ \A d \in Callers : RouteSock(c) # d /\ (RouteSock(c) = RouteSock(d) => c = d)
<1>1. \A d \in Callers : d \in Nat /\ d > 0
  BY ConnectxAssumption
<1>2. RouteSock(c) \in Int /\ RouteSock(c) < 0 /\ \A d \in Callers : RouteSock(c) = RouteSock(d) => c = d
  BY <1>1 DEF RouteSock
<1> QED BY <1>1, <1>2 DEF Socks, Plain

LEMMA BoundSocks ==
    ASSUME chain \in Seq(Socks)
    PROVE  /\ Bound \subseteq Socks
           /\ \A t : t \in Bound <=> \E i \in DOMAIN chain : chain[i] = t
BY DEF Bound, Range

\* Binding puts a socket in front, and does nothing else to the order.
LEMMA Bound1 ==
    ASSUME chain \in Seq(Socks), IsInjective(chain), NEW s \in Socks, s \notin Bound,
           chain' = <<s>> \o chain
    PROVE  /\ chain' \in Seq(Socks) /\ IsInjective(chain') /\ Bound' = Bound \cup {s}
           /\ \A a, b : Newer(a, b)' => Newer(a, b) \/ (a = s /\ b \in Bound)
<1>1. /\ chain' \in Seq(Socks) /\ Len(chain') = Len(chain) + 1 /\ chain'[1] = s
      /\ \A i \in 2 .. Len(chain) + 1 : chain'[i] = chain[i - 1]
  BY ConcatProperties
<1>2. /\ DOMAIN chain' = 1 .. Len(chain) + 1 /\ DOMAIN chain = 1 .. Len(chain)
      /\ Len(chain) \in Nat
  BY <1>1
<1>3. Bound' = Bound \cup {s}
  <2>1. \A i \in DOMAIN chain' : chain'[i] \in Bound \cup {s}
    BY <1>1, <1>2 DEF Bound, Range
  <2>2. \A i \in DOMAIN chain : i + 1 \in DOMAIN chain' /\ chain'[i + 1] = chain[i]
    BY <1>1, <1>2
  <2>3. s \in Bound' /\ Bound \subseteq Bound'
    <3>1. 1 \in DOMAIN chain'
      BY <1>2
    <3>2. chain'[1] \in Bound' /\ \A i \in DOMAIN chain : chain'[i + 1] \in Bound'
      BY <3>1, <2>2 DEF Bound, Range
    <3>3. \A t \in Bound : \E i \in DOMAIN chain : t = chain[i]
      BY DEF Bound, Range
    <3>4. s \in Bound'
      BY <1>1, <3>2
    <3>5. ASSUME NEW t \in Bound PROVE t \in Bound'
      BY <2>2, <3>2, <3>3
    <3> QED BY <3>4, <3>5
  <2>4. \A t \in Bound' : \E i \in DOMAIN chain' : t = chain'[i]
    BY DEF Bound, Range
  <2> QED BY <2>1, <2>3, <2>4
<1>4. IsInjective(chain')
  <2>1. \A i \in DOMAIN chain : chain[i] # s
    BY DEF Bound, Range
  <2> QED BY <1>1, <1>2, <2>1 DEF IsInjective
<1>5. ASSUME NEW a, NEW b, Newer(a, b)'
      PROVE  Newer(a, b) \/ (a = s /\ b \in Bound)
  <2>1. PICK i \in DOMAIN chain', j \in DOMAIN chain' : i < j /\ chain'[i] = a /\ chain'[j] = b
    BY <1>5 DEF Newer
  <2>2. j - 1 \in DOMAIN chain /\ chain[j - 1] = b
    BY <2>1, <1>1, <1>2
  <2>3. CASE i = 1
    BY <2>1, <2>2, <2>3, <1>1 DEF Bound, Range
  <2>4. CASE i # 1
    <3>1. i - 1 \in DOMAIN chain /\ chain[i - 1] = a /\ i - 1 < j - 1
      BY <2>1, <2>4, <1>1, <1>2
    <3>2. \E k, l \in DOMAIN chain : k < l /\ chain[k] = a /\ chain[l] = b
      BY <3>1, <2>2
    <3> QED BY <3>2 DEF Newer
  <2> QED BY <2>3, <2>4
<1> QED BY <1>1, <1>3, <1>4, <1>5

\* Closing a socket takes it out of the order.
LEMMA Unbound1 ==
    ASSUME chain \in Seq(Socks), IsInjective(chain), NEW s, chain' = RemoveFirst(chain, s)
    PROVE  /\ chain' \in Seq(Socks) /\ IsInjective(chain') /\ Bound' = Bound \ {s}
           /\ \A a, b : Newer(a, b)' => Newer(a, b)
<1>0. DOMAIN chain = 1 .. Len(chain) /\ Len(chain) \in Nat
  OBVIOUS
<1>1. CASE ~ \E i \in 1 .. Len(chain) : chain[i] = s
  <2>1. chain' = chain
    BY <1>1 DEF RemoveFirst
  <2> QED BY <2>1, <1>1, <1>0 DEF Bound, Range, Newer
<1>2. CASE \E i \in 1 .. Len(chain) : chain[i] = s
  <2>1. PICK i \in 1 .. Len(chain) : chain[i] = s
    BY <1>2
  <2>2. {k \in 1 .. Len(chain) : chain[k] = s} = {i}
    BY <2>1, <1>0 DEF IsInjective
  <2>3. Min({i}) = i
    BY <2>1 DEF Min
  <2>4. SelectInSeq(chain, LAMBDA v : v = s) = i
    BY <2>2, <2>3, Zenon DEF SelectInSeq
  <2>5. chain' = SubSeq(chain, 1, i - 1) \o SubSeq(chain, i + 1, Len(chain))
    BY <1>2, <2>4 DEF RemoveFirst, RemoveAt
  <2> DEFINE A == SubSeq(chain, 1, i - 1)
             B == SubSeq(chain, i + 1, Len(chain))
             at(k) == IF k < i THEN k ELSE k + 1
  <2>6. /\ A \in Seq(Socks) /\ Len(A) = i - 1 /\ \A k \in 1 .. i - 1 : A[k] = chain[k]
        /\ B \in Seq(Socks) /\ Len(B) = Len(chain) - i
        /\ \A k \in 1 .. Len(chain) - i : B[k] = chain[i + k]
    <3>1. 1 \in 1 .. Len(chain) + 1 /\ i - 1 \in 1 - 1 .. Len(chain)
      BY <2>1, <1>0
    <3>2. /\ A \in Seq(Socks) /\ Len(A) = i - 1
          /\ \A k \in 1 .. i - 1 : A[k] = chain[k]
      BY <3>1, <2>1, <1>0, SubSeqProperties
    <3>3. /\ B \in Seq(Socks) /\ Len(B) = Len(chain) - i
          /\ \A k \in 1 .. Len(chain) - i : B[k] = chain[i + k]
      <4>1. i + 1 \in Int /\ Len(chain) \in Int /\ \A k \in i + 1 .. Len(chain) : chain[k] \in Socks
        BY <2>1, <1>0
      <4>2. /\ B \in Seq(Socks) /\ Len(B) = IF i + 1 <= Len(chain) THEN Len(chain) - (i + 1) + 1 ELSE 0
            /\ \A k \in 1 .. Len(chain) - (i + 1) + 1 : B[k] = chain[i + 1 + k - 1]
        BY <4>1, SubSeqProperties
      <4>3. ASSUME NEW k \in 1 .. Len(chain) - i PROVE B[k] = chain[i + k]
        <5>1. k \in 1 .. Len(chain) - (i + 1) + 1 /\ i + 1 + k - 1 = i + k
          BY <2>1, <1>0
        <5> QED BY <5>1, <4>2
      <4>4. Len(B) = Len(chain) - i
        <5> HIDE DEF B
        <5>1. CASE i + 1 <= Len(chain)
          BY <5>1, <4>2, <2>1, <1>0
        <5>2. CASE ~(i + 1 <= Len(chain))
          <6>1. i = Len(chain)
            <7>1. PICK n \in Nat : n = Len(chain)
              BY <1>0
            <7> QED BY <7>1, <5>2, <2>1
          <6>2. Len(chain) - i = 0
            BY <6>1, <1>0
          <6> QED BY <5>2, <6>2, <4>2
        <5> QED BY <5>1, <5>2
      <4> QED BY <4>2, <4>3, <4>4
    <3> QED BY <3>2, <3>3
  <2>7. /\ chain' \in Seq(Socks) /\ Len(chain') = Len(chain) - 1
        /\ \A k \in 1 .. Len(chain) - 1 : at(k) \in DOMAIN chain /\ chain'[k] = chain[at(k)]
    <3> HIDE DEF A, B
    <3>1. chain' = A \o B
      BY <2>5 DEF A, B
    <3>2. /\ chain' \in Seq(Socks) /\ Len(chain') = Len(chain) - 1
          /\ \A k \in 1 .. Len(A) : chain'[k] = A[k]
          /\ \A k \in Len(A) + 1 .. Len(A) + Len(B) : chain'[k] = B[k - Len(A)]
      <4>1. /\ A \o B \in Seq(Socks) /\ Len(A \o B) = Len(A) + Len(B)
            /\ \A k \in 1 .. Len(A) + Len(B) : (A \o B)[k] = IF k <= Len(A) THEN A[k] ELSE B[k - Len(A)]
        BY <2>6, ConcatProperties
      <4>2. Len(A) = i - 1 /\ Len(B) = Len(chain) - i /\ i \in 1 .. Len(chain)
        BY <2>1, <2>6
      <4> QED BY <3>1, <4>1, <4>2, <1>0
    <3>3. ASSUME NEW k \in 1 .. Len(chain) - 1
          PROVE  at(k) \in DOMAIN chain /\ chain'[k] = chain[at(k)]
      <4>1. CASE k < i
        BY <4>1, <3>2, <2>1, <2>6, <1>0
      <4>2. CASE ~(k < i)
        <5>1. k - (i - 1) \in 1 .. Len(chain) - i /\ i + (k - (i - 1)) = k + 1
          BY <4>2, <2>1, <1>0
        <5>2. chain'[k] = B[k - (i - 1)] /\ B[k - (i - 1)] = chain[i + (k - (i - 1))]
          BY <5>1, <4>2, <3>2, <2>1, <2>6, <1>0
        <5> QED BY <5>1, <5>2, <4>2, <2>1, <1>0
      <4> QED BY <4>1, <4>2
    <3> QED BY <3>2, <3>3
  <2>8. DOMAIN chain' = 1 .. Len(chain) - 1
    BY <2>7
  <2>9. \A k, l \in DOMAIN chain' : (k < l <=> at(k) < at(l)) /\ at(k) # i
    BY <2>1, <2>8, <1>0
  <2>10. IsInjective(chain')
    <3> SUFFICES ASSUME NEW k \in DOMAIN chain', NEW l \in DOMAIN chain', chain'[k] = chain'[l]
                 PROVE  k = l
      BY DEF IsInjective
    <3>1. at(k) = at(l)
      BY <2>7, <2>8 DEF IsInjective
    <3> QED BY <3>1, <2>8, <1>0, <2>1
  <2>11. Bound' = Bound \ {s}
    <3>1. \A k \in DOMAIN chain' : chain'[k] \in Bound \ {s}
      <4>1. ASSUME NEW k \in DOMAIN chain' PROVE chain'[k] \in Bound \ {s}
        <5>1. at(k) \in DOMAIN chain /\ at(k) # i /\ chain'[k] = chain[at(k)]
          BY <2>7, <2>8, <2>9
        <5>2. chain[at(k)] # chain[i]
          BY <5>1, <2>1, <1>0 DEF IsInjective
        <5>3. chain[at(k)] \in Bound
          BY <5>1 DEF Bound, Range
        <5> QED BY <5>1, <5>2, <5>3, <2>1
      <4> QED BY <4>1
    <3>2. ASSUME NEW j \in DOMAIN chain, chain[j] # s
          PROVE  \E k \in DOMAIN chain' : chain'[k] = chain[j]
      <4>1. CASE j < i
        BY <4>1, <2>1, <2>7, <2>8, <1>0
      <4>2. CASE j > i
        <5>1. j - 1 \in DOMAIN chain' /\ at(j - 1) = j
          BY <4>2, <2>1, <2>8, <1>0
        <5> QED BY <5>1, <2>7, <2>8
      <4>3. j \in Nat /\ i \in Nat /\ j # i
        BY <3>2, <2>1, <1>0
      <4> QED BY <4>1, <4>2, <4>3
    <3> QED BY <3>1, <3>2 DEF Bound, Range
  <2>12. ASSUME NEW a, NEW b, Newer(a, b)'
         PROVE  Newer(a, b)
    <3>1. PICK k \in DOMAIN chain', l \in DOMAIN chain' : k < l /\ chain'[k] = a /\ chain'[l] = b
      BY <2>12 DEF Newer
    <3>2. at(k) \in DOMAIN chain /\ at(l) \in DOMAIN chain /\ at(k) < at(l)
          /\ chain[at(k)] = a /\ chain[at(l)] = b
      BY <3>1, <2>7, <2>8, <2>9
    <3> QED BY <3>2 DEF Newer
  <2> QED BY <2>7, <2>10, <2>11, <2>12
<1> QED BY <1>1, <1>2

LEMMA Same1 ==
    ASSUME UNCHANGED chain
    PROVE  Bound' = Bound /\ \A a, b : Newer(a, b)' <=> Newer(a, b)
BY DEF Bound, Range, Newer

\* Of two bound sockets one is newer, and not the other too.
LEMMA Ordered ==
    ASSUME chain \in Seq(Socks), IsInjective(chain), NEW s \in Bound, NEW t \in Bound
    PROVE  (s # t => Newer(s, t) \/ Newer(t, s)) /\ ~(Newer(s, t) /\ Newer(t, s))
<1>1. PICK i \in DOMAIN chain, j \in DOMAIN chain : chain[i] = s /\ chain[j] = t
  BY DEF Bound, Range
<1>2. DOMAIN chain = 1 .. Len(chain) /\ Len(chain) \in Nat
  OBVIOUS
<1>3. \A k \in DOMAIN chain : (chain[k] = s => k = i) /\ (chain[k] = t => k = j)
  BY <1>1 DEF IsInjective
<1> QED BY <1>1, <1>2, <1>3 DEF Newer

-----------------------------------------------------------------------------
(* What a lookup finds.                                                    *)

LEMMA Scores ==
    ASSUME NEW t, NEW a, NEW r
    PROVE  Score(t, a, r) \in 0 .. 3
BY DEF Score

\* The newest of those with the highest score.
LEMMA FoundMeans ==
    ASSUME chain \in Seq(Socks), IsInjective(chain), NEW a, NEW r, NEW t
    PROVE  t \in Found(a, r) <=>
              /\ t \in Bound /\ Score(t, a, r) > 0
              /\ \A u \in Bound : \/ Score(u, a, r) < Score(t, a, r)
                                  \/ Score(u, a, r) = Score(t, a, r) /\ ~Newer(u, t)
<1>1. DOMAIN chain = 1 .. Len(chain) /\ Len(chain) \in Nat
  OBVIOUS
<1> DEFINE sc(u) == Score(u, a, r)
<1> HIDE DEF sc
<1>2. Found(a, r) = {chain[i] : i \in {j \in DOMAIN chain :
          /\ sc(chain[j]) > 0
          /\ \A k \in DOMAIN chain : sc(chain[k]) < sc(chain[j])
                \/ (sc(chain[k]) = sc(chain[j]) /\ j <= k)}}
  BY Zenon DEF Found, sc
<1>3. ASSUME t \in Found(a, r)
      PROVE  /\ t \in Bound /\ sc(t) > 0
             /\ \A u \in Bound : sc(u) < sc(t) \/ (sc(u) = sc(t) /\ ~Newer(u, t))
  <2>1. PICK j \in DOMAIN chain : /\ t = chain[j] /\ sc(chain[j]) > 0
          /\ \A k \in DOMAIN chain : sc(chain[k]) < sc(chain[j])
                \/ (sc(chain[k]) = sc(chain[j]) /\ j <= k)
    BY <1>2, <1>3
  <2>2. ASSUME NEW u \in Bound, ~(sc(u) < sc(t))
        PROVE  sc(u) = sc(t) /\ ~Newer(u, t)
    <3>1. PICK k \in DOMAIN chain : chain[k] = u
      BY DEF Bound, Range
    <3>2. sc(u) = sc(t) /\ j <= k
      BY <2>1, <2>2, <3>1
    <3>3. \A l \in DOMAIN chain : (chain[l] = u => l = k) /\ (chain[l] = t => l = j)
      BY <2>1, <3>1 DEF IsInjective
    <3> QED BY <3>2, <3>3, <1>1 DEF Newer
  <2>3. t \in Bound /\ sc(t) > 0
    BY <2>1 DEF Bound, Range
  <2> QED BY <2>2, <2>3
<1>4. ASSUME t \in Bound, sc(t) > 0,
             \A u \in Bound : sc(u) < sc(t) \/ (sc(u) = sc(t) /\ ~Newer(u, t))
      PROVE  t \in Found(a, r)
  <2>1. PICK j \in DOMAIN chain : chain[j] = t
    BY <1>4 DEF Bound, Range
  <2>2. ASSUME NEW k \in DOMAIN chain
        PROVE  sc(chain[k]) < sc(chain[j]) \/ (sc(chain[k]) = sc(chain[j]) /\ j <= k)
    <3>1. chain[k] \in Bound
      BY DEF Bound, Range
    <3>2. k < j => Newer(chain[k], t)
      BY <2>1 DEF Newer
    <3> QED BY <3>1, <3>2, <2>1, <1>4, <1>1
  <2> QED BY <1>2, <1>4, <2>1, <2>2
<1> USE DEF sc
<1> QED BY <1>3, <1>4

LEMMA Least ==
    ASSUME NEW T \in SUBSET Nat, T # {}
    PROVE  \E x \in T : \A y \in T : ~(y < x)
<1> DEFINE R == StrictSubsetOrdering(Nat)
           F == FiniteSubsetsOf(Nat)
           U == {1 .. n : n \in T}
<1>1. IsWellFoundedOn(R, F)
  BY FS_StrictSubsetOrderingWellFounded
<1>2. U \subseteq F /\ U # {}
  <2>1. \A n \in Nat : IsFiniteSet(1 .. n) /\ 1 .. n \subseteq Nat
    BY FS_Interval
  <2> QED BY <2>1 DEF FiniteSubsetsOf
<1>3. \E x \in U : \A y \in U : ~(<<y, x>> \in R)
  <2> HIDE DEF R, F, U
  <2> QED BY <1>1, <1>2, WFMin
<1>4. PICK x \in T : \A y \in T : <<1 .. y, 1 .. x>> \notin R
  BY <1>3
<1>5. ASSUME NEW y \in T, y < x PROVE FALSE
  <2>1. 1 .. y \subseteq 1 .. x /\ x \in 1 .. x /\ x \notin 1 .. y /\ 1 .. x \subseteq Nat
    BY <1>5
  <2>2. <<1 .. y, 1 .. x>> \in R
    BY <2>1 DEF StrictSubsetOrdering
  <2> QED BY <1>4, <2>2
<1> QED BY <1>5

\* Nothing found: no socket answers at all.
LEMMA NobodyAnswers ==
    ASSUME chain \in Seq(Socks), IsInjective(chain), NEW a, NEW r, Found(a, r) = {},
           NEW t \in Bound
    PROVE  Score(t, a, r) = 0
<1>1. DOMAIN chain = 1 .. Len(chain) /\ Len(chain) \in Nat
  OBVIOUS
<1> DEFINE sc(u) == Score(u, a, r)
           with(n) == {j \in DOMAIN chain : sc(chain[j]) = n}
<1>2. \A u : sc(u) \in 0 .. 3
  BY Scores
<1> HIDE DEF sc
<1>3. ASSUME NEW n \in 1 .. 3, with(n) # {}, \A m \in 1 .. 3 : m > n => with(m) = {}
      PROVE  FALSE
  <2>1. with(n) \in SUBSET Nat
    BY <1>1
  <2>2. PICK j \in with(n) : \A k \in with(n) : ~(k < j)
    BY <2>1, <1>3, Least
  <2>3. ASSUME NEW k \in DOMAIN chain
        PROVE  sc(chain[k]) < sc(chain[j]) \/ (sc(chain[k]) = sc(chain[j]) /\ j <= k)
    <3>1. sc(chain[k]) \in 0 .. 3 /\ sc(chain[j]) = n /\ j \in Nat /\ k \in Nat
      BY <1>1, <1>2
    <3>2. sc(chain[k]) <= n
      BY <3>1, <1>3
    <3> QED BY <3>1, <3>2, <2>2
  <2>4. chain[j] \in Found(a, r)
    <3>1. sc(chain[j]) > 0
      BY <1>3
    <3> QED BY <2>3, <3>1 DEF Found, sc
  <2> QED BY <2>4
<1>4. with(1) = {} /\ with(2) = {} /\ with(3) = {}
  <2>1. with(3) = {}
    BY <1>3
  <2>2. with(2) = {}
    <3>1. \A m \in 1 .. 3 : m > 2 => m = 3
      OBVIOUS
    <3> QED BY <3>1, <2>1, <1>3
  <2>3. with(1) = {}
    <3>1. \A m \in 1 .. 3 : m > 1 => m = 3 \/ m = 2
      OBVIOUS
    <3> QED BY <3>1, <2>1, <2>2, <1>3
  <2> QED BY <2>1, <2>2, <2>3
<1>5. PICK j \in DOMAIN chain : chain[j] = t
  BY DEF Bound, Range
<1>6. sc(t) \notin 1 .. 3
  <2>1. sc(t) # 1 /\ sc(t) # 2 /\ sc(t) # 3
    BY <1>4, <1>5
  <2> QED BY <2>1
<1>7. sc(t) = 0
  BY <1>2, <1>6
<1> QED BY <1>7 DEF sc

-----------------------------------------------------------------------------
(* Types.                                                                  *)

Addr == [ip : IPs \cup {WILDCARD}, port : {0} \cup ports]

LEMMA Addresses ==
    /\ NoAddr \in Addr /\ NoAddr.ip = WILDCARD
    /\ \A a \in Addr, p \in ports : [a EXCEPT !.port = p] \in Addr
    /\ \A a \in Addr, i \in IPs : [a EXCEPT !.ip = i] \in Addr
    /\ NoWant \in Wants
    /\ lo \in ports /\ ports \subseteq Nat \ {0}
<1>1. lo \in ports /\ ports \subseteq Nat \ {0}
  BY ConnectxAssumption DEF ports
<1>2. NoWant \in Wants
  <2>1. PICK r \in Remotes : TRUE
    BY ConnectxAssumption
  <2>2. [ip |-> WILDCARD, port |-> 0, remote |-> r] \in Wants
    BY DEF Wants
  <2> QED BY <2>2 DEF NoWant
<1> QED BY <1>1, <1>2 DEF NoAddr, Addr

\* A search stays in the range.
LEMMA PortInRange ==
    ASSUME TypeOK, NEW c \in Callers, More(c)
    PROVE  Port(c) \in ports /\ off[c] + 1 \in 0 .. hi + 1 - lo
<1>1. start[c] \in lo .. hi /\ off[c] \in 0 .. hi + 1 - lo /\ off[c] < hi + 1 - lo
  BY DEF TypeOK, ports, More
<1> QED BY <1>1, ConnectxAssumption DEF Port, ports

CallTypes ==
    /\ pc \in [Callers -> {"idle"} \cup Busy \cup Over]
    /\ want \in [Callers -> Wants] /\ calls \in 0 .. MaxCalls
    /\ local \in [Callers -> Addr]
    /\ start \in [Callers -> ports] /\ off \in [Callers -> 0 .. hi + 1 - lo]
    /\ overlapped \in [Callers -> BOOLEAN]
TableTypes ==
    /\ chain \in Seq(Socks) /\ IsInjective(chain)
    /\ addr \in [Socks -> Addr]
    /\ peer \in [Socks -> Remotes \cup {NoPeer}] /\ reuse \in [Socks -> BOOLEAN]

LEMMA TypeParts == TypeOK <=> CallTypes /\ TableTypes
BY DEF TypeOK, CallTypes, TableTypes, Addr

LEMMA Returned ==
    ASSUME CallTypes, NEW c \in Callers, NEW how \in Over, Return(c, how)
    PROVE  CallTypes'
<1>1. 0 \in 0 .. hi + 1 - lo
  BY ConnectxAssumption
<1> QED BY <1>1, Addresses DEF CallTypes, Return

LEMMA CallTypesStep == TypeOK /\ [Next]_vars => CallTypes'
<1> SUFFICES ASSUME TypeOK, [Next]_vars PROVE CallTypes'
  OBVIOUS
<1>0. CallTypes
  BY TypeParts
<1>1. CASE UNCHANGED vars
  BY <1>0, <1>1 DEF CallTypes, vars, callVars
<1>2. CASE PlainBind \/ PlainClose
  BY <1>0, <1>2 DEF CallTypes, PlainBind, PlainClose, Disturb
<1>3. ASSUME NEW c \in Callers, Call(c) PROVE CallTypes'
  <2>1. calls' \in 0 .. MaxCalls
    BY <1>0, <1>3, ConnectxAssumption DEF CallTypes, Call
  <2>2. PICK w \in Wants :
        /\ want' = [want EXCEPT ![c] = w]
        /\ local' = [local EXCEPT ![c] = [ip |-> w.ip, port |-> w.port]]
        /\ pc' = [pc EXCEPT ![c] = IF w.ip = WILDCARD THEN "route"
                                   ELSE IF w.port = 0 THEN "random" ELSE "bind"]
    BY <1>3 DEF Call
  <2>3. [ip |-> w.ip, port |-> w.port] \in Addr
    BY DEF Wants, Addr
  <2>4. overlapped' \in [Callers -> BOOLEAN]
    BY <1>3, <1>0 DEF Call, CallTypes
  <2>5. pc' \in [Callers -> {"idle"} \cup Busy \cup Over]
    BY <2>2, <1>0 DEF CallTypes, Busy
  <2>6. want' \in [Callers -> Wants] /\ local' \in [Callers -> Addr]
    BY <2>2, <2>3, <1>0 DEF CallTypes
  <2>7. start' \in [Callers -> ports] /\ off' \in [Callers -> 0 .. hi + 1 - lo]
    BY <1>3, <1>0 DEF Call, CallTypes
  <2> QED BY <2>1, <2>4, <2>5, <2>6, <2>7 DEF CallTypes
<1>4. ASSUME NEW c \in Callers, RouteOpen(c) PROVE CallTypes'
  <2>1. PICK p \in AutoPorts :
        local' = [local EXCEPT ![c].ip = Source[want[c].remote]]
    BY <1>4 DEF RouteOpen
  <2>2. Source[want[c].remote] \in IPs
    BY <1>0, ConnectxAssumption DEF CallTypes, Wants
  <2>3. local' \in [Callers -> Addr]
    BY <2>1, <2>2, <1>0, Addresses DEF CallTypes
  <2> QED BY <2>3, <1>4, <1>0 DEF CallTypes, RouteOpen, Busy
<1>5. ASSUME NEW c \in Callers,
             RouteFails(c) \/ SearchEnds(c) \/ BindFails(c) \/ Unlock(c) \/ Cleanup(c) \/ Raises(c)
      PROVE  CallTypes'
  <2>1. \E how \in Over : Return(c, how)
    BY <1>5 DEF RouteFails, SearchEnds, BindFails, Unlock, Cleanup, Raises, Over
  <2> QED BY <2>1, <1>0, Returned
<1>6. ASSUME NEW c \in Callers,
             RouteClose(c) \/ Bind(c) \/ Lock(c) \/ Check(c) \/ Connect(c)
      PROVE  CallTypes'
  BY <1>6, <1>0 DEF RouteClose, Bind, Lock, Check, Connect, CallTypes, AfterRoute, Busy
<1>7. ASSUME NEW c \in Callers, SearchStarts(c) \/ Close(c)
      PROVE  CallTypes'
  BY <1>7, <1>0 DEF SearchStarts, Close, Disturb, CallTypes, Busy
<1>8. ASSUME NEW c \in Callers, SearchSkip(c) \/ SearchFound(c)
      PROVE  CallTypes'
  <2>1. Port(c) \in ports /\ off[c] + 1 \in 0 .. hi + 1 - lo /\ 0 \in 0 .. hi + 1 - lo
    BY <1>8, PortInRange, ConnectxAssumption DEF SearchSkip, SearchFound
  <2>2. [local[c] EXCEPT !.port = Port(c)] \in Addr
    BY <2>1, <1>0, Addresses DEF CallTypes
  <2>3. CASE SearchSkip(c)
    BY <2>1, <2>3, <1>0 DEF SearchSkip, CallTypes
  <2>4. CASE SearchFound(c)
    <3>1. local' = [local EXCEPT ![c] = [@ EXCEPT !.port = Port(c)]]
      BY <2>4 DEF SearchFound
    <3>2. local' \in [Callers -> Addr]
      BY <3>1, <2>2, <1>0 DEF CallTypes
    <3> QED BY <3>2, <2>1, <2>4, <1>0, Addresses DEF SearchFound, CallTypes, Busy
  <2> QED BY <2>3, <2>4, <1>8
<1> QED BY <1>1, <1>2, <1>3, <1>4, <1>5, <1>6, <1>7, <1>8 DEF Next, _connectx_udp

-----------------------------------------------------------------------------
(* What the steps do to the table.                                         *)

LEMMA BindEffect ==
    ASSUME TableTypes, NEW s \in Socks, s \notin Bound, NEW a \in Addr,
           NEW r \in Remotes \cup {NoPeer}, NEW shares \in BOOLEAN, BindTo(s, a, r, shares)
    PROVE  /\ TableTypes' /\ Bound' = Bound \cup {s}
           /\ addr'[s] = a /\ peer'[s] = r /\ reuse'[s] = shares
           /\ \A t \in Socks : t # s =>
                 addr'[t] = addr[t] /\ peer'[t] = peer[t] /\ reuse'[t] = reuse[t]
           /\ \A x, y : Newer(x, y)' => Newer(x, y) \/ (x = s /\ y \in Bound)
<1>1. /\ chain' \in Seq(Socks) /\ IsInjective(chain') /\ Bound' = Bound \cup {s}
      /\ \A x, y : Newer(x, y)' => Newer(x, y) \/ (x = s /\ y \in Bound)
  BY Bound1 DEF TableTypes, BindTo
<1>2. /\ addr'[s] = a /\ peer'[s] = r /\ reuse'[s] = shares
      /\ \A t \in Socks : t # s =>
            addr'[t] = addr[t] /\ peer'[t] = peer[t] /\ reuse'[t] = reuse[t]
      /\ addr' \in [Socks -> Addr] /\ peer' \in [Socks -> Remotes \cup {NoPeer}]
      /\ reuse' \in [Socks -> BOOLEAN]
  BY DEF TableTypes, BindTo
<1> QED BY <1>1, <1>2 DEF TableTypes

LEMMA UnbindEffect ==
    ASSUME TableTypes, NEW s \in Socks, Unbind(s)
    PROVE  /\ TableTypes' /\ Bound' = Bound \ {s}
           /\ \A t \in Socks : t # s =>
                 addr'[t] = addr[t] /\ peer'[t] = peer[t] /\ reuse'[t] = reuse[t]
           /\ \A x, y : Newer(x, y)' => Newer(x, y)
<1>1. /\ chain' \in Seq(Socks) /\ IsInjective(chain') /\ Bound' = Bound \ {s}
      /\ \A x, y : Newer(x, y)' => Newer(x, y)
  BY Unbound1 DEF TableTypes, Unbind
<1>2. /\ \A t \in Socks : t # s =>
            addr'[t] = addr[t] /\ peer'[t] = peer[t] /\ reuse'[t] = reuse[t]
      /\ addr' \in [Socks -> Addr] /\ peer' \in [Socks -> Remotes \cup {NoPeer}]
      /\ reuse' \in [Socks -> BOOLEAN]
  BY Addresses DEF TableTypes, Unbind
<1> QED BY <1>1, <1>2 DEF TableTypes

LEMMA Typed ==
    ASSUME IInv
    PROVE  /\ CallTypes /\ TableTypes /\ Holding /\ Strangers /\ Newest /\ Single /\ Searching /\ Undisturbed
           /\ Bound \subseteq Socks
BY TypeParts, BoundSocks DEF IInv, TableTypes

\* A socket of _get_src_route shares a port that nobody has locked.
LEMMA RouteEffect ==
    ASSUME IInv, NEW c \in Callers, RouteOpen(c)
    PROVE  \E p \in AutoPorts :
              LET a == [ip |-> Source[want[c].remote], port |-> p]
                  s == RouteSock(c) IN
              /\ TableTypes' /\ s \in Socks /\ s \notin Bound /\ Bound' = Bound \cup {s}
              /\ addr'[s] = a /\ peer'[s] = want[c].remote /\ peer'[s] # NoPeer /\ reuse'[s]
              /\ a.ip # WILDCARD /\ local'[c].ip = a.ip
              /\ \A t \in Socks : t # s =>
                    addr'[t] = addr[t] /\ peer'[t] = peer[t] /\ reuse'[t] = reuse[t]
              /\ \A x, y : Newer(x, y)' => Newer(x, y) \/ (x = s /\ y \in Bound)
<1>1. PICK p \in AutoPorts :
          /\ BindTo(RouteSock(c), [ip |-> Source[want[c].remote], port |-> p], want[c].remote, TRUE)
          /\ local' = [local EXCEPT ![c].ip = Source[want[c].remote]]
  BY DEF RouteOpen
<1>2. want[c].remote \in Remotes /\ p \in ports
  BY Typed DEF CallTypes, Wants, AutoPorts
<1> DEFINE a == [ip |-> Source[want[c].remote], port |-> p]
           s == RouteSock(c)
<1>3. a \in Addr /\ a.ip = Source[want[c].remote] /\ a.ip # WILDCARD
  BY <1>2, ConnectxAssumption DEF Addr
<1>4. s \in Socks /\ s \notin Bound
  <2>1. pc[c] # "routed"
    BY DEF RouteOpen
  <2> QED BY <2>1, Apart, Typed DEF Strangers
<1>5. want[c].remote \in Remotes \cup {NoPeer} /\ want[c].remote # NoPeer
  BY <1>2, ConnectxAssumption
<1>6. BindTo(s, a, want[c].remote, TRUE)
  BY <1>1
<1>7. local'[c].ip = a.ip
  BY <1>1, <1>3, Typed DEF CallTypes, Addr
<1>8. TableTypes /\ TRUE \in BOOLEAN
  BY Typed
<1>9. /\ TableTypes' /\ Bound' = Bound \cup {s}
      /\ addr'[s] = a /\ peer'[s] = want[c].remote /\ reuse'[s] = TRUE
      /\ \A t \in Socks : t # s =>
            addr'[t] = addr[t] /\ peer'[t] = peer[t] /\ reuse'[t] = reuse[t]
      /\ \A x, y : Newer(x, y)' => Newer(x, y) \/ (x = s /\ y \in Bound)
  <2> HIDE DEF a, s
  <2> QED BY <1>3, <1>4, <1>5, <1>6, <1>8, BindEffect
<1> QED BY <1>3, <1>4, <1>5, <1>7, <1>9

LEMMA BindsEffect ==
    ASSUME IInv, NEW c \in Callers, Bind(c)
    PROVE  /\ TableTypes' /\ c \in Socks /\ c \notin Bound /\ Bound' = Bound \cup {c}
           /\ addr'[c] = local[c] /\ peer'[c] = NoPeer /\ reuse'[c] /\ local[c].ip # WILDCARD
           /\ \A t \in Socks : t # c =>
                 addr'[t] = addr[t] /\ peer'[t] = peer[t] /\ reuse'[t] = reuse[t]
           /\ \A x, y : Newer(x, y)' => Newer(x, y) \/ (x = c /\ y \in Bound)
<1>1. c \notin Bound /\ local[c].ip # WILDCARD
  BY Typed DEF Holding, Holds, Bind
<1>2. local[c] \in Addr /\ TableTypes /\ c \in Socks
  BY Typed, Apart DEF CallTypes
<1>3. NoPeer \in Remotes \cup {NoPeer} /\ TRUE \in BOOLEAN /\ BindTo(c, local[c], NoPeer, TRUE)
  BY DEF Bind
<1> DEFINE a == local[c]
<1>4. a \in Addr /\ BindTo(c, a, NoPeer, TRUE)
  BY <1>2, <1>3
<1> HIDE DEF a
<1>5. /\ TableTypes' /\ Bound' = Bound \cup {c}
      /\ addr'[c] = a /\ peer'[c] = NoPeer /\ reuse'[c] = TRUE
      /\ \A t \in Socks : t # c =>
            addr'[t] = addr[t] /\ peer'[t] = peer[t] /\ reuse'[t] = reuse[t]
      /\ \A x, y : Newer(x, y)' => Newer(x, y) \/ (x = c /\ y \in Bound)
  BY <1>1, <1>2, <1>3, <1>4, BindEffect
<1> QED BY <1>1, <1>2, <1>5 DEF a

LEMMA PlainEffect ==
    ASSUME IInv, PlainBind
    PROVE  /\ TableTypes' /\ Plain \in Socks /\ Plain \notin Bound /\ Bound' = Bound \cup {Plain}
           /\ ~Refused(addr'[Plain], FALSE) /\ peer'[Plain] = NoPeer /\ ~reuse'[Plain]
           /\ \A t \in Socks : t # Plain =>
                 addr'[t] = addr[t] /\ peer'[t] = peer[t] /\ reuse'[t] = reuse[t]
           /\ \A x, y : Newer(x, y)' => Newer(x, y) \/ (x = Plain /\ y \in Bound)
<1>1. PICK ip \in IPs \cup {WILDCARD}, p \in ports :
          /\ ~Refused([ip |-> ip, port |-> p], FALSE)
          /\ BindTo(Plain, [ip |-> ip, port |-> p], NoPeer, FALSE)
  BY DEF PlainBind
<1> DEFINE a == [ip |-> ip, port |-> p]
<1>2. a \in Addr /\ BindTo(Plain, a, NoPeer, FALSE) /\ ~Refused(a, FALSE)
  BY <1>1 DEF Addr
<1>3. Plain \in Socks /\ Plain \notin Bound /\ TableTypes
  BY Typed DEF Socks, PlainBind
<1> HIDE DEF a
<1>4. NoPeer \in Remotes \cup {NoPeer} /\ FALSE \in BOOLEAN
  OBVIOUS
<1>5. /\ TableTypes' /\ Bound' = Bound \cup {Plain}
      /\ addr'[Plain] = a /\ peer'[Plain] = NoPeer /\ reuse'[Plain] = FALSE
      /\ \A t \in Socks : t # Plain =>
            addr'[t] = addr[t] /\ peer'[t] = peer[t] /\ reuse'[t] = reuse[t]
      /\ \A x, y : Newer(x, y)' => Newer(x, y) \/ (x = Plain /\ y \in Bound)
  BY <1>2, <1>3, <1>4, BindEffect
<1> QED BY <1>2, <1>3, <1>5

\* What a caller does.
Does(c) == Call(c) \/ _connectx_udp(c) \/ Close(c)

LEMMA Steps == [Next]_vars => UNCHANGED vars \/ PlainBind \/ PlainClose \/ \E c \in Callers : Does(c)
BY DEF Next, Does

\* A caller's step is about its own call ...
LEMMA OthersCall ==
    ASSUME IInv, NEW c \in Callers, Does(c), NEW d \in Callers, d # c
    PROVE  /\ pc'[d] = pc[d] /\ want'[d] = want[d] /\ local'[d] = local[d]
           /\ start'[d] = start[d] /\ off'[d] = off[d]
<1>0. CallTypes
  BY Typed
<1>1. CASE Call(c) \/ RouteOpen(c) \/ RouteClose(c) \/ SearchStarts(c) \/ SearchSkip(c) \/ SearchFound(c)
  BY <1>1, <1>0 DEF Call, RouteOpen, RouteClose, SearchStarts, SearchSkip, SearchFound, CallTypes
<1>2. CASE Bind(c) \/ Lock(c) \/ Check(c) \/ Connect(c) \/ Close(c)
  BY <1>2, <1>0 DEF Bind, Lock, Check, Connect, Close, CallTypes
<1>3. CASE RouteFails(c) \/ SearchEnds(c) \/ BindFails(c) \/ Unlock(c) \/ Cleanup(c) \/ Raises(c)
  <2>1. \E how \in Over : Return(c, how)
    BY <1>3 DEF RouteFails, SearchEnds, BindFails, Unlock, Cleanup, Raises, Over
  <2> QED BY <2>1, <1>0 DEF Return, CallTypes
<1> QED BY <1>1, <1>2, <1>3 DEF Does, _connectx_udp

Tables(c) == RouteOpen(c) \/ RouteClose(c) \/ Bind(c) \/ Lock(c) \/ Connect(c) \/ Unlock(c)
                \/ Cleanup(c) \/ Close(c)

LEMMA Quiet ==
    ASSUME NEW c \in Callers, Does(c), ~Tables(c)
    PROVE  UNCHANGED tableVars
BY DEF Does, _connectx_udp, Tables, Call, RouteFails, SearchStarts, SearchSkip, SearchFound,
       SearchEnds, BindFails, Check, Raises

LEMMA Still ==
    ASSUME UNCHANGED tableVars
    PROVE  /\ Bound' = Bound /\ UNCHANGED <<addr, peer, reuse>>
           /\ (TableTypes => TableTypes')
           /\ \A x, y : Newer(x, y)' <=> Newer(x, y)
<1>1. UNCHANGED <<chain, addr, peer, reuse>>
  BY DEF tableVars
<1>2. Bound' = Bound /\ \A x, y : Newer(x, y)' <=> Newer(x, y)
  BY <1>1, Same1
<1>3. TableTypes => TableTypes'
  BY <1>1 DEF TableTypes
<1> QED BY <1>1, <1>2, <1>3

\* The steps inside the critical section move no socket.
LEMMA MarkEffect ==
    ASSUME IInv, NEW c \in Callers, Lock(c) \/ Connect(c) \/ Unlock(c) \/ Cleanup(c)
    PROVE  /\ TableTypes' /\ Bound' = Bound /\ c \in Socks /\ addr' = addr
           /\ \A t \in Socks : t # c => peer'[t] = peer[t] /\ reuse'[t] = reuse[t]
           /\ peer'[c] = IF pc[c] = "connect" THEN want[c].remote ELSE peer[c]
           /\ reuse'[c] = (IF pc[c] = "connect" THEN reuse[c] ELSE pc[c] # "lock")
           /\ \A x, y : Newer(x, y)' <=> Newer(x, y)
<1>0. TableTypes /\ CallTypes /\ c \in Socks
  BY Typed, Apart
<1>1. chain' = chain /\ addr' = addr
  BY DEF Lock, Connect, Unlock, Cleanup
<1>2. Bound' = Bound /\ \A x, y : Newer(x, y)' <=> Newer(x, y)
  BY <1>1, Same1
<1>3. CASE Lock(c)
  BY <1>0, <1>1, <1>2, <1>3 DEF Lock, TableTypes
<1>4. CASE Connect(c)
  <2>1. want[c].remote \in Remotes
    BY <1>0 DEF CallTypes, Wants
  <2> QED BY <1>0, <1>1, <1>2, <1>4, <2>1 DEF Connect, TableTypes
<1>5. CASE Unlock(c)
  BY <1>0, <1>1, <1>2, <1>5 DEF Unlock, TableTypes
<1>6. CASE Cleanup(c)
  BY <1>0, <1>1, <1>2, <1>6 DEF Cleanup, TableTypes
<1> QED BY <1>3, <1>4, <1>5, <1>6

\* ... and its own sockets.
LEMMA OthersSock ==
    ASSUME IInv, NEW c \in Callers, Does(c)
    PROVE  /\ TableTypes'
           /\ \A t \in Socks \ {c, RouteSock(c)} :
                 /\ addr'[t] = addr[t] /\ peer'[t] = peer[t] /\ reuse'[t] = reuse[t]
                 /\ t \in Bound' <=> t \in Bound
<1>0. TableTypes /\ c \in Socks /\ RouteSock(c) \in Socks
  BY Typed, Apart
<1>1. CASE ~Tables(c)
  BY <1>0, <1>1, Quiet, Still
<1>2. CASE RouteOpen(c)
  BY <1>2, RouteEffect
<1>3. CASE RouteClose(c)
  BY <1>0, <1>3, UnbindEffect DEF RouteClose
<1>4. CASE Bind(c)
  BY <1>4, BindsEffect
<1>5. CASE Lock(c) \/ Connect(c) \/ Unlock(c) \/ Cleanup(c)
  BY <1>5, MarkEffect
<1>6. CASE Close(c)
  BY <1>0, <1>6, UnbindEffect DEF Close
<1> QED BY <1>1, <1>2, <1>3, <1>4, <1>5, <1>6 DEF Tables

\* The other program's steps.
LEMMA PlainSock ==
    ASSUME IInv, PlainBind \/ PlainClose
    PROVE  /\ TableTypes' /\ UNCHANGED <<pc, want, local, start, off>>
           /\ overlapped' = [d \in Callers |-> overlapped[d] \/ pc[d] \in Busy]
           /\ \A t \in Socks \ {Plain} :
                 /\ addr'[t] = addr[t] /\ peer'[t] = peer[t] /\ reuse'[t] = reuse[t]
                 /\ t \in Bound' <=> t \in Bound
           /\ \A x, y : Newer(x, y)' => Newer(x, y) \/ x = Plain
<1>1. UNCHANGED <<pc, want, local, start, off>>
      /\ overlapped' = [d \in Callers |-> overlapped[d] \/ pc[d] \in Busy]
  BY DEF PlainBind, PlainClose, Disturb
<1>2. CASE PlainBind
  BY <1>1, <1>2, PlainEffect
<1>3. CASE PlainClose
  <2>1. Plain \in Socks /\ TableTypes /\ Unbind(Plain)
    BY <1>3, Typed DEF Socks, PlainClose
  <2> QED BY <1>1, <2>1, UnbindEffect
<1> QED BY <1>2, <1>3

LEMMA TableTypesStep == IInv /\ [Next]_vars => TableTypes'
<1> SUFFICES ASSUME IInv, [Next]_vars PROVE TableTypes'
  OBVIOUS
<1>1. CASE UNCHANGED vars
  BY <1>1, Typed, Still DEF vars
<1> QED BY <1>1, Steps, OthersSock, PlainSock

-----------------------------------------------------------------------------
(* Who has a socket in the table.                                          *)

LEMMA HoldsKept ==
    ASSUME NEW d \in Callers, Holds(d), pc'[d] = pc[d], local'[d] = local[d], want'[d] = want[d],
           addr'[d] = addr[d], peer'[d] = peer[d], reuse'[d] = reuse[d], d \in Bound' <=> d \in Bound
    PROVE  Holds(d)'
BY DEF Holds

LEMMA HoldingStep == IInv /\ [Next]_vars => Holding'
<1> SUFFICES ASSUME IInv, [Next]_vars, NEW d \in Callers PROVE Holds(d)'
  BY DEF Holding
<1>0. Holds(d) /\ CallTypes /\ d \in Socks /\ d # Plain
  BY Typed, Apart DEF Holding
<1>1. CASE UNCHANGED vars
  BY <1>0, <1>1, Still, HoldsKept DEF vars, callVars
<1>2. CASE PlainBind \/ PlainClose
  BY <1>0, <1>2, PlainSock, HoldsKept
<1>3. ASSUME NEW c \in Callers, Does(c), d # c PROVE Holds(d)'
  <2>1. d # RouteSock(c)
    BY Apart
  <2> QED BY <1>0, <1>3, <2>1, OthersCall, OthersSock, HoldsKept
<1>4. ASSUME Does(d), ~Tables(d) PROVE Holds(d)'
  <2>1. Bound' = Bound /\ UNCHANGED <<addr, peer, reuse>>
    BY <1>4, Quiet, Still
  <2>2. CASE Call(d)
    <3>1. PICK w \in Wants :
          /\ local' = [local EXCEPT ![d] = [ip |-> w.ip, port |-> w.port]]
          /\ pc' = [pc EXCEPT ![d] = IF w.ip = WILDCARD THEN "route"
                                     ELSE IF w.port = 0 THEN "random" ELSE "bind"]
      BY <2>2 DEF Call
    <3>2. local'[d] = [ip |-> w.ip, port |-> w.port] /\ local'[d].ip = w.ip
      BY <3>1, <1>0 DEF CallTypes
    <3>3. pc'[d] = IF w.ip = WILDCARD THEN "route" ELSE IF w.port = 0 THEN "random" ELSE "bind"
      BY <3>1, <1>0 DEF CallTypes
    <3>4. d \notin Bound
      BY <2>2, <1>0 DEF Holds, Call
    <3> QED BY <2>1, <3>2, <3>3, <3>4 DEF Holds, Locked
  <2>3. CASE RouteFails(d) \/ SearchEnds(d) \/ BindFails(d) \/ Raises(d)
    <3>1. \/ pc[d] \in {"route", "search"} /\ pc'[d] = "again"
          \/ pc[d] = "bind" /\ pc'[d] = "failed"
          \/ pc[d] \in {"search", "check", "connect"} /\ pc'[d] = "raised"
      BY <2>3, <1>0 DEF RouteFails, SearchEnds, BindFails, Raises, Return, CallTypes
    <3> QED BY <2>1, <3>1, <1>0 DEF Holds, Locked
  <2>4. CASE SearchStarts(d) \/ SearchSkip(d) \/ Check(d)
    <3>1. /\ local'[d] = local[d] /\ want'[d] = want[d]
          /\ \/ pc[d] \in {"random", "search"} /\ pc'[d] = "search"
             \/ pc[d] = "check" /\ pc'[d] \in {"connect", "cleanup"}
      BY <2>4, <1>0 DEF SearchStarts, SearchSkip, Check, CallTypes
    <3> QED BY <2>1, <3>1, <1>0 DEF Holds, Locked
  <2>5. CASE SearchFound(d)
    <3>1. /\ local'[d] = [local[d] EXCEPT !.port = Port(d)] /\ want'[d] = want[d]
          /\ pc[d] = "search" /\ pc'[d] = "bind" /\ local[d] \in Addr
      BY <2>5, <1>0 DEF SearchFound, CallTypes
    <3>2. local'[d].ip = local[d].ip
      BY <3>1 DEF Addr
    <3> QED BY <2>1, <3>1, <3>2, <1>0 DEF Holds, Locked
  <2> QED BY <1>4, <2>2, <2>3, <2>4, <2>5 DEF Does, _connectx_udp, Tables
<1>5. ASSUME RouteOpen(d) PROVE Holds(d)'
  <2>1. pc[d] = "route" /\ pc'[d] = "routed" /\ local'[d].ip # WILDCARD
    BY <1>5, <1>0, RouteEffect DEF RouteOpen, CallTypes
  <2>2. d \notin Bound'
    <3>1. d \notin Bound /\ d # RouteSock(d)
      BY <2>1, <1>0, Apart DEF Holds
    <3> QED BY <1>5, <3>1, RouteEffect
  <2> QED BY <2>1, <2>2 DEF Holds, Locked
<1>6. ASSUME RouteClose(d) PROVE Holds(d)'
  <2>1. /\ pc[d] = "routed" /\ pc'[d] \in {"random", "bind"} /\ local'[d] = local[d]
    BY <1>6, <1>0 DEF RouteClose, AfterRoute, CallTypes
  <2>2. d \notin Bound'
    BY <1>6, <1>0, <2>1, Typed, Apart, UnbindEffect DEF Holds, RouteClose
  <2> QED BY <2>1, <2>2, <1>0 DEF Holds, Locked
<1>7. ASSUME Bind(d) PROVE Holds(d)'
  <2>1. pc'[d] = "lock" /\ local'[d] = local[d]
    BY <1>7, <1>0 DEF Bind, CallTypes
  <2> QED BY <2>1, <1>7, BindsEffect DEF Holds, Locked
<1>8. ASSUME Lock(d) \/ Connect(d) \/ Unlock(d) \/ Cleanup(d) PROVE Holds(d)'
  <2>1. \/ pc[d] = "lock" /\ pc'[d] = "check" /\ local'[d] = local[d]
        \/ pc[d] = "connect" /\ pc'[d] = "unlock" /\ local'[d] = local[d] /\ want'[d] = want[d]
        \/ pc[d] = "unlock" /\ pc'[d] = "done"
        \/ pc[d] = "cleanup" /\ pc'[d] = "failed"
    BY <1>8, <1>0 DEF Lock, Connect, Unlock, Cleanup, Return, CallTypes
  <2>2. want[d].remote # NoPeer
    BY <1>0, ConnectxAssumption DEF CallTypes, Wants
  <2> QED BY <1>8, <1>0, <2>1, <2>2, MarkEffect DEF Holds, Locked
<1>9. ASSUME Close(d) PROVE Holds(d)'
  <2>1. pc'[d] = "idle"
    BY <1>9, <1>0 DEF Close, CallTypes
  <2>2. d \notin Bound'
    BY <1>9, <1>0, Typed, UnbindEffect DEF Close
  <2> QED BY <2>1, <2>2 DEF Holds, Locked
<1> QED BY <1>1, <1>2, <1>3, <1>4, <1>5, <1>6, <1>7, <1>8, <1>9, Steps DEF Tables

-----------------------------------------------------------------------------
(* Who may be bound next to whom.                                          *)

LEMMA OverlapFacts ==
    ASSUME NEW a, NEW b
    PROVE  /\ Overlap(a, b) <=> Overlap(b, a)
           /\ a = b => Overlap(a, b)
BY DEF Overlap

\* A socket that comes into the table finds every other it overlaps shared.
LEMMA Newcomer ==
    ASSUME IInv, [Next]_vars, NEW t \in Bound'
    PROVE  \/ t \in Bound /\ addr'[t] = addr[t] /\ (peer'[t] = NoPeer => peer[t] = NoPeer)
           \/ t \notin Bound /\ \A u \in Bound : Overlap(addr[u], addr'[t]) => reuse[u] /\ t # Plain
<1>0. TableTypes /\ CallTypes /\ Bound \subseteq Socks /\ TableTypes' /\ Bound' \subseteq Socks
  <2>1. TableTypes'
    BY TableTypesStep
  <2>2. Bound' \subseteq Socks
    BY <2>1 DEF TableTypes, Bound, Range
  <2> QED BY <2>1, <2>2, Typed
<1>1. CASE UNCHANGED vars
  BY <1>1, Still DEF vars
<1>2. CASE PlainBind
  <2>1. CASE t = Plain
    BY <1>2, <2>1, PlainEffect DEF Refused
  <2>2. CASE t # Plain
    BY <1>0, <1>2, <2>2, PlainSock
  <2> QED BY <2>1, <2>2
<1>3. CASE PlainClose
  <2>1. t # Plain
    <3>1. Plain \in Socks /\ Unbind(Plain)
      BY <1>3 DEF Socks, PlainClose
    <3> QED BY <1>0, <3>1, UnbindEffect
  <2> QED BY <1>0, <1>3, <2>1, PlainSock
<1>4. ASSUME NEW c \in Callers, Does(c)
      PROVE  \/ t \in Bound /\ addr'[t] = addr[t] /\ (peer'[t] = NoPeer => peer[t] = NoPeer)
             \/ t \notin Bound /\ \A u \in Bound : Overlap(addr[u], addr'[t]) => reuse[u] /\ t # Plain
  <2>0. c \in Socks /\ RouteSock(c) \in Socks /\ c # Plain /\ RouteSock(c) # Plain /\ c # RouteSock(c)
    BY Apart
  <2>1. CASE t \notin {c, RouteSock(c)}
    BY <1>0, <1>4, <2>1, OthersSock
  <2>2. CASE ~Tables(c)
    BY <1>4, <2>2, Quiet, Still
  <2>3. CASE RouteOpen(c) /\ t = RouteSock(c)
    <3>1. PICK p \in AutoPorts :
              /\ RouteSock(c) \notin Bound
              /\ addr'[RouteSock(c)] = [ip |-> Source[want[c].remote], port |-> p]
      BY <2>3, RouteEffect
    <3>2. \A u \in Bound : Overlap(addr[u], [ip |-> WILDCARD, port |-> p]) => reuse[u]
      BY DEF AutoPorts, Refused
    <3>3. \A u \in Bound : Overlap(addr[u], addr'[t]) => Overlap(addr[u], [ip |-> WILDCARD, port |-> p])
      BY <3>1, <2>3 DEF Overlap
    <3> QED BY <3>1, <3>2, <3>3, <2>0, <2>3
  <2>4. CASE RouteOpen(c) /\ t = c
    <3>1. Bound' = Bound \cup {RouteSock(c)} /\ addr'[c] = addr[c] /\ peer'[c] = peer[c]
      BY <2>4, <2>0, RouteEffect
    <3> QED BY <2>0, <2>4, <3>1
  <2>5. CASE RouteClose(c)
    BY <1>0, <2>0, <2>1, <2>5, UnbindEffect DEF RouteClose
  <2>6. CASE Bind(c) /\ t = c
    <3>1. \A u \in Bound : Overlap(addr[u], local[c]) => reuse[u]
      BY <2>6 DEF Bind, Refused
    <3> QED BY <3>1, <2>0, <2>6, BindsEffect
  <2>7. CASE Bind(c) /\ t = RouteSock(c)
    BY <2>7, <2>0, BindsEffect
  <2>8. CASE Lock(c) \/ Connect(c) \/ Unlock(c) \/ Cleanup(c)
    <3>1. want[c].remote # NoPeer
      BY <1>0, ConnectxAssumption DEF CallTypes, Wants
    <3>2. t \in Bound /\ addr'[t] = addr[t]
      BY <2>8, MarkEffect
    <3>3. CASE t = c
      <4>1. peer'[t] = IF pc[c] = "connect" THEN want[c].remote ELSE peer[c]
        BY <2>8, <3>3, MarkEffect
      <4> QED BY <3>1, <3>2, <3>3, <4>1
    <3>4. CASE t # c
      <4>1. peer'[t] = peer[t]
        BY <2>8, <3>4, <3>2, <1>0, MarkEffect
      <4> QED BY <3>2, <4>1
    <3> QED BY <3>3, <3>4
  <2>9. CASE Close(c)
    BY <1>0, <2>0, <2>9, UnbindEffect DEF Close
  <2> QED BY <2>1, <2>2, <2>3, <2>4, <2>5, <2>6, <2>7, <2>8, <2>9 DEF Tables
<1> QED BY <1>1, <1>2, <1>3, <1>4, Steps

LEMMA NewerOnly ==
    ASSUME IInv, [Next]_vars, NEW x, NEW y, Newer(x, y)'
    PROVE  Newer(x, y) \/ x \notin Bound
<1>0. TableTypes
  BY Typed
<1>1. CASE UNCHANGED vars
  BY <1>1, Still DEF vars
<1>2. CASE PlainBind
  BY <1>2, PlainEffect
<1>3. CASE PlainClose
  BY <1>0, <1>3, UnbindEffect DEF PlainClose, Socks
<1>4. ASSUME NEW c \in Callers, Does(c) PROVE Newer(x, y) \/ x \notin Bound
  <2>0. c \in Socks /\ RouteSock(c) \in Socks
    BY Apart
  <2>1. CASE ~Tables(c)
    BY <1>4, <2>1, Quiet, Still
  <2>2. CASE RouteOpen(c)
    BY <2>2, RouteEffect
  <2>3. CASE Bind(c)
    BY <2>3, BindsEffect
  <2>4. CASE Lock(c) \/ Connect(c) \/ Unlock(c) \/ Cleanup(c)
    BY <2>4, MarkEffect
  <2>5. CASE RouteClose(c) \/ Close(c)
    BY <1>0, <2>0, <2>5, UnbindEffect DEF RouteClose, Close
  <2> QED BY <2>1, <2>2, <2>3, <2>4, <2>5 DEF Tables
<1> QED BY <1>1, <1>2, <1>3, <1>4, Steps

LEMMA StrangersStep == IInv /\ [Next]_vars => Strangers'
<1> SUFFICES ASSUME IInv, [Next]_vars PROVE Strangers'
  OBVIOUS
<1>0. Strangers /\ TableTypes /\ CallTypes /\ Bound \subseteq Socks
  BY Typed
<1>1. ASSUME NEW d \in Callers, RouteSock(d) \in Bound'
      PROVE  (pc[d] = "routed" /\ peer[RouteSock(d)] # NoPeer /\ reuse[RouteSock(d)])'
  <2>0. d \in Socks /\ RouteSock(d) \in Socks /\ RouteSock(d) # d /\ RouteSock(d) # Plain
    BY Apart
  <2>1. CASE UNCHANGED vars
    BY <1>0, <1>1, <2>1, Still DEF vars, callVars, Strangers
  <2>2. CASE PlainBind \/ PlainClose
    BY <1>0, <1>1, <2>0, <2>2, PlainSock DEF Strangers
  <2>3. ASSUME NEW c \in Callers, Does(c), c # d
        PROVE  (pc[d] = "routed" /\ peer[RouteSock(d)] # NoPeer /\ reuse[RouteSock(d)])'
    <3>1. RouteSock(d) # c /\ RouteSock(d) # RouteSock(c)
      BY <2>3, Apart
    <3> QED BY <1>0, <1>1, <2>0, <2>3, <3>1, OthersCall, OthersSock DEF Strangers
  <2>4. ASSUME RouteOpen(d)
        PROVE  (pc[d] = "routed" /\ peer[RouteSock(d)] # NoPeer /\ reuse[RouteSock(d)])'
    BY <1>0, <2>4, RouteEffect DEF RouteOpen, CallTypes
  <2>5. ASSUME Does(d), ~RouteOpen(d) PROVE FALSE
    <3>1. CASE RouteClose(d)
      BY <1>0, <1>1, <2>0, <3>1, UnbindEffect DEF RouteClose
    <3>2. CASE ~RouteClose(d)
      <4>1. RouteSock(d) \notin Bound
        <5>1. pc[d] # "routed"
          BY <2>5, <3>2 DEF Does, _connectx_udp, Call, RouteFails, SearchStarts, SearchSkip,
               SearchFound, SearchEnds, Bind, BindFails, Lock, Check, Connect, Unlock, Cleanup,
               Raises, Close, Over
        <5> QED BY <1>0, <5>1 DEF Strangers
      <4>2. Bound' \subseteq Bound \cup {d}
        <5>1. CASE ~Tables(d)
          BY <2>5, <5>1, Quiet, Still
        <5>2. CASE Bind(d)
          BY <5>2, BindsEffect
        <5>3. CASE Lock(d) \/ Connect(d) \/ Unlock(d) \/ Cleanup(d)
          BY <5>3, MarkEffect
        <5>4. CASE Close(d)
          BY <1>0, <2>0, <5>4, UnbindEffect DEF Close
        <5> QED BY <2>5, <3>2, <5>1, <5>2, <5>3, <5>4 DEF Tables
      <4> QED BY <1>1, <2>0, <4>1, <4>2
    <3> QED BY <3>1, <3>2
  <2> QED BY <2>1, <2>2, <2>3, <2>4, <2>5, Steps
<1>2. ASSUME Plain \in Bound'
      PROVE  /\ ~reuse'[Plain] /\ peer'[Plain] = NoPeer
             /\ \A t \in Bound' \ {Plain} : ~Overlap(addr'[Plain], addr'[t])
  <2>1. CASE PlainBind
    <3>1. ASSUME NEW t \in Bound' \ {Plain} PROVE ~Overlap(addr'[Plain], addr'[t])
      <4>1. t \in Bound /\ addr'[t] = addr[t] /\ ~Refused(addr'[Plain], FALSE)
        BY <1>0, <2>1, PlainEffect
      <4> QED BY <4>1, OverlapFacts DEF Refused
    <3> QED BY <2>1, <3>1, PlainEffect
  <2>2. ASSUME ~PlainBind
        PROVE  /\ Plain \in Bound /\ addr'[Plain] = addr[Plain]
               /\ peer'[Plain] = peer[Plain] /\ reuse'[Plain] = reuse[Plain]
    <3>0. Plain \in Socks
      BY DEF Socks
    <3>1. CASE UNCHANGED vars
      BY <1>2, <3>1, Still DEF vars
    <3>2. CASE PlainClose
      BY <1>0, <1>2, <3>0, <3>2, UnbindEffect DEF PlainClose
    <3>3. ASSUME NEW c \in Callers, Does(c)
          PROVE  /\ Plain \in Bound /\ addr'[Plain] = addr[Plain]
                 /\ peer'[Plain] = peer[Plain] /\ reuse'[Plain] = reuse[Plain]
      BY <1>2, <3>0, <3>3, Apart, OthersSock
    <3> QED BY <2>2, <3>1, <3>2, <3>3, Steps
  <2>3. CASE ~PlainBind
    <3>1. ASSUME NEW t \in Bound' \ {Plain} PROVE ~Overlap(addr'[Plain], addr'[t])
      <4>1. CASE t \in Bound /\ addr'[t] = addr[t]
        BY <1>0, <2>2, <2>3, <3>1, <4>1 DEF Strangers
      <4>2. CASE \A u \in Bound : Overlap(addr[u], addr'[t]) => reuse[u]
        BY <1>0, <2>2, <2>3, <4>2 DEF Strangers
      <4> QED BY <4>1, <4>2, Newcomer
    <3> QED BY <1>0, <2>2, <2>3, <3>1 DEF Strangers
  <2> QED BY <2>1, <2>3
<1> QED BY <1>1, <1>2 DEF Strangers

\* A lookup that found c saw nobody newer and nobody connected.
LEMMA Seen ==
    ASSUME IInv, NEW c \in Callers, Check(c), pc'[c] = "connect"
    PROVE  \A t \in Bound : addr[t] = addr[c] =>
              /\ peer[t] # want[c].remote
              /\ peer[t] = NoPeer => ~Newer(t, c)
<1>0. /\ chain \in Seq(Socks) /\ IsInjective(chain) /\ CallTypes /\ want[c].remote # NoPeer
      /\ want[c].remote \in Remotes
  BY Typed, ConnectxAssumption DEF TableTypes, CallTypes, Wants
<1>1. c \in Bound /\ addr[c] = local[c] /\ peer[c] = NoPeer
  BY Typed DEF Holding, Holds, Check, Locked
<1>2. c \in Found(local[c], want[c].remote)
  BY <1>0 DEF Check, CallTypes
<1>3. Score(c, local[c], want[c].remote) = 2
  BY <1>0, <1>1 DEF Score
<1>4. \A u \in Bound : \/ Score(u, local[c], want[c].remote) < 2
                       \/ Score(u, local[c], want[c].remote) = 2 /\ ~Newer(u, c)
  BY <1>0, <1>2, <1>3, FoundMeans
<1> SUFFICES ASSUME NEW t \in Bound, addr[t] = addr[c]
             PROVE  /\ peer[t] # want[c].remote
                    /\ peer[t] = NoPeer => ~Newer(t, c)
  OBVIOUS
<1>5. peer[t] = want[c].remote => Score(t, local[c], want[c].remote) = 3
  BY <1>1 DEF Score
<1>6. peer[t] = NoPeer => Score(t, local[c], want[c].remote) = 2
  BY <1>0, <1>1 DEF Score
<1> QED BY <1>4, <1>5, <1>6

\* Where a caller stands before a step that leads to or stays at "connect".
LEMMA AtConnect ==
    ASSUME IInv, [Next]_vars, NEW d \in Callers, pc'[d] = "connect"
    PROVE  \/ Check(d) /\ UNCHANGED tableVars /\ want'[d] = want[d]
           \/ pc[d] = "connect" /\ want'[d] = want[d]
<1>0. CallTypes
  BY Typed
<1>1. CASE UNCHANGED vars
  BY <1>1 DEF vars, callVars
<1>2. CASE PlainBind \/ PlainClose
  BY <1>2, PlainSock
<1>3. ASSUME NEW c \in Callers, Does(c), c # d PROVE pc[d] = "connect" /\ want'[d] = want[d]
  BY <1>3, OthersCall
<1>4. CASE Check(d)
  BY <1>4, <1>0 DEF Check, CallTypes
<1>5. ASSUME Does(d), ~Check(d) PROVE FALSE
  <2>1. CASE Call(d) \/ RouteOpen(d) \/ RouteClose(d) \/ SearchStarts(d) \/ SearchSkip(d) \/ SearchFound(d)
    BY <2>1, <1>0 DEF Call, RouteOpen, RouteClose, SearchStarts, SearchSkip, SearchFound, CallTypes,
         AfterRoute
  <2>2. CASE Bind(d) \/ Lock(d) \/ Connect(d) \/ Close(d)
    BY <2>2, <1>0 DEF Bind, Lock, Connect, Close, CallTypes
  <2>3. CASE RouteFails(d) \/ SearchEnds(d) \/ BindFails(d) \/ Unlock(d) \/ Cleanup(d) \/ Raises(d)
    BY <2>3, <1>0 DEF RouteFails, SearchEnds, BindFails, Unlock, Cleanup, Raises, Return, CallTypes
  <2> QED BY <1>5, <2>1, <2>2, <2>3 DEF Does, _connectx_udp
<1> QED BY <1>1, <1>2, <1>3, <1>4, <1>5, Steps

LEMMA NewestStep == IInv /\ [Next]_vars => Newest'
<1> SUFFICES ASSUME IInv, [Next]_vars, NEW d \in Callers, pc'[d] = "connect",
                    NEW t \in Bound', addr'[t] = addr'[d], peer'[t] = NoPeer, Newer(t, d)'
             PROVE  FALSE
  BY DEF Newest
<1>0. Newest /\ Holding /\ CallTypes
  BY Typed
<1>1. CASE Check(d) /\ UNCHANGED tableVars
  BY <1>1, Still, Seen
<1>2. CASE pc[d] = "connect"
  <2>1. d \in Bound /\ ~reuse[d]
    BY <1>0, <1>2 DEF Holding, Holds, Locked
  <2>2. addr'[d] = addr[d]
    <3>1. d \in Bound'
      <4>1. Holds(d)'
        BY HoldingStep DEF Holding
      <4> QED BY <4>1 DEF Holds, Locked
    <3> QED BY <2>1, <3>1, Newcomer
  <2>3. CASE t \in Bound /\ addr'[t] = addr[t] /\ peer[t] = NoPeer
    <3>1. Newer(t, d)
      BY <2>3, NewerOnly
    <3> QED BY <1>0, <1>2, <2>2, <2>3, <3>1 DEF Newest
  <2>4. CASE \A u \in Bound : Overlap(addr[u], addr'[t]) => reuse[u]
    BY <2>1, <2>2, <2>4, OverlapFacts
  <2> QED BY <2>3, <2>4, Newcomer
<1> QED BY <1>1, <1>2, AtConnect

\* An owner was one before, with the same remote address, or has just been found.
LEMMA Owned ==
    ASSUME IInv, [Next]_vars, NEW d \in Callers, pc'[d] \in Owner
    PROVE  /\ d \in Bound /\ addr'[d] = addr[d]
           /\ \/ pc[d] \in Owner /\ Remote(d)' = Remote(d)
              \/ Check(d) /\ pc'[d] = "connect" /\ Remote(d)' = want[d].remote
<1>0. CallTypes /\ Holds(d) /\ d \in Socks
  BY Typed, Apart DEF Holding
<1>1. CASE pc'[d] = "connect"
  <2>1. Remote(d)' = want[d].remote /\ (pc[d] = "connect" => Remote(d) = want[d].remote)
    BY <1>1, AtConnect DEF Remote
  <2>2. d \in Bound
    BY <1>0, <1>1, AtConnect DEF Holds, Check, Locked
  <2>3. d \in Bound'
    BY <1>1, HoldingStep DEF Holding, Holds, Locked
  <2> QED BY <1>1, <2>1, <2>2, <2>3, AtConnect, Newcomer DEF Owner
<1>2. ASSUME pc'[d] # "connect"
      PROVE  /\ d \in Bound /\ addr'[d] = addr[d]
             /\ pc[d] \in Owner /\ Remote(d)' = Remote(d)
  <2>0. pc'[d] \in {"unlock", "done"} /\ Remote(d)' = peer'[d]
    BY <1>2 DEF Owner, Remote
  <2>1. CASE pc'[d] = pc[d] /\ peer'[d] = peer[d] /\ addr'[d] = addr[d]
    BY <2>0, <2>1, <1>0 DEF Remote, Holds, Locked, Owner
  <2>2. CASE UNCHANGED vars
    BY <2>1, <2>2 DEF vars, callVars, tableVars
  <2>3. CASE PlainBind \/ PlainClose
    <3>1. d # Plain
      BY Apart
    <3> QED BY <1>0, <2>1, <2>3, <3>1, PlainSock
  <2>4. ASSUME NEW c \in Callers, Does(c), c # d
        PROVE  pc'[d] = pc[d] /\ peer'[d] = peer[d] /\ addr'[d] = addr[d]
    <3>1. d # RouteSock(c)
      BY Apart
    <3> QED BY <1>0, <2>4, <3>1, OthersCall, OthersSock
  <2>5. CASE Connect(d)
    BY <2>0, <2>5, <1>0, MarkEffect DEF Connect, Remote, Holds, Locked, Owner
  <2>6. CASE Unlock(d)
    BY <2>0, <2>6, <1>0, MarkEffect DEF Unlock, Remote, Holds, Locked, Owner
  <2>7. ASSUME Does(d), ~Connect(d), ~Unlock(d) PROVE FALSE
    <3>1. CASE Call(d) \/ RouteOpen(d) \/ RouteClose(d) \/ SearchStarts(d) \/ SearchSkip(d) \/ SearchFound(d)
      BY <2>0, <3>1, <1>0 DEF Call, RouteOpen, RouteClose, SearchStarts, SearchSkip, SearchFound, CallTypes,
           AfterRoute
    <3>2. CASE Bind(d) \/ Lock(d) \/ Check(d) \/ Close(d)
      BY <2>0, <3>2, <1>0 DEF Bind, Lock, Check, Close, CallTypes
    <3>3. CASE RouteFails(d) \/ SearchEnds(d) \/ BindFails(d) \/ Cleanup(d) \/ Raises(d)
      BY <2>0, <3>3, <1>0 DEF RouteFails, SearchEnds, BindFails, Cleanup, Raises, Return, CallTypes
    <3> QED BY <2>7, <3>1, <3>2, <3>3 DEF Does, _connectx_udp
  <2> QED BY <2>1, <2>2, <2>3, <2>4, <2>5, <2>6, <2>7, Steps
<1> QED BY <1>1, <1>2

\* A call that has just found itself owns nothing that another owns.
LEMMA FirstOwner ==
    ASSUME IInv, NEW c \in Callers, Check(c), pc'[c] = "connect",
           NEW d \in Callers, d # c, pc[d] \in Owner, addr[d] = addr[c]
    PROVE  Remote(d) # want[c].remote
<1>0. /\ Holds(c) /\ Holds(d) /\ Newest /\ chain \in Seq(Socks) /\ IsInjective(chain)
  BY Typed DEF Holding, TableTypes
<1>1. c \in Bound /\ peer[c] = NoPeer
  BY <1>0 DEF Holds, Check, Locked
<1>2. d \in Bound /\ (pc[d] = "connect" => peer[d] = NoPeer)
  BY <1>0 DEF Holds, Locked, Owner
<1>3. CASE pc[d] = "connect"
  <2>1. ~Newer(d, c)
    BY <1>2, <1>3, Seen
  <2>2. ~Newer(c, d)
    BY <1>0, <1>1, <1>3 DEF Newest
  <2> QED BY <1>0, <1>1, <1>2, <2>1, <2>2, Ordered
<1>4. CASE pc[d] # "connect"
  BY <1>2, <1>4, Seen DEF Remote
<1> QED BY <1>3, <1>4

LEMMA SingleStep == IInv /\ [Next]_vars => Single'
<1> SUFFICES ASSUME IInv, [Next]_vars, NEW c \in Callers, NEW d \in Callers, c # d,
                    pc'[c] \in Owner, pc'[d] \in Owner, addr'[c] = addr'[d], Remote(c)' = Remote(d)'
             PROVE  FALSE
  BY DEF Single
<1>1. addr[c] = addr[d]
  BY Owned
<1>2. ~(Check(c) /\ Check(d))
  BY OthersCall, Typed DEF Check, CallTypes, Does, _connectx_udp
<1>3. CASE pc[c] \in Owner /\ Remote(c)' = Remote(c) /\ pc[d] \in Owner /\ Remote(d)' = Remote(d)
  BY <1>1, <1>3, Typed DEF Single
<1>4. CASE Check(c) /\ pc'[c] = "connect" /\ Remote(c)' = want[c].remote
  BY <1>1, <1>2, <1>4, Owned, FirstOwner
<1>5. CASE Check(d) /\ pc'[d] = "connect" /\ Remote(d)' = want[d].remote
  BY <1>1, <1>2, <1>5, Owned, FirstOwner
<1> QED BY <1>3, <1>4, <1>5, Owned

-----------------------------------------------------------------------------
(* What a call knows that nothing has disturbed.                           *)

LEMMA BusyBefore ==
    ASSUME IInv, NEW c \in Callers, _connectx_udp(c)
    PROVE  pc[c] \in Busy /\ (pc'[c] \in Busy => overlapped'[c] = overlapped[c])
<1>0. CallTypes
  BY Typed
<1>1. CASE RouteOpen(c) \/ RouteClose(c) \/ SearchStarts(c) \/ SearchSkip(c) \/ SearchFound(c)
  BY <1>1 DEF RouteOpen, RouteClose, SearchStarts, SearchSkip, SearchFound, Busy
<1>2. CASE Bind(c) \/ Lock(c) \/ Check(c) \/ Connect(c)
  BY <1>2 DEF Bind, Lock, Check, Connect, Busy
<1>3. CASE RouteFails(c) \/ SearchEnds(c) \/ BindFails(c) \/ Unlock(c) \/ Cleanup(c) \/ Raises(c)
  BY <1>3, <1>0 DEF RouteFails, SearchEnds, BindFails, Unlock, Cleanup, Raises, Return, CallTypes, Busy
<1> QED BY <1>1, <1>2, <1>3 DEF _connectx_udp

\* Only its own steps leave a call undisturbed.
LEMMA OwnStep ==
    ASSUME IInv, [Next]_vars, NEW c \in Callers, pc'[c] \in Busy, ~overlapped'[c]
    PROVE  /\ \/ UNCHANGED vars /\ pc[c] \in Busy /\ ~overlapped[c]
              \/ _connectx_udp(c) /\ pc[c] \in Busy /\ ~overlapped[c]
              \/ Call(c)
           /\ \A d \in Callers \ {c} : pc'[d] \notin Busy
<1>0. CallTypes /\ Undisturbed
  BY Typed
<1>1. CASE UNCHANGED vars
  BY <1>0, <1>1 DEF vars, callVars, Undisturbed
<1>2. CASE PlainBind \/ PlainClose
  <2>1. pc'[c] = pc[c] /\ overlapped'[c] = (overlapped[c] \/ pc[c] \in Busy)
    BY <1>2, PlainSock
  <2> QED BY <2>1
<1>3. ASSUME NEW d \in Callers, Does(d), d # c PROVE FALSE
  <2>1. pc[c] \in Busy
    BY <1>3, OthersCall
  <2>2. CASE Call(d) \/ Close(d)
    <3>1. overlapped'[c] = (overlapped[c] \/ pc[c] \in Busy)
      BY <1>3, <2>2 DEF Call, Close, Disturb
    <3> QED BY <2>1, <3>1
  <2>3. CASE _connectx_udp(d)
    <3>1. overlapped'[c] = overlapped[c]
      <4>1. CASE \E how \in Over : Return(d, how)
        BY <4>1, <1>0, <1>3 DEF Return, CallTypes
      <4>2. CASE UNCHANGED overlapped
        BY <4>2
      <4> QED BY <2>3, <4>1, <4>2 DEF _connectx_udp, RouteOpen, RouteFails, RouteClose, SearchStarts,
               SearchSkip, SearchFound, SearchEnds, Bind, BindFails, Lock, Check, Connect, Unlock,
               Cleanup, Raises, Over
    <3>2. pc[d] \notin Busy
      BY <1>0, <1>3, <2>1, <3>1 DEF Undisturbed
    <3> QED BY <2>3, <3>2, BusyBefore
  <2> QED BY <1>3, <2>2, <2>3 DEF Does
<1>4. CASE _connectx_udp(c)
  <2>1. pc[c] \in Busy /\ ~overlapped[c]
    BY <1>4, BusyBefore
  <2>2. \A d \in Callers \ {c} : pc'[d] \notin Busy
    BY <1>0, <1>4, <2>1, OthersCall DEF Undisturbed, Does
  <2> QED BY <1>4, <2>1, <2>2
<1>5. CASE Call(c)
  <2>1. overlapped'[c] = \E e \in Callers \ {c} : pc[e] \in Busy
    BY <1>5 DEF Call
  <2>2. \A d \in Callers \ {c} : pc'[d] = pc[d]
    BY <1>5, OthersCall DEF Does
  <2> QED BY <1>5, <2>1, <2>2
<1>6. CASE Close(c)
  BY <1>0, <1>6 DEF Close, CallTypes, Busy
<1> QED BY <1>1, <1>2, <1>3, <1>4, <1>5, <1>6, Steps DEF Does

\* The table and the call stay as they are.
LEMMA FoundKept ==
    ASSUME UNCHANGED tableVars, NEW a, NEW r
    PROVE  Found(a, r)' = Found(a, r)
BY DEF Found, Score, tableVars

\* A port nobody answers on can be bound.
LEMMA ClearPort ==
    ASSUME IInv, NEW c \in Callers, NEW a \in Addr, NEW r \in Remotes, a.ip # WILDCARD,
           pc[c] \in Busy, ~overlapped[c], Found(a, r) = {}, NEW t \in Bound \ {c}
    PROVE  /\ ~(addr[t] = a /\ peer[t] = r)
           /\ Overlap(addr[t], a) => reuse[t]
<1>0. /\ chain \in Seq(Socks) /\ IsInjective(chain) /\ Holding /\ Strangers /\ Undisturbed
      /\ Bound \subseteq Socks /\ TableTypes
  BY Typed DEF TableTypes
<1>1. Score(t, a, r) = 0
  BY <1>0, NobodyAnswers
<1>2. ~(addr[t] = a /\ peer[t] = r)
  BY <1>1 DEF Score
<1>3. ASSUME Overlap(addr[t], a), ~reuse[t] PROVE FALSE
  <2>1. addr[t] \in Addr /\ r # NoPeer
    BY <1>0, ConnectxAssumption DEF TableTypes
  <2>2. addr[t] = a \/ addr[t] = [a EXCEPT !.ip = WILDCARD]
    BY <1>3, <2>1 DEF Overlap, Addr
  <2>3. peer[t] # NoPeer
    <3>1. a # [a EXCEPT !.ip = WILDCARD]
      BY DEF Addr
    <3> QED BY <1>1, <2>2, <3>1 DEF Score
  <2>4. CASE t \in Callers
    <3>1. pc[t] \notin Busy
      BY <1>0, <2>4 DEF Undisturbed
    <3> QED BY <1>0, <1>3, <2>3, <2>4, <3>1 DEF Holding, Holds, Locked, Busy
  <2>5. CASE t = Plain
    BY <1>0, <2>3, <2>5 DEF Strangers
  <2>6. CASE \E d \in Callers : t = RouteSock(d)
    BY <1>0, <1>3, <2>6 DEF Strangers
  <2> QED BY <1>0, <2>4, <2>5, <2>6 DEF Socks
<1> QED BY <1>2, <1>3

\* Every port of the range comes up in a search.
LEMMA AllPorts ==
    ASSUME IInv, NEW c \in Callers, NEW p \in ports
    PROVE  \E k \in 0 .. hi - lo : PortAt(c, k) = p
<1>1. start[c] \in lo .. hi /\ p \in lo .. hi /\ lo \in Nat /\ hi \in Nat
  BY ConnectxAssumption, Typed DEF CallTypes, ports
<1>2. CASE p >= start[c]
  <2>1. p - start[c] \in 0 .. hi - lo /\ start[c] + (p - start[c]) = p
    BY <1>1, <1>2
  <2> QED BY <1>1, <2>1 DEF PortAt
<1>3. CASE p < start[c]
  <2> DEFINE k == p + (hi + 1) - lo - start[c]
  <2>1. k \in 0 .. hi - lo /\ start[c] + k = p + (hi + 1) - lo /\ start[c] + k > hi
    BY <1>1, <1>3
  <2>2. p + (hi + 1) - lo - (hi + 1) + lo = p
    BY <1>1
  <2> QED BY <1>1, <2>1, <2>2 DEF PortAt
<1>4. p >= start[c] \/ p < start[c]
  BY <1>1
<1> QED BY <1>2, <1>3, <1>4

\* What Check decides for a call that is alone: it finds itself or a connection.
LEMMA AloneFound ==
    ASSUME IInv, NEW c \in Callers, pc[c] = "check", ~overlapped[c],
           ~Taken(c, local[c], want[c].remote)
    PROVE  Found(local[c], want[c].remote) = {c}
<1> DEFINE a == local[c]
           r == want[c].remote
<1>0. /\ chain \in Seq(Socks) /\ IsInjective(chain) /\ r # NoPeer
      /\ \A t \in Bound : ~Newer(t, c)
      /\ c \in Bound /\ addr[c] = a /\ peer[c] = NoPeer
  <2>1. pc[c] \in Busy
    BY DEF Busy
  <2>2. \A t \in Bound : ~Newer(t, c)
    BY <2>1, Typed DEF Undisturbed, Knows
  <2>3. r \in Remotes /\ r # NoPeer
    BY Typed, ConnectxAssumption DEF CallTypes, Wants
  <2>4. c \in Bound /\ addr[c] = a /\ peer[c] = NoPeer
    BY Typed DEF Holding, Holds, Locked
  <2> QED BY <2>2, <2>3, <2>4, Typed DEF TableTypes
<1>1. \A t \in Bound \ {c} : ~(addr[t] = a /\ peer[t] = r)
  BY DEF Taken
<1> HIDE DEF a, r
<1>2. Score(c, a, r) = 2
  BY <1>0 DEF Score
<1>3. \A t \in Bound : Score(t, a, r) \in 0 .. 2
  BY <1>0, <1>1 DEF Score
<1>4. c \in Found(a, r)
  <2>1. \A u \in Bound : Score(u, a, r) < 2 \/ Score(u, a, r) = 2
    BY <1>3
  <2> QED BY <1>0, <1>2, <2>1, FoundMeans
<1>5. ASSUME NEW t \in Found(a, r), t # c PROVE FALSE
  <2>1. /\ t \in Bound
        /\ \/ Score(c, a, r) < Score(t, a, r)
           \/ Score(c, a, r) = Score(t, a, r) /\ ~Newer(c, t)
    BY <1>0, <1>5, FoundMeans
  <2>2. ~Newer(c, t)
    BY <1>2, <1>3, <2>1
  <2> QED BY <1>0, <1>5, <2>1, <2>2, Ordered
<1> QED BY <1>4, <1>5 DEF a, r

LEMMA SearchingStep == IInv /\ [Next]_vars => Searching'
<1> SUFFICES ASSUME IInv, [Next]_vars, NEW d \in Callers, pc'[d] # "search" PROVE off'[d] = 0
  BY DEF Searching
<1>0. CallTypes /\ Searching
  BY Typed
<1>1. CASE UNCHANGED vars
  BY <1>0, <1>1 DEF vars, callVars, Searching
<1>2. CASE PlainBind \/ PlainClose
  BY <1>0, <1>2, PlainSock DEF Searching
<1>3. ASSUME NEW c \in Callers, Does(c), c # d PROVE off'[d] = 0
  BY <1>0, <1>3, OthersCall DEF Searching
<1>4. ASSUME Does(d) PROVE off'[d] = 0
  <2>1. CASE Call(d) \/ RouteOpen(d) \/ RouteClose(d) \/ SearchStarts(d) \/ SearchSkip(d) \/ SearchFound(d)
    BY <2>1, <1>0 DEF Call, RouteOpen, RouteClose, SearchStarts, SearchSkip, SearchFound, CallTypes, Searching
  <2>2. CASE Bind(d) \/ Lock(d) \/ Check(d) \/ Connect(d) \/ Close(d)
    BY <2>2, <1>0 DEF Bind, Lock, Check, Connect, Close, CallTypes, Searching, Over
  <2>3. CASE RouteFails(d) \/ SearchEnds(d) \/ BindFails(d) \/ Unlock(d) \/ Cleanup(d) \/ Raises(d)
    BY <2>3, <1>0 DEF RouteFails, SearchEnds, BindFails, Unlock, Cleanup, Raises, Return, CallTypes
  <2> QED BY <1>4, <2>1, <2>2, <2>3 DEF Does, _connectx_udp
<1> QED BY <1>1, <1>2, <1>3, <1>4, Steps

LEMMA UndisturbedStep == IInv /\ [Next]_vars => Undisturbed'
<1> SUFFICES ASSUME IInv, [Next]_vars, NEW c \in Callers, pc'[c] \in Busy, ~overlapped'[c]
             PROVE  Knows(c)'
  BY OwnStep DEF Undisturbed
<1>0. /\ CallTypes /\ Holds(c) /\ TableTypes /\ Bound \subseteq Socks /\ c \in Socks
      /\ want[c].remote \in Remotes
  BY Typed, Apart DEF Holding, CallTypes, Wants
<1>1. ASSUME pc[c] \in Busy, ~overlapped[c] PROVE Knows(c)
  BY <1>1, Typed DEF Undisturbed, Knows
<1>2. CASE UNCHANGED vars /\ pc[c] \in Busy /\ ~overlapped[c]
  <2>1. Bound' = Bound /\ UNCHANGED <<addr, peer, reuse, pc, want, local, start, off>>
        /\ UNCHANGED tableVars /\ \A x, y : Newer(x, y)' <=> Newer(x, y)
    BY <1>2, Still DEF vars, callVars
  <2>2. \A a, r : Found(a, r)' = Found(a, r)
    BY <2>1, FoundKept
  <2> QED BY <1>1, <1>2, <2>1, <2>2 DEF Knows, Passed, PortAt, Clear, Taken
<1>3. CASE Call(c)
  <2>1. PICK w \in Wants :
          /\ want' = [want EXCEPT ![c] = w]
          /\ pc' = [pc EXCEPT ![c] = IF w.ip = WILDCARD THEN "route"
                                     ELSE IF w.port = 0 THEN "random" ELSE "bind"]
    BY <1>3 DEF Call
  <2>2. want'[c] = w /\ pc'[c] \in {"route", "random", "bind"} /\ (pc'[c] = "bind" => w.port # 0)
    BY <1>0, <2>1 DEF CallTypes
  <2> QED BY <2>2 DEF Knows
<1>4. CASE _connectx_udp(c) /\ pc[c] \in Busy /\ ~overlapped[c]
  <2>1. CASE RouteOpen(c)
    <3>1. pc'[c] = "routed"
      BY <1>0, <2>1 DEF RouteOpen, CallTypes
    <3> QED BY <3>1 DEF Knows
  <2>2. CASE RouteClose(c)
    <3>1. pc'[c] \in {"random", "bind"} /\ (pc'[c] = "bind" => want'[c].port # 0)
      BY <1>0, <2>2 DEF RouteClose, AfterRoute, CallTypes
    <3> QED BY <3>1 DEF Knows
  <2>3. CASE SearchStarts(c)
    <3>1. pc'[c] = "search" /\ off'[c] = 0
      BY <1>0, <2>3, Typed DEF SearchStarts, CallTypes, Searching
    <3> QED BY <3>1 DEF Knows, Passed
  <2>4. CASE SearchSkip(c)
    <3>1. /\ UNCHANGED tableVars /\ pc'[c] = "search" /\ pc[c] = "search"
          /\ local' = local /\ want' = want /\ start' = start /\ off'[c] = off[c] + 1
      BY <1>0, <2>4 DEF SearchSkip, CallTypes
    <3>2. Passed(c)
      BY <1>1, <1>4, <3>1 DEF Knows
    <3>3. Passed(c)'
      <4> SUFFICES ASSUME NEW k \in Nat, k < off'[c]
                   PROVE  \/ PortAt(c, k)' \in skip
                          \/ Found([local[c] EXCEPT !.port = PortAt(c, k)], want[c].remote)' # {}
        BY DEF Passed
      <4>1. PortAt(c, k)' = PortAt(c, k)
        BY <3>1 DEF PortAt
      <4>2. \A a, r : Found(a, r)' = Found(a, r)
        BY <3>1, FoundKept
      <4>3. CASE k < off[c]
        BY <3>1, <3>2, <4>1, <4>2, <4>3 DEF Passed
      <4>4. CASE ~(k < off[c])
        <5>1. k = off[c]
          BY <1>0, <3>1, <4>4 DEF CallTypes
        <5>2. PortAt(c, k) = Port(c)
          <6>1. PortAt(c, off[c]) = Port(c)
            <7>1. start[c] \in Int /\ off[c] \in Int /\ lo \in Int /\ hi \in Int
              BY <1>0, ConnectxAssumption DEF CallTypes, ports
            <7> QED BY <7>1 DEF PortAt, Port
          <6> QED BY <5>1, <6>1
        <5>3. PortAt(c, k) \in skip \/ Found([local[c] EXCEPT !.port = PortAt(c, k)], want[c].remote) # {}
          BY <2>4, <5>2 DEF SearchSkip
        <5> QED BY <3>1, <4>1, <4>2, <5>3
      <4> QED BY <4>3, <4>4
    <3> QED BY <3>1, <3>3 DEF Knows
  <2>5. CASE SearchFound(c)
    <3> DEFINE a == [local[c] EXCEPT !.port = Port(c)]
    <3>1. /\ UNCHANGED tableVars /\ pc'[c] = "bind" /\ pc[c] = "search"
          /\ local'[c] = a /\ want' = want /\ Found(a, want[c].remote) = {}
      BY <1>0, <2>5 DEF SearchFound, CallTypes
    <3>2. a \in Addr /\ a.ip # WILDCARD
      <4>1. local[c] \in Addr /\ local[c].ip # WILDCARD /\ Port(c) \in ports
        BY <1>0, <2>5, <3>1, PortInRange, TypeParts, Typed DEF CallTypes, Holds, SearchFound
      <4>2. a.ip = local[c].ip
        BY <4>1 DEF Addr
      <4> QED BY <4>1, <4>2, Addresses
    <3>3. Bound' = Bound /\ UNCHANGED <<addr, peer, reuse>>
      BY <3>1, Still
    <3> HIDE DEF a
    <3>4. ASSUME NEW t \in Bound \ {c}
          PROVE  ~(addr[t] = a /\ peer[t] = want[c].remote) /\ (Overlap(addr[t], a) => reuse[t])
      BY <1>0, <1>4, <3>1, <3>2, ClearPort
    <3>5. Clear(c)'
      BY <3>1, <3>3, <3>4 DEF Clear
    <3> QED BY <3>1, <3>5 DEF Knows
  <2>6. CASE Bind(c)
    <3>1. pc'[c] = "lock" /\ pc[c] = "bind" /\ local' = local /\ want' = want
      BY <1>0, <2>6 DEF Bind, CallTypes
    <3>2. /\ Bound' = Bound \cup {c} /\ c \notin Bound
          /\ \A t \in Bound : addr'[t] = addr[t] /\ peer'[t] = peer[t] /\ reuse'[t] = reuse[t]
          /\ \A x, y : Newer(x, y)' => Newer(x, y) \/ (x = c /\ y \in Bound)
      BY <1>0, <2>6, BindsEffect
    <3>3. want[c].port = 0 => Clear(c)
      BY <1>1, <1>4, <3>1 DEF Knows
    <3>4. want'[c].port = 0 => Clear(c)'
      BY <3>1, <3>2, <3>3 DEF Clear
    <3>5. ASSUME NEW t \in Bound', Newer(t, c)' PROVE FALSE
      <4>1. Newer(t, c)
        BY <3>2, <3>5
      <4> QED BY <3>2, <4>1 DEF Newer, Bound, Range
    <3> QED BY <3>1, <3>4, <3>5 DEF Knows
  <2>7. CASE Lock(c)
    <3>1. pc'[c] = "check" /\ pc[c] = "lock" /\ local' = local /\ want' = want
      BY <1>0, <2>7 DEF Lock, CallTypes
    <3>2. /\ Bound' = Bound /\ addr' = addr /\ \A x, y : Newer(x, y)' <=> Newer(x, y)
          /\ \A t \in Bound \ {c} : peer'[t] = peer[t] /\ reuse'[t] = reuse[t]
      BY <1>0, <2>7, MarkEffect
    <3>3. (want[c].port = 0 => Clear(c)) /\ \A t \in Bound : ~Newer(t, c)
      BY <1>1, <1>4, <3>1 DEF Knows
    <3> QED BY <3>1, <3>2, <3>3 DEF Knows, Clear
  <2>8. CASE Check(c)
    <3>1. /\ pc[c] = "check" /\ local' = local /\ want' = want /\ UNCHANGED tableVars
          /\ pc'[c] = IF Found(local[c], want[c].remote) = {c} THEN "connect" ELSE "cleanup"
      BY <1>0, <2>8 DEF Check, CallTypes
    <3>2. Bound' = Bound /\ UNCHANGED <<addr, peer, reuse>>
      BY <3>1, Still
    <3>3. CASE pc'[c] = "connect"
      BY <3>3 DEF Knows
    <3>4. CASE pc'[c] = "cleanup"
      <4>1. Taken(c, local[c], want[c].remote)
        BY <1>4, <3>1, <3>4, AloneFound
      <4>2. want[c].port # 0
        BY <1>1, <1>4, <3>1, <4>1 DEF Knows, Clear, Taken
      <4>3. (want[c].port # 0 /\ Taken(c, local[c], want[c].remote))'
        BY <3>1, <3>2, <4>1, <4>2 DEF Taken
      <4> QED BY <3>4, <4>3 DEF Knows
    <3> QED BY <3>1, <3>3, <3>4
  <2>9. CASE Connect(c)
    <3>1. pc'[c] = "unlock"
      BY <1>0, <2>9 DEF Connect, CallTypes
    <3> QED BY <3>1 DEF Knows
  <2>10. ASSUME RouteFails(c) \/ SearchEnds(c) \/ BindFails(c) \/ Unlock(c) \/ Cleanup(c) \/ Raises(c)
         PROVE  FALSE
    BY <2>10, <1>0 DEF RouteFails, SearchEnds, BindFails, Unlock, Cleanup, Raises, Return, CallTypes, Busy
  <2> QED BY <1>4, <2>1, <2>2, <2>3, <2>4, <2>5, <2>6, <2>7, <2>8, <2>9, <2>10 DEF _connectx_udp
<1> QED BY <1>2, <1>3, <1>4, OwnStep

-----------------------------------------------------------------------------
(* The theorems.                                                           *)

LEMMA Start == Init => IInv
<1> SUFFICES ASSUME Init PROVE IInv
  OBVIOUS
<1>1. Bound = {} /\ chain = <<>>
  BY DEF Init, Bound, Range
<1>2. CallTypes
  <2>1. 0 \in 0 .. MaxCalls /\ 0 \in 0 .. hi + 1 - lo
    BY ConnectxAssumption
  <2> QED BY <2>1, Addresses DEF Init, CallTypes
<1>3. TableTypes
  BY <1>1, Addresses DEF Init, TableTypes, IsInjective
<1>4. Holding
  BY <1>1 DEF Init, Holding, Holds, Locked
<1>5. Strangers
  BY <1>1 DEF Strangers
<1>6. Newest /\ Single
  BY DEF Init, Newest, Single, Owner
<1>7. Searching /\ Undisturbed
  BY DEF Init, Searching, Undisturbed, Busy
<1> QED BY <1>2, <1>3, <1>4, <1>5, <1>6, <1>7, TypeParts DEF IInv

LEMMA Stays == IInv /\ [Next]_vars => IInv'
<1> SUFFICES ASSUME IInv, [Next]_vars PROVE IInv'
  OBVIOUS
<1>1. TypeOK
  BY DEF IInv
<1>2. CallTypes' /\ TableTypes'
  BY <1>1, CallTypesStep, TableTypesStep
<1>3. TypeOK'
  BY <1>2 DEF TypeOK, CallTypes, TableTypes, Addr
<1> QED BY <1>3, HoldingStep, StrangersStep, NewestStep, SingleStep, SearchingStep, UndisturbedStep
    DEF IInv

\* What every state of connectx satisfies, however its callers' steps and the
\* kernel's answers interleave: who has a socket in the table and how it is
\* marked at each line of _connectx_udp (connectx.py:116-166).
THEOREM Invariant == Spec => []IInv
<1> QED BY Start, Stays, PTL DEF Spec

\* Only a socket of _get_src_route shares the 4-tuple of a connection, and
\* the program that does not share is kept off its address, for any number
\* of callers (the critical section of connectx.py:147-165).
THEOREM ConnectionsExclusive == Spec => []Exclusive
<1>1. IInv => Exclusive
  <2> SUFFICES ASSUME IInv, NEW c \in Callers, pc[c] = "done"
               PROVE  /\ Found(addr[c], peer[c]) \subseteq {c} \cup {RouteSock(d) : d \in Callers}
                      /\ ~ \E d \in Callers \ {c} :
                            pc[d] = "done" /\ addr[d] = addr[c] /\ peer[d] = peer[c]
                      /\ Plain \in Bound => ~Overlap(addr[Plain], addr[c])
    BY DEF Exclusive, Established, IInv
  <2>0. /\ CallTypes /\ TableTypes /\ Holding /\ Strangers /\ Single /\ Bound \subseteq Socks
        /\ c \in Bound /\ peer[c] # NoPeer /\ c # Plain
    BY Typed, Apart DEF Holding, Holds
  <2>1. \A d \in Callers \ {c} : pc[d] \in {"unlock", "done"} => addr[d] # addr[c] \/ peer[d] # peer[c]
    BY <2>0 DEF Single, Owner, Remote
  <2>2. Plain \in Bound => ~Overlap(addr[Plain], addr[c])
    BY <2>0 DEF Strangers
  <2>3. ASSUME NEW t \in Found(addr[c], peer[c]), t # c, t \notin {RouteSock(d) : d \in Callers}
        PROVE  FALSE
    <3>1. Score(c, addr[c], peer[c]) = 3
      BY DEF Score
    <3>2. t \in Bound /\ ~(3 > Score(t, addr[c], peer[c]))
      <4>1. chain \in Seq(Socks) /\ IsInjective(chain)
        BY <2>0 DEF TableTypes
      <4>2. /\ t \in Bound
            /\ \/ Score(c, addr[c], peer[c]) < Score(t, addr[c], peer[c])
               \/ Score(c, addr[c], peer[c]) = Score(t, addr[c], peer[c])
        BY <2>0, <2>3, <4>1, FoundMeans
      <4>3. Score(t, addr[c], peer[c]) \in 0 .. 3
        BY Scores
      <4> QED BY <3>1, <4>2, <4>3
    <3>3. addr[t] = addr[c] /\ peer[t] = peer[c]
      BY <3>2 DEF Score
    <3>4. t # Plain
      BY <2>0, <3>2, <3>3 DEF Strangers
    <3>5. t \in Callers
      BY <2>0, <2>3, <3>2, <3>4 DEF Socks
    <3>6. pc[t] \in {"unlock", "done"}
      BY <2>0, <3>2, <3>3, <3>5 DEF Holding, Holds
    <3> QED BY <2>1, <2>3, <3>3, <3>5, <3>6
  <2> QED BY <2>1, <2>2, <2>3
<1> QED BY <1>1, Invariant, PTL

\* No socket of connectx keeps its address from others outside the critical
\* section, except after an exception of the lookup (connectx.py:149-165).
THEOREM NoPortLocked == Spec => []PortsUnlocked
<1>1. IInv => PortsUnlocked
  <2> SUFFICES ASSUME IInv, NEW c \in Callers, c \in Bound, ~reuse[c]
               PROVE  pc[c] \in {"check", "connect", "unlock", "cleanup", "raised"}
    BY DEF PortsUnlocked
  <2> QED BY Typed DEF Holding, Holds, Locked
<1> QED BY <1>1, Invariant, PTL

Justified(c) ==
    pc[c] \in Busy /\ ~overlapped[c] =>
        /\ pc'[c] = "failed" => want[c].port # 0 /\ Taken(c, local[c], want[c].remote)
        /\ pc'[c] = "again" => \A p \in ports \ skip :
                Found([ip |-> local[c].ip, port |-> p], want[c].remote) # {} \/ pc[c] = "route"

LEMMA FailsOnlyWhenItMust == IInv /\ [Next]_vars => \A c \in Callers : Justified(c)
<1> SUFFICES ASSUME IInv, [Next]_vars, NEW c \in Callers, pc[c] \in Busy, ~overlapped[c],
                    pc'[c] \in {"failed", "again"}
             PROVE  /\ pc'[c] = "failed" => want[c].port # 0 /\ Taken(c, local[c], want[c].remote)
                    /\ pc'[c] = "again" => \A p \in ports \ skip :
                          Found([ip |-> local[c].ip, port |-> p], want[c].remote) # {} \/ pc[c] = "route"
  BY DEF Justified
<1>0. CallTypes /\ Knows(c) /\ Holds(c)
  BY Typed DEF Undisturbed, Holding
<1>1. CASE UNCHANGED vars \/ PlainBind \/ PlainClose
  <2>1. pc'[c] = pc[c]
    BY <1>1, PlainSock DEF vars, callVars
  <2> QED BY <2>1 DEF Busy
<1>2. ASSUME NEW d \in Callers, Does(d), d # c PROVE FALSE
  BY <1>2, OthersCall DEF Busy
<1>3. CASE RouteFails(c)
  BY <1>0, <1>3 DEF RouteFails, Return, CallTypes
<1>4. CASE SearchEnds(c)
  <2>1. pc[c] = "search" /\ pc'[c] = "again" /\ ~More(c)
    BY <1>0, <1>4 DEF SearchEnds, Return, CallTypes
  <2>2. Passed(c)
    BY <1>0, <2>1 DEF Knows
  <2>3. ASSUME NEW p \in ports \ skip
        PROVE  Found([ip |-> local[c].ip, port |-> p], want[c].remote) # {}
    <3>1. PICK k \in 0 .. hi - lo : PortAt(c, k) = p
      BY AllPorts
    <3>2. k \in Nat /\ k < off[c]
      <4>1. off[c] \in 0 .. hi + 1 - lo /\ ~(off[c] < hi + 1 - lo)
        BY <1>0, <2>1 DEF CallTypes, More
      <4> QED BY <4>1, ConnectxAssumption
    <3>3. Found([local[c] EXCEPT !.port = p], want[c].remote) # {}
      BY <2>2, <3>1, <3>2 DEF Passed
    <3>4. [local[c] EXCEPT !.port = p] = [ip |-> local[c].ip, port |-> p]
      <4>1. local[c] \in Addr
        BY <1>0 DEF CallTypes
      <4> QED BY <4>1 DEF Addr
    <3> QED BY <3>3, <3>4
  <2> QED BY <2>1, <2>3
<1>5. CASE BindFails(c)
  <2>1. pc[c] = "bind" /\ pc'[c] = "failed" /\ Refused(local[c], TRUE)
    BY <1>0, <1>5 DEF BindFails, Return, CallTypes
  <2>2. PICK t \in Bound : Overlap(addr[t], local[c]) /\ ~reuse[t]
    BY <2>1 DEF Refused
  <2>3. t # c
    BY <1>0, <2>1 DEF Holds
  <2>4. Taken(c, local[c], want[c].remote)
    BY <2>2, <2>3 DEF Taken
  <2>5. want[c].port # 0
    BY <1>0, <2>1, <2>2, <2>3 DEF Knows, Clear
  <2> QED BY <2>1, <2>4, <2>5
<1>6. CASE Cleanup(c)
  <2>1. pc[c] = "cleanup" /\ pc'[c] = "failed"
    BY <1>0, <1>6 DEF Cleanup, Return, CallTypes
  <2> QED BY <1>0, <2>1 DEF Knows
<1>7. ASSUME Does(c), ~RouteFails(c), ~SearchEnds(c), ~BindFails(c), ~Cleanup(c) PROVE FALSE
  <2>1. CASE Call(c) \/ RouteOpen(c) \/ RouteClose(c) \/ SearchStarts(c) \/ SearchSkip(c) \/ SearchFound(c)
    BY <2>1, <1>0 DEF Call, RouteOpen, RouteClose, SearchStarts, SearchSkip, SearchFound, CallTypes, AfterRoute
  <2>2. CASE Bind(c) \/ Lock(c) \/ Check(c) \/ Connect(c) \/ Close(c)
    BY <2>2, <1>0 DEF Bind, Lock, Check, Connect, Close, CallTypes
  <2>3. CASE Unlock(c) \/ Raises(c)
    BY <2>3, <1>0 DEF Unlock, Raises, Return, CallTypes
  <2> QED BY <1>7, <2>1, <2>2, <2>3 DEF Does, _connectx_udp
<1> QED BY <1>1, <1>2, <1>3, <1>4, <1>5, <1>6, <1>7, Steps

\* A call that nothing disturbs fails only when it has to, in a range of any
\* size with any reserved ports (connectx.py:116-166, README.md:22-25).
THEOREM FailuresJustified == Spec => NoSpuriousFailure
<1>1. IInv /\ [Next]_vars => [\A c \in Callers : Justified(c)]_vars
  BY FailsOnlyWhenItMust
<1>2. Spec => [][\A c \in Callers : Justified(c)]_vars
  BY <1>1, Invariant, PTL DEF Spec
<1> QED BY <1>2 DEF NoSpuriousFailure, Justified

=============================================================================
