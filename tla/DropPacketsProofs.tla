------------------------- MODULE DropPacketsProofs -------------------------
(***************************************************************************)
(* Theorems about the receiving programs of 2018-07-dropping-packets for   *)
(* any datagrams, signals and message buffers, about its XDP program on    *)
(* every frame: of any length, under any number of VLAN tags, and about    *)
(* the netmap receiver of 2015-12-nm-single-rx-queue on rings of any size. *)
(***************************************************************************)
EXTENDS DropPackets, FiniteSetTheorems, SequenceTheorems, WellFoundedInduction, TLAPS

(***************************************************************************)
(* The XDP program.                                                        *)
(***************************************************************************)

\* Tags behind which the walk stands after n rounds of its loop.
Passed(n) == IF Len(frame.tags) < n THEN Len(frame.tags) ELSE n

\* What the program knows at its next check: every header up to nh_off is
\* inside the frame, and h_proto is the type of what comes there.
Walking ==
    /\ i \in 0 .. 2
    /\ nh_off = ETH + VLAN * Passed(i) /\ h_proto = TypeBehind(Passed(i))
    /\ seen = nh_off /\ nh_off <= frame.len
    /\ verdict = "none"

Decided ==
    /\ seen <= frame.len
    /\ ~frame.options => (verdict = "DROP") = Benchmark(frame)
    /\ verdict = "DROP" => frame.udp /\ frame.net

\* DropsBenchmark says nothing of a frame that is still being looked at:
\* XdpInv adds where the walk stands.
XdpInv ==
    /\ frame \in Frames
    /\ step \in {"eth", "vlan", "done"}
    /\ step = "eth" => i = 0 /\ seen = 0 /\ verdict = "none"
    /\ step = "vlan" => Walking
    /\ step = "done" => Decided

\* TypeBehind tells a further tag from the end of the tags.
LEMMA TagOrPayload ==
    ASSUME frame \in Frames, NEW n \in Nat
    PROVE  /\ Len(frame.tags) \in Nat /\ frame.len \in Nat
           /\ n < Len(frame.tags) => TypeBehind(n) \in VlanTypes
           /\ n >= Len(frame.tags) => TypeBehind(n) = frame.proto
           /\ frame.proto \notin VlanTypes
<1>1. frame.len \in Nat /\ frame.tags \in Seq(VlanTypes) /\ frame.proto \notin VlanTypes
  BY FramesAssumption
<1>2. Len(frame.tags) \in Nat
  BY <1>1
<1>3. ASSUME n < Len(frame.tags) PROVE frame.tags[n + 1] \in VlanTypes
  <2>1. n + 1 \in 1 .. Len(frame.tags)
    BY <1>2, <1>3
  <2> QED BY <1>1, <2>1
<1> QED BY <1>1, <1>2, <1>3 DEF TypeBehind

\* The benchmark's traffic is long enough for each of its headers.
LEMMA BenchmarkLength ==
    ASSUME frame \in Frames
    PROVE  /\ Len(frame.tags) \in Nat /\ frame.len \in Nat
           /\ Benchmark(frame) =>
                frame.len >= 42 + 4 * Len(frame.tags)
           /\ Benchmark(frame) <=>
                /\ Len(frame.tags) <= 2 /\ frame.udp /\ frame.net /\ frame.port
                /\ \/ frame.proto = "ip" /\ frame.len >= 42 + 4 * Len(frame.tags)
                   \/ frame.proto = "ip6" /\ frame.len >= 62 + 4 * Len(frame.tags)
<1>1. Len(frame.tags) \in Nat /\ frame.len \in Nat
  BY TagOrPayload, 0 \in Nat
<1> USE DEF ETH, VLAN, IP, IP6, UDP
<1>2. CASE frame.proto = "ip"
  <2>1. Benchmark(frame) <=>
           /\ Len(frame.tags) <= 2 /\ frame.udp /\ frame.net /\ frame.port
           /\ frame.len >= 14 + 4 * Len(frame.tags) + 20 + 8
    BY <1>2 DEF Benchmark
  <2> QED BY <1>1, <1>2, <2>1
<1>3. CASE frame.proto = "ip6"
  <2>1. Benchmark(frame) <=>
           /\ Len(frame.tags) <= 2 /\ frame.udp /\ frame.net /\ frame.port
           /\ frame.len >= 14 + 4 * Len(frame.tags) + 40 + 8
    BY <1>3 DEF Benchmark
  <2> QED BY <1>1, <1>3, <2>1
<1>4. CASE frame.proto \notin {"ip", "ip6"}
  BY <1>1, <1>4 DEF Benchmark
<1> QED BY <1>2, <1>3, <1>4

\* Before the first check nothing has been read.
LEMMA XdpInvInit == Init => XdpInv
<1> SUFFICES ASSUME Init PROVE XdpInv
  OBVIOUS
<1>1. PICK frames \in SUBSET Frames : InitXdp(frames)
  <2>1. (CHOOSE f \in Frames : TRUE) \in Frames
    BY FramesAssumption
  <2> QED BY <2>1 DEF Init, AnyFrame
<1> QED BY <1>1 DEF InitXdp, XdpInv

\* A frame that ends before the Ethernet header does is passed, and is no
\* benchmark traffic.
LEMMA EthStep == XdpInv /\ Eth => XdpInv'
<1> SUFFICES ASSUME XdpInv, Eth PROVE XdpInv'
  OBVIOUS
<1>1. frame \in Frames /\ frame' = frame /\ i = 0 /\ i' = 0 /\ seen = 0
  BY DEF XdpInv, Eth
<1>2. Len(frame.tags) \in Nat /\ frame.len \in Nat
  BY <1>1, TagOrPayload
<1>3. CASE DataEnd(ETH)
  <2>1. ~Benchmark(frame)
    BY <1>1, <1>2, <1>3, BenchmarkLength DEF DataEnd, ETH
  <2>2. verdict' = "PASS" /\ step' = "done" /\ seen' = 0
    BY <1>1, <1>3 DEF Eth, Verdict, XdpInv
  <2>3. Decided'
    <3>1. seen' <= frame'.len
      BY <1>1, <1>2, <2>2
    <3>2. (verdict' = "DROP") = Benchmark(frame')
      BY <1>1, <2>1, <2>2 DEF Benchmark
    <3> QED BY <2>2, <3>1, <3>2 DEF Decided
  <2> QED BY <1>1, <2>2, <2>3 DEF XdpInv
<1>4. CASE ~DataEnd(ETH)
  <2>1. /\ nh_off' = ETH /\ h_proto' = TypeBehind(0) /\ seen' = ETH
        /\ step' = "vlan" /\ verdict' = "none"
    BY <1>4 DEF Eth, XdpInv
  <2>2. Passed(0) = 0 /\ ETH <= frame.len
    BY <1>2, <1>4 DEF Passed, DataEnd, ETH
  <2>3. Walking'
    BY <1>1, <1>2, <2>1, <2>2 DEF Walking, Passed, TypeBehind, ETH, VLAN
  <2> QED BY <1>1, <2>1, <2>3 DEF XdpInv
<1> QED BY <1>3, <1>4

\* One round of the loop walks over a tag if there is one that fits.
LEMMA VlanStep == XdpInv /\ Vlan => XdpInv'
<1> SUFFICES ASSUME XdpInv, Vlan PROVE XdpInv'
  OBVIOUS
<1>1. frame \in Frames /\ frame' = frame /\ i \in 0 .. 1 /\ i' = i + 1 /\ Walking
  BY DEF XdpInv, Vlan, Walking
<1>2. Len(frame.tags) \in Nat /\ frame.len \in Nat
  BY <1>1, TagOrPayload
<1>3. Passed(i) \in Nat /\ Passed(i) <= i
  BY <1>1, <1>2 DEF Passed
<1>4. CASE h_proto \notin VlanTypes
  <2>1. Len(frame.tags) <= i
    <3>1. Passed(i) >= Len(frame.tags)
      BY <1>1, <1>2, <1>3, <1>4, TagOrPayload DEF Walking
    <3> QED BY <1>1, <1>2, <1>3, <3>1
  <2>2. Passed(i + 1) = Passed(i)
    BY <1>1, <1>2, <2>1 DEF Passed
  <2>3. UNCHANGED <<nh_off, h_proto, seen, step, verdict>>
    BY <1>4 DEF Vlan
  <2>4. Walking'
    BY <1>1, <2>2, <2>3 DEF Walking, Passed, TypeBehind
  <2> QED BY <1>1, <2>3, <2>4 DEF XdpInv, Vlan
<1>5. CASE h_proto \in VlanTypes
  <2>1. Passed(i) < Len(frame.tags)
    BY <1>1, <1>2, <1>3, <1>5, TagOrPayload DEF Walking
  <2>2. Len(frame.tags) > i /\ Passed(i) = i /\ Passed(i + 1) = i + 1
    BY <1>1, <1>2, <2>1 DEF Passed
  <2>3. nh_off = ETH + VLAN * i
    BY <1>1, <2>2 DEF Walking
  <2>4. CASE DataEnd(nh_off + VLAN)
    <3>1. ~Benchmark(frame)
      BY <1>1, <1>2, <2>2, <2>3, <2>4, BenchmarkLength DEF DataEnd, ETH, VLAN
    <3>2. verdict' = "PASS" /\ step' = "done" /\ seen' = seen
      BY <1>5, <2>4 DEF Vlan, Verdict, DataEnd
    <3> QED BY <1>1, <3>1, <3>2 DEF XdpInv, Walking, Decided, Benchmark
  <2>5. CASE ~DataEnd(nh_off + VLAN)
    <3>1. /\ nh_off' = nh_off + VLAN /\ h_proto' = TypeBehind(i + 1) /\ seen' = nh_off'
          /\ UNCHANGED <<step, verdict>>
      BY <1>5, <2>5 DEF Vlan, DataEnd
    <3>2. nh_off' = ETH + VLAN * (i + 1) /\ nh_off' <= frame.len
      BY <1>1, <1>2, <2>3, <2>5, <3>1 DEF DataEnd, ETH, VLAN
    <3>3. Walking'
      BY <1>1, <2>2, <3>1, <3>2 DEF Walking, Passed, TypeBehind
    <3> QED BY <1>1, <3>1, <3>3 DEF XdpInv, Vlan
  <2> QED BY <2>4, <2>5
<1> QED BY <1>4, <1>5

\* Behind the tags, with the whole of both headers inside the frame, the
\* comparison is that of Benchmark unless there are IP options.
LEMMA IpStep == XdpInv /\ Ip => XdpInv'
<1> SUFFICES ASSUME XdpInv, Ip PROVE XdpInv'
  OBVIOUS
<1>1. frame \in Frames /\ frame' = frame /\ i = 2 /\ Walking
  BY DEF XdpInv, Ip
<1>2. Len(frame.tags) \in Nat /\ frame.len \in Nat
  BY <1>1, TagOrPayload
<1>3. Passed(2) \in Nat
  BY <1>2 DEF Passed
<1>4. h_proto \in VlanTypes \/ (Len(frame.tags) <= 2 /\ Passed(2) = Len(frame.tags) /\ h_proto = frame.proto)
  <2>1. CASE Len(frame.tags) > 2
    BY <1>1, <1>2, <2>1, TagOrPayload DEF Walking, Passed
  <2>2. CASE Len(frame.tags) <= 2
    <3>1. Passed(2) = Len(frame.tags)
      BY <1>2, <2>2 DEF Passed
    <3> QED BY <1>1, <1>2, <2>2, <3>1, TagOrPayload DEF Walking
  <2> QED BY <1>2, <2>1, <2>2
<1>5. nh_off = ETH + VLAN * Passed(2) /\ seen <= frame.len
  BY <1>1, <1>2 DEF Walking
<1>6. ASSUME NEW header \in {IP, IP6}, h_proto = (IF header = IP THEN "ip" ELSE "ip6"), Match(header)
      PROVE  step' = "done" /\ Decided'
  <2>1. Len(frame.tags) <= 2 /\ Passed(2) = Len(frame.tags) /\ h_proto = frame.proto
    BY <1>4, <1>6 DEF VlanTypes
  <2>2. frame.proto \in {"ip", "ip6"} /\ (frame.proto = "ip" <=> header = IP)
    BY <1>6, <2>1 DEF IP, IP6
  <2>3. header = (IF frame.proto = "ip" THEN IP ELSE IP6)
    BY <2>2
  <2>4. nh_off \in Nat /\ (Benchmark(frame) <=> ~DataEnd(nh_off + header + UDP) /\ frame.udp /\ frame.net /\ frame.port)
    <3>1. nh_off = 14 + 4 * Len(frame.tags)
      BY <1>5, <2>1 DEF ETH, VLAN
    <3>2. CASE frame.proto = "ip"
      <4>1. header = 20
        BY <2>3, <3>2 DEF IP
      <4> QED BY <1>1, <1>2, <2>1, <3>1, <3>2, <4>1, BenchmarkLength DEF DataEnd, UDP
    <3>3. CASE frame.proto = "ip6"
      <4>1. header = 40
        BY <2>3, <3>3 DEF IP6
      <4> QED BY <1>1, <1>2, <2>1, <3>1, <3>3, <4>1, BenchmarkLength DEF DataEnd, UDP
    <3> QED BY <2>2, <3>2, <3>3
  <2>5. CASE DataEnd(nh_off + header + UDP)
    BY <1>1, <1>5, <1>6, <2>4, <2>5 DEF Match, Verdict, Decided, Benchmark, DataEnd
  <2>6. CASE ~DataEnd(nh_off + header + UDP)
    <3>1. /\ seen' = nh_off + header + UDP /\ step' = "done"
          /\ verdict' = IF frame.udp /\ frame.net /\ Dest(header) THEN "DROP" ELSE "PASS"
      BY <1>6, <2>6 DEF Match, Verdict, DataEnd
    <3>2. seen' <= frame.len
      BY <1>2, <1>3, <1>5, <2>6, <3>1 DEF DataEnd, ETH, VLAN, IP, IP6, UDP
    <3>3. ~frame.options => Dest(header) = frame.port
      BY DEF Dest
    <3>4. verdict' = "DROP" <=> frame.udp /\ frame.net /\ Dest(header)
      BY <3>1
    <3> QED BY <1>1, <2>4, <2>6, <3>1, <3>2, <3>3, <3>4 DEF Decided, Benchmark
  <2> QED BY <2>5, <2>6
<1>7. CASE h_proto = "ip" /\ Match(IP)
  BY <1>1, <1>6, <1>7 DEF XdpInv
<1>8. CASE h_proto = "ip6" /\ Match(IP6)
  <2>1. IP6 # IP
    BY DEF IP, IP6
  <2>2. step' = "done" /\ Decided'
    BY <1>6, <1>8, <2>1
  <2> QED BY <1>1, <2>2 DEF XdpInv
<1>9. CASE h_proto \notin {"ip", "ip6"} /\ Verdict("PASS") /\ UNCHANGED seen
  <2>1. ~Benchmark(frame)
    BY <1>4, <1>9, <1>1, <1>2, TagOrPayload DEF Benchmark, Walking, Passed
  <2> QED BY <1>1, <1>5, <1>9, <2>1 DEF XdpInv, Decided, Verdict, Benchmark
<1> QED BY <1>7, <1>8, <1>9 DEF Ip

\* The other parts leave the XDP program alone.
LEMMA XdpInvStutter == XdpInv /\ UNCHANGED xdpVars => XdpInv'
<1> SUFFICES ASSUME XdpInv, UNCHANGED xdpVars PROVE XdpInv'
  OBVIOUS
<1>1. UNCHANGED <<frame, step, nh_off, h_proto, i, seen, verdict>>
  BY DEF xdpVars
<1> QED BY <1>1 DEF XdpInv, Walking, Passed, TypeBehind, Decided, Benchmark

\* A verdict is right, and nothing behind the end was read.
LEMMA XdpInvDecides == XdpInv => DropsBenchmark
<1> SUFFICES ASSUME XdpInv PROVE DropsBenchmark
  OBVIOUS
<1>1. frame.len \in Nat
  BY FramesAssumption DEF XdpInv
<1> QED BY <1>1 DEF XdpInv, Walking, Decided, DropsBenchmark

\* xdp_drop_benchmark_traffic never reads behind the end of a frame and drops
\* exactly the benchmark's traffic, for every frame without IP options.
THEOREM DropsExactly == Spec => []DropsBenchmark
<1>1. Init => XdpInv
  BY XdpInvInit
<1>2. XdpInv /\ [Next]_vars => XdpInv'
  <2> SUFFICES ASSUME XdpInv, [Next]_vars PROVE XdpInv'
    OBVIOUS
  <2>1. CASE xdp_drop_benchmark_traffic
    BY <2>1, EthStep, VlanStep, IpStep DEF xdp_drop_benchmark_traffic
  <2>2. CASE UNCHANGED xdpVars
    BY <2>2, XdpInvStutter
  <2> QED BY <2>1, <2>2 DEF Next, vars
<1>3. XdpInv => DropsBenchmark
  BY XdpInvDecides
<1> QED BY <1>1, <1>2, <1>3, PTL DEF Spec

(***************************************************************************)
(* The receiving programs.                                                 *)
(***************************************************************************)

\* A set of natural numbers has a least element: intervals are well-founded.
LEMMA LeastElement ==
    ASSUME NEW T \in SUBSET Nat, T # {}
    PROVE  \E x \in T : \A y \in T : ~(y < x)
<1> DEFINE R == StrictSubsetOrdering(Nat)
           F == FiniteSubsetsOf(Nat)
           U == {1 .. n : n \in T}
<1>1. IsWellFoundedOn(R, F)
  BY FS_StrictSubsetOrderingWellFounded
<1>2. U \subseteq F /\ U # {}
  <2>1. \A n \in Nat : IsFiniteSet(1 .. n) /\ 1 .. n \subseteq Nat
    BY FS_Interval
  <2> QED BY <2>1 DEF FiniteSubsetsOf
<1>3. \E x \in U : \A y \in U : ~(<<y, x>> \in R)
  <2> HIDE DEF R, F, U
  <2> QED BY <1>1, <1>2, WFMin
<1>4. PICK x \in T : \A y \in T : <<1 .. y, 1 .. x>> \notin R
  BY <1>3
<1>5. ASSUME NEW y \in T, y < x PROVE FALSE
  <2>1. 1 .. y \subseteq 1 .. x /\ x \in 1 .. x /\ x \notin 1 .. y /\ 1 .. x \subseteq Nat
    BY <1>5
  <2>2. <<1 .. y, 1 .. x>> \in R
    BY <2>1 DEF StrictSubsetOrdering
  <2> QED BY <1>4, <2>2
<1> QED BY <1>5

\* Induction, stated of a set: what holds at 0 and passes on holds of Nat.
LEMMA Induction ==
    ASSUME NEW S, 0 \in S, \A n \in Nat : n \in S => n + 1 \in S
    PROVE  Nat \subseteq S
<1> SUFFICES ASSUME Nat \ S # {} PROVE FALSE
  OBVIOUS
<1>1. PICK x \in Nat \ S : \A y \in Nat \ S : ~(y < x)
  BY LeastElement
<1>2. x - 1 \in Nat /\ x - 1 < x
  BY <1>1
<1>3. x - 1 \in S
  BY <1>1, <1>2
<1>4. (x - 1) + 1 \in S
  BY <1>2, <1>3
<1> QED BY <1>1, <1>4

\* Lengths add up: the recursion of SumsOf has one solution, in Nat.
LEMMA SumsAre ==
    ASSUME NEW n \in Nat, NEW lens \in [1 .. n -> Nat]
    PROVE  /\ Len(lens) = n /\ SumsOf(lens) \in [0 .. n -> Nat] /\ SumsOf(lens)[0] = 0
           /\ \A m \in 1 .. n : SumsOf(lens)[m] = SumsOf(lens)[m - 1] + lens[m]
<1> DEFINE Step(g, e) == IF e = 0 THEN 0 ELSE g[e - 1] + lens[e]
           Solves(g, m) == \A e \in 0 .. m : g[e] = Step(g, e)
           S == {m \in Nat : m <= n => \E g \in [0 .. m -> Nat] : Solves(g, m)}
<1>1. Len(lens) = n
  BY LenProperties
<1>2. 0 \in S
  <2> DEFINE g == [e \in 0 .. 0 |-> 0]
  <2>1. g \in [0 .. 0 -> Nat] /\ Solves(g, 0)
    OBVIOUS
  <2> HIDE DEF g, Solves
  <2> QED BY <2>1
<1>3. ASSUME NEW m \in Nat, m \in S PROVE m + 1 \in S
  <2> SUFFICES ASSUME m + 1 <= n PROVE \E g \in [0 .. m + 1 -> Nat] : Solves(g, m + 1)
    <3> HIDE DEF Solves
    <3> QED OBVIOUS
  <2>1. PICK g \in [0 .. m -> Nat] : Solves(g, m)
    <3>1. m <= n
      OBVIOUS
    <3> HIDE DEF Solves
    <3> QED BY <1>3, <3>1
  <2> DEFINE h == [e \in 0 .. m + 1 |-> IF e = m + 1 THEN g[m] + lens[m + 1] ELSE g[e]]
  <2>2. g[m] \in Nat /\ lens[m + 1] \in Nat /\ h \in [0 .. m + 1 -> Nat]
    OBVIOUS
  <2>3. h[m + 1] = g[m] + lens[m + 1] /\ \A e \in 0 .. m : h[e] = g[e]
    OBVIOUS
  <2> HIDE DEF h
  <2>4. ASSUME NEW e \in 0 .. m + 1 PROVE h[e] = Step(h, e)
    <3>1. CASE e = m + 1
      <4>1. e # 0 /\ e - 1 = m /\ h[e - 1] = g[m]
        BY <2>3, <3>1
      <4> QED BY <2>3, <3>1, <4>1
    <3>2. CASE e # m + 1
      <4>1. e \in 0 .. m /\ (e # 0 => e - 1 \in 0 .. m)
        BY <3>2
      <4>2. g[e] = Step(g, e)
        BY <2>1, <4>1
      <4> QED BY <2>3, <4>1, <4>2
    <3> QED BY <3>1, <3>2
  <2>5. Solves(h, m + 1)
    BY <2>4
  <2> HIDE DEF Solves
  <2> QED BY <2>2, <2>5
<1>4. PICK g \in [0 .. n -> Nat] : Solves(g, n)
  <2>1. n \in S
    <3> HIDE DEF S
    <3> QED BY <1>2, <1>3, Induction
  <2>2. n <= n
    OBVIOUS
  <2> HIDE DEF Solves
  <2> QED BY <2>1, <2>2
<1>5. g = [e \in 0 .. n |-> Step(g, e)]
  BY <1>4
<1> DEFINE s == SumsOf(lens)
<1>6. s = [e \in 0 .. n |-> Step(s, e)]
  <2>1. s = CHOOSE f : f = [e \in 0 .. n |-> Step(f, e)]
    BY <1>1 DEF SumsOf
  <2> HIDE DEF s, Step
  <2> QED BY <1>5, <2>1
<1> HIDE DEF s
<1>7. s[0] = 0 /\ \A m \in 1 .. n : s[m] = s[m - 1] + lens[m]
  BY <1>6
<1> DEFINE T == {e \in Nat : e <= n => s[e] \in Nat}
<1>8. 0 \in T
  BY <1>7
<1>9. ASSUME NEW e \in Nat, e \in T PROVE e + 1 \in T
  <2> SUFFICES ASSUME e + 1 <= n PROVE s[e + 1] \in Nat
    OBVIOUS
  <2>1. e + 1 \in 1 .. n /\ (e + 1) - 1 = e /\ s[e] \in Nat
    BY <1>9
  <2> QED BY <1>7, <2>1
<1>10. \A e \in 0 .. n : s[e] \in Nat
  <2>1. Nat \subseteq T
    <3> HIDE DEF T
    <3> QED BY <1>8, <1>9, Induction
  <2> QED BY <2>1
<1>11. s \in [0 .. n -> Nat]
  BY <1>6, <1>10
<1> QED BY <1>1, <1>7, <1>11 DEF s

\* A sum is of the lengths and nothing else.
LEMMA SumsAgree ==
    ASSUME NEW n \in Nat, NEW m \in Nat, m <= n,
           NEW lens \in [1 .. n -> Nat], NEW ms \in [1 .. m -> Nat],
           \A p \in 1 .. m : lens[p] = ms[p], \A p \in m + 1 .. n : lens[p] = 0
    PROVE  SumOf(lens) = SumOf(ms) /\ SumOf(ms) \in Nat
<1> DEFINE s == SumsOf(lens)
           t == SumsOf(ms)
           S == {p \in Nat : p <= n => s[p] = t[IF p <= m THEN p ELSE m]}
<1>1. /\ Len(lens) = n /\ s \in [0 .. n -> Nat] /\ s[0] = 0
      /\ \A p \in 1 .. n : s[p] = s[p - 1] + lens[p]
  BY SumsAre
<1>2. /\ Len(ms) = m /\ t \in [0 .. m -> Nat] /\ t[0] = 0
      /\ \A p \in 1 .. m : t[p] = t[p - 1] + ms[p]
  BY SumsAre
<1> HIDE DEF s, t
<1>3. 0 \in S
  BY <1>1, <1>2
<1>4. ASSUME NEW p \in Nat, p \in S PROVE p + 1 \in S
  <2> SUFFICES ASSUME p + 1 <= n PROVE s[p + 1] = t[IF p + 1 <= m THEN p + 1 ELSE m]
    OBVIOUS
  <2>1. s[p + 1] = s[p] + lens[p + 1] /\ s[p] = t[IF p <= m THEN p ELSE m]
    <3>1. p + 1 \in 1 .. n /\ (p + 1) - 1 = p
      OBVIOUS
    <3> QED BY <1>1, <1>4, <3>1
  <2>2. CASE p + 1 <= m
    <3>1. p + 1 \in 1 .. m /\ (p + 1) - 1 = p
      BY <2>2
    <3>2. t[p + 1] = t[p] + lens[p + 1]
      BY <1>2, <3>1
    <3> QED BY <2>1, <2>2, <3>2
  <2>3. CASE ~(p + 1 <= m)
    <3>1. lens[p + 1] = 0 /\ (IF p <= m THEN p ELSE m) = m /\ t[m] \in Nat
      <4>1. p + 1 \in m + 1 .. n /\ m \in 0 .. m
        BY <2>3
      <4> QED BY <1>2, <2>3, <4>1
    <3> QED BY <2>1, <2>3, <3>1
  <2> QED BY <2>2, <2>3
<1>5. n \in S
  <2>1. Nat \subseteq S
    <3> HIDE DEF S
    <3> QED BY <1>3, <1>4, Induction
  <2> QED BY <2>1
<1>6. s[n] = t[m] /\ t[m] \in Nat
  BY <1>2, <1>5
<1> QED BY <1>1, <1>2, <1>6 DEF SumOf, s, t

\* Nothing received, nothing to add.
LEMMA ZerosSum == SumOf(Zeros) = 0 /\ Zeros \in [1 .. MAX_MSG -> Nat]
<1> DEFINE z == 0
           e == [p \in 1 .. z |-> 0]
<1>1. MAX_MSG \in Nat /\ Zeros \in [1 .. MAX_MSG -> Nat] /\ e \in [1 .. z -> Nat]
  BY LoopsAssumption DEF Zeros
<1>2. SumOf(e) = 0
  BY <1>1, SumsAre DEF SumOf
<1>3. /\ z \in Nat /\ z <= MAX_MSG
      /\ \A p \in 1 .. z : Zeros[p] = e[p]
      /\ \A p \in z + 1 .. MAX_MSG : Zeros[p] = 0
  BY <1>1 DEF Zeros
<1> HIDE DEF z, e
<1>4. SumOf(Zeros) = SumOf(e)
  BY ONLY <1>1, <1>3, SumsAgree, SMTT(30)
<1> QED BY <1>1, <1>2, <1>4

Counts == [packets : Nat, bytes : Nat]

LoopInv ==
    /\ LoopsTypeOK
    /\ loop \in Loops /\ got \in Counts /\ reported \in Counts
    /\ Reads => pc # "sum" /\ again = 0
    /\ ~Reads => pc # "bytes"
    /\ pc # "sum" => msg_len = Zeros
    /\ reported.packets + packets + PacketsDue = got.packets
    /\ reported.bytes + Kept + BytesDue = got.bytes + again

\* What LoopInv says of the types.
LEMMA LoopTypes ==
    ASSUME LoopInv
    PROVE  /\ MTU_SIZE \in Nat /\ MAX_MSG \in Nat \ {0} /\ QueueLen \in Nat /\ Lengths \subseteq Nat
           /\ queue \in Seq(Lengths) /\ Len(queue) \in Nat /\ Len(queue) <= QueueLen
           /\ r \in Nat /\ reg \in Nat /\ packets \in Nat /\ bytes \in Nat /\ again \in Nat
           /\ got.packets \in Nat /\ got.bytes \in Nat
           /\ reported.packets \in Nat /\ reported.bytes \in Nat
           /\ msg_len \in [1 .. MAX_MSG -> Nat] /\ SumOf(msg_len) \in Nat
           /\ pc # "sum" => SumOf(msg_len) = 0
<1>1. /\ MTU_SIZE \in Nat /\ MAX_MSG \in Nat \ {0} /\ QueueLen \in Nat /\ Lengths \subseteq Nat
      /\ queue \in Seq(Lengths) /\ Len(queue) \in Nat /\ Len(queue) <= QueueLen
      /\ r \in Nat /\ reg \in Nat /\ packets \in Nat /\ bytes \in Nat /\ again \in Nat
      /\ msg_len \in [1 .. MAX_MSG -> Nat]
  BY LoopsAssumption DEF LoopInv, LoopsTypeOK
<1>2. got.packets \in Nat /\ got.bytes \in Nat /\ reported.packets \in Nat /\ reported.bytes \in Nat
  BY DEF LoopInv, Counts
<1>3. SumOf(msg_len) \in Nat
  BY <1>1, SumsAre DEF SumOf
<1>4. pc # "sum" => SumOf(msg_len) = 0
  BY ZerosSum DEF LoopInv
<1> QED BY <1>1, <1>2, <1>3, <1>4

\* Every program starts with nothing counted.
LEMMA LoopInit == InitLoops(Loops) => LoopInv
<1> SUFFICES ASSUME InitLoops(Loops) PROVE LoopInv
  OBVIOUS
<1>1. /\ loop \in Loops /\ pc = "start" /\ queue = <<>> /\ filter = FALSE /\ r = 0 /\ msg_len = Zeros
      /\ reg = 0 /\ packets = 0 /\ bytes = 0 /\ again = 0
      /\ got = [packets |-> 0, bytes |-> 0] /\ reported = [packets |-> 0, bytes |-> 0]
  BY DEF InitLoops, Nothing
<1>2. SumOf(msg_len) = 0 /\ msg_len \in [1 .. MAX_MSG -> Nat]
  BY <1>1, ZerosSum
<1>3. LoopsTypeOK
  <2>1. queue \in Seq(Lengths) /\ Len(queue) = 0 /\ 0 <= QueueLen
    BY <1>1, LoopsAssumption
  <2> QED BY <1>1, <1>2, <2>1 DEF LoopsTypeOK
<1>4. PacketsDue = 0 /\ BytesDue = 0 /\ Kept = 0
  BY <1>1, <1>2 DEF PacketsDue, BytesDue, Kept
<1> QED BY <1>1, <1>3, <1>4 DEF LoopInv, Counts

\* What comes and what the other parts do changes no count.
LEMMA LoopSame ==
    ASSUME LoopInv, UNCHANGED <<loop, r, msg_len, reg, counters, got, reported, again>>,
           queue' \in Seq(Lengths), Len(queue') <= QueueLen, filter' \in BOOLEAN,
           \/ pc' = pc
           \/ pc \in {"start", "setup"} /\ pc' \in {"setup", "recv", "abort"}
    PROVE  LoopInv'
<1>1. UNCHANGED <<loop, r, msg_len, reg, packets, bytes, got, reported, again>>
  BY DEF counters
<1>2. Reads' = Reads /\ PacketsDue' = PacketsDue /\ BytesDue' = BytesDue /\ Kept' = Kept
      /\ (pc' = "sum" <=> pc = "sum") /\ (pc' = "bytes" <=> pc = "bytes")
  BY <1>1 DEF Reads, PacketsDue, BytesDue, Kept
<1>3. LoopsTypeOK'
  BY <1>1 DEF LoopInv, LoopsTypeOK
<1> QED BY <1>1, <1>2, <1>3 DEF LoopInv

\* A datagram is queued or dropped.
LEMMA LoopArrive == LoopInv /\ Arrive => LoopInv'
<1> SUFFICES ASSUME LoopInv, Arrive PROVE LoopInv'
  OBVIOUS
<1>1. /\ UNCHANGED <<loop, r, msg_len, reg, counters, got, reported, again>> /\ filter' = filter
      /\ pc' = pc
  BY DEF Arrive
<1>2. PICK len \in Lengths :
        queue' = IF filter \/ Len(queue) = QueueLen THEN queue ELSE Append(queue, len)
  BY DEF Arrive
<1>3. queue' \in Seq(Lengths) /\ Len(queue') <= QueueLen
  BY <1>2, LoopTypes
<1> QED BY <1>1, <1>3, LoopSame DEF LoopInv, LoopsTypeOK

\* The socket is bound, or the program ends.
LEMMA LoopStart ==
    ASSUME LoopInv, NEW next \in {"setup", "recv"}, Start(next)
    PROVE  LoopInv'
<1>1. /\ UNCHANGED <<loop, r, msg_len, reg, counters, got, reported, again>> /\ filter' = filter
      /\ queue' = queue /\ pc = "start" /\ pc' \in {"setup", "recv", "abort"}
  BY DEF Start, Stays, socket
<1> QED BY <1>1, LoopSame, LoopTypes DEF LoopInv, LoopsTypeOK

\* The filter or busy polling is asked for, or the program ends.
LEMMA LoopSetup ==
    ASSUME LoopInv, NEW drops \in BOOLEAN, Setup(drops)
    PROVE  LoopInv'
<1>1. /\ UNCHANGED <<loop, r, msg_len, reg, counters, got, reported, again>>
      /\ queue' = queue /\ pc = "setup" /\ pc' \in {"setup", "recv", "abort"}
      /\ filter' \in BOOLEAN
  BY DEF Setup, Stays, LoopInv, LoopsTypeOK
<1> QED BY <1>1, LoopSame, LoopTypes

\* read(), and counting what it returned.
LEMMA LoopRead ==
    ASSUME LoopInv, Reads, NEW atZero \in {"exit", "packets"}, Read(atZero)
    PROVE  LoopInv'
<1>0. /\ r \in Nat /\ packets \in Nat /\ bytes \in Nat /\ got.packets \in Nat /\ got.bytes \in Nat
      /\ reported.packets \in Nat /\ reported.bytes \in Nat
  BY LoopTypes
<1>1. /\ pc = "recv" /\ queue # <<>> /\ queue' = Tail(queue)
      /\ r' = (IF Head(queue) < MTU_SIZE THEN Head(queue) ELSE MTU_SIZE)
      /\ pc' = (IF r' = 0 THEN atZero ELSE "packets")
      /\ got' = (IF pc' = "exit" THEN got
                 ELSE [packets |-> got.packets + 1, bytes |-> got.bytes + r'])
      /\ UNCHANGED <<filter, msg_len, reg, packets, bytes, loop, reported, again>>
  BY DEF Read, Stays, counters, Least, AfterZero
<1>2. Head(queue) \in Lengths /\ Tail(queue) \in Seq(Lengths) /\ Len(Tail(queue)) <= QueueLen
  <2>1. queue \in Seq(Lengths) /\ queue # <<>> /\ Len(queue) <= QueueLen /\ QueueLen \in Nat
    BY <1>1, LoopTypes
  <2> QED BY ONLY <2>1
<1>3. r' \in Nat
  BY <1>1, <1>2, LoopTypes
<1>4. Reads' /\ pc' \in {"exit", "packets"}
  BY <1>1 DEF Reads
<1>5. LoopsTypeOK'
  BY <1>1, <1>2, <1>3, <1>4 DEF LoopInv, LoopsTypeOK
<1>6. /\ reported.packets + packets = got.packets /\ reported.bytes + bytes = got.bytes
      /\ again = 0
  <2>1. PacketsDue = 0 /\ BytesDue = 0 /\ Kept = bytes
    BY <1>1 DEF PacketsDue, BytesDue, Kept
  <2>2. reported.packets + packets + 0 = got.packets /\ reported.bytes + bytes + 0 = got.bytes + again
        /\ again = 0
    BY <2>1 DEF LoopInv
  <2> QED BY ONLY <1>0, <2>2
<1>7. CASE pc' = "exit"
  <2>1. got' = got /\ PacketsDue' = 0 /\ BytesDue' = 0 /\ Kept' = bytes
    BY <1>1, <1>4, <1>7 DEF PacketsDue, BytesDue, Kept
  <2>2. reported'.packets + packets' + PacketsDue' = got'.packets
        /\ reported'.bytes + Kept' + BytesDue' = got'.bytes + again'
    BY ONLY <1>0, <1>1, <1>6, <2>1
  <2> QED BY <1>1, <1>4, <1>5, <1>6, <1>7, <2>1, <2>2 DEF LoopInv
<1>8. CASE pc' = "packets"
  <2>1. got' = [packets |-> got.packets + 1, bytes |-> got.bytes + r']
    BY <1>1, <1>8
  <2>2. PacketsDue' = 1 /\ BytesDue' = r' /\ Kept' = bytes
    BY <1>1, <1>4, <1>8 DEF PacketsDue, BytesDue, Kept
  <2>3. got'.packets = got.packets + 1 /\ got'.bytes = got.bytes + r' /\ got' \in Counts
    <3>1. got'.packets = got.packets + 1 /\ got'.bytes = got.bytes + r'
      BY ONLY <2>1
    <3>2. got.packets + 1 \in Nat /\ got.bytes + r' \in Nat
      <4>1. got.packets \in Nat /\ got.bytes \in Nat
        BY LoopTypes
      <4> QED BY ONLY <4>1, <1>3
    <3>3. got' \in Counts
      BY ONLY <2>1, <3>2 DEF Counts
    <3> QED BY ONLY <3>1, <3>3
  <2>4. reported'.packets + packets' + PacketsDue' = got'.packets
        /\ reported'.bytes + Kept' + BytesDue' = got'.bytes + again'
    <3>1. packets' = packets /\ reported' = reported /\ again' = again
      BY <1>1
    <3>2. got'.packets = got.packets + 1 /\ got'.bytes = got.bytes + r'
      BY <2>3
    <3> QED BY ONLY <1>0, <1>3, <1>6, <2>2, <3>1, <3>2
  <2> QED BY <1>1, <1>4, <1>5, <1>6, <1>8, <2>3, <2>4 DEF LoopInv
<1> QED BY <1>4, <1>7, <1>8

\* packets += 1, after a read.
LEMMA LoopReadPackets == ASSUME LoopInv, Reads, ReadPackets PROVE LoopInv'
<1>0. /\ r \in Nat /\ packets \in Nat /\ bytes \in Nat /\ got.packets \in Nat /\ got.bytes \in Nat
      /\ reported.packets \in Nat /\ reported.bytes \in Nat
  BY LoopTypes
<1>1. /\ pc = "packets" /\ packets' = packets + 1 /\ pc' = (IF r = 0 THEN "recv" ELSE "bytes")
      /\ UNCHANGED <<queue, filter, r, msg_len, reg, bytes, got, loop, reported, again>>
  BY DEF ReadPackets, Stays, socket
<1>2. Reads' /\ PacketsDue = 1 /\ PacketsDue' = 0 /\ BytesDue = r /\ BytesDue' = r
      /\ Kept = bytes /\ Kept' = bytes'
  BY <1>1 DEF Reads, PacketsDue, BytesDue, Kept
<1>3. LoopsTypeOK'
  BY <1>0, <1>1 DEF LoopInv, LoopsTypeOK
<1>4. /\ reported.packets + packets + PacketsDue = got.packets
      /\ reported.bytes + Kept + BytesDue = got.bytes + again
      /\ again = 0
  BY DEF LoopInv
<1>5. /\ reported'.packets + packets' + PacketsDue' = got'.packets
      /\ reported'.bytes + Kept' + BytesDue' = got'.bytes + again'
  BY ONLY <1>0, <1>1, <1>2, <1>4
<1> QED BY <1>1, <1>2, <1>3, <1>4, <1>5 DEF LoopInv

\* bytes += r, after a read.
LEMMA LoopReadBytes == ASSUME LoopInv, Reads, ReadBytes PROVE LoopInv'
<1>0. /\ r \in Nat /\ packets \in Nat /\ bytes \in Nat /\ got.packets \in Nat /\ got.bytes \in Nat
      /\ reported.packets \in Nat /\ reported.bytes \in Nat
  BY LoopTypes
<1>1. /\ pc = "bytes" /\ bytes' = bytes + r /\ pc' = "recv"
      /\ UNCHANGED <<queue, filter, r, msg_len, reg, packets, got, loop, reported, again>>
  BY DEF ReadBytes, Stays, socket
<1>2. Reads' /\ PacketsDue = 0 /\ PacketsDue' = 0 /\ BytesDue = r /\ BytesDue' = 0
      /\ Kept = bytes /\ Kept' = bytes'
  BY <1>1 DEF Reads, PacketsDue, BytesDue, Kept
<1>3. LoopsTypeOK'
  BY <1>0, <1>1 DEF LoopInv, LoopsTypeOK
<1>4. /\ reported.packets + packets + PacketsDue = got.packets
      /\ reported.bytes + Kept + BytesDue = got.bytes + again
      /\ again = 0
  BY DEF LoopInv
<1>5. /\ reported'.packets + packets' + PacketsDue' = got'.packets
      /\ reported'.bytes + Kept' + BytesDue' = got'.bytes + again'
  BY ONLY <1>0, <1>1, <1>2, <1>4
<1> QED BY <1>1, <1>2, <1>3, <1>4, <1>5 DEF LoopInv

\* recvmmsg(): the loop starts with bytes in its register.
LEMMA LoopRecvmmsg ==
    ASSUME LoopInv, ~Reads, NEW flags, Recvmmsg(flags)
    PROVE  LoopInv'
<1> DEFINE part1 == [p \in 1 .. r' |-> MsgLen(queue[p], flags)]
           sum == SumOf(part1)
<1>0. /\ r \in Nat /\ packets \in Nat /\ bytes \in Nat /\ got.packets \in Nat /\ got.bytes \in Nat
      /\ reported.packets \in Nat /\ reported.bytes \in Nat /\ again \in Nat
  BY LoopTypes
<1>1. /\ pc = "recv" /\ queue # <<>>
      /\ r' = (IF Len(queue) < MAX_MSG THEN Len(queue) ELSE MAX_MSG)
      /\ msg_len' = [p \in 1 .. MAX_MSG |-> IF p <= r' THEN MsgLen(queue[p], flags) ELSE msg_len[p]]
      /\ queue' = SubSeq(queue, r' + 1, Len(queue))
      /\ reg' = bytes /\ pc' = "sum"
      /\ got' = [packets |-> got.packets + r', bytes |-> got.bytes + sum]
      /\ UNCHANGED <<filter, packets, bytes, loop, reported, again>>
  BY DEF Recvmmsg, Stays, counters, Least
<1>2. /\ queue \in Seq(Lengths) /\ Len(queue) \in Nat /\ MAX_MSG \in Nat \ {0} /\ Lengths \subseteq Nat
      /\ Len(queue) <= QueueLen /\ QueueLen \in Nat /\ MTU_SIZE \in Nat
  BY LoopTypes
<1>3. r' \in Nat /\ r' <= Len(queue) /\ r' <= MAX_MSG
  BY ONLY <1>1, <1>2
<1>4. queue' \in Seq(Lengths) /\ Len(queue') <= QueueLen
  BY ONLY <1>1, <1>2, <1>3
<1>5. ASSUME NEW p \in 1 .. r' PROVE MsgLen(queue[p], flags) \in Nat
  <2>1. queue[p] \in Nat
    <3>1. p \in 1 .. Len(queue)
      BY <1>2, <1>3
    <3>2. queue[p] \in Lengths
      BY ONLY <1>2, <3>1
    <3> QED BY <1>2, <3>2
  <2> QED BY <1>2, <2>1 DEF MsgLen, Least
<1>6. part1 \in [1 .. r' -> Nat]
  BY <1>5
<1>7. msg_len = Zeros /\ SumOf(msg_len) = 0
  BY <1>1, LoopTypes DEF LoopInv
<1>8. msg_len' \in [1 .. MAX_MSG -> Nat] /\ (\A p \in 1 .. r' : msg_len'[p] = part1[p])
      /\ \A p \in r' + 1 .. MAX_MSG : msg_len'[p] = 0
  <2>1. \A p \in 1 .. MAX_MSG : msg_len'[p] = IF p <= r' THEN MsgLen(queue[p], flags) ELSE 0
    BY <1>1, <1>7 DEF Zeros
  <2>2. ASSUME NEW p \in 1 .. MAX_MSG PROVE msg_len'[p] \in Nat
    BY <1>2, <1>3, <1>5, <2>1
  <2>3. msg_len' \in [1 .. MAX_MSG -> Nat]
    BY <1>1, <2>2
  <2>4. ASSUME NEW p \in 1 .. r' PROVE msg_len'[p] = part1[p]
    <3>1. p \in 1 .. MAX_MSG /\ p <= r'
      BY <1>2, <1>3
    <3> QED BY <2>1, <3>1
  <2>5. ASSUME NEW p \in r' + 1 .. MAX_MSG PROVE msg_len'[p] = 0
    <3> DEFINE n1 == r'
    <3>1. p \in 1 .. MAX_MSG /\ ~(p <= n1)
      <4>1. n1 \in Nat /\ p \in n1 + 1 .. MAX_MSG /\ MAX_MSG \in Nat
        BY <1>2, <1>3
      <4> HIDE DEF n1
      <4> QED BY ONLY <4>1
    <3> QED BY <2>1, <3>1
  <2> QED BY <2>3, <2>4, <2>5
<1> HIDE DEF part1
<1>9. SumOf(msg_len') = sum /\ sum \in Nat
  <2> DEFINE len1 == msg_len'
             n1 == r'
  <2>1. /\ len1 \in [1 .. MAX_MSG -> Nat] /\ part1 \in [1 .. n1 -> Nat] /\ n1 \in Nat /\ n1 <= MAX_MSG
        /\ MAX_MSG \in Nat
        /\ (\A p \in 1 .. n1 : len1[p] = part1[p]) /\ \A p \in n1 + 1 .. MAX_MSG : len1[p] = 0
    BY <1>2, <1>3, <1>6, <1>8
  <2> HIDE DEF len1, n1
  <2>2. SumOf(len1) = SumOf(part1) /\ SumOf(part1) \in Nat
    BY ONLY <2>1, SumsAgree
  <2> QED BY <2>2 DEF len1
<1> HIDE DEF sum
<1>10. /\ ~Reads' /\ PacketsDue = 0 /\ PacketsDue' = r' /\ Kept' = bytes /\ Kept = bytes
       /\ BytesDue = 0 /\ BytesDue' = sum
  BY <1>1, <1>7, <1>9 DEF Reads, PacketsDue, BytesDue, Kept
<1>11. /\ got'.packets = got.packets + r' /\ got'.bytes = got.bytes + sum /\ got' \in Counts
  <2>1. got.packets + r' \in Nat /\ got.bytes + sum \in Nat
    BY ONLY <1>0, <1>3, <1>9
  <2>2. got' = [packets |-> got.packets + r', bytes |-> got.bytes + sum]
    BY <1>1
  <2> QED BY ONLY <2>1, <2>2 DEF Counts
<1>12. LoopsTypeOK'
  BY <1>0, <1>1, <1>3, <1>4, <1>8 DEF LoopInv, LoopsTypeOK
<1>13. /\ reported.packets + packets + PacketsDue = got.packets
       /\ reported.bytes + Kept + BytesDue = got.bytes + again
  BY DEF LoopInv
<1>14. /\ reported'.packets + packets' + PacketsDue' = got'.packets
       /\ reported'.bytes + Kept' + BytesDue' = got'.bytes + again'
  <2>1. packets' = packets /\ reported' = reported /\ again' = again
    BY <1>1
  <2>2. got'.packets = got.packets + r' /\ got'.bytes = got.bytes + sum
    BY <1>11
  <2>3. /\ PacketsDue = 0 /\ PacketsDue' = r' /\ Kept = bytes /\ Kept' = bytes
        /\ BytesDue = 0 /\ BytesDue' = sum
    BY <1>10
  <2>4. reported.packets + packets + r' = got.packets + r'
    BY ONLY <1>0, <1>3, <1>13, <2>3
  <2>5. reported.bytes + bytes + sum = got.bytes + sum + again
    BY ONLY <1>0, <1>9, <1>13, <2>3
  <2> QED BY <2>1, <2>2, <2>3, <2>4, <2>5
<1> QED BY <1>1, <1>10, <1>11, <1>12, <1>14 DEF LoopInv

\* The end of the loop over the messages: bytes is stored.
LEMMA LoopSum == ASSUME LoopInv, ~Reads, Sum PROVE LoopInv'
<1> DEFINE sum == SumOf(msg_len)
<1>0. /\ r \in Nat /\ reg \in Nat /\ packets \in Nat /\ bytes \in Nat /\ got.packets \in Nat /\ got.bytes \in Nat
      /\ reported.packets \in Nat /\ reported.bytes \in Nat /\ again \in Nat /\ sum \in Nat
  BY LoopTypes
<1>1. /\ pc = "sum" /\ bytes' = reg + sum /\ msg_len' = Zeros /\ pc' = "packets"
      /\ UNCHANGED <<queue, filter, r, reg, packets, got, loop, reported, again>>
  BY DEF Sum, Stays, socket
<1>2. SumOf(msg_len') = 0 /\ msg_len' \in [1 .. MAX_MSG -> Nat]
  BY <1>1, ZerosSum
<1>3. /\ ~Reads' /\ PacketsDue' = PacketsDue /\ Kept = reg /\ Kept' = bytes'
      /\ BytesDue = sum /\ BytesDue' = 0
  BY <1>1, <1>2 DEF Reads, PacketsDue, BytesDue, Kept
<1>4. /\ reported.packets + packets + PacketsDue = got.packets
      /\ reported.bytes + Kept + BytesDue = got.bytes + again
  BY DEF LoopInv
<1> HIDE DEF sum
<1>5. bytes' \in Nat
  BY ONLY <1>0, <1>1
<1>6. LoopsTypeOK'
  BY <1>0, <1>1, <1>2, <1>5 DEF LoopInv, LoopsTypeOK
<1>7. reported'.packets + packets' + PacketsDue' = got'.packets
  BY <1>1, <1>3, <1>4
<1>8. reported'.bytes + Kept' + BytesDue' = got'.bytes + again'
  BY ONLY <1>0, <1>1, <1>3, <1>4
<1> QED BY <1>1, <1>3, <1>6, <1>7, <1>8 DEF LoopInv

\* packets += r.
LEMMA LoopAddPackets == ASSUME LoopInv, ~Reads, AddPackets PROVE LoopInv'
<1>0. /\ r \in Nat /\ packets \in Nat /\ got.packets \in Nat /\ reported.packets \in Nat
  BY LoopTypes
<1>1. /\ pc = "packets" /\ packets' = packets + r /\ pc' = "recv"
      /\ UNCHANGED <<queue, filter, r, msg_len, reg, bytes, got, loop, reported, again>>
  BY DEF AddPackets, Stays, socket
<1>2. /\ ~Reads' /\ PacketsDue = r /\ PacketsDue' = 0 /\ Kept' = Kept /\ BytesDue' = BytesDue
  BY <1>1 DEF Reads, PacketsDue, BytesDue, Kept
<1>3. LoopsTypeOK'
  BY <1>0, <1>1 DEF LoopInv, LoopsTypeOK
<1>4. reported'.packets + packets' + PacketsDue' = got'.packets
  <2>1. reported.packets + packets + PacketsDue = got.packets
    BY DEF LoopInv
  <2> QED BY ONLY <1>0, <1>1, <1>2, <2>1
<1>5. reported'.bytes + Kept' + BytesDue' = got'.bytes + again'
  BY <1>1, <1>2 DEF LoopInv
<1> QED BY <1>1, <1>2, <1>3, <1>4, <1>5 DEF LoopInv

\* The signal, at any point.
LEMMA LoopTimer == ASSUME LoopInv, timer_handler PROVE LoopInv'
<1> DEFINE sum == SumOf(msg_len)
<1>0. /\ r \in Nat /\ reg \in Nat /\ packets \in Nat /\ bytes \in Nat /\ got.packets \in Nat /\ got.bytes \in Nat
      /\ reported.packets \in Nat /\ reported.bytes \in Nat /\ again \in Nat /\ sum \in Nat
  BY LoopTypes
<1>1. /\ packets' = 0 /\ bytes' = 0 /\ again' = (IF pc = "sum" THEN again + bytes ELSE again)
      /\ reported' = [packets |-> reported.packets + packets, bytes |-> reported.bytes + bytes]
      /\ UNCHANGED <<loop, pc, queue, filter, r, msg_len, reg, got>>
  BY DEF timer_handler, socket
<1>2. /\ reported'.packets = reported.packets + packets /\ reported'.bytes = reported.bytes + bytes
      /\ reported' \in Counts /\ again' \in Nat
  <2>1. reported.packets + packets \in Nat /\ reported.bytes + bytes \in Nat /\ again + bytes \in Nat
    BY ONLY <1>0
  <2> QED BY ONLY <1>0, <1>1, <2>1 DEF Counts
<1>3. /\ (Reads' <=> Reads) /\ PacketsDue' = PacketsDue /\ BytesDue' = BytesDue
      /\ Kept = (IF pc = "sum" THEN reg ELSE bytes) /\ Kept' = (IF pc = "sum" THEN reg ELSE 0)
  BY <1>1 DEF Reads, PacketsDue, BytesDue, Kept
<1>4. LoopsTypeOK'
  BY <1>1, <1>2 DEF LoopInv, LoopsTypeOK
<1>5. PacketsDue \in Nat /\ BytesDue \in Nat
  BY <1>0 DEF PacketsDue, BytesDue
<1>6. /\ reported.packets + packets + PacketsDue = got.packets
      /\ reported.bytes + Kept + BytesDue = got.bytes + again
  BY DEF LoopInv
<1> HIDE DEF sum
<1>7. reported'.packets + packets' + PacketsDue' = got'.packets
  <2>1. packets' = 0 /\ got' = got
    BY <1>1
  <2> QED BY ONLY <1>0, <1>2, <1>3, <1>5, <1>6, <2>1
<1>8. reported'.bytes + Kept' + BytesDue' = got'.bytes + again'
  <2>1. CASE pc = "sum"
    <3>1. Kept = reg /\ Kept' = reg /\ again' = again + bytes /\ got' = got
      BY <1>1, <1>3, <2>1
    <3> QED BY ONLY <1>0, <1>2, <1>3, <1>5, <1>6, <3>1
  <2>2. CASE pc # "sum"
    <3>1. Kept = bytes /\ Kept' = 0 /\ again' = again /\ got' = got
      BY <1>1, <1>3, <2>2
    <3> QED BY ONLY <1>0, <1>2, <1>3, <1>5, <1>6, <3>1
  <2> QED BY <2>1, <2>2
<1> QED BY <1>1, <1>2, <1>3, <1>4, <1>7, <1>8 DEF LoopInv

\* The other parts leave the loops alone.
LEMMA LoopStutter == LoopInv /\ UNCHANGED loopVars => LoopInv'
<1> SUFFICES ASSUME LoopInv, UNCHANGED loopVars PROVE LoopInv'
  OBVIOUS
<1>1. UNCHANGED <<loop, r, msg_len, reg, counters, got, reported, again>>
      /\ queue' = queue /\ filter' = filter /\ pc' = pc
  BY DEF loopVars, socket
<1> QED BY <1>1, LoopSame, LoopTypes DEF LoopInv, LoopsTypeOK

\* Which of the two ways of receiving a program takes.
LEMMA LoopStep == LoopInv /\ LoopsNext => LoopInv'
<1> SUFFICES ASSUME LoopInv, LoopsNext PROVE LoopInv'
  OBVIOUS
<1>1. ASSUME NEW atZero \in {"exit", "packets"}, Reads, Reading(atZero) PROVE LoopInv'
  BY <1>1, LoopRead, LoopReadPackets, LoopReadBytes DEF Reading
<1>2. ASSUME NEW flags, ~Reads, Summing(flags) PROVE LoopInv'
  BY <1>2, LoopRecvmmsg, LoopSum, LoopAddPackets DEF Summing
<1>3. ASSUME Program PROVE LoopInv'
  <2>1. CASE recv_loop
    BY <1>1, <2>1, LoopStart DEF recv_loop, Reads
  <2>2. CASE recvmmsg_loop
    BY <1>2, <2>2, LoopStart DEF recvmmsg_loop, Reads
  <2>3. CASE trunc_loop
    BY <1>2, <2>3, LoopStart DEF trunc_loop, Reads
  <2>4. CASE busypoll_loop
    BY <1>2, <2>4, LoopStart, LoopSetup DEF busypoll_loop, Reads
  <2>5. CASE bpf_drop
    BY <1>1, <2>5, LoopStart, LoopSetup DEF bpf_drop, Reads
  <2>6. CASE ebpf_drop
    BY <1>1, <2>6, LoopStart, LoopSetup DEF ebpf_drop, Reads
  <2> QED BY <1>3, <2>1, <2>2, <2>3, <2>4, <2>5, <2>6 DEF Program
<1> QED BY <1>3, LoopArrive, LoopTimer DEF LoopsNext

\* The invariant contains the property.
LEMMA LoopInvAccounts == LoopInv => Accounted
BY DEF LoopInv, Accounted

(***************************************************************************)
(* The netmap receiver.  Positions are counted from the first frame on;    *)
(* position p is in slot p % Slots.                                        *)
(***************************************************************************)

\* A number has one remainder.
LEMMA Remainder ==
    ASSUME NEW q \in Nat, NEW x \in 0 .. Slots - 1
    PROVE  (Slots * q + x) % Slots = x
<1>1. Slots \in Nat \ {0}
  BY RingAssumption
<1> QED BY ONLY <1>1

\* A step forward in the ring goes round its end at most once.
LEMMA Ahead ==
    ASSUME NEW a \in Nat, NEW d \in 0 .. Slots - 1
    PROVE  /\ a % Slots \in 0 .. Slots - 1
           /\ (a + d) % Slots = IF (a % Slots) + d < Slots THEN (a % Slots) + d ELSE ((a % Slots) + d) - Slots
           /\ ((a % Slots) + d) % Slots = (a + d) % Slots
<1> DEFINE x == a % Slots
           q == a \div Slots
<1>0. Slots \in Nat /\ Slots >= 2
  BY RingAssumption
<1>1. x \in 0 .. Slots - 1 /\ q \in Nat /\ a = Slots * q + x
  BY ONLY <1>0, a \in Nat
<1> HIDE DEF x, q
<1>2. Slots * (q + 1) = Slots * q + Slots /\ Slots * q \in Nat
  BY ONLY <1>0, <1>1
<1>3. CASE x + d < Slots
  <2>1. x + d \in 0 .. Slots - 1 /\ a + d = Slots * q + (x + d)
    BY <1>0, <1>1, <1>2, <1>3
  <2>2. (a + d) % Slots = x + d
    BY <1>1, <2>1, Remainder
  <2>3. (x + d) % Slots = x + d
    BY ONLY <1>0, <2>1
  <2> QED BY <1>1, <1>3, <2>2, <2>3 DEF x
<1>4. CASE ~(x + d < Slots)
  <2>1. (x + d) - Slots \in 0 .. Slots - 1 /\ a + d = Slots * (q + 1) + ((x + d) - Slots) /\ q + 1 \in Nat
    BY <1>0, <1>1, <1>2, <1>4
  <2>2. (a + d) % Slots = (x + d) - Slots
    BY <2>1, Remainder
  <2>3. (x + d) % Slots = (x + d) - Slots
    <3> DEFINE y == (x + d) - Slots
    <3>1. x + d = y + Slots /\ y \in 0 .. Slots - 1
      BY <1>0, <1>1, <2>1
    <3> HIDE DEF y
    <3>2. (y + Slots) % Slots = y
      BY ONLY <1>0, <3>1
    <3> QED BY <3>1, <3>2 DEF y
  <2> QED BY <1>1, <1>4, <2>2, <2>3 DEF x
<1> QED BY <1>3, <1>4

\* The program's and the card's arithmetic, in positions.
LEMMA RingArithmetic ==
    ASSUME NEW a \in Nat, NEW b \in Nat, a <= b, b < a + Slots
    PROVE  /\ Span(a % Slots, b % Slots) = b - a
           /\ a % Slots = b % Slots => a = b
           /\ nm_ring_next(a % Slots) = (a + 1) % Slots
<1> DEFINE d == b - a
           x == a % Slots
           y == b % Slots
<1>0. Slots \in Nat /\ Slots >= 2
  BY RingAssumption
<1>1. d \in 0 .. Slots - 1 /\ a + d = b
  BY <1>0
<1>2. x \in 0 .. Slots - 1 /\ y = IF x + d < Slots THEN x + d ELSE (x + d) - Slots
  BY <1>1, Ahead
<1>3. 1 \in 0 .. Slots - 1
  BY <1>0
<1>4. nm_ring_next(a % Slots) = (a + 1) % Slots
  BY <1>3, Ahead DEF nm_ring_next
<1> HIDE DEF d, x, y
<1>5. ((y + Slots) - x) % Slots = d
  <2>1. CASE x + d < Slots
    <3>1. (y + Slots) - x = d + Slots
      BY <1>0, <1>1, <1>2, <2>1
    <3>2. (d + Slots) % Slots = d
      BY ONLY <1>0, <1>1
    <3> QED BY <3>1, <3>2
  <2>2. CASE ~(x + d < Slots)
    <3>1. (y + Slots) - x = d
      BY <1>0, <1>1, <1>2, <2>2
    <3>2. d % Slots = d
      BY ONLY <1>0, <1>1
    <3> QED BY <3>1, <3>2
  <2> QED BY <2>1, <2>2
<1>6. x = y => d = 0
  BY ONLY <1>0, <1>1, <1>2
<1>7. d = 0 => a = b
  BY DEF d
<1> QED BY <1>4, <1>5, <1>6, <1>7 DEF Span, d, x, y

\* Frames counted, from the first on.
Counted == printed + pps

SlotRecords == [id : Nat, len : Nat, type : {f.type : f \in NmFrames} \cup {"none"},
                proto : {f.proto : f \in NmFrames} \cup {"none"}, forward : BOOLEAN]

NmTypes ==
    /\ slot \in [0 .. Slots - 1 -> SlotRecords]
    /\ came \in Seq(NmFrames) /\ host \in Seq(Nat)
    /\ forward \in BOOLEAN /\ pps \in Nat /\ printed \in Nat

\* The host has what is for it of the first n frames, once and in order.
HostHas(h, n) ==
    /\ {h[m] : m \in DOMAIN h} = {p \in 1 .. n : ForHost(came[p])}
    /\ \A m \in 1 .. Len(h) - 1 : h[m] < h[m + 1]

\* The slot still holds the frame that came at this position, flagged when it
\* has been read and is for the host.
SlotHolds(p) ==
    LET s == slot[p % Slots] IN
    /\ s.id = p + 1
    /\ filter_packet(s) <=> ForHost(came[p + 1])
    /\ s.forward <=> (p < Counted /\ ForHost(came[p + 1]))

\* Frames up to G have been given back, those up to T are in the program's view.
RingAt(G, T) ==
    /\ G <= Counted /\ Counted <= T /\ T <= Len(came) /\ Len(came) < G + Slots
    /\ returned = G % Slots /\ cur = Counted % Slots
    /\ tail = T % Slots /\ filled = Len(came) % Slots
    /\ \A p \in G .. Len(came) - 1 : SlotHolds(p)
    /\ \A p \in G .. Counted - 1 : ForHost(came[p + 1]) => forward
    /\ HostHas(host, G)

\* ForwardsExactly says nothing of the frames still in the ring: NmInv adds
\* what their slots hold, and why the ring never runs over them.
NmInv == NmTypes /\ \E G \in Nat : \E T \in Nat : RingAt(G, T)

\* What NmInv says of the types.
LEMMA NmNumbers ==
    ASSUME NmInv
    PROVE  /\ Slots \in Nat /\ Slots >= 2 /\ Len(came) \in Nat /\ Counted \in Nat
           /\ came \in Seq(NmFrames) /\ host \in Seq(Nat) /\ pps \in Nat /\ printed \in Nat
           /\ slot \in [0 .. Slots - 1 -> SlotRecords]
<1>1. /\ came \in Seq(NmFrames) /\ host \in Seq(Nat) /\ pps \in Nat /\ printed \in Nat
      /\ slot \in [0 .. Slots - 1 -> SlotRecords]
  BY DEF NmInv, NmTypes
<1> QED BY <1>1, RingAssumption DEF Counted

\* Every position has a slot.
LEMMA SlotOf == ASSUME NEW p \in Nat PROVE p % Slots \in 0 .. Slots - 1
<1>1. 0 \in 0 .. Slots - 1
  BY RingAssumption
<1> QED BY <1>1, Ahead

\* Nothing came, every slot is the card's.
LEMMA NmInit == InitNm => NmInv
<1> SUFFICES ASSUME InitNm PROVE NmInv
  OBVIOUS
<1>1. /\ slot = [p \in 0 .. Slots - 1 |->
                    [id |-> 0, len |-> 0, type |-> "none", proto |-> "none", forward |-> FALSE]]
      /\ forward = FALSE /\ cur = 0 /\ tail = 0 /\ filled = 0 /\ returned = 0
      /\ pps = 0 /\ printed = 0 /\ came = <<>> /\ host = <<>>
  BY DEF InitNm
<1>2. NmTypes
  <2> DEFINE empty == [id |-> 0, len |-> 0, type |-> "none", proto |-> "none", forward |-> FALSE]
  <2>1. empty \in SlotRecords
    BY DEF SlotRecords
  <2>2. slot = [p \in 0 .. Slots - 1 |-> empty]
    BY <1>1
  <2> HIDE DEF empty
  <2>3. slot \in [0 .. Slots - 1 -> SlotRecords]
    BY ONLY <2>1, <2>2
  <2>4. came \in Seq(NmFrames) /\ host \in Seq(Nat)
    BY <1>1
  <2>5. forward \in BOOLEAN /\ pps \in Nat /\ printed \in Nat
    BY <1>1
  <2> QED BY <2>3, <2>4, <2>5 DEF NmTypes
<1>3. 0 % Slots = 0 /\ Slots > 0 /\ Slots \in Nat
  BY RingAssumption
<1>4. Counted = 0 /\ Len(came) = 0
  BY <1>1 DEF Counted
<1>5. HostHas(host, 0)
  BY <1>1 DEF HostHas
<1>6. RingAt(0, 0)
  BY <1>1, <1>3, <1>4, <1>5 DEF RingAt
<1> QED BY <1>2, <1>6 DEF NmInv

\* What tells frames for the host apart is in the slot, unless it is an earlier
\* frame's: then the length says so.
LEMMA FilterIsForHost ==
    ASSUME NEW f \in NmFrames, NEW s, s.len = f.len,
           f.len >= 14 => s.type = f.type, f.len >= 24 => s.proto = f.proto
    PROVE  filter_packet(s) <=> ForHost(f)
<1>1. f.len \in Nat /\ (f.len < 14 => f.type = "none") /\ (f.len < 24 => f.proto = "none")
  BY RingAssumption
<1>2. /\ filter_packet(s) <=> (\/ f.len >= 14 /\ s.type = "arp"
                               \/ f.len >= 34 /\ s.type = "ip" /\ s.proto = "icmp")
      /\ ForHost(f) <=> (f.type = "arp" \/ (f.type = "ip" /\ f.proto = "icmp" /\ f.len >= 34))
  BY DEF filter_packet, ForHost
<1>3. "none" # "arp" /\ "none" # "ip"
  OBVIOUS
<1> DEFINE l == f.len
<1>4. l \in Nat /\ (l >= 14 <=> ~(l < 14)) /\ (l >= 34 => l >= 14 /\ l >= 24)
  BY <1>1
<1>5. (\/ l >= 14 /\ s.type = "arp"
       \/ l >= 34 /\ s.type = "ip" /\ s.proto = "icmp")
      <=> (f.type = "arp" \/ (f.type = "ip" /\ f.proto = "icmp" /\ l >= 34))
  BY <1>1, <1>3, <1>4
<1>6. filter_packet(s) <=> ForHost(f)
  BY <1>2, <1>5
<1> QED BY <1>6

\* A frame comes: the ring has room for it, for the card's free slots are those
\* given back.
LEMMA NmArriveStep == ASSUME NmInv, NmArrive PROVE NmInv'
<1> DEFINE n == Len(came)
<1>0. /\ Slots \in Nat /\ Slots >= 2 /\ n \in Nat /\ Counted \in Nat
      /\ came \in Seq(NmFrames) /\ slot \in [0 .. Slots - 1 -> SlotRecords]
  BY NmNumbers
<1>1. PICK G \in Nat : \E T \in Nat : RingAt(G, T)
  BY DEF NmInv
<1>2. PICK T \in Nat : RingAt(G, T)
  BY <1>1
<1>3. PICK f \in NmFrames :
        /\ came' = Append(came, f)
        /\ slot' = [slot EXCEPT ![filled] =
                       [id |-> n + 1, len |-> f.len, forward |-> FALSE,
                        type |-> IF f.len >= 14 THEN f.type ELSE @.type,
                        proto |-> IF f.len >= 24 THEN f.proto ELSE @.proto]]
  BY DEF NmArrive
<1>4. /\ nm_ring_next(filled) # returned /\ filled' = nm_ring_next(filled)
      /\ UNCHANGED <<forward, cur, tail, returned, pps, printed, host>>
  BY DEF NmArrive
<1>5. /\ G <= Counted /\ Counted <= T /\ T <= n /\ n < G + Slots
      /\ returned = G % Slots /\ cur = Counted % Slots /\ tail = T % Slots /\ filled = n % Slots
      /\ \A p \in G .. n - 1 : SlotHolds(p)
      /\ \A p \in G .. Counted - 1 : ForHost(came[p + 1]) => forward
      /\ HostHas(host, G)
  BY <1>2 DEF RingAt
<1>6. Len(came') = n + 1 /\ came' \in Seq(NmFrames) /\ came'[n + 1] = f
      /\ \A p \in 1 .. n : came'[p] = came[p]
  BY <1>0, <1>3
<1> HIDE DEF n
<1>7. filled' = (n + 1) % Slots /\ n + 1 < G + Slots
  <2>1. G <= n
    BY ONLY <1>0, <1>5
  <2>2. filled' = (n + 1) % Slots
    <3>1. n <= n /\ n < n + Slots
      BY ONLY <1>0
    <3>2. nm_ring_next(n % Slots) = (n + 1) % Slots
      BY <1>0, <3>1, RingArithmetic
    <3> QED BY <1>4, <1>5, <3>2
  <2>3. n + 1 # G + Slots
    <3> SUFFICES ASSUME n + 1 = G + Slots PROVE FALSE
      OBVIOUS
    <3>1. (G + (Slots - 1)) + 1 = n + 1 /\ Slots - 1 \in 0 .. Slots - 1 /\ n = G + (Slots - 1)
      BY ONLY <1>0, <1>5, n + 1 = G + Slots
    <3>2. n % Slots = IF (G % Slots) + (Slots - 1) < Slots THEN (G % Slots) + (Slots - 1)
                      ELSE ((G % Slots) + (Slots - 1)) - Slots
      BY <3>1, Ahead
    <3> DEFINE x == G % Slots
    <3>3. x \in 0 .. Slots - 1
      BY SlotOf
    <3>4. nm_ring_next(n % Slots) = x
      <4> HIDE DEF x
      <4>1. n % Slots = IF x + (Slots - 1) < Slots THEN x + (Slots - 1) ELSE (x + (Slots - 1)) - Slots
        BY <3>2 DEF x
      <4>2. CASE x = 0
        <5>1. n % Slots = Slots - 1 /\ Slots % Slots = 0
          BY <1>0, <4>1, <4>2
        <5> QED BY <1>0, <4>2, <5>1 DEF nm_ring_next
      <4>3. CASE x # 0
        <5>1. n % Slots = x - 1 /\ (x - 1) + 1 = x /\ x % Slots = x
          BY <1>0, <3>3, <4>1, <4>3
        <5> QED BY <5>1 DEF nm_ring_next
      <4> QED BY <4>2, <4>3
    <3> QED BY <1>4, <1>5, <3>4
  <2> QED BY ONLY <1>0, <1>5, <2>2, <2>3
<1>8. filled \in 0 .. Slots - 1
  BY <1>0, <1>5, SlotOf
<1> DEFINE new == [id |-> n + 1, len |-> f.len, forward |-> FALSE,
                   type |-> IF f.len >= 14 THEN f.type ELSE slot[filled].type,
                   proto |-> IF f.len >= 24 THEN f.proto ELSE slot[filled].proto]
<1>9. slot' = [slot EXCEPT ![filled] = new] /\ new \in SlotRecords
  <2>1. slot[filled] \in SlotRecords
    BY <1>0, <1>8
  <2>2. f.len \in Nat
    BY RingAssumption
  <2>3. new \in SlotRecords
    <3>1. /\ n + 1 \in Nat
          /\ new.type \in {e.type : e \in NmFrames} \cup {"none"}
          /\ new.proto \in {e.proto : e \in NmFrames} \cup {"none"}
      BY <1>0, <2>1 DEF SlotRecords
    <3> QED BY <2>2, <3>1 DEF SlotRecords
  <2>4. slot' = [slot EXCEPT ![filled] = new]
    BY <1>0, <1>3, <1>8
  <2> QED BY <2>3, <2>4
<1>10. slot' \in [0 .. Slots - 1 -> SlotRecords] /\ slot'[filled] = new
       /\ \A q \in 0 .. Slots - 1 : q # filled => slot'[q] = slot[q]
  <2> HIDE DEF new
  <2> QED BY <1>0, <1>8, <1>9
<1>11. Counted' = Counted
  BY <1>4 DEF Counted
<1>12. ASSUME NEW p \in G .. n PROVE SlotHolds(p)'
  <2>1. CASE p = n
    <3>1. slot'[p % Slots] = new
      BY <1>5, <1>10, <2>1
    <3>2. filter_packet(new) <=> ForHost(f)
      BY FilterIsForHost
    <3>3. new.id = n + 1 /\ new.forward = FALSE
      OBVIOUS
    <3>4. ~(n < Counted)
      BY <1>0, <1>5
    <3> HIDE DEF new
    <3> QED BY <1>6, <1>11, <2>1, <3>1, <3>2, <3>3, <3>4 DEF SlotHolds
  <2>2. CASE p # n
    <3>1. p \in Nat /\ p \in G .. n - 1 /\ p <= n /\ n < p + Slots /\ p + 1 \in 1 .. n
      BY <1>0, <1>5, <2>2
    <3>2. p % Slots # n % Slots /\ p % Slots \in 0 .. Slots - 1
      BY <1>0, <2>2, <3>1, RingArithmetic, SlotOf
    <3>3. slot'[p % Slots] = slot[p % Slots] /\ came'[p + 1] = came[p + 1]
      BY <1>5, <1>6, <1>10, <3>1, <3>2
    <3>4. SlotHolds(p)
      BY <1>5, <3>1
    <3> QED BY <1>11, <3>3, <3>4 DEF SlotHolds
  <2> QED BY <2>1, <2>2
<1>13. \A p \in 1 .. G : came'[p] = came[p]
  <2>1. \A p \in 1 .. G : p \in 1 .. n
    BY <1>0, <1>5
  <2> QED BY <1>6, <2>1
<1>14. HostHas(host, G)'
  <2>1. {p \in 1 .. G : ForHost(came'[p])} = {p \in 1 .. G : ForHost(came[p])}
    BY <1>13
  <2> QED BY <1>4, <1>5, <2>1 DEF HostHas
<1>15. \A p \in G .. Counted - 1 : ForHost(came'[p + 1]) => forward
  <2>1. \A p \in G .. Counted - 1 : p + 1 \in 1 .. n
    BY <1>0, <1>5
  <2> QED BY <1>5, <1>6, <2>1
<1>16. RingAt(G, T)'
  <2>1. (n + 1) - 1 = n /\ T <= n + 1
    BY ONLY <1>0, <1>5
  <2> QED BY <1>4, <1>5, <1>6, <1>7, <1>11, <1>12, <1>14, <1>15, <2>1 DEF RingAt
<1>17. NmTypes'
  BY <1>4, <1>6, <1>10 DEF NmInv, NmTypes
<1> QED BY <1>16, <1>17 DEF NmInv

\* Opening the ring, a second that passes and printing the rate.
LEMMA NmSame ==
    ASSUME NmInv, UNCHANGED <<slot, forward, cur, tail, filled, returned, came, host>>,
           pps' \in Nat, printed' \in Nat, Counted' = Counted
    PROVE  NmInv'
<1>1. PICK G \in Nat : \E T \in Nat : RingAt(G, T)
  BY DEF NmInv
<1>2. PICK T \in Nat : RingAt(G, T)
  BY <1>1
<1>3. NmTypes'
  BY DEF NmInv, NmTypes
<1>4. ASSUME NEW p \in Nat, SlotHolds(p) PROVE SlotHolds(p)'
  BY <1>4 DEF SlotHolds
<1>5. HostHas(host, G)' <=> HostHas(host, G)
  BY DEF HostHas
<1>6. \A p \in G .. Len(came) - 1 : p \in Nat
  BY NmNumbers
<1>7. RingAt(G, T)'
  BY <1>2, <1>4, <1>5, <1>6 DEF RingAt
<1> QED BY <1>3, <1>7 DEF NmInv

\* What was counted is printed and counted from zero again.
LEMMA NmPrintRate == ASSUME NmInv, PrintRate PROVE NmInv'
<1>1. /\ UNCHANGED <<slot, forward, cur, tail, filled, returned, came, host>>
      /\ \/ printed' = printed + pps /\ pps' = 0
         \/ printed' = printed /\ pps' = pps
  BY DEF PrintRate
<1>2. pps \in Nat /\ printed \in Nat
  BY NmNumbers
<1>3. pps' \in Nat /\ printed' \in Nat /\ printed' + pps' = printed + pps
  BY ONLY <1>1, <1>2
<1>4. Counted' = Counted
  BY <1>3 DEF Counted
<1> QED BY <1>1, <1>3, <1>4, NmSame

\* One frame is counted; its slot is flagged when it is for the host.
LEMMA NmScan == ASSUME NmInv, Scan PROVE NmInv'
<1> DEFINE n == Len(came)
           C == Counted
<1>0. /\ Slots \in Nat /\ Slots >= 2 /\ n \in Nat /\ C \in Nat /\ pps \in Nat /\ printed \in Nat
      /\ came \in Seq(NmFrames) /\ slot \in [0 .. Slots - 1 -> SlotRecords]
  BY NmNumbers
<1>1. PICK G \in Nat : \E T \in Nat : RingAt(G, T)
  BY DEF NmInv
<1>2. PICK T \in Nat : RingAt(G, T)
  BY <1>1
<1>3. UNCHANGED <<tail, filled, returned, printed, came, host>>
  BY DEF Scan
<1>4. CASE cur = tail /\ UNCHANGED <<cur, pps, forward, slot>>
  <2>1. Counted' = Counted
    BY <1>3, <1>4 DEF Counted
  <2> QED BY <1>0, <1>3, <1>4, <2>1, NmSame
<1>5. CASE /\ cur # tail /\ pps' = pps + 1 /\ cur' = nm_ring_next(cur)
           /\ IF filter_packet(slot[cur])
              THEN forward' = TRUE /\ slot' = [slot EXCEPT ![cur].forward = TRUE]
              ELSE UNCHANGED <<forward, slot>>
  <2>1. /\ G <= C /\ C <= T /\ T <= n /\ n < G + Slots
        /\ returned = G % Slots /\ cur = C % Slots /\ tail = T % Slots /\ filled = n % Slots
        /\ \A p \in G .. n - 1 : SlotHolds(p)
        /\ \A p \in G .. C - 1 : ForHost(came[p + 1]) => forward
        /\ HostHas(host, G)
    BY <1>2 DEF RingAt
  <2>2. C # T
    BY <1>5, <2>1
  <2>3. Counted' = C + 1 /\ pps' \in Nat
    <3>1. pps + 1 \in Nat /\ printed + (pps + 1) = (printed + pps) + 1
      BY ONLY <1>0
    <3> QED BY <1>3, <1>5, <3>1 DEF Counted
  <2> HIDE DEF n, C
  <2>4. C < T /\ C < n /\ C \in G .. n - 1 /\ C < C + Slots /\ C <= C
    BY ONLY <1>0, <2>1, <2>2
  <2>5. cur' = (C + 1) % Slots
    <3>1. nm_ring_next(C % Slots) = (C + 1) % Slots
      BY <1>0, <2>4, RingArithmetic
    <3> QED BY <1>5, <2>1, <3>1
  <2>6. cur \in 0 .. Slots - 1 /\ slot[cur] \in SlotRecords
    BY <1>0, <2>1, SlotOf
  <2>7. filter_packet(slot[cur]) <=> ForHost(came[C + 1])
    BY <2>1, <2>4 DEF SlotHolds
  <2>8. /\ slot' \in [0 .. Slots - 1 -> SlotRecords]
        /\ \A q \in 0 .. Slots - 1 : q # cur => slot'[q] = slot[q]
        /\ slot'[cur].id = slot[cur].id /\ slot'[cur].len = slot[cur].len
        /\ slot'[cur].type = slot[cur].type /\ slot'[cur].proto = slot[cur].proto
    <3>1. CASE filter_packet(slot[cur])
      <4> DEFINE new == [slot[cur] EXCEPT !.forward = TRUE]
      <4>1. /\ new \in SlotRecords /\ new.id = slot[cur].id /\ new.len = slot[cur].len
            /\ new.type = slot[cur].type /\ new.proto = slot[cur].proto
        BY <2>6 DEF SlotRecords
      <4>2. slot' = [slot EXCEPT ![cur] = new]
        BY <1>0, <1>5, <2>6, <3>1
      <4> HIDE DEF new
      <4> QED BY <1>0, <2>6, <4>1, <4>2
    <3>2. CASE ~filter_packet(slot[cur])
      BY <1>0, <1>5, <3>2
    <3> QED BY <3>1, <3>2
  <2>9. slot'[cur].forward <=> ForHost(came[C + 1])
    <3>1. CASE filter_packet(slot[cur])
      <4>1. slot' = [slot EXCEPT ![cur] = [slot[cur] EXCEPT !.forward = TRUE]]
        BY <1>0, <1>5, <2>6, <3>1
      <4>2. slot'[cur].forward = TRUE
        BY <1>0, <2>6, <4>1 DEF SlotRecords
      <4> QED BY <2>7, <3>1, <4>2
    <3>2. CASE ~filter_packet(slot[cur])
      <4>1. slot[C % Slots].forward <=> (C < C /\ ForHost(came[C + 1]))
        <5>1. SlotHolds(C)
          BY <2>1, <2>4
        <5> QED BY <5>1 DEF SlotHolds, C
      <4>2. ~(C < C)
        BY <1>0
      <4> QED BY <1>5, <2>1, <2>7, <3>2, <4>1, <4>2
    <3> QED BY <3>1, <3>2
  <2>10. ASSUME NEW p \in G .. n - 1 PROVE SlotHolds(p)'
    <3>1. p \in Nat /\ SlotHolds(p)
      BY <1>0, <2>1
    <3>2. CASE p = C
      <4>1. filter_packet(slot'[cur]) <=> filter_packet(slot[cur])
        BY <2>8 DEF filter_packet
      <4>2. C < C + 1
        BY <1>0
      <4> QED BY <1>3, <2>1, <2>3, <2>7, <2>8, <2>9, <3>1, <3>2, <4>1, <4>2 DEF SlotHolds
    <3>3. CASE p # C
      <4>1. p % Slots # cur
        <5>1. CASE p <= C
          <6>1. C < p + Slots
            BY ONLY <1>0, <2>1, p \in G .. n - 1, G \in Nat, <2>4
          <6> QED BY <1>0, <2>1, <3>1, <3>3, <5>1, <6>1, RingArithmetic
        <5>2. CASE ~(p <= C)
          <6>1. C <= p /\ p < C + Slots
            BY <1>0, <2>1, <3>1, <5>2
          <6> QED BY <1>0, <2>1, <3>1, <3>3, <6>1, RingArithmetic
        <5> QED BY <5>1, <5>2
      <4>2. slot'[p % Slots] = slot[p % Slots]
        BY <2>8, <3>1, <4>1, SlotOf
      <4>3. p < C + 1 <=> p < C
        BY <1>0, <3>1, <3>3
      <4> QED BY <1>3, <2>3, <3>1, <4>2, <4>3 DEF SlotHolds, C
    <3> QED BY <3>2, <3>3
  <2>11. \A p \in G .. (C + 1) - 1 : ForHost(came[p + 1]) => forward'
    <3> SUFFICES ASSUME NEW p \in G .. (C + 1) - 1, ForHost(came[p + 1]) PROVE forward'
      OBVIOUS
    <3>1. CASE p = C
      BY <1>5, <2>7, <3>1
    <3>2. CASE p # C
      <4>1. p \in G .. C - 1
        BY <1>0, <3>2
      <4> QED BY <1>5, <2>1, <4>1
    <3> QED BY <3>1, <3>2
  <2>12. HostHas(host, G)' <=> HostHas(host, G)
    BY <1>3 DEF HostHas
  <2>13. G <= C + 1 /\ C + 1 <= T
    BY ONLY <1>0, <2>1, <2>4
  <2>14. came' = came /\ Len(came') = n
    BY <1>3 DEF n
  <2>15. RingAt(G, T)'
    BY <1>3, <2>1, <2>3, <2>5, <2>10, <2>11, <2>12, <2>13, <2>14 DEF RingAt
  <2>16. NmTypes'
    <3>1. forward' \in BOOLEAN
      BY <1>5 DEF NmInv, NmTypes
    <3> QED BY <1>3, <2>3, <2>8, <3>1 DEF NmInv, NmTypes
  <2> QED BY <2>15, <2>16 DEF NmInv
<1> QED BY <1>4, <1>5 DEF Scan

\* The recursion of GivenBack has one solution: what poll gives back, one slot
\* after the other.
LEMMA GivenBackIs ==
    ASSUME NmTypes, NEW G \in Nat, NEW C \in Nat, G <= C, C < G + Slots
    PROVE  LET g == GivenBack(G % Slots, C % Slots) IN
           /\ g \in [0 .. C - G -> Seq(Nat)] /\ g[0] = host
           /\ \A n \in 1 .. C - G :
                 LET s == slot[((G + n) - 1) % Slots]
                 IN  g[n] = IF forward /\ s.forward THEN Append(g[n - 1], s.id) ELSE g[n - 1]
<1> DEFINE N == C - G
           At(e) == slot[(((G % Slots) + e) - 1) % Slots]
           Flagged(e) == forward /\ At(e).forward
           Step(g, e) == IF e = 0 THEN host
                         ELSE IF Flagged(e) THEN Append(g[e - 1], At(e).id) ELSE g[e - 1]
           Solves(g, m) == \A e \in 0 .. m : g[e] = Step(g, e)
           S == {m \in Nat : m <= N => \E g \in [0 .. m -> Seq(Nat)] : Solves(g, m)}
<1>0. N \in 0 .. Slots - 1 /\ N \in Nat /\ Slots \in Nat /\ Slots >= 2
  BY RingAssumption
<1>1. ASSUME NEW e \in 1 .. N
      PROVE  At(e) = slot[((G + e) - 1) % Slots] /\ At(e).id \in Nat
  <2> DEFINE d == e - 1
             x == G % Slots
  <2>1. d \in 0 .. Slots - 1 /\ d \in Nat /\ (G + e) - 1 = G + d /\ G + d \in Nat
    BY <1>0
  <2>2. (x + d) % Slots = (G + d) % Slots /\ x \in Nat
    <3> HIDE DEF d
    <3>1. ((G % Slots) + d) % Slots = (G + d) % Slots
      BY <2>1, Ahead
    <3>2. G % Slots \in 0 .. Slots - 1
      BY SlotOf
    <3> QED BY <1>0, <3>1, <3>2
  <2>3. (x + e) - 1 = x + d
    BY <1>0, <2>2
  <2>4. slot[(G + d) % Slots] \in SlotRecords
    BY <2>1, SlotOf DEF NmTypes
  <2>5. slot[(G + d) % Slots].id \in Nat
    BY <2>4 DEF SlotRecords
  <2> HIDE DEF d
  <2> QED BY <2>1, <2>2, <2>3, <2>5
<1>2. host \in Seq(Nat)
  BY DEF NmTypes
<1> HIDE DEF At, Flagged, N
<1>3. 0 \in S
  <2> DEFINE g == [e \in 0 .. 0 |-> host]
  <2>1. g \in [0 .. 0 -> Seq(Nat)] /\ Solves(g, 0)
    BY <1>2
  <2> HIDE DEF g, Solves
  <2> QED BY <2>1
<1>4. ASSUME NEW m \in Nat, m \in S PROVE m + 1 \in S
  <2> SUFFICES ASSUME m + 1 <= N PROVE \E g \in [0 .. m + 1 -> Seq(Nat)] : Solves(g, m + 1)
    <3> HIDE DEF Solves
    <3> QED OBVIOUS
  <2>1. PICK g \in [0 .. m -> Seq(Nat)] : Solves(g, m)
    <3>1. m <= N
      BY <1>0
    <3> HIDE DEF Solves
    <3> QED BY <1>4, <3>1
  <2> DEFINE v == IF Flagged(m + 1) THEN Append(g[m], At(m + 1).id) ELSE g[m]
             h == [e \in 0 .. m + 1 |-> IF e = m + 1 THEN v ELSE g[e]]
  <2>2. v \in Seq(Nat)
    <3>1. m + 1 \in 1 .. N /\ m \in 0 .. m
      BY <1>0
    <3>2. g[m] \in Seq(Nat) /\ At(m + 1).id \in Nat
      BY <1>1, <3>1
    <3> QED BY <3>2
  <2> HIDE DEF v
  <2>3. h \in [0 .. m + 1 -> Seq(Nat)]
    BY <2>2
  <2>4. h[m + 1] = v /\ \A e \in 0 .. m : h[e] = g[e]
    OBVIOUS
  <2> HIDE DEF h
  <2>5. ASSUME NEW e \in 0 .. m + 1 PROVE h[e] = Step(h, e)
    <3>1. CASE e = m + 1
      <4>1. e # 0 /\ e - 1 = m /\ h[e - 1] = g[m]
        BY <2>4, <3>1
      <4> QED BY <2>4, <3>1, <4>1 DEF v
    <3>2. CASE e # m + 1
      <4>1. e \in 0 .. m /\ (e # 0 => e - 1 \in 0 .. m)
        BY <3>2
      <4>2. g[e] = Step(g, e)
        BY <2>1, <4>1
      <4> QED BY <2>4, <4>1, <4>2
    <3> QED BY <3>1, <3>2
  <2>6. Solves(h, m + 1)
    BY <2>5
  <2> HIDE DEF Solves
  <2> QED BY <2>3, <2>6
<1>5. PICK g \in [0 .. N -> Seq(Nat)] : Solves(g, N)
  <2>1. N \in S
    <3> HIDE DEF S
    <3> QED BY <1>0, <1>3, <1>4, Induction
  <2>2. N <= N
    BY <1>0
  <2> HIDE DEF Solves
  <2> QED BY <2>1, <2>2
<1>6. g = [e \in 0 .. N |-> Step(g, e)]
  BY <1>5
<1> DEFINE s == GivenBack(G % Slots, C % Slots)
<1>7. s = [e \in 0 .. N |-> Step(s, e)]
  <2>1. Span(G % Slots, C % Slots) = N
    BY RingArithmetic DEF N
  <2>2. s = CHOOSE f : f = [e \in 0 .. N |-> Step(f, e)]
    BY <2>1 DEF GivenBack, Flagged, At
  <2> HIDE DEF s, Step
  <2> QED BY <1>6, <2>2
<1> HIDE DEF s
<1>8. s[0] = host /\ \A e \in 1 .. N : s[e] = IF Flagged(e) THEN Append(s[e - 1], At(e).id) ELSE s[e - 1]
  <2>1. 0 \in 0 .. N
    BY <1>0
  <2>2. s[0] = host
    BY <1>7, <2>1
  <2>3. ASSUME NEW e \in 1 .. N
        PROVE  s[e] = IF Flagged(e) THEN Append(s[e - 1], At(e).id) ELSE s[e - 1]
    <3>1. e \in 0 .. N /\ e # 0
      BY <1>0
    <3>2. s[e] = Step(s, e)
      <4> HIDE DEF Step
      <4> QED BY <1>7, <3>1
    <3> QED BY <3>1, <3>2
  <2> QED BY <2>2, <2>3
<1> DEFINE T == {e \in Nat : e <= N => s[e] \in Seq(Nat)}
<1>9. 0 \in T
  BY <1>2, <1>8
<1>10. ASSUME NEW e \in Nat, e \in T PROVE e + 1 \in T
  <2> SUFFICES ASSUME e + 1 <= N PROVE s[e + 1] \in Seq(Nat)
    OBVIOUS
  <2>1. e + 1 \in 1 .. N /\ (e + 1) - 1 = e /\ s[e] \in Seq(Nat)
    BY <1>0, <1>10
  <2>2. s[e + 1] = IF Flagged(e + 1) THEN Append(s[e], At(e + 1).id) ELSE s[e]
    BY <1>8, <2>1
  <2>3. At(e + 1).id \in Nat
    BY <1>1, <2>1
  <2> QED BY ONLY <2>1, <2>2, <2>3
<1>11. \A e \in 0 .. N : s[e] \in Seq(Nat)
  <2>1. Nat \subseteq T
    <3> HIDE DEF T
    <3> QED BY <1>9, <1>10, Induction
  <2> QED BY <2>1
<1>12. s \in [0 .. N -> Seq(Nat)]
  BY <1>7, <1>11
<1>13. \A e \in 1 .. N : s[e] = IF forward /\ slot[((G + e) - 1) % Slots].forward
                                THEN Append(s[e - 1], slot[((G + e) - 1) % Slots].id) ELSE s[e - 1]
  BY <1>1, <1>8 DEF Flagged
<1> QED BY <1>8, <1>12, <1>13 DEF s, N

\* The next frame goes to the host or is dropped.
LEMMA HostNext ==
    ASSUME NEW h \in Seq(Nat), NEW n \in Nat, HostHas(h, n)
    PROVE  /\ ForHost(came[n + 1]) => HostHas(Append(h, n + 1), n + 1)
           /\ ~ForHost(came[n + 1]) => HostHas(h, n + 1)
<1> DEFINE has == {h[m] : m \in DOMAIN h}
           k == Append(h, n + 1)
<1>1. has = {p \in 1 .. n : ForHost(came[p])} /\ \A m \in 1 .. Len(h) - 1 : h[m] < h[m + 1]
  BY DEF HostHas
<1>2. CASE ~ForHost(came[n + 1])
  <2>1. {p \in 1 .. n + 1 : ForHost(came[p])} = {p \in 1 .. n : ForHost(came[p])}
    BY <1>2
  <2> QED BY <1>1, <1>2, <2>1 DEF HostHas
<1>3. CASE ForHost(came[n + 1])
  <2>1. /\ Len(h) \in Nat /\ Len(k) = Len(h) + 1 /\ DOMAIN k = 1 .. Len(h) + 1 /\ DOMAIN h = 1 .. Len(h)
        /\ k[Len(h) + 1] = n + 1 /\ \A m \in 1 .. Len(h) : k[m] = h[m]
    OBVIOUS
  <2> HIDE DEF k
  <2>2. {k[m] : m \in DOMAIN k} = {h[m] : m \in DOMAIN h} \cup {n + 1}
    <3>1. \A m \in 1 .. Len(h) + 1 : k[m] \in {h[e] : e \in 1 .. Len(h)} \cup {n + 1}
      <4> TAKE m \in 1 .. Len(h) + 1
      <4>1. CASE m = Len(h) + 1
        BY <2>1, <4>1
      <4>2. CASE m # Len(h) + 1
        <5>1. m \in 1 .. Len(h)
          BY <2>1, <4>2
        <5> QED BY <2>1, <5>1
      <4> QED BY <4>1, <4>2
    <3>2. \A m \in 1 .. Len(h) : h[m] \in {k[e] : e \in 1 .. Len(h) + 1}
      <4> TAKE m \in 1 .. Len(h)
      <4>1. m \in 1 .. Len(h) + 1
        BY <2>1
      <4> QED BY <2>1, <4>1
    <3>3. n + 1 \in {k[e] : e \in 1 .. Len(h) + 1}
      <4>1. Len(h) + 1 \in 1 .. Len(h) + 1
        BY <2>1
      <4> QED BY <2>1, <4>1
    <3> QED BY <2>1, <3>1, <3>2, <3>3
  <2>3. {p \in 1 .. n + 1 : ForHost(came[p])} = {p \in 1 .. n : ForHost(came[p])} \cup {n + 1}
    BY <1>3
  <2>4. ASSUME NEW m \in 1 .. Len(k) - 1 PROVE k[m] < k[m + 1]
    <3>1. m \in 1 .. Len(h)
      BY <2>1
    <3>2. CASE m = Len(h)
      <4>1. h[m] \in has
        BY <2>1, <3>1
      <4>2. h[m] \in 1 .. n
        BY <1>1, <4>1
      <4>3. k[m] = h[m] /\ k[m + 1] = n + 1
        BY <2>1, <3>1, <3>2
      <4> QED BY <4>2, <4>3
    <3>3. CASE m # Len(h)
      <4>1. m \in 1 .. Len(h) - 1 /\ m + 1 \in 1 .. Len(h)
        <5>1. Len(h) \in Nat
          BY <2>1
        <5> QED BY ONLY <3>1, <3>3, <5>1
      <4> QED BY <1>1, <2>1, <3>1, <4>1
    <3> QED BY <3>2, <3>3
  <2>5. HostHas(k, n + 1)
    BY <1>1, <2>2, <2>3, <2>4 DEF HostHas
  <2> QED BY <1>3, <2>5 DEF k
<1> QED BY <1>2, <1>3

\* poll: what has been read goes back to the card, what is flagged to the host.
LEMMA NmPoll == ASSUME NmInv, Poll PROVE NmInv'
<1> DEFINE n == Len(came)
           C == Counted
<1>0. /\ Slots \in Nat /\ Slots >= 2 /\ n \in Nat /\ C \in Nat /\ pps \in Nat /\ printed \in Nat
      /\ came \in Seq(NmFrames) /\ slot \in [0 .. Slots - 1 -> SlotRecords] /\ host \in Seq(Nat)
  BY NmNumbers
<1>1. PICK G \in Nat : \E T \in Nat : RingAt(G, T)
  BY DEF NmInv
<1>2. PICK T \in Nat : RingAt(G, T)
  BY <1>1
<1>3. UNCHANGED <<slot, cur, filled, pps, printed, came>>
  BY DEF Poll
<1>4. Counted' = C
  BY <1>3 DEF Counted
<1>5. CASE UNCHANGED <<host, returned, tail, forward>>
  BY <1>0, <1>3, <1>4, <1>5, NmSame
<1>6. CASE /\ host' = GivenBack(returned, cur)[Span(returned, cur)]
           /\ returned' = cur /\ tail' = filled /\ forward' = FALSE
  <2>1. /\ G <= C /\ C <= T /\ T <= n /\ n < G + Slots
        /\ returned = G % Slots /\ cur = C % Slots /\ tail = T % Slots /\ filled = n % Slots
        /\ \A p \in G .. n - 1 : SlotHolds(p)
        /\ \A p \in G .. C - 1 : ForHost(came[p + 1]) => forward
        /\ HostHas(host, G)
    BY <1>2 DEF RingAt
  <2> DEFINE g == GivenBack(G % Slots, C % Slots)
             N == C - G
             S == {e \in Nat : e <= N => HostHas(g[e], G + e)}
  <2>2. ASSUME NEW p \in G .. C - 1
        PROVE  /\ slot[p % Slots].id = p + 1 /\ p < C
               /\ forward /\ slot[p % Slots].forward <=> ForHost(came[p + 1])
    <3>1. SlotHolds(p) /\ p < C
      BY <1>0, <2>1
    <3>2. slot[p % Slots].forward <=> ForHost(came[p + 1])
      <4> HIDE DEF C
      <4> QED BY <3>1 DEF SlotHolds, C
    <3> QED BY <2>1, <3>1, <3>2 DEF SlotHolds
  <2> HIDE DEF n, C
  <2>3. C < G + Slots /\ N \in Nat /\ G + N = C
    BY ONLY <1>0, <2>1, G \in Nat
  <2>4. /\ g \in [0 .. N -> Seq(Nat)] /\ g[0] = host
        /\ \A e \in 1 .. N : g[e] = IF forward /\ slot[((G + e) - 1) % Slots].forward
                                    THEN Append(g[e - 1], slot[((G + e) - 1) % Slots].id) ELSE g[e - 1]
    BY <1>0, <2>1, <2>3, GivenBackIs DEF NmInv
  <2>5. Span(G % Slots, C % Slots) = N
    BY <1>0, <2>1, <2>3, RingArithmetic
  <2> HIDE DEF g
  <2>6. 0 \in S
    <3>1. G + 0 = G
      OBVIOUS
    <3> QED BY <2>1, <2>4, <3>1
  <2>7. ASSUME NEW e \in Nat, e \in S PROVE e + 1 \in S
    <3> SUFFICES ASSUME e + 1 <= N PROVE HostHas(g[e + 1], G + (e + 1))
      OBVIOUS
    <3> DEFINE p == G + e
    <3>1. /\ p \in G .. C - 1 /\ p \in Nat /\ (G + (e + 1)) - 1 = p /\ G + (e + 1) = p + 1
          /\ e + 1 \in 1 .. N /\ (e + 1) - 1 = e /\ e \in 0 .. N /\ e <= N
      BY <1>0, <2>3
    <3>2. HostHas(g[e], p) /\ g[e] \in Seq(Nat)
      BY <2>4, <2>7, <3>1
    <3> HIDE DEF p, N
    <3>3. g[e + 1] = IF forward /\ slot[p % Slots].forward
                     THEN Append(g[e], slot[p % Slots].id) ELSE g[e]
      BY <2>4, <3>1
    <3>4. g[e + 1] = IF ForHost(came[p + 1]) THEN Append(g[e], p + 1) ELSE g[e]
      BY <2>2, <3>1, <3>3
    <3>5. HostHas(g[e + 1], p + 1)
      BY <3>1, <3>2, <3>4, HostNext
    <3> QED BY <3>1, <3>5
  <2>8. HostHas(g[N], C)
    <3>1. N \in S
      <4>1. Nat \subseteq S
        <5> HIDE DEF S
        <5> QED BY <2>6, <2>7, Induction
      <4> QED BY <2>3, <4>1
    <3>2. N <= N
      BY <2>3
    <3> QED BY <2>3, <3>1, <3>2
  <2>9. host' = g[N] /\ host' \in Seq(Nat)
    <3>1. N \in 0 .. N
      BY <2>3
    <3>2. host' = g[N]
      BY <1>6, <2>1, <2>5 DEF g
    <3> HIDE DEF N
    <3> QED BY <2>4, <3>1, <3>2
  <2>10. HostHas(host, C)'
    <3>1. HostHas(g[N], C) => HostHas(host', C)
      BY <2>9
    <3>2. came' = came /\ Counted' = Counted
      BY <1>3, <1>4 DEF C
    <3> QED BY <2>8, <2>9, <3>2 DEF HostHas, C
  <2>11. ASSUME NEW p \in C .. n - 1 PROVE SlotHolds(p)'
    <3>1. p \in G .. n - 1
      BY <1>0, <2>1
    <3>2. SlotHolds(p)
      BY <2>1, <3>1
    <3> QED BY <1>3, <1>4, <3>2 DEF SlotHolds, C
  <2>12. n < C + Slots /\ C <= n /\ C <= C /\ n <= n
    BY ONLY <1>0, <2>1, G \in Nat, T \in Nat
  <2>13. came' = came /\ Len(came') = n
    BY <1>3 DEF n
  <2>14. PICK A \in Nat, B \in Nat : A = C /\ B = n
    BY <1>0
  <2>15. RingAt(A, B)'
    <3>1. /\ A <= Counted' /\ Counted' <= B /\ B <= Len(came') /\ Len(came') < A + Slots
          /\ returned' = A % Slots /\ cur' = Counted' % Slots
          /\ tail' = B % Slots /\ filled' = Len(came') % Slots
      BY <1>3, <1>4, <1>6, <2>1, <2>12, <2>13, <2>14
    <3>2. \A p \in A .. Counted' - 1 : FALSE
      BY <1>0, <1>4, <2>14
    <3>3. \A p \in A .. Len(came') - 1 : SlotHolds(p)'
      BY <2>11, <2>13, <2>14
    <3>4. HostHas(host, A)'
      <4>1. C' = A
        BY <1>4, <2>14 DEF C
      <4> QED BY <2>10, <4>1
    <3> QED BY <3>1, <3>2, <3>3, <3>4 DEF RingAt
  <2>16. NmTypes'
    BY <1>3, <1>6, <2>9 DEF NmInv, NmTypes
  <2> QED BY <2>15, <2>16 DEF NmInv
<1> QED BY <1>5, <1>6 DEF Poll

\* Each step of the receiver, the card and the clock keeps the invariant.
LEMMA NmStep == NmInv /\ NmNext => NmInv'
<1> SUFFICES ASSUME NmInv, NmNext PROVE NmInv'
  OBVIOUS
<1>0. pps \in Nat /\ printed \in Nat
  BY NmNumbers
<1>1. CASE NmOpen \/ Second
  <2>1. UNCHANGED <<slot, forward, cur, tail, filled, returned, came, host, pps, printed>>
    BY <1>1 DEF NmOpen, Second
  <2>2. Counted' = Counted
    BY <2>1 DEF Counted
  <2> QED BY <1>0, <2>1, <2>2, NmSame
<1> QED BY <1>1, NmPoll, NmPrintRate, NmScan, NmArriveStep DEF NmNext, receiver

\* The other parts leave the ring alone.
LEMMA NmStutter == NmInv /\ UNCHANGED nmVars => NmInv'
<1> SUFFICES ASSUME NmInv, UNCHANGED nmVars PROVE NmInv'
  OBVIOUS
<1>0. pps \in Nat /\ printed \in Nat
  BY NmNumbers
<1>1. UNCHANGED <<slot, forward, cur, tail, filled, returned, came, host, pps, printed>>
  BY DEF nmVars
<1>2. Counted' = Counted
  BY <1>1 DEF Counted
<1> QED BY <1>0, <1>1, <1>2, NmSame

\* Positions are what the card's and the program's indices stand for.
LEMMA NmInvForwards == NmInv => ForwardsExactly
<1> SUFFICES ASSUME NmInv PROVE ForwardsExactly
  OBVIOUS
<1>0. Slots \in Nat /\ Slots >= 2 /\ Len(came) \in Nat /\ Counted \in Nat
  BY NmNumbers
<1>1. PICK G \in Nat : \E T \in Nat : RingAt(G, T)
  BY DEF NmInv
<1>2. PICK T \in Nat : RingAt(G, T)
  BY <1>1
<1> DEFINE n == Len(came)
           C == Counted
<1>3. /\ G <= C /\ C <= T /\ T <= n /\ n < G + Slots
      /\ returned = G % Slots /\ cur = C % Slots /\ filled = n % Slots
      /\ HostHas(host, G)
  BY <1>2 DEF RingAt
<1> HIDE DEF n, C
<1>4. C <= n /\ n < C + Slots /\ G <= n /\ n \in Nat /\ C \in Nat
  BY <1>0, <1>3 DEF n, C
<1>5. Span(cur, filled) = n - C /\ Span(returned, filled) = n - G
  BY <1>3, <1>4, RingArithmetic
<1>6. n - (n - C) = C /\ n - (n - G) = G
  BY ONLY <1>4, G \in Nat
<1>7. Before(cur) = C /\ Before(returned) = G
  BY <1>5, <1>6 DEF Before, n
<1> QED BY <1>3, <1>7 DEF ForwardsExactly, HostHas, C, Counted

PartsInv == (part = "loop" => LoopInv) /\ (part = "netmap" => NmInv)

\* Whenever signals come the receive loops print every packet once, no byte
\* less, and again exactly the bytes that a signal printed while a loop over a
\* batch held them; the netmap receiver counts every frame once and gives the host exactly
\* ARP and ICMP, while the card goes on writing into the ring: for any lengths
\* of datagrams, any number of signals and rings of any size.
THEOREM CountsAndForwards == Spec => []NothingUncounted
<1>1. Init => PartsInv
  BY LoopInit, NmInit DEF Init, PartsInv
<1>2. PartsInv /\ [Next]_vars => PartsInv'
  <2> SUFFICES ASSUME PartsInv, [Next]_vars PROVE PartsInv'
    OBVIOUS
  <2>1. CASE part = "loop" /\ LoopsNext /\ UNCHANGED part
    BY <2>1, LoopStep DEF PartsInv
  <2>2. CASE part = "xdp" /\ UNCHANGED part
    BY <2>2 DEF PartsInv
  <2>3. CASE part = "netmap" /\ NmNext /\ UNCHANGED part
    BY <2>3, NmStep DEF PartsInv
  <2>4. CASE UNCHANGED vars
    BY <2>4, LoopStutter, NmStutter DEF PartsInv, vars
  <2> QED BY <2>1, <2>2, <2>3, <2>4 DEF Next
<1>3. PartsInv => NothingUncounted
  BY LoopInvAccounts, NmInvForwards DEF PartsInv, NothingUncounted
<1> QED BY <1>1, <1>2, <1>3, PTL DEF Spec
=============================================================================
