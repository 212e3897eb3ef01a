------------------------- MODULE FuzznetlinkProofs -------------------------
(***************************************************************************)
(* fuzznetlink with any tests, any options and any number of runs: AFL and *)
(* the program stay in step, the map is that of the test, crashes are      *)
(* blamed on their test and the next test moves away from them.            *)
(***************************************************************************)
EXTENDS Fuzznetlink, FiniteSetTheorems, SequenceTheorems, WellFoundedInduction, TLAPS

\* The program between a request and its status.
Testing == {"load", "netns", "enable", "test", "disable", "map", "dmesg", "status"}
\* Its current run has a namespace.
Placed == {"enable", "test", "disable", "map", "dmesg", "status", "end"}
Waiting == {"open", "cycle", "dead", "end"}

Says(kind) == Len(st) = 1 /\ st[1].kind = kind

\* What is on its way between AFL and the program, and how far they have got.
InStep ==
    /\ apc = "hello" =>
          /\ ctl = 0 /\ request = 0 /\ verdicts = <<>> /\ run_no = 0
          /\ \/ pc = "welcome" /\ st = <<>>
             \/ pc \in {"open", "cycle", "dead"} /\ Says("hello")
    /\ apc = "ready" => st = <<>> /\ ctl = 0 /\ pc \in Waiting /\ request = Len(verdicts)
    /\ apc = "pid" =>
          /\ request = Len(verdicts) + 1
          /\ \/ ctl = 1 /\ st = <<>> /\ pc \in Waiting
             \/ ctl = 0 /\ Says("pid") /\ pc \in Testing \cup {"dead"}
             \/ /\ ctl = 0 /\ Len(st) = 2 /\ pc \in {"cycle", "end"}
                /\ st[1].kind = "pid" /\ st[2].kind = "status"
    /\ apc = "status" =>
          /\ request = Len(verdicts) + 1 /\ ctl = 0
          /\ \/ st = <<>> /\ pc \in Testing \cup {"dead"}
             \/ Says("status") /\ pc \in {"cycle", "end"}
    /\ apc = "stopped" => st = <<>> /\ pc \in Waiting /\ (ctl = 0 \/ pc \in {"dead", "end"})
    /\ pc \in Testing => run_no + 1 = request
    /\ pc \in Testing \ {"load"} => loaded = request
    /\ pc \in {"open", "cycle"} => run_no + ctl = request
    /\ \A k \in DOMAIN st : st[k].kind = "status" => st[k].input = request
    /\ \A k \in DOMAIN verdicts : verdicts[k].kind = "status" /\ verdicts[k].input = k

\* Outside AFL nothing is sent.
Alone ==
    /\ apc = "hello" /\ ctl = 0 /\ request = 0 /\ verdicts = <<>> /\ st = <<>>
    /\ loaded = 0
    /\ pc \in Testing => run_no < MaxRuns

\* Each run has its namespace, and no namespace is named before it is made.
Homes ==
    /\ pc # "dead" => Len(home) = run_no + (IF pc \in Placed THEN 1 ELSE 0)
    /\ pc = "dead" => Len(home) \in {run_no, run_no + 1}
    /\ \A k \in DOMAIN home : home[k] <= k
    /\ pc \in {"welcome", "open"} => run_no = 0

\* Coverage is that of the test, the map that of nothing or of the test.
Covering ==
    /\ pc = "test" => Len(trace) = 0
    /\ pc = "test" /\ tracing => cover = <<>>
    /\ pc \in {"test", "disable"} /\ ~state.no_kcov => tracing
    /\ state.no_kcov => cover = <<>> /\ kcov_len = 0 /\ ~tracing
    /\ pc = "disable" /\ ~state.no_kcov => cover = Upto(trace, COVER_SIZE - 1)
    /\ pc = "map" /\ ~state.no_kcov => SubSeq(cover, 1, kcov_len) = Upto(trace, COVER_SIZE - 1)
    /\ pc \in {"netns", "enable", "test", "disable"} => kcov_len = 0
    /\ pc \in Testing \ {"dmesg", "status"} /\ state.forksrv => afl_area = Clean
    /\ apc = "pid" /\ ctl = 1 => afl_area = Clean
    /\ trace \in Seq(Locations) /\ cover \in Seq(Locations)

\* A crash line of run i asks for this status.
Blames(i, value) ==
    i \notin overrun /\ (\E l \in DOMAIN log : log[l].crash /\ log[l].run = i
          /\ ~log[l].late) => value = 139

Blaming ==
    /\ \A i \in DOMAIN verdicts : Blames(i, verdicts[i].value)
    /\ \A k \in DOMAIN st : st[k].kind = "status" => Blames(st[k].input, st[k].value)
    /\ pc = "status" => Blames(run_no + 1, IF crashed THEN 139 ELSE 0)

\* The lines of the current test come after what was read before it, and none
\* is read without being noticed.
Reading ==
    /\ \A l \in DOMAIN log :
          log[l].run <= run_no + (IF pc \in {"disable", "map", "dmesg", "status", "end", "dead"}
                                  THEN 1 ELSE 0)
    /\ pc \in {"disable", "map", "dmesg"} =>
          \A l \in DOMAIN log : log[l].run = run_no + 1 =>
              \/ l >= seen
              \/ pc = "dmesg" /\ (log[l].crash => crashed)
    /\ pc \notin {"welcome", "open", "dead"} =>
          \A l \in DOMAIN log : l >= seen => log[l].run > 0 \/ log[l].late

\* Crash lines up to the s-th.
Lines(s) == {l \in DOMAIN log : l < s /\ log[l].crash /\ (log[l].run > 0 \/ log[l].late)}
Reported == {i \in DOMAIN verdicts : verdicts[i].value = 139}
OnItsWay == IF \E k \in DOMAIN st : st[k].kind = "status" /\ st[k].value = 139 THEN 1 ELSE 0
Found == IF pc \in {"dmesg", "status"} /\ crashed THEN 1 ELSE 0

\* For each report a crash line has been read.
Counting == Cardinality(Reported) + OnItsWay + Found <= Cardinality(Lines(seen))

\* A test that was said to crash has been left, or is going to be.
Moves(i) ==
    IF i + 1 \in DOMAIN home THEN home[i + 1] # home[i] \/ i + 1 \in denied
    ELSE force_new_netns
Moving ==
    /\ \A i \in DOMAIN verdicts : verdicts[i].value = 139 => Moves(i)
    /\ \A k \in DOMAIN st : st[k].kind = "status" /\ st[k].value = 139 => Moves(st[k].input)

IInv == /\ TypeOK /\ Homes /\ Covering /\ Blaming /\ Reading /\ Counting
        /\ Moving /\ MapIsTheTest
        /\ IF state.forksrv THEN InStep ELSE Alone

-----------------------------------------------------------------------------
(* Induction and what a fold computes.                                     *)

\* A set of natural numbers has a least element: intervals are well-founded.
LEMMA Least ==
    ASSUME NEW T \in SUBSET Nat, T # {}
    PROVE  \E x \in T : \A y \in T : ~(y < x)
<1> DEFINE R == StrictSubsetOrdering(Nat)
           F == FiniteSubsetsOf(Nat)
           U == {1 .. n : n \in T}
<1>1. IsWellFoundedOn(R, F)
  BY FS_StrictSubsetOrderingWellFounded
<1>2. U \subseteq F /\ U # {}
  <2>1. \A n \in Nat : IsFiniteSet(1 .. n) /\ 1 .. n \subseteq Nat
    BY FS_Interval
  <2> QED BY <2>1 DEF FiniteSubsetsOf
<1>3. \E x \in U : \A y \in U : ~(<<y, x>> \in R)
  <2> HIDE DEF R, F, U
  <2> QED BY <1>1, <1>2, WFMin
<1>4. PICK x \in T : \A y \in T : <<1 .. y, 1 .. x>> \notin R
  BY <1>3
<1>5. ASSUME NEW y \in T, y < x PROVE FALSE
  <2>1. 1 .. y \subseteq 1 .. x /\ x \in 1 .. x /\ x \notin 1 .. y /\ 1 .. x \subseteq Nat
    BY <1>5
  <2>2. <<1 .. y, 1 .. x>> \in R
    BY <2>1 DEF StrictSubsetOrdering
  <2> QED BY <1>4, <2>2
<1> QED BY <1>5

\* Induction, stated of a set: what holds at 0 and passes on holds of Nat.
LEMMA Induction ==
    ASSUME NEW S, 0 \in S, \A n \in Nat : n \in S => n + 1 \in S
    PROVE  Nat \subseteq S
<1> SUFFICES ASSUME Nat \ S # {} PROVE FALSE
  OBVIOUS
<1>1. PICK x \in Nat \ S : \A y \in Nat \ S : ~(y < x)
  BY Least
<1>2. x - 1 \in Nat /\ x - 1 < x
  BY <1>1
<1>3. x - 1 \in S
  BY <1>1, <1>2
<1>4. (x - 1) + 1 \in S
  BY <1>2, <1>3
<1> QED BY <1>1, <1>4

Area == [Cells -> 0 .. 2 * Middle - 1]

\* A counter stays in its width.
LEMMA Bumped ==
    ASSUME NEW area \in Area, NEW c
    PROVE  Bump(area, c) \in Area
<1>1. \A d \in Cells : area[d] \in 0 .. 2 * Middle - 1
  BY DEF Area
<1>2. Middle \in Nat \ {0}
  BY FuzznetlinkAssumption
<1>3. \A d \in Cells : Bump(area, c)[d] \in 0 .. 2 * Middle - 1
  BY <1>1, <1>2 DEF Bump, Area
<1> QED BY <1>3 DEF Bump, Area

\* Only one counter moves: by one, or back to the middle.
LEMMA BumpedAt ==
    ASSUME NEW area \in Area, NEW c \in Cells, NEW d
    PROVE  Bump(area, d)[c] =
              IF d # c THEN area[c] ELSE IF area[c] + 1 = 2 * Middle THEN Middle ELSE area[c] + 1
BY DEF Bump, Area

\* The fold takes the elements of an interval from its end.
LEMMA GreatestOf ==
    ASSUME NEW n \in Nat, NEW s \in SUBSET (1 .. n + 1), n + 1 \in s
    PROVE  Max(s) = n + 1
<1>1. \A x \in s : x \in Nat /\ x <= n + 1
  OBVIOUS
<1>2. Max(s) \in s /\ \A y \in s : Max(s) >= y
  <2>1. n + 1 \in s /\ \A y \in s : n + 1 >= y
    BY <1>1
  <2> QED BY <2>1 DEF Max
<1>3. Max(s) \in Nat /\ Max(s) <= n + 1 /\ Max(s) >= n + 1
  BY <1>1, <1>2
<1> QED BY <1>3

Filled(area, walk) == FoldLeft(Bump, area, walk)

\* f says what the fold has after each element of the sequence.
Folding(f, area, walk, n) ==
    /\ f \in [0 .. n -> Area] /\ f[0] = area /\ f[n] = Filled(area, walk)
    /\ \A k \in 1 .. n : f[k] = Bump(f[k - 1], walk[k])

\* FoldLeft takes one element of the sequence after the other.
LEMMA Folded ==
    ASSUME NEW area \in Area, NEW walk, NEW n \in Nat, DOMAIN walk = 1 .. n
    PROVE  \E f : Folding(f, area, walk, n)
<1> DEFINE Step(h, s) == IF s = {} THEN area ELSE Bump(h[s \ {Max(s)}], walk[Max(s)])
           Folds(h, m) == h = [s \in SUBSET (1 .. m) |-> Step(h, s)]
           S == {m \in Nat : \E h \in [SUBSET (1 .. m) -> Area] : Folds(h, m)}
<1>1. 0 \in S
  <2> DEFINE h == [s \in SUBSET (1 .. 0) |-> area]
  <2>1. h \in [SUBSET (1 .. 0) -> Area] /\ Folds(h, 0)
    OBVIOUS
  <2> QED BY <2>1
<1>2. ASSUME NEW m \in Nat, m \in S PROVE m + 1 \in S
  <2>1. PICK h \in [SUBSET (1 .. m) -> Area] : Folds(h, m)
    BY <1>2
  <2> DEFINE g == [s \in SUBSET (1 .. m + 1) |->
                      IF m + 1 \in s THEN Bump(h[s \ {m + 1}], walk[m + 1]) ELSE h[s]]
  <2>2. g \in [SUBSET (1 .. m + 1) -> Area]
    <3>1. ASSUME NEW s \in SUBSET (1 .. m + 1)
          PROVE  s \ {m + 1} \in SUBSET (1 .. m) /\ (m + 1 \notin s => s \in SUBSET (1 .. m))
      OBVIOUS
    <3> QED BY <3>1, Bumped
  <2>3. ASSUME NEW s \in SUBSET (1 .. m + 1) PROVE g[s] = Step(g, s)
    <3>1. CASE m + 1 \in s
      <4>1. Max(s) = m + 1
        BY <3>1, GreatestOf
      <4>2. s \ {m + 1} \in SUBSET (1 .. m) /\ m + 1 \notin s \ {m + 1}
        OBVIOUS
      <4> QED BY <3>1, <4>1, <4>2
    <3>2. CASE m + 1 \notin s
      <4>1. s \in SUBSET (1 .. m)
        BY <3>2
      <4>2. h[s] = Step(h, s)
        BY <2>1, <4>1
      <4>3. s \ {Max(s)} \in SUBSET (1 .. m + 1) /\ m + 1 \notin s \ {Max(s)}
        BY <3>2
      <4> QED BY <3>2, <4>1, <4>2, <4>3
    <3> QED BY <3>1, <3>2
  <2>4. Folds(g, m + 1)
    BY <2>2, <2>3
  <2> HIDE DEF g, Folds
  <2>5. \E k \in [SUBSET (1 .. m + 1) -> Area] : Folds(k, m + 1)
    BY <2>2, <2>4
  <2> QED BY <2>5
<1>3. PICK h \in [SUBSET (1 .. n) -> Area] : Folds(h, n)
  <2>1. n \in S
    <3> HIDE DEF S
    <3> QED BY <1>1, <1>2, Induction
  <2> QED BY <2>1
<1> DEFINE iter == CHOOSE k : Folds(k, n)
<1>4. Folds(iter, n)
  BY <1>3
<1>5. Filled(area, walk) = iter[1 .. n]
  BY DEF Filled, FoldLeft, MapThenFoldSet
<1> HIDE DEF iter
<1> DEFINE f == [k \in 0 .. n |-> iter[1 .. k]]
           T == {k \in Nat : k <= n => iter[1 .. k] \in Area}
<1>6. ASSUME NEW k \in 0 .. n
      PROVE  /\ k = 0 => iter[1 .. k] = area
             /\ k > 0 => iter[1 .. k] = Bump(iter[1 .. k - 1], walk[k])
  <2>1. 1 .. k \in SUBSET (1 .. n)
    OBVIOUS
  <2>2. iter[1 .. k] = Step(iter, 1 .. k)
    BY <1>4, <2>1
  <2>3. CASE k = 0
    BY <2>2, <2>3
  <2>4. CASE k > 0
    <3>1. Max(1 .. k) = k
      <4>1. PICK m \in Nat : k = m + 1
        <5>1. k - 1 \in Nat /\ k = (k - 1) + 1
          BY <2>4
        <5> QED BY <5>1
      <4>2. 1 .. k \in SUBSET (1 .. m + 1) /\ m + 1 \in 1 .. k
        BY <4>1
      <4> QED BY <4>1, <4>2, GreatestOf
    <3>2. (1 .. k) \ {k} = 1 .. k - 1 /\ 1 .. k # {}
      BY <2>4
    <3>3. iter[1 .. k] = Bump(iter[(1 .. k) \ {k}], walk[k])
      BY <2>2, <3>1, <3>2
    <3>4. iter[1 .. k] = Bump(iter[1 .. k - 1], walk[k])
      BY <3>2, <3>3, Zenon
    <3> QED BY <2>4, <3>4
  <2> QED BY <2>3, <2>4
<1>7. Nat \subseteq T
  <2>1. 0 \in T
    BY <1>6
  <2>2. ASSUME NEW k \in Nat, k \in T PROVE k + 1 \in T
    <3>1. ASSUME k + 1 <= n PROVE iter[1 .. k + 1] \in Area
      <4>1. iter[1 .. k] \in Area /\ k + 1 \in 0 .. n /\ (k + 1) - 1 = k
        BY <2>2, <3>1
      <4> QED BY <1>6, <4>1, Bumped
    <3> QED BY <3>1
  <2> HIDE DEF T
  <2> QED BY <2>1, <2>2, Induction
<1>8. f \in [0 .. n -> Area]
  BY <1>7
<1>9. f[0] = area /\ f[n] = Filled(area, walk)
  BY <1>5, <1>6
<1>10. \A k \in 1 .. n : f[k] = Bump(f[k - 1], walk[k])
  BY <1>6
<1> QED BY <1>8, <1>9, <1>10 DEF Folding

\* A cell of the map ends up with the number of steps to it, or in the
\* largest class.
LEMMA MapCounts ==
    ASSUME NEW walk \in Seq(Cells), NEW c \in Cells
    PROVE  LET steps == Cardinality({i \in DOMAIN walk : walk[i] = c})
               map == Filled(Clean, walk)
           IN  IF steps < 2 * Middle THEN map[c] = steps ELSE map[c] >= Middle
<1> DEFINE n == Len(walk)
           At(k) == {i \in 1 .. k : walk[i] = c}
           Right(map, steps) == IF steps < 2 * Middle THEN map[c] = steps ELSE map[c] >= Middle
<1>1. n \in Nat /\ DOMAIN walk = 1 .. n /\ \A k \in 1 .. n : walk[k] \in Cells
  OBVIOUS
<1>2. Middle \in Nat \ {0} /\ Clean \in Area
  BY FuzznetlinkAssumption DEF Area, Clean
<1>3. PICK f : Folding(f, Clean, walk, n)
  <2> HIDE DEF n
  <2> QED BY <1>1, <1>2, Folded
<1>4. \A k \in Nat : IsFiniteSet(At(k)) /\ Cardinality(At(k)) \in Nat
  <2>1. \A k \in Nat : IsFiniteSet(1 .. k) /\ At(k) \subseteq 1 .. k
    BY FS_Interval
  <2> QED BY <2>1, FS_Subset, FS_CardinalityType
<1> DEFINE S == {k \in Nat : k <= n => Right(f[k], Cardinality(At(k)))}
<1>5. 0 \in S
  <2>1. At(0) = {} /\ Cardinality({}) = 0
    BY FS_EmptySet
  <2>2. f[0][c] = 0
    BY <1>3 DEF Clean, Folding
  <2> QED BY <1>2, <2>1, <2>2
<1>6. ASSUME NEW k \in Nat, k \in S PROVE k + 1 \in S
  <2> SUFFICES ASSUME k + 1 <= n PROVE Right(f[k + 1], Cardinality(At(k + 1)))
    OBVIOUS
  <2>1. k \in 0 .. n /\ k + 1 \in 1 .. n /\ (k + 1) - 1 = k
    BY <1>1
  <2>2. f[k] \in Area /\ f[k + 1] = Bump(f[k], walk[k + 1])
    BY <1>3, <2>1 DEF Folding
  <2>3. Right(f[k], Cardinality(At(k)))
    BY <1>1, <1>6, <2>1
  <2>4. f[k][c] \in 0 .. 2 * Middle - 1
    BY <2>2 DEF Area
  <2>5. CASE walk[k + 1] = c
    <3>1. At(k + 1) = At(k) \cup {k + 1} /\ k + 1 \notin At(k)
      BY <2>5
    <3>2. Cardinality(At(k + 1)) = Cardinality(At(k)) + 1
      BY <1>4, <3>1, FS_AddElement
    <3>3. f[k + 1][c] = IF f[k][c] + 1 = 2 * Middle THEN Middle ELSE f[k][c] + 1
      BY <2>2, <2>5, BumpedAt
    <3>4. PICK m \in Nat : m = Cardinality(At(k))
      BY <1>4
    <3> HIDE DEF At
    <3>5. IF m < 2 * Middle THEN f[k][c] = m ELSE f[k][c] >= Middle
      BY <2>3, <3>4
    <3>6. IF m + 1 < 2 * Middle THEN f[k + 1][c] = m + 1 ELSE f[k + 1][c] >= Middle
      BY <1>2, <2>4, <3>3, <3>5
    <3> QED BY <3>2, <3>4, <3>6
  <2>6. CASE walk[k + 1] # c
    <3>1. At(k + 1) = At(k)
      BY <2>6
    <3>2. f[k + 1][c] = f[k][c]
      BY <2>2, <2>6, BumpedAt
    <3> QED BY <2>3, <3>1, <3>2
  <2> QED BY <2>5, <2>6
<1>7. n \in S
  <2> HIDE DEF S
  <2>1. Nat \subseteq S
    BY <1>5, <1>6, Induction
  <2> QED BY <1>1, <2>1
<1>8. Right(Filled(Clean, walk), Cardinality(At(n)))
  BY <1>1, <1>3, <1>7 DEF Folding
<1> QED BY <1>1, <1>8

\* Filling a map gives a map.
LEMMA FilledArea ==
    ASSUME NEW area \in Area, NEW walk \in Seq(Cells)
    PROVE  Filled(area, walk) \in Area
<1> DEFINE n == Len(walk)
<1>1. n \in Nat /\ DOMAIN walk = 1 .. n
  BY LenProperties
<1> HIDE DEF n
<1>2. PICK f : Folding(f, area, walk, n)
  BY <1>1, Folded
<1>3. f \in [0 .. n -> Area] /\ n \in 0 .. n /\ f[n] = Filled(area, walk)
  BY <1>1, <1>2 DEF Folding
<1> QED BY <1>3

\* A test's locations walk through cells of the map.
LEMMA Walked ==
    ASSUME NEW locs \in Seq(Locations)
    PROVE  Steps(locs) \in Seq(Cells) /\ DOMAIN Steps(locs) = DOMAIN locs
<1>1. DOMAIN locs = 1 .. Len(locs) /\ Len(locs) \in Nat
  BY LenProperties
<1>2. ASSUME NEW i \in 1 .. Len(locs)
      PROVE  Cell[IF i = 1 THEN Origin ELSE locs[i - 1], locs[i]] \in Cells
  <2>1. locs[i] \in Locations
    BY ElementOfSeq
  <2>2. i # 1 => locs[i - 1] \in Locations
    <3> SUFFICES ASSUME i # 1 PROVE locs[i - 1] \in Locations
      OBVIOUS
    <3>1. i - 1 \in 1 .. Len(locs)
      BY <1>1
    <3> QED BY <3>1, ElementOfSeq
  <2> QED BY <2>1, <2>2, FuzznetlinkAssumption
<1>3. Steps(locs) \in [1 .. Len(locs) -> Cells]
  BY <1>1, <1>2 DEF Steps
<1>4. Steps(locs) \in Seq(Cells)
  BY <1>1, <1>3
<1> QED BY <1>1, <1>4 DEF Steps

-----------------------------------------------------------------------------
(* The invariant, part by part.                                            *)

ProgramTypes ==
    /\ state \in Options
    /\ pc \in {"welcome", "open", "cycle", "load", "netns", "enable", "test", "disable", "map",
              "dmesg", "status", "end", "dead"}
    /\ run_no \in 0 .. MaxRuns /\ loaded \in 0 .. request /\ crashed \in BOOLEAN
    /\ force_new_netns \in BOOLEAN /\ tracing \in BOOLEAN
AflTypes ==
    /\ apc \in {"hello", "ready", "pid", "status", "stopped"}
    /\ request \in 0 .. MaxRuns /\ ctl \in 0 .. 1
    /\ st \in Seq(Message) /\ Len(st) <= 2 /\ verdicts \in Seq(Message)
KcovTypes == kcov_len \in 0 .. Len(cover) /\ Len(cover) < COVER_SIZE /\ afl_area \in Area
NsTypes ==
    /\ home \in Seq(0 .. MaxRuns) /\ ns \in 0 .. Len(home)
    /\ denied \subseteq DOMAIN home /\ overrun \subseteq DOMAIN home
LogTypes == log \in Seq(Line) /\ seen \in 1 .. Len(log) + 1

\* The type invariant in its parts.
LEMMA TypeParts == TypeOK <=> ProgramTypes /\ AflTypes /\ KcovTypes /\ NsTypes /\ LogTypes
BY DEF TypeOK, ProgramTypes, AflTypes, KcovTypes, NsTypes, LogTypes, Area

\* In the middle of a test no status is on its way.
LEMMA AtWork ==
    ASSUME IInv, pc \in Testing
    PROVE  /\ run_no \in 0 .. MaxRuns - 1 /\ Len(verdicts) <= run_no
           /\ st = <<>> \/ Says("pid")
           /\ state.forksrv /\ pc # "load" => loaded = run_no + 1
           /\ state.forksrv => apc \in {"pid", "status"} /\ ctl = 0
<1> USE FuzznetlinkAssumption DEF IInv, Testing
<1>1. CASE state.forksrv
  <2>1. apc \in {"pid", "status"}
    BY <1>1 DEF InStep, TypeOK, Waiting
  <2>2. run_no + 1 = request /\ request = Len(verdicts) + 1 /\ (pc # "load" => loaded = request)
    BY <1>1, <2>1 DEF InStep
  <2>3. ctl = 0 /\ (st = <<>> \/ Says("pid"))
    BY <1>1, <2>1 DEF InStep, Waiting, Says
  <2> QED BY <1>1, <2>1, <2>2, <2>3 DEF TypeOK
<1>2. CASE ~state.forksrv
  BY <1>2 DEF Alone, TypeOK
<1> QED BY <1>1, <1>2

\* What reading and writing make of a pipe.
LEMMA Pipe ==
    ASSUME NEW S, NEW s \in Seq(S)
    PROVE  /\ Len(s) = 1 => Tail(s) = <<>>
           /\ Len(s) = 2 => Len(Tail(s)) = 1 /\ Tail(s)[1] = s[2]
           /\ s # <<>> => Head(s) = s[1] /\ Head(s) \in S /\ Tail(s) \in Seq(S)
               /\ Len(Tail(s)) = Len(s) - 1
           /\ \A m \in S :
                 /\ Append(s, m) \in Seq(S) /\ Len(Append(s, m)) = Len(s) + 1
                 /\ Append(s, m)[Len(s) + 1] = m
                 /\ \A k \in 1 .. Len(s) : Append(s, m)[k] = s[k]
<1>1. \A m \in S :
         /\ Append(s, m) \in Seq(S) /\ Len(Append(s, m)) = Len(s) + 1
         /\ Append(s, m)[Len(s) + 1] = m
         /\ \A k \in 1 .. Len(s) : Append(s, m)[k] = s[k]
  BY AppendProperties
<1>2. s # <<>> => /\ Head(s) = s[1] /\ Head(s) \in S /\ Tail(s) \in Seq(S)
                  /\ Len(Tail(s)) = Len(s) - 1
                  /\ \A k \in 1 .. Len(Tail(s)) : Tail(s)[k] = s[k + 1]
  <2>1. s # <<>> => Head(s) = s[1]
    OBVIOUS
  <2> QED BY <2>1, HeadTailProperties
<1>3. ASSUME Len(s) = 1 PROVE Tail(s) = <<>>
  <2>1. s # <<>>
    BY <1>3, EmptySeq
  <2>2. Tail(s) \in Seq(S) /\ Len(Tail(s)) = 0
    BY <1>2, <1>3, <2>1
  <2> QED BY <2>2, EmptySeq
<1>4. ASSUME Len(s) = 2 PROVE Len(Tail(s)) = 1 /\ Tail(s)[1] = s[2]
  <2>1. s # <<>>
    BY <1>4, EmptySeq
  <2>2. Len(Tail(s)) = 1
    BY <1>2, <1>4, <2>1
  <2>3. 1 \in 1 .. Len(Tail(s))
    BY <2>2
  <2>4. Tail(s)[1] = s[1 + 1]
    BY <1>2, <2>1, <2>3
  <2> QED BY <2>2, <2>4
<1> QED BY <1>1, <1>2, <1>3, <1>4

\* The program writes messages.
LEMMA Messages ==
    ASSUME TypeOK
    PROVE  /\ [kind |-> "hello", input |-> 0, value |-> 0] \in Message
           /\ [kind |-> "pid", input |-> request, value |-> 0] \in Message
           /\ [kind |-> "status", input |-> loaded,
               value |-> IF crashed THEN 139 ELSE 0] \in Message
BY FuzznetlinkAssumption DEF TypeOK, Message

\* No step leaves the types; the pipes hold what they may hold.
LEMMA ProgramTypesStep == IInv /\ [Next]_vars => ProgramTypes'
<1> SUFFICES ASSUME IInv, [Next]_vars PROVE ProgramTypes'
  OBVIOUS
<1> USE FuzznetlinkAssumption DEF IInv, vars, aflVars, kcovVars, nsVars, logVars
<1>1. CASE \/ Welcome \/ OpenKernel \/ forksrv_cycle
  BY <1>1, TypeParts, AtWork DEF Welcome, OpenKernel, forksrv_cycle, ProgramTypes, AflTypes,
                                 Testing
<1>2. CASE \/ Hangup \/ Fatal \/ CycleNetns
  BY <1>2, TypeParts, AtWork DEF Hangup, Fatal, CycleNetns, ProgramTypes, AflTypes, Testing
<1>3. CASE \/ KeepNetns \/ kcov_enable \/ Test
  BY <1>3, TypeParts, AtWork DEF KeepNetns, kcov_enable, Test, ProgramTypes, AflTypes,
                                 Testing
<1>4. CASE \/ kcov_disable \/ FillMap \/ ReadKmsg
  BY <1>4, TypeParts, AtWork DEF kcov_disable, FillMap, ReadKmsg, ProgramTypes, AflTypes,
                                 Testing
<1>5. CASE \/ KmsgEmpty \/ KmsgOverrun \/ forksrv_status
  BY <1>5, TypeParts, AtWork DEF KmsgEmpty, KmsgOverrun, forksrv_status, ProgramTypes,
                                 AflTypes, Testing
<1>6. CASE LateLine
  BY <1>6, TypeParts, AtWork DEF LateLine, ProgramTypes, AflTypes, Testing
<1>7. CASE \/ state.forksrv /\ (AflHello \/ AflRequest \/ AflPid \/ AflStatus \/ AflStop)
           \/ UNCHANGED vars
  BY <1>7, TypeParts, AtWork DEF AflHello, AflRequest, AflPid, AflStatus, AflStop,
                                 ProgramTypes, AflTypes, Testing
<1>8. CASE LoadInput
  BY <1>8, TypeParts DEF LoadInput, ProgramTypes, AflTypes
<1> QED BY <1>1, <1>2, <1>3, <1>4, <1>5, <1>6, <1>7, <1>8 DEF Next, Program, Afl, AflReads

LEMMA AflTypesStep == IInv /\ [Next]_vars => AflTypes'
<1> SUFFICES ASSUME IInv, [Next]_vars PROVE AflTypes'
  OBVIOUS
<1> USE FuzznetlinkAssumption DEF IInv, vars, aflVars, kcovVars, nsVars, logVars
<1>1. CASE state.forksrv /\ AflStop
  BY <1>1, TypeParts DEF AflStop, AflTypes
<1>2. CASE Welcome
  <2>1. st = <<>>
    BY <1>2 DEF Welcome, InStep, Alone, TypeOK, Waiting, Testing
  <2>2. st' \in Seq(Message) /\ Len(st') <= 2
    <3>1. st = <<>> /\ st \in Seq(Message) /\ Len(st) = 0
      BY <2>1, EmptySeq, TypeParts DEF AflTypes
    <3> QED BY <1>2, <3>1, Pipe, Messages DEF Welcome, Tell
  <2> QED BY <1>2, <2>2, TypeParts DEF Welcome, AflTypes
<1>3. CASE \/ OpenKernel \/ Hangup \/ Fatal \/ CycleNetns \/ KeepNetns
           \/ kcov_enable \/ Test \/ kcov_disable \/ FillMap \/ ReadKmsg
           \/ KmsgEmpty \/ KmsgOverrun \/ LateLine \/ UNCHANGED vars
  <2>1. UNCHANGED <<apc, request, ctl, st, verdicts>>
    BY <1>3 DEF OpenKernel, Hangup, Fatal, CycleNetns, KeepNetns, kcov_enable, Test,
                kcov_disable, FillMap, ReadKmsg, KmsgEmpty, KmsgOverrun, LateLine
  <2> QED BY <2>1, TypeParts DEF AflTypes
<1>4. CASE forksrv_cycle
  <2>1. st = <<>>
    BY <1>4 DEF forksrv_cycle, InStep, Alone, TypeOK, Waiting, Testing, Says
  <2>2. st' \in Seq(Message) /\ Len(st') <= 2
    <3>1. st = <<>> /\ st \in Seq(Message) /\ Len(st) = 0
      BY <2>1, EmptySeq, TypeParts DEF AflTypes
    <3> QED BY <1>4, <3>1, Pipe, Messages DEF forksrv_cycle, Tell
  <2>3. ctl' \in 0 .. 1
    <3>1. ctl \in 0 .. 1 /\ ctl' \in {ctl, ctl - 1} /\ (ctl' = ctl - 1 => ctl > 0)
      BY <1>4, TypeParts DEF forksrv_cycle, AflTypes
    <3> QED BY <3>1
  <2> QED BY <1>4, <2>2, <2>3, TypeParts DEF forksrv_cycle, AflTypes
<1>5. CASE LoadInput
  BY <1>5, TypeParts DEF LoadInput, AflTypes
<1>6. CASE forksrv_status
  <2>1. Len(st) <= 1 /\ st \in Seq(Message)
    <3>1. st = <<>> \/ Says("pid")
      <4> HIDE DEF IInv
      <4> QED BY <1>6, AtWork DEF forksrv_status, Testing, IInv
    <3>2. st \in Seq(Message)
      BY TypeParts DEF AflTypes
    <3>3. Len(st) = 0 \/ Len(st) = 1
      <4> HIDE DEF IInv
      <4> QED BY <3>1, EmptySeq DEF Says
    <3>4. CASE Len(st) = 0
      BY <3>2, <3>4
    <3>5. CASE Len(st) = 1
      BY <3>2, <3>5
    <3> QED BY <3>3, <3>4, <3>5
  <2>2. st' \in Seq(Message) /\ Len(st') <= 2
    <3> HIDE DEF IInv
    <3> QED BY <1>6, <2>1, Pipe, Messages DEF forksrv_status, Tell, IInv
  <2> QED BY <1>6, <2>2, TypeParts DEF forksrv_status, AflTypes
<1>7. CASE state.forksrv /\ AflHello
  <2>1. Tail(st) \in Seq(Message) /\ Len(Tail(st)) <= 2
    BY <1>7, Pipe DEF AflHello, TypeOK
  <2> QED BY <1>7, <2>1, TypeParts DEF AflHello, AflTypes
<1>8. CASE state.forksrv /\ AflRequest
  <2>1. ctl = 0
    BY <1>8 DEF AflRequest, InStep
  <2> QED BY <1>8, <2>1, TypeParts DEF AflRequest, AflTypes
<1>9. CASE state.forksrv /\ AflPid
  <2>1. Tail(st) \in Seq(Message) /\ Len(Tail(st)) <= 2
    BY <1>9, Pipe DEF AflPid, TypeOK
  <2> QED BY <1>9, <2>1, TypeParts DEF AflPid, AflTypes
<1>10. CASE state.forksrv /\ AflStatus
  <2>1. Head(st) \in Message /\ Tail(st) \in Seq(Message) /\ Len(Tail(st)) <= 2
    BY <1>10, Pipe DEF AflStatus, TypeOK
  <2>2. verdicts' \in Seq(Message)
    BY <1>10, <2>1, Pipe DEF AflStatus, TypeOK
  <2> QED BY <1>10, <2>1, <2>2, TypeParts DEF AflStatus, AflTypes
<1> QED BY <1>1, <1>2, <1>3, <1>4, <1>5, <1>6, <1>7, <1>8, <1>9, <1>10 DEF Next, Program, Afl,
     AflReads

LEMMA KcovTypesStep == IInv /\ [Next]_vars => KcovTypes'
<1> SUFFICES ASSUME IInv, [Next]_vars PROVE KcovTypes'
  OBVIOUS
<1> USE FuzznetlinkAssumption DEF IInv, vars, aflVars, kcovVars, nsVars, logVars
<1>1. CASE LoadInput
  BY <1>1, TypeParts DEF LoadInput, KcovTypes, Area, Recorded, Restarted, Upto, Clean,
                         Covering
<1>2. CASE kcov_enable
  BY <1>2, TypeParts DEF kcov_enable, KcovTypes, Area, Recorded, Restarted, Upto, Clean,
                         Covering
<1>3. CASE Test
  BY <1>3, TypeParts DEF Test, KcovTypes, Area, Recorded, Restarted, Upto, Clean, Covering
<1>4. CASE kcov_disable
  BY <1>4, TypeParts DEF kcov_disable, KcovTypes, Area, Recorded, Restarted, Upto, Clean,
                         Covering
<1>5. CASE state.forksrv /\ AflRequest
  BY <1>5, TypeParts DEF AflRequest, KcovTypes, Area, Recorded, Restarted, Upto, Clean,
                         Covering
<1>6. CASE \/ Welcome \/ OpenKernel \/ forksrv_cycle \/ Hangup \/ Fatal
           \/ CycleNetns \/ KeepNetns \/ ReadKmsg \/ KmsgEmpty \/ KmsgOverrun
           \/ forksrv_status \/ LateLine
           \/ state.forksrv /\ (AflHello \/ AflPid \/ AflStatus \/ AflStop)
           \/ UNCHANGED vars
  <2>1. UNCHANGED <<kcov_len, cover, afl_area>>
    BY <1>6 DEF Welcome, OpenKernel, forksrv_cycle, Hangup, Fatal, CycleNetns, KeepNetns,
                ReadKmsg, KmsgEmpty, KmsgOverrun, forksrv_status, LateLine, AflHello,
                AflPid, AflStatus, AflStop
  <2> QED BY <2>1, TypeParts DEF KcovTypes
<1>7. CASE FillMap
  <2>1. SubSeq(cover, 1, kcov_len) \in Seq(Locations)
    BY TypeParts DEF KcovTypes, Covering
  <2>2. afl_area' \in Area
    BY <1>7, <2>1, TypeParts, Walked, FilledArea DEF FillMap, Filled, KcovTypes
  <2> QED BY <1>7, <2>2, TypeParts DEF FillMap, KcovTypes
<1> QED BY <1>1, <1>2, <1>3, <1>4, <1>5, <1>6, <1>7 DEF Next, Program, Afl, AflReads

LEMMA NsTypesStep == IInv /\ [Next]_vars => NsTypes'
<1> SUFFICES ASSUME IInv, [Next]_vars PROVE NsTypes'
  OBVIOUS
<1> USE FuzznetlinkAssumption DEF IInv, vars, aflVars, kcovVars, nsVars, logVars
<1>1. CASE CycleNetns
  BY <1>1, TypeParts, AtWork DEF CycleNetns, NsTypes, Homes, Placed, ProgramTypes, Testing
<1>2. CASE KeepNetns
  BY <1>2, TypeParts, AtWork DEF KeepNetns, NsTypes, Homes, Placed, ProgramTypes, Testing
<1>3. CASE KmsgOverrun
  BY <1>3, TypeParts, AtWork DEF KmsgOverrun, NsTypes, Homes, Placed, ProgramTypes, Testing
<1>4. CASE \/ Welcome \/ OpenKernel \/ forksrv_cycle \/ Hangup \/ Fatal \/ LoadInput
           \/ kcov_enable \/ Test \/ kcov_disable \/ FillMap \/ ReadKmsg
           \/ KmsgEmpty \/ forksrv_status \/ LateLine
           \/ state.forksrv /\ (AflHello \/ AflRequest \/ AflPid \/ AflStatus \/ AflStop)
           \/ UNCHANGED vars
  <2>1. UNCHANGED <<home, ns, denied, overrun>>
    BY <1>4 DEF Welcome, OpenKernel, forksrv_cycle, Hangup, Fatal, LoadInput, kcov_enable,
                Test, kcov_disable, FillMap, ReadKmsg, KmsgEmpty, forksrv_status, LateLine,
                AflHello, AflRequest, AflPid, AflStatus, AflStop
  <2> QED BY <2>1, TypeParts DEF NsTypes
<1> QED BY <1>1, <1>2, <1>3, <1>4 DEF Next, Program, Afl, AflReads

LEMMA LogTypesStep == IInv /\ [Next]_vars => LogTypes'
<1> SUFFICES ASSUME IInv, [Next]_vars PROVE LogTypes'
  OBVIOUS
<1> USE FuzznetlinkAssumption DEF IInv, vars, aflVars, kcovVars, nsVars, logVars
<1>1. CASE OpenKernel
  BY <1>1, AtWork, TypeParts DEF OpenKernel, LogTypes, ProgramTypes, Testing, Line, Oldest
<1>2. CASE ReadKmsg
  BY <1>2, AtWork, TypeParts DEF ReadKmsg, LogTypes, ProgramTypes, Testing, Line, Oldest
<1>3. CASE KmsgOverrun
  BY <1>3, AtWork, TypeParts DEF KmsgOverrun, LogTypes, ProgramTypes, Testing, Line, Oldest
<1>4. CASE LateLine
  BY <1>4, AtWork, TypeParts DEF LateLine, LogTypes, ProgramTypes, Testing, Line, Oldest
<1>5. CASE \/ Welcome \/ forksrv_cycle \/ Hangup \/ Fatal \/ LoadInput \/ CycleNetns
           \/ KeepNetns \/ kcov_enable \/ kcov_disable \/ FillMap \/ KmsgEmpty
           \/ forksrv_status
           \/ state.forksrv /\ (AflHello \/ AflRequest \/ AflPid \/ AflStatus \/ AflStop)
           \/ UNCHANGED vars
  <2>1. UNCHANGED <<log, seen>>
    BY <1>5 DEF Welcome, forksrv_cycle, Hangup, Fatal, LoadInput, CycleNetns, KeepNetns,
                kcov_enable, kcov_disable, FillMap, KmsgEmpty, forksrv_status, AflHello,
                AflRequest, AflPid, AflStatus, AflStop
  <2> QED BY <2>1, TypeParts DEF LogTypes
<1>6. CASE Test
  <2>1. run_no + 1 \in 0 .. MaxRuns
    BY <1>6, AtWork DEF Test, Testing
  <2>2. PICK t \in Tests : log' = log \o [i \in DOMAIN t.lines |->
                              [crash |-> t.lines[i], run |-> run_no + 1, late |-> FALSE]]
    BY <1>6 DEF Test
  <2> DEFINE new == [i \in DOMAIN t.lines |-> [crash |-> t.lines[i], run |-> run_no + 1,
        late |-> FALSE]]
  <2>3. t.lines \in Seq(BOOLEAN)
    OBVIOUS
  <2>4. DOMAIN t.lines = 1 .. Len(t.lines) /\ Len(t.lines) \in Nat
    BY <2>3, LenProperties
  <2>5. \A i \in 1 .. Len(t.lines) : t.lines[i] \in BOOLEAN
    BY <2>3, ElementOfSeq
  <2>6. new \in [1 .. Len(t.lines) -> Line]
    BY <2>1, <2>4, <2>5 DEF Line
  <2>7. new \in Seq(Line)
    BY <2>4, <2>6
  <2>8. log' \in Seq(Line) /\ Len(log') >= Len(log)
    <3>1. log \in Seq(Line) /\ log' = log \o new
      BY <2>2, TypeParts DEF LogTypes
    <3> HIDE DEF new
    <3>2. Len(log') = Len(log) + Len(new) /\ log' \in Seq(Line)
      BY <2>7, <3>1, ConcatProperties
    <3> QED BY <2>7, <3>1, <3>2, LenProperties
  <2> QED BY <1>6, <2>8, TypeParts DEF Test, LogTypes
<1> QED BY <1>1, <1>2, <1>3, <1>4, <1>5, <1>6 DEF Next, Program, Afl, AflReads

-----------------------------------------------------------------------------
(* AFL and the program; namespaces.                                        *)

\* Each side answers what the other has said.
LEMMA InStepStep == IInv /\ [Next]_vars => (state.forksrv => InStep)'
<1> SUFFICES ASSUME IInv, [Next]_vars PROVE (state.forksrv => InStep)'
  OBVIOUS
<1> USE FuzznetlinkAssumption DEF IInv, vars, aflVars, kcovVars, nsVars, logVars
<1>1. CASE OpenKernel
  BY <1>1 DEF OpenKernel, InStep, Testing, Waiting, Says, TypeOK
<1>2. CASE Hangup
  BY <1>2 DEF Hangup, InStep, Testing, Waiting, Says, TypeOK
<1>3. CASE Fatal
  BY <1>3 DEF Fatal, InStep, Testing, Waiting, Says, TypeOK
<1>4. CASE LoadInput
  BY <1>4 DEF LoadInput, InStep, Testing, Waiting, Says, TypeOK
<1>5. CASE Welcome
  <2> SUFFICES ASSUME state.forksrv PROVE InStep'
    BY <1>5 DEF Welcome
  <2>1. st = <<>> /\ ctl = 0 /\ apc = "hello" /\ request = 0 /\ verdicts = <<>> /\ run_no = 0
    BY <1>5 DEF Welcome, InStep, TypeOK, Waiting, Testing, Says
  <2>2. st \in Seq(Message) /\ Len(st) = 0
    BY <2>1, EmptySeq, TypeParts DEF AflTypes
  <2>3. Len(st') = 1 /\ st'[1].kind = "hello"
    <3> HIDE DEF IInv
    <3> QED BY <1>5, <2>1, <2>2, Pipe, Messages DEF Welcome, Tell, IInv
  <2> QED BY <1>5, <2>1, <2>3 DEF Welcome, InStep, Testing, Waiting, Says
<1>6. CASE forksrv_cycle
  <2> SUFFICES ASSUME state.forksrv PROVE InStep'
    BY <1>6 DEF forksrv_cycle
  <2>1. ctl = 1 /\ st = <<>> /\ apc = "pid" /\ run_no + 1 = request
    BY <1>6 DEF forksrv_cycle, InStep, TypeOK, Waiting, Testing, Says
  <2>2. st \in Seq(Message) /\ Len(st) = 0
    BY <2>1, EmptySeq, TypeParts DEF AflTypes
  <2>3. Len(st') = 1 /\ st'[1].kind = "pid"
    <3> HIDE DEF IInv
    <3> QED BY <1>6, <2>1, <2>2, Pipe, Messages DEF forksrv_cycle, Tell, IInv
  <2> QED BY <1>6, <2>1, <2>3 DEF forksrv_cycle, InStep, Testing, Waiting, Says
<1>7. CASE \/ CycleNetns \/ KeepNetns \/ kcov_enable \/ Test \/ kcov_disable
           \/ FillMap \/ ReadKmsg \/ KmsgEmpty \/ KmsgOverrun
  <2>1. /\ UNCHANGED <<state, run_no, loaded, apc, request, ctl, st, verdicts>>
        /\ pc \in Testing \ {"load"} /\ pc' \in Testing \ {"load"}
    BY <1>7 DEF CycleNetns, KeepNetns, kcov_enable, Test, kcov_disable, FillMap, ReadKmsg,
                KmsgEmpty, KmsgOverrun, Testing
  <2> QED BY <2>1 DEF InStep, Testing, Waiting, Says
<1>8. CASE forksrv_status
  <2> SUFFICES ASSUME state.forksrv PROVE InStep'
    BY <1>8 DEF forksrv_status
  <2> DEFINE m == [kind |-> "status", input |-> loaded, value |-> IF crashed THEN 139 ELSE 0]
  <2>1. /\ st = <<>> \/ Says("pid")
        /\ loaded = run_no + 1 /\ request = run_no + 1 /\ apc \in {"pid", "status"}
        /\ run_no \in Nat /\ ctl = 0
    BY <1>8, AtWork DEF forksrv_status, Testing, InStep
  <2>2. /\ apc = "status" => st = <<>>
        /\ apc = "pid" => Says("pid")
    BY <1>8, <2>1 DEF forksrv_status, Testing, InStep, Says, Waiting
  <2>3. st \in Seq(Message) /\ m \in Message /\ st' = Append(st, m)
    BY <1>8, Messages DEF forksrv_status, Tell, TypeOK
  <2>4. /\ pc' \in {"cycle", "end"} /\ (pc' = "cycle" => run_no' = request)
        /\ ctl' = 0 /\ UNCHANGED <<apc, request, verdicts, state>>
    BY <1>8, <2>1 DEF forksrv_status
  <2>5. request = Len(verdicts) + 1
        /\ \A k \in DOMAIN verdicts : verdicts[k].kind = "status" /\ verdicts[k].input = k
    BY <2>1 DEF InStep
  <2> HIDE DEF IInv
  <2>6. CASE apc = "status"
    <3>1. Len(st') = 1 /\ st'[1] = m
      BY <2>2, <2>3, <2>6, Pipe, EmptySeq
    <3>2. DOMAIN st' = {1} /\ st'[1].kind = "status" /\ st'[1].input = request
      <4>1. st' \in Seq(Message)
        BY <2>3, Pipe
      <4> QED BY <2>1, <3>1, <4>1, LenProperties
    <3> QED BY <2>4, <2>5, <2>6, <3>1, <3>2 DEF InStep, Testing, Waiting, Says
  <2>7. CASE apc = "pid"
    <3>1. Len(st') = 2 /\ st'[1] = st[1] /\ st'[2] = m
      BY <2>2, <2>3, <2>7, Pipe DEF Says
    <3>2. /\ DOMAIN st' = {1, 2} /\ st'[1].kind = "pid"
          /\ st'[2].kind = "status" /\ st'[2].input = request
      <4>1. st' \in Seq(Message)
        BY <2>3, Pipe
      <4> QED BY <2>1, <2>2, <2>7, <3>1, <4>1, LenProperties DEF Says
    <3> QED BY <2>4, <2>5, <2>7, <3>1, <3>2 DEF InStep, Testing, Waiting, Says
  <2> QED BY <2>1, <2>6, <2>7
<1>9. CASE \/ LateLine
           \/ state.forksrv /\ AflStop
           \/ UNCHANGED vars
  <2>1. /\ UNCHANGED <<state, pc, run_no, loaded, request, ctl, st, verdicts>>
        /\ \/ apc' = apc
           \/ apc' = "stopped" /\ (apc = "ready" \/ (st = <<>> /\ pc \in {"dead", "end"}))
    BY <1>9 DEF LateLine, AflStop
  <2> QED BY <2>1 DEF InStep, Testing, Waiting, Says
<1>10. CASE state.forksrv /\ AflHello
  <2>1. Len(st) = 1 /\ request = 0 /\ Len(verdicts) = 0
    BY <1>10 DEF AflHello, InStep, Says, TypeOK
  <2>2. st' = <<>>
    BY <1>10, <2>1, Pipe DEF AflHello, TypeOK
  <2> QED BY <1>10, <2>1, <2>2 DEF AflHello, InStep, Testing, Waiting, Says
<1>11. CASE state.forksrv /\ AflRequest
  <2>1. st = <<>> /\ ctl = 0 /\ pc \in Waiting /\ request = Len(verdicts)
    BY <1>11 DEF AflRequest, InStep
  <2> QED BY <1>11, <2>1 DEF AflRequest, InStep, Testing, Waiting, TypeOK
<1>12. CASE state.forksrv /\ AflPid
  <2>1. st \in Seq(Message)
    BY DEF TypeOK
  <2>2. CASE Len(st) = 1
    <3>1. st' = <<>>
      BY <1>12, <2>1, <2>2, Pipe DEF AflPid
    <3> QED BY <1>12, <2>2, <3>1 DEF AflPid, InStep, Testing, Waiting, Says
  <2>3. CASE Len(st) = 2
    <3>1. st' \in Seq(Message) /\ Len(st') = 1 /\ st'[1] = st[2] /\ DOMAIN st = 1 .. 2
      BY <1>12, <2>1, <2>3, Pipe, LenProperties DEF AflPid
    <3>2. DOMAIN st' = 1 .. 1 /\ 2 \in DOMAIN st
      BY <3>1, LenProperties
    <3>3. st[2].kind = "status" /\ pc \in {"cycle", "end"} /\ ctl = 0
          /\ request = Len(verdicts) + 1
      BY <1>12, <2>3 DEF AflPid, InStep, Says
    <3>4. st[2].input = request
      BY <1>12, <3>2, <3>3 DEF InStep
    <3>5. Says("status")' /\ \A k \in DOMAIN st' : st'[k].input = request
      BY <3>1, <3>2, <3>3, <3>4 DEF Says
    <3> QED BY <1>12, <3>3, <3>5 DEF AflPid, InStep, Testing, Waiting
  <2> QED BY <1>12, <2>2, <2>3 DEF AflPid, InStep, Says
<1>13. CASE state.forksrv /\ AflStatus
  <2>1. Says("status") /\ request = Len(verdicts) + 1 /\ st \in Seq(Message)
        /\ pc \in {"cycle", "end"} /\ ctl = 0
    BY <1>13 DEF AflStatus, InStep, TypeOK
  <2>2. st' = <<>> /\ verdicts' = Append(verdicts, st[1]) /\ st[1] \in Message
    BY <1>13, <2>1, Pipe, EmptySeq DEF AflStatus, Says
  <2>3. st[1].kind = "status" /\ st[1].input = request
    <3>1. st[1].kind = "status" /\ 1 \in DOMAIN st
      BY <2>1, LenProperties DEF Says
    <3> QED BY <1>13, <3>1 DEF InStep
  <2>4. /\ verdicts \in Seq(Message) /\ verdicts' \in Seq(Message)
        /\ Len(verdicts') = Len(verdicts) + 1 /\ verdicts'[Len(verdicts) + 1] = st[1]
        /\ \A k \in 1 .. Len(verdicts) : verdicts'[k] = verdicts[k]
    BY <2>2, Pipe DEF TypeOK
  <2>5. ASSUME NEW k \in DOMAIN verdicts' PROVE verdicts'[k].kind = "status"
        /\ verdicts'[k].input = k
    <3>1. k \in 1 .. Len(verdicts) + 1 /\ DOMAIN verdicts = 1 .. Len(verdicts)
          /\ Len(verdicts) \in Nat
      BY <2>4, LenProperties
    <3>2. CASE k = Len(verdicts) + 1
      BY <2>1, <2>3, <2>4, <3>2
    <3>3. CASE k # Len(verdicts) + 1
      <4>1. k \in 1 .. Len(verdicts)
        BY <3>1, <3>3
      <4>2. verdicts[k].kind = "status" /\ verdicts[k].input = k
        BY <1>13, <3>1, <4>1 DEF InStep
      <4> QED BY <2>4, <4>1, <4>2
    <3> QED BY <3>2, <3>3
  <2> QED BY <1>13, <2>1, <2>2, <2>4, <2>5 DEF AflStatus, InStep, Testing, Waiting
<1> QED BY <1>1, <1>2, <1>3, <1>4, <1>5, <1>6, <1>7, <1>8, <1>9, <1>10, <1>11, <1>12,
     <1>13 DEF Next, Program, Afl, AflReads

\* Without AFL nothing is ever sent.
LEMMA AloneStep == IInv /\ [Next]_vars => (~state.forksrv => Alone)'
<1> SUFFICES ASSUME IInv, [Next]_vars PROVE (~state.forksrv => Alone)'
  OBVIOUS
<1> USE FuzznetlinkAssumption DEF IInv, vars, aflVars, kcovVars, nsVars, logVars
<1>1. CASE \/ Welcome \/ OpenKernel \/ forksrv_cycle \/ Hangup \/ Fatal
  BY <1>1 DEF Welcome, OpenKernel, forksrv_cycle, Hangup, Fatal, Alone, TypeOK, Testing,
              Tell
<1>2. CASE \/ LoadInput \/ CycleNetns \/ KeepNetns \/ kcov_enable \/ Test
  BY <1>2 DEF LoadInput, CycleNetns, KeepNetns, kcov_enable, Test, Alone, TypeOK, Testing,
              Tell
<1>3. CASE \/ kcov_disable \/ FillMap \/ ReadKmsg \/ KmsgEmpty \/ KmsgOverrun
  BY <1>3 DEF kcov_disable, FillMap, ReadKmsg, KmsgEmpty, KmsgOverrun, Alone, TypeOK,
              Testing, Tell
<1>4. CASE \/ forksrv_status \/ LateLine
  BY <1>4 DEF forksrv_status, LateLine, Alone, TypeOK, Testing, Tell
<1>5. CASE \/ state.forksrv /\ (AflHello \/ AflRequest \/ AflPid \/ AflStatus \/ AflStop)
           \/ UNCHANGED vars
  BY <1>5 DEF AflHello, AflRequest, AflPid, AflStatus, AflStop, Alone, TypeOK, Testing, Tell
<1> QED BY <1>1, <1>2, <1>3, <1>4, <1>5 DEF Next, Program, Afl, AflReads

\* What a run's namespace is does not change when the next run gets its own.
LEMMA Settled ==
    ASSUME TypeOK, NEW n \in 0 .. MaxRuns, home' = Append(home, n)
    PROVE  /\ DOMAIN home = 1 .. Len(home) /\ Len(home) \in Nat
           /\ DOMAIN home' = 1 .. Len(home) + 1 /\ Len(home') = Len(home) + 1
           /\ home'[Len(home) + 1] = n
           /\ \A k \in 1 .. Len(home) : home'[k] = home[k]
<1>1. home \in Seq(0 .. MaxRuns)
  BY DEF TypeOK
<1>2. /\ home' \in Seq(0 .. MaxRuns) /\ Len(home') = Len(home) + 1
      /\ home'[Len(home) + 1] = n /\ \A k \in 1 .. Len(home) : home'[k] = home[k]
  BY <1>1, Pipe
<1> QED BY <1>1, <1>2, LenProperties

\* A run gets its namespace once, and a new one has a new name.
LEMMA HomesStep == IInv /\ [Next]_vars => Homes'
<1> SUFFICES ASSUME IInv, [Next]_vars PROVE Homes'
  OBVIOUS
<1> USE FuzznetlinkAssumption DEF IInv, vars, aflVars, kcovVars, nsVars, logVars
<1>1. CASE \/ Welcome \/ OpenKernel \/ forksrv_cycle
  BY <1>1, TypeParts DEF Welcome, OpenKernel, forksrv_cycle, Homes, Placed, ProgramTypes,
                         NsTypes, Testing
<1>2. CASE \/ Hangup \/ Fatal \/ LoadInput
  BY <1>2, TypeParts DEF Hangup, Fatal, LoadInput, Homes, Placed, ProgramTypes, NsTypes,
                         Testing
<1>3. CASE \/ kcov_enable \/ Test \/ kcov_disable
  BY <1>3, TypeParts DEF kcov_enable, Test, kcov_disable, Homes, Placed, ProgramTypes,
                         NsTypes, Testing
<1>4. CASE \/ FillMap \/ ReadKmsg \/ KmsgEmpty
  BY <1>4, TypeParts DEF FillMap, ReadKmsg, KmsgEmpty, Homes, Placed, ProgramTypes, NsTypes,
                         Testing
<1>5. CASE \/ KmsgOverrun \/ LateLine
  BY <1>5, TypeParts DEF KmsgOverrun, LateLine, Homes, Placed, ProgramTypes, NsTypes,
                         Testing
<1>6. CASE \/ state.forksrv /\ (AflHello \/ AflRequest \/ AflPid \/ AflStatus \/ AflStop)
           \/ UNCHANGED vars
  BY <1>6, TypeParts DEF AflHello, AflRequest, AflPid, AflStatus, AflStop, Homes, Placed,
                         ProgramTypes, NsTypes, Testing
<1>7. CASE \/ CycleNetns \/ KeepNetns
  <2>1. PICK n \in 0 .. MaxRuns : home' = Append(home, n) /\ n <= run_no + 1
        /\ Len(home) = run_no /\ run_no \in 0 .. MaxRuns - 1
    <3>1. run_no \in 0 .. MaxRuns - 1 /\ Len(home) = run_no /\ ns \in 0 .. run_no
      <4>1. pc = "netns" /\ pc \in Testing
        BY <1>7 DEF CycleNetns, KeepNetns, Testing
      <4>2. run_no \in 0 .. MaxRuns - 1
        BY <4>1, AtWork
      <4> QED BY <4>1, <4>2 DEF Homes, Placed, TypeOK
    <3>2. home' = Append(home, ns') /\ ns' \in {ns, run_no + 1}
      BY <1>7, <3>1 DEF CycleNetns, KeepNetns
    <3> HIDE DEF IInv
    <3> QED BY <3>1, <3>2
  <2>2. /\ DOMAIN home = 1 .. run_no /\ DOMAIN home' = 1 .. run_no + 1 /\ Len(home') = run_no + 1
        /\ home'[run_no + 1] = n /\ \A k \in 1 .. run_no : home'[k] = home[k]
    BY <2>1, Settled
  <2>3. \A k \in DOMAIN home' : home'[k] <= k
    <3> SUFFICES ASSUME NEW k \in 1 .. run_no + 1 PROVE home'[k] <= k
      BY <2>2
    <3>1. CASE k = run_no + 1
      BY <2>1, <2>2, <3>1
    <3>2. CASE k # run_no + 1
      <4>1. k \in 1 .. run_no
        BY <2>1, <3>2
      <4> QED BY <2>2, <4>1 DEF Homes
    <3> QED BY <3>1, <3>2
  <2> QED BY <1>7, <2>2, <2>3 DEF CycleNetns, KeepNetns, Homes, Placed
<1>8. CASE forksrv_status
  <2>1. Len(home) = run_no + 1 /\ run_no \in Nat
    BY <1>8, TypeParts DEF forksrv_status, Homes, Placed, ProgramTypes
  <2> QED BY <1>8, <2>1 DEF forksrv_status, Homes, Placed
<1> QED BY <1>1, <1>2, <1>3, <1>4, <1>5, <1>6, <1>7, <1>8 DEF Next, Program, Afl, AflReads

-----------------------------------------------------------------------------
(* Statuses on their way.                                                  *)

\* In the middle of a test none is.
LEMMA Silent ==
    ASSUME IInv, pc \in Testing
    PROVE  /\ st \in Seq(Message)
           /\ \A k \in DOMAIN st : st[k].kind # "status"
<1>1. st = <<>> \/ Says("pid")
  BY AtWork
<1>2. st \in Seq(Message)
  BY DEF IInv, TypeOK
<1> QED BY <1>1, <1>2, EmptySeq, LenProperties DEF Says

\* Neither the hello nor a pid is one, and AFL leaves what it does not read.
LEMMA Old ==
    ASSUME IInv, \/ Welcome \/ forksrv_cycle
                 \/ state.forksrv /\ (AflHello \/ AflPid)
    PROVE  \A k \in DOMAIN st' : st'[k].kind = "status" => \E j \in DOMAIN st : st'[k] = st[j]
<1>1. st \in Seq(Message) /\ TypeOK
  BY DEF IInv, TypeOK
<1>2. ASSUME NEW m \in Message, m.kind # "status", st' = Append(st, m)
      PROVE  \A k \in DOMAIN st' : st'[k].kind = "status" => \E j \in DOMAIN st : st'[k] = st[j]
  <2>1. /\ DOMAIN st' = 1 .. Len(st) + 1 /\ DOMAIN st = 1 .. Len(st) /\ Len(st) \in Nat
        /\ st'[Len(st) + 1] = m /\ \A k \in 1 .. Len(st) : st'[k] = st[k]
    BY <1>1, <1>2, Pipe, LenProperties
  <2> QED BY <1>2, <2>1
<1>3. CASE Welcome
  <2> DEFINE m == [kind |-> "hello", input |-> 0, value |-> 0]
  <2>1. m \in Message /\ m.kind # "status"
    BY <1>1, Messages
  <2>2. st' = Append(st, m) \/ st' = st
    BY <1>3 DEF Welcome, Tell
  <2> HIDE DEF m
  <2> QED BY <1>2, <2>1, <2>2
<1>4. CASE forksrv_cycle
  <2> DEFINE m == [kind |-> "pid", input |-> request, value |-> 0]
  <2>1. m \in Message /\ m.kind # "status"
    BY <1>1, Messages
  <2>2. st' = Append(st, m) \/ st' = st
    BY <1>4 DEF forksrv_cycle, Tell
  <2> HIDE DEF m
  <2> QED BY <1>2, <2>1, <2>2
<1>5. CASE AflHello \/ AflPid
  <2>1. st # <<>> /\ st' = Tail(st)
    BY <1>5 DEF AflHello, AflPid
  <2>2. /\ DOMAIN st' = 1 .. Len(st) - 1 /\ DOMAIN st = 1 .. Len(st) /\ Len(st) \in Nat
        /\ \A k \in 1 .. Len(st) - 1 : st'[k] = st[k + 1]
    BY <1>1, <2>1, HeadTailProperties, LenProperties
  <2>3. \A k \in 1 .. Len(st) - 1 : k + 1 \in 1 .. Len(st)
    BY <2>2
  <2> QED BY <2>2, <2>3
<1> QED BY <1>3, <1>4, <1>5

\* A status is about the test that is over.
LEMMA Sent ==
    ASSUME IInv, forksrv_status
    PROVE  \A k \in DOMAIN st' : st'[k].kind = "status" =>
              /\ st' # <<>> /\ k = Len(st')
              /\ st'[k].input = run_no + 1
              /\ st'[k].value = IF crashed THEN 139 ELSE 0
<1> DEFINE m == [kind |-> "status", input |-> loaded, value |-> IF crashed THEN 139 ELSE 0]
<1>1. pc = "status" /\ pc \in Testing
  BY DEF forksrv_status, Testing
<1>2. st \in Seq(Message) /\ m \in Message /\ \A k \in DOMAIN st : st[k].kind # "status"
  BY <1>1, Silent, Messages DEF IInv
<1>3. m.input = loaded /\ m.value = IF crashed THEN 139 ELSE 0
  OBVIOUS
<1> HIDE DEF m
<1>4. CASE state.forksrv
  <2>1. st' = Append(st, m) /\ loaded = run_no + 1
    BY <1>1, <1>4, AtWork DEF forksrv_status, Tell, m
  <2>2. /\ DOMAIN st' = 1 .. Len(st) + 1 /\ DOMAIN st = 1 .. Len(st) /\ Len(st) \in Nat
        /\ Len(st') = Len(st) + 1
        /\ st'[Len(st) + 1] = m /\ \A k \in 1 .. Len(st) : st'[k] = st[k]
    BY <1>2, <2>1, Pipe, LenProperties
  <2>3. ASSUME NEW k \in DOMAIN st', st'[k].kind = "status" PROVE k = Len(st) + 1
    BY <1>2, <2>2, <2>3
  <2>4. st' # <<>>
    BY <2>2, EmptySeq
  <2> QED BY <1>3, <2>1, <2>2, <2>3, <2>4
<1>5. CASE ~state.forksrv
  BY <1>2, <1>5 DEF forksrv_status, Tell
<1> QED BY <1>4, <1>5

\* AFL reads the status of its test case.
LEMMA Heard ==
    ASSUME IInv, state.forksrv, AflStatus
    PROVE  /\ DOMAIN st = {1} /\ Len(st) = 1 /\ st[1].kind = "status"
               /\ st[1].input = Len(verdicts) + 1 /\ st' = <<>>
           /\ DOMAIN verdicts = 1 .. Len(verdicts) /\ Len(verdicts) \in Nat
           /\ DOMAIN verdicts' = 1 .. Len(verdicts) + 1
           /\ verdicts'[Len(verdicts) + 1] = st[1]
           /\ \A k \in 1 .. Len(verdicts) : verdicts'[k] = verdicts[k]
<1>1. /\ Len(st) = 1 /\ st[1].kind = "status" /\ st \in Seq(Message) /\ verdicts \in Seq(Message)
      /\ request = Len(verdicts) + 1
  BY DEF IInv, AflStatus, InStep, TypeOK, Says
<1>2. DOMAIN st = {1}
  BY <1>1, LenProperties
<1>3. st[1].input = request
  BY <1>1, <1>2 DEF IInv, InStep
<1>4. verdicts' = Append(verdicts, st[1]) /\ st' = <<>> /\ st[1] \in Message
  BY <1>1, Pipe, EmptySeq DEF AflStatus
<1> QED BY <1>1, <1>2, <1>3, <1>4, Pipe, LenProperties

\* After a crash the next run moves or finds no namespace to move to.
LEMMA MovingStep == IInv /\ [Next]_vars => Moving'
<1> SUFFICES ASSUME IInv, [Next]_vars PROVE Moving'
  OBVIOUS
<1> USE FuzznetlinkAssumption DEF IInv, vars, aflVars, kcovVars, nsVars, logVars
<1>1. CASE \/ Welcome \/ forksrv_cycle
           \/ state.forksrv /\ (AflHello \/ AflPid)
  <2>1. UNCHANGED <<verdicts, home, denied, force_new_netns>>
    BY <1>1 DEF Welcome, forksrv_cycle, AflHello, AflPid
  <2> QED BY <1>1, <2>1, Old DEF Moving, Moves
<1>2. CASE \/ OpenKernel \/ Hangup \/ Fatal \/ LoadInput \/ kcov_enable \/ Test
           \/ kcov_disable \/ FillMap \/ ReadKmsg \/ KmsgEmpty \/ KmsgOverrun
           \/ LateLine
           \/ state.forksrv /\ (AflRequest \/ AflStop)
           \/ UNCHANGED vars
  <2>1. UNCHANGED <<verdicts, st, home, denied, force_new_netns>>
    BY <1>2 DEF OpenKernel, Hangup, Fatal, LoadInput, kcov_enable, Test, kcov_disable,
                FillMap, ReadKmsg, KmsgEmpty, KmsgOverrun, LateLine, AflRequest, AflStop
  <2> QED BY <2>1 DEF Moving, Moves
<1>3. CASE CycleNetns
  <2>1. /\ st = <<>> \/ Says("pid")
        /\ Len(home) = run_no /\ Len(verdicts) <= run_no /\ run_no \in 0 .. MaxRuns - 1
        /\ verdicts \in Seq(Message)
    BY <1>3, AtWork DEF CycleNetns, Testing, Homes, Placed, TypeOK
  <2>2. PICK n \in 0 .. MaxRuns : home' = Append(home, n)
        /\ (n = run_no + 1 \/ denied' = denied \cup {run_no + 1})
    <3>1. ns \in 0 .. MaxRuns /\ run_no + 1 \in 0 .. MaxRuns
      BY <2>1 DEF TypeOK
    <3>2. ns' \in {ns, run_no + 1} /\ home' = Append(home, ns')
          /\ (ns' = run_no + 1 \/ denied' = denied \cup {run_no + 1})
      BY <1>3, <2>1 DEF CycleNetns
    <3> HIDE DEF IInv
    <3> QED BY <3>1, <3>2
  <2>3. /\ DOMAIN home = 1 .. run_no /\ DOMAIN home' = 1 .. run_no + 1 /\ home'[run_no + 1] = n
        /\ \A k \in 1 .. run_no : home'[k] = home[k] /\ home[k] <= k
    BY <2>1, <2>2, Settled DEF Homes
  <2>4. ASSUME NEW i \in DOMAIN verdicts, verdicts[i].value = 139
        PROVE  Moves(i)'
    <3>1. i \in 1 .. run_no
      BY <2>1, LenProperties
    <3>2. CASE i = run_no
      <4>1. home'[i] = home[i] /\ home[i] <= i /\ home[i] \in 0 .. MaxRuns
        <5>1. home \in Seq(0 .. MaxRuns) /\ i \in 1 .. Len(home)
          BY <2>1, <3>1 DEF TypeOK
        <5>2. home[i] \in 0 .. MaxRuns
          BY <5>1, ElementOfSeq
        <5> QED BY <2>3, <3>1, <5>2
      <4> QED BY <2>1, <2>2, <2>3, <3>1, <3>2, <4>1 DEF Moves
    <3>3. CASE i # run_no
      <4>1. i + 1 \in 1 .. run_no
        BY <2>1, <3>1, <3>3
      <4>2. home[i + 1] # home[i] \/ i + 1 \in denied
        BY <2>3, <2>4, <4>1 DEF Moving, Moves
      <4>3. denied \subseteq denied'
        BY <1>3 DEF CycleNetns
      <4> QED BY <2>1, <2>3, <3>1, <4>1, <4>2, <4>3 DEF Moves
    <3> QED BY <3>2, <3>3
  <2>5. ASSUME NEW k \in DOMAIN st PROVE st[k].kind # "status"
    <3>1. st \in Seq(Message)
      BY DEF TypeOK
    <3> QED BY <2>1, <3>1, EmptySeq, LenProperties DEF Says
  <2> QED BY <1>3, <2>4, <2>5 DEF CycleNetns, Moving
<1>4. CASE KeepNetns
  <2>1. /\ st = <<>> \/ Says("pid")
        /\ Len(home) = run_no /\ Len(verdicts) <= run_no /\ run_no \in 0 .. MaxRuns - 1
        /\ verdicts \in Seq(Message) /\ ns \in 0 .. MaxRuns /\ ~force_new_netns
    BY <1>4, AtWork DEF KeepNetns, Testing, Homes, Placed, TypeOK, NewNetnsDue
  <2>2. /\ DOMAIN home = 1 .. run_no /\ DOMAIN home' = 1 .. run_no + 1
        /\ \A k \in 1 .. run_no : home'[k] = home[k]
    BY <1>4, <2>1, Settled DEF KeepNetns
  <2>3. ASSUME NEW i \in DOMAIN verdicts, verdicts[i].value = 139
        PROVE  Moves(i)'
    <3>1. i \in 1 .. run_no /\ Moves(i)
      BY <2>1, <2>3, LenProperties DEF Moving
    <3>2. i + 1 \in 1 .. run_no
      BY <2>1, <2>2, <3>1 DEF Moves
    <3> QED BY <1>4, <2>1, <2>2, <3>1, <3>2 DEF Moves, KeepNetns
  <2>4. ASSUME NEW k \in DOMAIN st PROVE st[k].kind # "status"
    <3>1. st \in Seq(Message)
      BY DEF TypeOK
    <3> QED BY <2>1, <3>1, EmptySeq, LenProperties DEF Says
  <2> QED BY <1>4, <2>3, <2>4 DEF KeepNetns, Moving
<1>5. CASE forksrv_status
  <2>1. DOMAIN home = 1 .. run_no + 1 /\ run_no \in Nat
    BY <1>5, LenProperties DEF forksrv_status, Homes, Placed, TypeOK
  <2>2. \A i : Moves(i) => Moves(i)'
    BY <1>5 DEF forksrv_status, Moves
  <2>3. ASSUME NEW n, n = run_no + 1, crashed PROVE Moves(n)'
    <3>1. n + 1 \notin DOMAIN home
      BY <2>1, <2>3
    <3> QED BY <1>5, <2>3, <3>1 DEF forksrv_status, Moves
  <2>4. ASSUME NEW k \in DOMAIN st', st'[k].kind = "status", st'[k].value = 139
        PROVE  crashed /\ st'[k].input = run_no + 1
    BY <1>5, <2>4, Sent
  <2>5. \A k \in DOMAIN st' : st'[k].kind = "status" /\ st'[k].value = 139 => Moves(st[k].input)'
    BY <2>3, <2>4
  <2> QED BY <1>5, <2>2, <2>5 DEF forksrv_status, Moving
<1>6. CASE state.forksrv /\ AflStatus
  <2>1. \A i : Moves(i)' <=> Moves(i)
    BY <1>6 DEF AflStatus, Moves
  <2>2. ASSUME NEW i \in DOMAIN verdicts', verdicts'[i].value = 139 PROVE Moves(i)
    <3>1. CASE i = Len(verdicts) + 1
      BY <1>6, <2>2, <3>1, Heard DEF Moving
    <3>2. CASE i # Len(verdicts) + 1
      <4>1. i \in DOMAIN verdicts /\ verdicts'[i] = verdicts[i]
        BY <1>6, <3>2, Heard
      <4> QED BY <2>2, <4>1 DEF Moving
    <3> QED BY <3>1, <3>2
  <2>3. st' = <<>>
    BY <1>6, Heard
  <2> QED BY <2>1, <2>2, <2>3 DEF Moving
<1> QED BY <1>1, <1>2, <1>3, <1>4, <1>5, <1>6 DEF Next, Program, Afl, AflReads

-----------------------------------------------------------------------------
(* Coverage and the map.                                                   *)

\* What fits into the buffer is a sequence of locations.
LEMMA UptoFits ==
    ASSUME NEW locs \in Seq(Locations), NEW n \in Nat
    PROVE  Upto(locs, n) \in Seq(Locations) /\ Len(Upto(locs, n)) <= n
<1> DEFINE m == IF n < Len(locs) THEN n ELSE Len(locs)
<1>1. m \in Nat /\ m <= n /\ m <= Len(locs) /\ Len(locs) \in Nat
  BY LenProperties
<1>2. \A i \in 1 .. m : locs[i] \in Locations
  BY <1>1, ElementOfSeq
<1> HIDE DEF m
<1>3. SubSeq(locs, 1, m) \in Seq(Locations)
      /\ Len(SubSeq(locs, 1, m)) = IF 1 <= m THEN m - 1 + 1 ELSE 0
  BY <1>1, <1>2, SubSeqProperties
<1>4. Len(SubSeq(locs, 1, m)) <= n
  BY <1>1, <1>3
<1> QED BY <1>3, <1>4 DEF Upto, m

\* A sequence is found again at the head of what it was prolonged to.
LEMMA ConcatHasPrefix ==
    ASSUME NEW S, NEW s \in Seq(S), NEW t \in Seq(S)
    PROVE  SubSeq(s \o t, 1, Len(s)) = s
<1>1. Len(s) \in Nat
  BY LenProperties
<1>2. CASE Len(s) = 0
  <2>1. s = <<>> /\ SubSeq(s \o t, 1, 0) = <<>>
    BY <1>2, EmptySeq, SubSeqEmpty
  <2> QED BY <1>2, <2>1
<1>3. CASE Len(s) > 0
  <2>1. 1 \in 1 .. Len(s) /\ Len(s) \in 1 .. Len(s)
    BY <1>1, <1>3
  <2> QED BY <2>1, SubSeqOfConcat1, SubSeqFull
<1> QED BY <1>1, <1>2, <1>3

\* What kcov.c does between two tests keeps coverage to the test, and the map to
\* coverage.
LEMMA CoveringStep == IInv /\ [Next]_vars => Covering'
<1> SUFFICES ASSUME IInv, [Next]_vars PROVE Covering'
  OBVIOUS
<1> USE FuzznetlinkAssumption DEF IInv, vars, aflVars, kcovVars, nsVars, logVars
<1>1. CASE LoadInput
  BY <1>1 DEF LoadInput, Covering, Testing
<1>2. CASE CycleNetns
  BY <1>2 DEF CycleNetns, Covering, Testing
<1>3. CASE KeepNetns
  BY <1>3 DEF KeepNetns, Covering, Testing
<1>4. CASE \/ Welcome \/ OpenKernel \/ Hangup \/ Fatal \/ ReadKmsg \/ KmsgEmpty
           \/ KmsgOverrun \/ forksrv_status
  <2>1. /\ UNCHANGED <<state, cover, kcov_len, trace, afl_area, apc, ctl>>
        /\ pc' \notin Testing \ {"dmesg", "status"} /\ (tracing' => tracing)
    BY <1>4 DEF Welcome, OpenKernel, Hangup, Fatal, ReadKmsg, KmsgEmpty, KmsgOverrun,
                forksrv_status, Testing
  <2> QED BY <2>1 DEF Covering, Testing
<1>5. CASE forksrv_cycle
  <2>1. state.forksrv => afl_area = Clean
    BY <1>5 DEF forksrv_cycle, InStep, TypeOK, Testing, Waiting, Covering
  <2> QED BY <1>5, <2>1 DEF forksrv_cycle, Covering, Testing
<1>6. CASE kcov_enable
  <2>1. trace' = <<>> /\ trace' \in Seq(Locations) /\ Len(trace') = 0 /\ cover' \in Seq(Locations)
    BY <1>6, EmptySeq DEF kcov_enable, Restarted, Covering
  <2>2. IF state.no_kcov THEN UNCHANGED <<cover, tracing>> ELSE cover' = <<>> /\ tracing' = TRUE
    BY <1>6 DEF kcov_enable, Restarted
  <2> QED BY <1>6, <2>1, <2>2 DEF kcov_enable, Covering, Testing
<1>7. CASE Test
  <2>1. PICK t \in Tests : trace' = t.trace
        /\ cover' = IF tracing THEN Recorded(cover, t.trace) ELSE cover
    BY <1>7 DEF Test
  <2>2. t.trace \in Seq(Locations)
    OBVIOUS
  <2>3. COVER_SIZE - 1 \in Nat
    OBVIOUS
  <2>4. CASE state.no_kcov
    BY <1>7, <2>1, <2>2, <2>4 DEF Test, Covering, Testing
  <2>5. CASE ~state.no_kcov
    <3>1. tracing /\ cover = <<>> /\ Len(cover) = 0
      BY <1>7, <2>5, EmptySeq DEF Test, Covering
    <3>2. cover' = <<>> \o Upto(t.trace, COVER_SIZE - 1)
      BY <2>1, <2>3, <3>1 DEF Recorded
    <3>3. cover' = Upto(trace', COVER_SIZE - 1) /\ cover' \in Seq(Locations)
      BY <2>1, <2>2, <2>3, <3>2, UptoFits, ConcatEmptySeq
    <3> QED BY <1>7, <2>1, <2>2, <2>5, <3>1, <3>3 DEF Test, Covering, Testing
  <2> QED BY <2>4, <2>5
<1>8. CASE kcov_disable
  <2>1. CASE state.no_kcov
    BY <1>8, <2>1 DEF kcov_disable, Covering, Testing
  <2>2. CASE ~state.no_kcov
    <3>1. PICK locs \in Noise : cover' = Recorded(cover, locs)
      BY <1>8, <2>2 DEF kcov_disable
    <3>2. locs \in Seq(Locations) /\ cover \in Seq(Locations) /\ Len(cover) \in Nat
          /\ COVER_SIZE - 1 - Len(cover) \in Nat
      BY LenProperties DEF Covering, TypeOK
    <3> DEFINE more == Upto(locs, COVER_SIZE - 1 - Len(cover))
    <3>3. more \in Seq(Locations) /\ cover' = cover \o more
      BY <3>1, <3>2, UptoFits DEF Recorded
    <3> HIDE DEF more
    <3>4. cover' \in Seq(Locations) /\ SubSeq(cover', 1, Len(cover)) = cover
      BY <3>2, <3>3, ConcatProperties, ConcatHasPrefix
    <3>5. kcov_len' = Len(cover) /\ cover = Upto(trace, COVER_SIZE - 1) /\ tracing' = FALSE
      BY <1>8, <2>2 DEF kcov_disable, Covering
    <3>6. SubSeq(cover', 1, kcov_len') = Upto(trace', COVER_SIZE - 1)
      BY <1>8, <3>4, <3>5 DEF kcov_disable
    <3> QED BY <1>8, <2>2, <3>4, <3>5, <3>6 DEF kcov_disable, Covering, Testing
  <2> QED BY <2>1, <2>2
<1>9. CASE FillMap
  <2>1. pc = "map" /\ pc' = "dmesg"
        /\ UNCHANGED <<state, apc, ctl, cover, tracing, kcov_len, trace>>
    BY <1>9 DEF FillMap
  <2>2. ~(apc = "pid" /\ ctl = 1)
    BY <2>1, AtWork DEF Testing, Alone
  <2> QED BY <2>1, <2>2 DEF Covering, Testing
<1>10. CASE \/ LateLine
            \/ state.forksrv /\ (AflHello \/ AflPid \/ AflStatus \/ AflStop)
            \/ UNCHANGED vars
  <2>1. UNCHANGED <<state, pc, cover, tracing, kcov_len, trace, afl_area, ctl>>
        /\ apc' \in {apc, "ready", "status", "stopped"}
    BY <1>10 DEF LateLine, AflHello, AflPid, AflStatus, AflStop
  <2> QED BY <2>1 DEF Covering, Testing
<1>11. CASE state.forksrv /\ AflRequest
  <2>1. pc \in Waiting
    BY <1>11 DEF AflRequest, InStep
  <2> QED BY <1>11, <2>1 DEF AflRequest, Covering, Testing, Waiting
<1> QED BY <1>1, <1>2, <1>3, <1>4, <1>5, <1>6, <1>7, <1>8, <1>9, <1>10, <1>11 DEF Next,
     Program, Afl, AflReads

\* What MapIsTheTest says once the variables it looks at are given.
LEMMA Kept ==
    ASSUME MapIsTheTest, UNCHANGED <<state, trace, afl_area>>, pc \in {"dmesg",
          "status"} \/ pc' = pc
    PROVE  MapIsTheTest'
<1>1. \A c : Hits(c)' = Hits(c)
  BY DEF Hits
<1> QED BY <1>1 DEF MapIsTheTest

\* The map is that of the test once it is filled, and nothing touches it before
\* AFL has its verdict.
LEMMA MapStep == IInv /\ [Next]_vars => MapIsTheTest'
<1> SUFFICES ASSUME IInv, [Next]_vars PROVE MapIsTheTest'
  OBVIOUS
<1> USE FuzznetlinkAssumption DEF IInv, vars, aflVars, kcovVars, nsVars, logVars
<1>1. CASE \/ Welcome \/ OpenKernel \/ forksrv_cycle \/ Hangup \/ Fatal
  BY <1>1 DEF Welcome, OpenKernel, forksrv_cycle, Hangup, Fatal, MapIsTheTest
<1>2. CASE \/ LoadInput \/ CycleNetns \/ KeepNetns \/ kcov_enable \/ Test
  BY <1>2 DEF LoadInput, CycleNetns, KeepNetns, kcov_enable, Test, MapIsTheTest
<1>3. CASE \/ kcov_disable \/ forksrv_status
  BY <1>3 DEF kcov_disable, forksrv_status, MapIsTheTest
<1>4. CASE FillMap
  <2> SUFFICES ASSUME state.forksrv, NEW c \in Cells
               PROVE  IF state.no_kcov THEN afl_area'[c] = 0
                      ELSE IF Hits(c)' < 2 * Middle THEN afl_area'[c] = Hits(c)'
                      ELSE afl_area'[c] >= Middle
    BY <1>4 DEF FillMap, MapIsTheTest
  <2> DEFINE locs == SubSeq(cover, 1, kcov_len)
             walk == Steps(locs)
             steps == Cardinality({i \in DOMAIN walk : walk[i] = c})
  <2>1. afl_area = Clean /\ afl_area' = Filled(Clean, walk)
    BY <1>4 DEF FillMap, Filled, Covering, Testing
  <2>2. locs \in Seq(Locations)
    BY DEF Covering, TypeOK
  <2>3. walk \in Seq(Cells) /\ DOMAIN walk = DOMAIN locs
    BY <2>2, Walked
  <2>4. IF steps < 2 * Middle THEN afl_area'[c] = steps ELSE afl_area'[c] >= Middle
    <3> HIDE DEF walk
    <3> QED BY <2>1, <2>3, MapCounts
  <2>5. CASE state.no_kcov
    <3>1. locs = <<>>
      BY <2>5, SubSeqEmpty DEF Covering
    <3>2. DOMAIN walk = {}
      <4> HIDE DEF locs, walk
      <4>1. Len(locs) = 0 /\ DOMAIN locs = 1 .. Len(locs)
        BY <2>2, <3>1, EmptySeq, LenProperties
      <4> QED BY <2>3, <4>1
    <3>3. steps = 0
      BY <3>2, FS_EmptySet
    <3> QED BY <2>4, <2>5, <3>3
  <2>6. CASE ~state.no_kcov
    <3>1. locs = Upto(trace, COVER_SIZE - 1)
      BY <1>4, <2>6 DEF FillMap, Covering
    <3>2. Hits(c)' = steps
      BY <1>4, <3>1 DEF FillMap, Hits
    <3> QED BY <2>4, <2>6, <3>2
  <2> QED BY <2>5, <2>6
<1>5. CASE \/ ReadKmsg \/ KmsgEmpty \/ KmsgOverrun \/ LateLine
           \/ state.forksrv /\ (AflHello \/ AflPid \/ AflStatus \/ AflStop)
           \/ UNCHANGED vars
  BY <1>5, Kept DEF ReadKmsg, KmsgEmpty, KmsgOverrun, LateLine, AflHello, AflPid, AflStatus,
                    AflStop
<1>6. CASE state.forksrv /\ AflRequest
  <2>1. pc \in Waiting
    BY <1>6 DEF AflRequest, InStep
  <2> QED BY <1>6, <2>1 DEF AflRequest, MapIsTheTest, Waiting
<1> QED BY <1>1, <1>2, <1>3, <1>4, <1>5, <1>6 DEF Next, Program, Afl, AflReads

-----------------------------------------------------------------------------
(* The log.                                                                *)

\* Lines are added behind the others: those of a test are about its run, the
\* late ones about none.
LEMMA Logged ==
    ASSUME IInv, Test \/ LateLine
    PROVE  /\ Len(log) \in Nat /\ DOMAIN log = 1 .. Len(log) /\ seen <= Len(log) + 1
               /\ seen \in Nat
           /\ DOMAIN log \subseteq DOMAIN log' /\ \A l \in DOMAIN log : log'[l] = log[l]
           /\ \A l \in DOMAIN log' : l \notin DOMAIN log =>
                 /\ l >= seen
                 /\ Test => log'[l].run = run_no + 1 /\ ~log'[l].late
                 /\ LateLine => log'[l].run = 0 /\ log'[l].late
<1>1. log \in Seq(Line) /\ seen \in 1 .. Len(log) + 1
  BY DEF IInv, TypeOK
<1>2. Len(log) \in Nat /\ DOMAIN log = 1 .. Len(log)
  BY <1>1, LenProperties
<1>3. ~(Test /\ LateLine)
  <2>1. Test => pc' # pc
    BY DEF Test
  <2>2. LateLine => pc' = pc
    BY DEF LateLine, vars
  <2> QED BY <2>1, <2>2
<1>4. CASE LateLine
  <2>1. PICK crash \in BOOLEAN : log' = Append(log, [crash |-> crash, run |-> 0, late |-> TRUE])
    BY <1>4 DEF LateLine
  <2> DEFINE line == [crash |-> crash, run |-> 0, late |-> TRUE]
  <2>2. line \in Line /\ line.run = 0 /\ line.late
    BY FuzznetlinkAssumption DEF Line
  <2> HIDE DEF line
  <2>3. /\ log' \in Seq(Line) /\ Len(log') = Len(log) + 1 /\ log'[Len(log) + 1] = line
        /\ \A l \in 1 .. Len(log) : log'[l] = log[l]
    BY <1>1, <2>1, <2>2, Pipe DEF line
  <2>4. DOMAIN log' = 1 .. Len(log) + 1
    BY <2>3, LenProperties
  <2> QED BY <1>1, <1>2, <1>3, <1>4, <2>2, <2>3, <2>4
<1>5. CASE Test
  <2>1. PICK t \in Tests : log' = log \o [i \in DOMAIN t.lines |->
                              [crash |-> t.lines[i], run |-> run_no + 1, late |-> FALSE]]
    BY <1>5 DEF Test
  <2> DEFINE new == [i \in DOMAIN t.lines |-> [crash |-> t.lines[i], run |-> run_no + 1,
        late |-> FALSE]]
  <2>2. run_no + 1 \in 0 .. MaxRuns
    BY <1>5, AtWork, FuzznetlinkAssumption DEF Test, Testing
  <2>3. new \in Seq(Line) /\ \A i \in DOMAIN new : new[i].run = run_no + 1 /\ ~new[i].late
    <3>1. t.lines \in Seq(BOOLEAN)
      BY FuzznetlinkAssumption
    <3>2. DOMAIN t.lines = 1 .. Len(t.lines) /\ Len(t.lines) \in Nat
      BY <3>1, LenProperties
    <3>3. \A i \in 1 .. Len(t.lines) : t.lines[i] \in BOOLEAN
      BY <3>1, ElementOfSeq
    <3>4. new \in [1 .. Len(t.lines) -> Line]
      BY <2>2, <3>2, <3>3 DEF Line
    <3> QED BY <3>2, <3>4
  <2> HIDE DEF new
  <2>4. /\ log' \in Seq(Line) /\ Len(log') = Len(log) + Len(new)
        /\ \A l \in 1 .. Len(log) + Len(new) :
              log'[l] = IF l <= Len(log) THEN log[l] ELSE new[l - Len(log)]
    <3>1. log' = log \o new
      BY <2>1 DEF new
    <3> QED BY <1>1, <2>3, <3>1, ConcatProperties
  <2>5. /\ DOMAIN log' = 1 .. Len(log) + Len(new) /\ DOMAIN new = 1 .. Len(new)
            /\ Len(new) \in Nat
    BY <2>3, <2>4, LenProperties
  <2>6. ASSUME NEW l \in DOMAIN log', l \notin DOMAIN log
        PROVE  l >= seen /\ log'[l].run = run_no + 1 /\ ~log'[l].late
    <3>1. l > Len(log) /\ l - Len(log) \in 1 .. Len(new) /\ l \in 1 .. Len(log) + Len(new)
      BY <1>2, <2>5, <2>6
    <3>2. log'[l] = new[l - Len(log)]
      BY <1>2, <2>4, <3>1
    <3>3. l >= seen
      BY <1>1, <1>2, <3>1
    <3> QED BY <2>3, <2>5, <3>1, <3>2, <3>3
  <2>7. \A l \in DOMAIN log : l \in DOMAIN log' /\ log'[l] = log[l]
    BY <1>2, <2>4, <2>5
  <2> QED BY <1>1, <1>2, <1>3, <1>5, <2>6, <2>7
<1> QED BY <1>4, <1>5

\* What is said of a run stays right while no line blames it.
LEMMA StillBlames ==
    ASSUME overrun \subseteq overrun', NEW i, NEW value, Blames(i, value),
           \A l \in DOMAIN log' : log'[l].run = i /\ ~log'[l].late => l \in DOMAIN log
                 /\ log'[l] = log[l]
    PROVE  Blames(i, value)'
BY DEF Blames

\* What lines blame on runs changes with the log and its gaps alone.
LEMMA SameBlame ==
    ASSUME UNCHANGED <<log, overrun>>
    PROVE  \A i, value : Blames(i, value)' <=> Blames(i, value)
BY DEF Blames

\* No status goes out without the crash lines of its run.
LEMMA BlamingStep == IInv /\ [Next]_vars => Blaming'
<1> SUFFICES ASSUME IInv, [Next]_vars PROVE Blaming'
  OBVIOUS
<1> USE FuzznetlinkAssumption DEF IInv, vars, aflVars, kcovVars, nsVars, logVars
<1>1. CASE \/ OpenKernel \/ Hangup \/ Fatal \/ LoadInput \/ CycleNetns
  BY <1>1, SameBlame DEF OpenKernel, Hangup, Fatal, LoadInput, CycleNetns, Blaming
<1>2. CASE \/ KeepNetns \/ kcov_enable \/ kcov_disable \/ FillMap \/ ReadKmsg
  BY <1>2, SameBlame DEF KeepNetns, kcov_enable, kcov_disable, FillMap, ReadKmsg, Blaming
<1>3. CASE \/ state.forksrv /\ (AflRequest \/ AflStop)
           \/ UNCHANGED vars
  BY <1>3, SameBlame DEF AflRequest, AflStop, Blaming
<1>4. CASE \/ Welcome \/ forksrv_cycle
           \/ state.forksrv /\ (AflHello \/ AflPid)
  <2>1. UNCHANGED <<log, overrun, verdicts, run_no, crashed>> /\ (pc' = "status" => pc = "status")
    BY <1>4 DEF Welcome, forksrv_cycle, AflHello, AflPid
  <2> QED BY <1>4, <2>1, SameBlame, Old DEF Blaming
<1>5. CASE Test
  <2>1. /\ Len(verdicts) <= run_no /\ run_no \in Nat /\ verdicts \in Seq(Message)
        /\ \A k \in DOMAIN st : st[k].kind # "status"
    <3>1. run_no \in Nat /\ verdicts \in Seq(Message) /\ pc \in Testing
      BY <1>5 DEF Test, Testing, TypeOK
    <3> HIDE DEF IInv
    <3> QED BY <3>1, AtWork, Silent
  <2>2. ASSUME NEW i \in DOMAIN verdicts, NEW value, Blames(i, value) PROVE Blames(i, value)'
    <3>1. i # run_no + 1
      BY <2>1, LenProperties
    <3>2. \A l \in DOMAIN log' : log'[l].run = i /\ ~log'[l].late => l \in DOMAIN log
          /\ log'[l] = log[l]
      BY <1>5, <3>1, Logged
    <3> QED BY <1>5, <2>2, <3>2, StillBlames DEF Test
  <2>3. pc' # "status" /\ UNCHANGED <<verdicts, st>>
    BY <1>5 DEF Test
  <2> QED BY <2>1, <2>2, <2>3 DEF Blaming
<1>6. CASE KmsgEmpty
  <2>1. UNCHANGED <<log, overrun, verdicts, st, run_no, crashed>> /\ pc = "dmesg"
        /\ seen = Len(log) + 1
    BY <1>6 DEF KmsgEmpty
  <2>2. Blames(run_no + 1, IF crashed THEN 139 ELSE 0)
    <3>1. DOMAIN log = 1 .. Len(log) /\ Len(log) \in Nat
      BY LenProperties DEF TypeOK
    <3>2. \A l \in DOMAIN log : ~(l >= seen)
      BY <2>1, <3>1
    <3>3. \A l \in DOMAIN log : log[l].run = run_no + 1 => (log[l].crash => crashed)
      BY <2>1, <3>2 DEF Reading
    <3> QED BY <3>3 DEF Blames
  <2> QED BY <2>1, <2>2, SameBlame DEF Blaming
<1>7. CASE KmsgOverrun
  <2>1. UNCHANGED <<log, verdicts, st, run_no, crashed>> /\ overrun' = overrun \cup {run_no + 1}
    BY <1>7 DEF KmsgOverrun
  <2>2. ASSUME NEW i, NEW value, Blames(i, value) PROVE Blames(i, value)'
    BY <2>1, <2>2, StillBlames
  <2>3. Blames(run_no + 1, IF crashed THEN 139 ELSE 0)'
    BY <2>1 DEF Blames
  <2> QED BY <2>1, <2>2, <2>3 DEF Blaming
<1>8. CASE forksrv_status
  <2>1. UNCHANGED <<log, overrun, verdicts>> /\ pc = "status" /\ pc' # "status"
    BY <1>8 DEF forksrv_status
  <2>2. \A i, value : Blames(i, value)' <=> Blames(i, value)
    BY <2>1, SameBlame
  <2>3. Blames(run_no + 1, IF crashed THEN 139 ELSE 0)
    BY <2>1 DEF Blaming
  <2>4. ASSUME NEW k \in DOMAIN st', st'[k].kind = "status"
        PROVE Blames(st'[k].input, st'[k].value)
    <3>1. st'[k].input = run_no + 1 /\ st'[k].value = IF crashed THEN 139 ELSE 0
      BY <1>8, <2>4, Sent
    <3> QED BY <2>3, <3>1
  <2> QED BY <2>1, <2>2, <2>4 DEF Blaming
<1>9. CASE LateLine
  <2>1. \A l \in DOMAIN log' : ~log'[l].late => l \in DOMAIN log /\ log'[l] = log[l]
    BY <1>9, Logged
  <2>2. UNCHANGED <<pc, overrun, verdicts, st, run_no, crashed>>
    BY <1>9 DEF LateLine
  <2>3. ASSUME NEW i, NEW value, Blames(i, value) PROVE Blames(i, value)'
    BY <2>1, <2>2, <2>3, StillBlames
  <2> QED BY <2>2, <2>3 DEF Blaming
<1>10. CASE state.forksrv /\ AflStatus
  <2>1. UNCHANGED <<log, overrun, pc, run_no, crashed>>
    BY <1>10 DEF AflStatus
  <2>2. \A i, value : Blames(i, value)' <=> Blames(i, value)
    BY <2>1, SameBlame
  <2>3. ASSUME NEW i \in DOMAIN verdicts' PROVE Blames(i, verdicts'[i].value)
    <3>1. CASE i = Len(verdicts) + 1
      <4>1. 1 \in DOMAIN st /\ st[1].kind = "status" /\ st[1].input = i /\ verdicts'[i] = st[1]
        BY <1>10, <3>1, Heard
      <4>2. Blames(st[1].input, st[1].value)
        BY <4>1 DEF Blaming
      <4> QED BY <4>1, <4>2
    <3>2. CASE i # Len(verdicts) + 1
      <4>1. i \in DOMAIN verdicts /\ verdicts'[i] = verdicts[i]
        BY <1>10, <3>2, Heard
      <4> QED BY <4>1 DEF Blaming
    <3> QED BY <3>1, <3>2
  <2>4. st' = <<>>
    BY <1>10, Heard
  <2> QED BY <2>1, <2>2, <2>3, <2>4 DEF Blaming
<1> QED BY <1>1, <1>2, <1>3, <1>4, <1>5, <1>6, <1>7, <1>8, <1>9, <1>10 DEF Next, Program, Afl,
     AflReads

\* Lines are numbered by runs.
LEMMA RunIsNat ==
    ASSUME TypeOK
    PROVE  \A l \in DOMAIN log : log[l].run \in Nat
<1>1. log \in Seq(Line) /\ MaxRuns \in Nat
  BY FuzznetlinkAssumption DEF TypeOK
<1>2. \A l \in DOMAIN log : log[l] \in Line
  BY <1>1, LenProperties, ElementOfSeq
<1> QED BY <1>1, <1>2 DEF Line

\* Every line is where the reader will still find it, or has been noticed.
LEMMA ReadingStep == IInv /\ [Next]_vars => Reading'
<1> SUFFICES ASSUME IInv, [Next]_vars PROVE Reading'
  OBVIOUS
<1> USE FuzznetlinkAssumption DEF IInv, vars, aflVars, kcovVars, nsVars, logVars
<1>1. CASE \/ Welcome \/ forksrv_cycle \/ LoadInput \/ CycleNetns \/ KeepNetns
  BY <1>1 DEF Welcome, forksrv_cycle, LoadInput, CycleNetns, KeepNetns, Reading, TypeOK
<1>2. CASE \/ kcov_enable \/ kcov_disable \/ FillMap \/ KmsgEmpty
  BY <1>2 DEF kcov_enable, kcov_disable, FillMap, KmsgEmpty, Reading, TypeOK
<1>3. CASE \/ state.forksrv /\ (AflHello \/ AflRequest \/ AflPid \/ AflStatus \/ AflStop)
           \/ UNCHANGED vars
  BY <1>3 DEF AflHello, AflRequest, AflPid, AflStatus, AflStop, Reading, TypeOK
<1>4. CASE OpenKernel
  <2>1. DOMAIN log = 1 .. Len(log) /\ Len(log) \in Nat
    BY LenProperties DEF TypeOK
  <2>2. \A l \in DOMAIN log : ~(l >= Len(log) + 1)
    BY <2>1
  <2> QED BY <1>4, <2>2 DEF OpenKernel, Reading
<1>5. CASE \/ Hangup \/ Fatal
  <2>1. \A l \in DOMAIN log : log[l].run \in Nat
    BY RunIsNat
  <2>2. pc' = "dead" /\ UNCHANGED <<log, run_no>> /\ run_no \in Nat
    BY <1>5 DEF Hangup, Fatal, TypeOK
  <2> QED BY <2>1, <2>2 DEF Reading
<1>6. CASE Test
  <2>1. /\ pc = "test" /\ pc' = "disable" /\ UNCHANGED <<run_no, seen, crashed>> /\ run_no \in Nat
        /\ log \in Seq(Line)
    BY <1>6 DEF Test, TypeOK
  <2>2. ASSUME NEW l \in DOMAIN log
        PROVE  log'[l] = log[l] /\ log[l].run <= run_no /\ log[l].run \in Nat
              /\ (l >= seen => log[l].run > 0 \/ log[l].late)
    <3>1. log[l] \in Line
      BY <2>1, LenProperties, ElementOfSeq
    <3> QED BY <1>6, <2>1, <3>1, Logged DEF Reading, Line
  <2>3. ASSUME NEW l \in DOMAIN log', l \notin DOMAIN log
        PROVE  l >= seen /\ log'[l].run = run_no + 1
    BY <1>6, <2>3, Logged
  <2> QED BY <2>1, <2>2, <2>3 DEF Reading
<1>7. CASE ReadKmsg
  <2>1. /\ pc = "dmesg" /\ UNCHANGED <<pc, log, run_no>> /\ seen' = seen + 1
        /\ crashed' = (crashed \/ log[seen].crash) /\ seen \in Nat
    BY <1>7 DEF ReadKmsg, TypeOK
  <2>2. ASSUME NEW l \in DOMAIN log
        PROVE  l \in Nat /\ (l >= seen' => l >= seen) /\ (l >= seen => l >= seen' \/ l = seen)
    <3>1. l \in Nat
      BY LenProperties DEF TypeOK
    <3> QED BY <2>1, <3>1
  <2> QED BY <2>1, <2>2 DEF Reading
<1>8. CASE KmsgOverrun
  <2>1. /\ pc = "dmesg" /\ pc' = "status" /\ UNCHANGED <<log, run_no>> /\ seen < seen'
            /\ seen \in Nat /\ seen' \in Int
    <3>1. log \in Seq(Line) /\ Len(log) \in Nat /\ seen \in Nat
      BY LenProperties DEF TypeOK
    <3> QED BY <1>8, <3>1 DEF KmsgOverrun, Oldest
  <2>2. ASSUME NEW l \in DOMAIN log, l >= seen' PROVE l >= seen
    <3>1. l \in Nat
      BY LenProperties DEF TypeOK
    <3> QED BY <2>1, <2>2, <3>1
  <2> QED BY <2>1, <2>2 DEF Reading
<1>9. CASE forksrv_status
  <2>1. \A l \in DOMAIN log : log[l].run \in Nat
    BY RunIsNat
  <2>2. /\ pc = "status" /\ UNCHANGED <<log, seen>> /\ run_no \in Nat
        /\ \/ pc' = "end" /\ run_no' = run_no
           \/ pc' = "cycle" /\ run_no' = run_no + 1
    <3>1. run_no \in Nat
      BY DEF TypeOK
    <3> QED BY <1>9, <3>1 DEF forksrv_status
  <2>3. \A l \in DOMAIN log : log[l].run <= run_no + 1
    BY <2>2 DEF Reading
  <2>4. \A l \in DOMAIN log : l >= seen => log[l].run > 0 \/ log[l].late
    BY <2>2 DEF Reading
  <2> QED BY <2>1, <2>2, <2>3, <2>4 DEF Reading
<1>10. CASE LateLine
  <2>1. UNCHANGED <<pc, run_no, seen, crashed>> /\ run_no \in Nat
    BY <1>10 DEF LateLine, TypeOK
  <2>2. \A l \in DOMAIN log : log'[l] = log[l]
    BY <1>10, Logged
  <2>3. \A l \in DOMAIN log' : l \notin DOMAIN log => l >= seen /\ log'[l].run = 0 /\ log'[l].late
    BY <1>10, Logged
  <2> QED BY <2>1, <2>2, <2>3 DEF Reading
<1> QED BY <1>1, <1>2, <1>3, <1>4, <1>5, <1>6, <1>7, <1>8, <1>9, <1>10 DEF Next, Program, Afl,
     AflReads

-----------------------------------------------------------------------------
(* Reports and crash lines.                                                *)

\* Reports and crash lines can be counted.
LEMMA Finite ==
    ASSUME TypeOK
    PROVE  /\ IsFiniteSet(Reported) /\ Cardinality(Reported) \in Nat
           /\ \A s : IsFiniteSet(Lines(s)) /\ Cardinality(Lines(s)) \in Nat
<1>1. log \in Seq(Line) /\ verdicts \in Seq(Message)
  BY DEF TypeOK
<1>2. IsFiniteSet(DOMAIN log) /\ IsFiniteSet(DOMAIN verdicts)
  BY <1>1, LenProperties, FS_Interval
<1>3. Reported \subseteq DOMAIN verdicts /\ \A s : Lines(s) \subseteq DOMAIN log
  BY DEF Reported, Lines
<1> QED BY <1>2, <1>3, FS_Subset, FS_CardinalityType

\* The two summands next to the reports are 0 or 1.
LEMMA Bits ==
    /\ OnItsWay \in 0 .. 1 /\ Found \in 0 .. 1
    /\ OnItsWay' \in 0 .. 1 /\ Found' \in 0 .. 1
BY DEF OnItsWay, Found

\* Nothing is read when the position stays.
LEMMA SameLines ==
    ASSUME UNCHANGED <<log, seen>>
    PROVE  Lines(seen)' = Lines(seen)
BY DEF Lines

\* What is read stays read.
LEMMA MoreLines ==
    ASSUME TypeOK, UNCHANGED log, seen <= seen', seen' \in Int
    PROVE  Lines(seen) \subseteq Lines(seen)'
<1>1. seen \in Int /\ \A l \in DOMAIN log : l \in Int
  BY LenProperties DEF TypeOK
<1> QED BY <1>1 DEF Lines

\* A step that reads on and reports nothing.
LEMMA Counted ==
    ASSUME IInv, LogTypes', Reported' = Reported, Lines(seen) \subseteq Lines(seen)',
           \/ OnItsWay' <= OnItsWay /\ Found' <= Found
           \/ OnItsWay' <= Found /\ Found' = 0
    PROVE  Counting'
<1>1. IsFiniteSet(Lines(seen)')
  <2>1. log' \in Seq(Line)
    BY DEF LogTypes
  <2>2. IsFiniteSet(DOMAIN log') /\ Lines(seen)' \subseteq DOMAIN log'
    BY <2>1, LenProperties, FS_Interval DEF Lines
  <2> QED BY <2>2, FS_Subset
<1>2. Cardinality(Lines(seen)) <= Cardinality(Lines(seen)') /\ Cardinality(Lines(seen)') \in Nat
  BY <1>1, FS_Subset, FS_CardinalityType
<1>3. Cardinality(Reported) + OnItsWay + Found <= Cardinality(Lines(seen))
  BY DEF IInv, Counting
<1>4. Cardinality(Reported) \in Nat /\ Cardinality(Lines(seen)) \in Nat
  BY Finite DEF IInv
<1>5. PICK way \in 0 .. 1, found \in 0 .. 1 : way = OnItsWay' /\ found = Found'
  BY Bits
<1>6. \/ way <= OnItsWay /\ found <= Found
      \/ way <= Found /\ found = 0
  BY <1>5
<1>7. Cardinality(Reported) + way + found <= Cardinality(Lines(seen))
  BY <1>3, <1>4, <1>6, Bits
<1>8. Cardinality(Reported) + way + found <= Cardinality(Lines(seen)')
  BY <1>2, <1>4, <1>7
<1>9. Cardinality(Reported') + OnItsWay' + Found' <= Cardinality(Lines(seen)')
  BY <1>5, <1>8
<1> QED BY <1>9 DEF Counting

\* A report needs a crash line of its own.
LEMMA CountingStep == IInv /\ [Next]_vars => Counting'
<1> SUFFICES ASSUME IInv, [Next]_vars PROVE Counting'
  OBVIOUS
<1> USE FuzznetlinkAssumption DEF IInv, vars, aflVars, kcovVars, nsVars, logVars
<1>1. CASE \/ Welcome \/ forksrv_cycle
           \/ state.forksrv /\ (AflHello \/ AflPid)
  <2>1. UNCHANGED <<log, seen, verdicts, crashed>> /\ (pc' \in {"dmesg", "status"} => pc' = pc)
    BY <1>1 DEF Welcome, forksrv_cycle, AflHello, AflPid
  <2>2. OnItsWay' <= OnItsWay
    BY <1>1, Old DEF OnItsWay
  <2>3. Found' <= Found
    BY <2>1 DEF Found
  <2>4. Reported' = Reported /\ Lines(seen) \subseteq Lines(seen)'
    BY <2>1, SameLines DEF Reported
  <2> QED BY <2>2, <2>3, <2>4, LogTypesStep, Counted
<1>2. CASE OpenKernel
  <2>1. UNCHANGED <<log, verdicts, st>> /\ pc' \notin {"dmesg", "status"} /\ seen' = Len(log) + 1
    BY <1>2 DEF OpenKernel
  <2>2. seen <= seen'
    BY <2>1 DEF TypeOK
  <2> QED BY <2>1, <2>2, LogTypesStep, Counted, MoreLines, Bits DEF Reported, OnItsWay, Found
<1>3. CASE \/ Hangup \/ Fatal \/ LoadInput \/ CycleNetns \/ KeepNetns \/ kcov_enable
           \/ kcov_disable \/ FillMap \/ KmsgEmpty
           \/ state.forksrv /\ (AflRequest \/ AflStop)
           \/ UNCHANGED vars
  <2>1. /\ UNCHANGED <<log, seen, verdicts, st>>
        /\ pc' \in {"dmesg", "status"} /\ crashed' => pc \in {"dmesg", "status"} /\ crashed
    BY <1>3 DEF Hangup, Fatal, LoadInput, CycleNetns, KeepNetns, kcov_enable, kcov_disable,
                FillMap, KmsgEmpty, AflRequest, AflStop
  <2> QED BY <2>1, LogTypesStep, Counted, SameLines DEF Reported, OnItsWay, Found
<1>4. CASE \/ Test \/ LateLine
  <2>1. UNCHANGED <<seen, verdicts, st, crashed>> /\ (pc' \in {"dmesg", "status"} => pc' = pc)
    BY <1>4 DEF Test, LateLine
  <2>2. Lines(seen) \subseteq Lines(seen)'
    BY <1>4, <2>1, Logged DEF Lines
  <2> QED BY <2>1, <2>2, LogTypesStep, Counted, Bits DEF Reported, OnItsWay, Found
<1>5. CASE ReadKmsg
  <2>1. /\ pc = "dmesg" /\ UNCHANGED <<log, verdicts, st, pc>> /\ seen' = seen + 1
        /\ crashed' = (crashed \/ log[seen].crash) /\ seen \in Oldest .. Len(log)
    BY <1>5 DEF ReadKmsg
  <2>2. seen \in DOMAIN log /\ seen \in Nat /\ \A l \in DOMAIN log : l \in Nat
    <3>1. DOMAIN log = 1 .. Len(log) /\ Len(log) \in Nat /\ seen \in 1 .. Len(log) + 1
      BY LenProperties DEF TypeOK
    <3> QED BY <2>1, <3>1 DEF Oldest
  <2>3. CASE Found' = Found
    <3>1. seen <= seen'
      BY <2>1, <2>2
    <3> QED BY <2>1, <2>3, <3>1, LogTypesStep, Counted, MoreLines, Bits DEF Reported, OnItsWay
  <2>4. CASE Found' # Found
    <3>1. ~crashed /\ log[seen].crash /\ Found = 0 /\ Found' = 1
      BY <2>1, <2>4 DEF Found
    <3>2. log[seen].run > 0 \/ log[seen].late
      BY <2>1, <2>2 DEF Reading
    <3>3. Lines(seen)' = Lines(seen) \cup {seen} /\ seen \notin Lines(seen)
      BY <2>1, <2>2, <3>1, <3>2 DEF Lines
    <3>4. Cardinality(Lines(seen)') = Cardinality(Lines(seen)) + 1
      BY <3>3, Finite, FS_AddElement
    <3>5. Reported' = Reported /\ OnItsWay' = OnItsWay
      BY <2>1 DEF Reported, OnItsWay
    <3> QED BY <3>1, <3>4, <3>5, Finite, Bits DEF Counting
  <2> QED BY <2>3, <2>4
<1>6. CASE KmsgOverrun
  <2>1. UNCHANGED <<log, verdicts, st, crashed>> /\ pc = "dmesg"
    BY <1>6 DEF KmsgOverrun
  <2>2. seen <= seen'
    <3>1. Len(log) \in Nat /\ seen \in Nat
      BY LenProperties DEF TypeOK
    <3> QED BY <1>6, <3>1 DEF KmsgOverrun, Oldest
  <2>3. Found' <= Found
    BY <2>1 DEF Found
  <2>4. seen' \in Int
    BY LogTypesStep, LenProperties DEF LogTypes
  <2>5. Lines(seen) \subseteq Lines(seen)'
    BY <2>1, <2>2, <2>4, MoreLines
  <2>6. Reported' = Reported /\ OnItsWay' = OnItsWay
    BY <2>1 DEF Reported, OnItsWay
  <2>7. OnItsWay' <= OnItsWay
    BY <2>6, Bits
  <2> QED BY <2>3, <2>5, <2>6, <2>7, LogTypesStep, Counted
<1>7. CASE forksrv_status
  <2>1. UNCHANGED <<log, seen, verdicts, crashed>> /\ pc = "status"
        /\ pc' \notin {"dmesg", "status"}
    BY <1>7 DEF forksrv_status
  <2>2. OnItsWay' <= Found
    BY <1>7, <2>1, Sent DEF OnItsWay, Found
  <2>3. Found' = 0
    BY <2>1 DEF Found
  <2>4. Reported' = Reported /\ Lines(seen) \subseteq Lines(seen)'
    BY <2>1, SameLines DEF Reported
  <2> QED BY <2>2, <2>3, <2>4, LogTypesStep, Counted
<1>8. CASE state.forksrv /\ AflStatus
  <2>1. UNCHANGED <<log, seen, pc, crashed>>
    BY <1>8 DEF AflStatus
  <2>2. Found' = Found /\ Lines(seen)' = Lines(seen) /\ OnItsWay' = 0
    <3>1. st' = <<>>
      BY <1>8, Heard
    <3>2. OnItsWay' = 0
      BY <3>1 DEF OnItsWay
    <3> QED BY <2>1, <3>2, SameLines DEF Found
  <2> DEFINE n == Len(verdicts) + 1
  <2>3. /\ DOMAIN st = {1} /\ st[1].kind = "status" /\ verdicts'[n] = st[1]
            /\ DOMAIN verdicts' = DOMAIN verdicts \cup {n}
        /\ n \notin DOMAIN verdicts /\ \A k \in DOMAIN verdicts : verdicts'[k] = verdicts[k]
    BY <1>8, Heard
  <2> HIDE DEF n
  <2>4. CASE st[1].value = 139
    <3>1. Reported' = Reported \cup {n} /\ n \notin Reported
      BY <2>3, <2>4 DEF Reported
    <3>2. Cardinality(Reported') = Cardinality(Reported) + 1
      BY <3>1, Finite, FS_AddElement
    <3>3. OnItsWay = 1
      BY <2>3, <2>4 DEF OnItsWay
    <3> QED BY <2>2, <3>2, <3>3, Finite, Bits DEF Counting
  <2>5. CASE st[1].value # 139
    <3>1. Reported' = Reported
      BY <2>3, <2>5 DEF Reported
    <3>2. OnItsWay = 0
      BY <2>3, <2>5 DEF OnItsWay
    <3> QED BY <2>2, <3>1, <3>2, Finite, Bits DEF Counting
  <2> QED BY <2>4, <2>5
<1> QED BY <1>1, <1>2, <1>3, <1>4, <1>5, <1>6, <1>7, <1>8 DEF Next, Program, Afl, AflReads

-----------------------------------------------------------------------------
(* The theorems.                                                           *)

\* It all holds when the program starts.
LEMMA Start == Init => IInv
<1> SUFFICES ASSUME Init PROVE IInv
  OBVIOUS
<1> USE FuzznetlinkAssumption DEF Init
<1>1. /\ st = <<>> /\ verdicts = <<>> /\ home = <<>> /\ cover = <<>> /\ trace = <<>>
      /\ \A S : <<>> \in Seq(S)
      /\ Len(<<>>) = 0 /\ DOMAIN <<>> = {}
  BY EmptySeq
<1>2. log \in Seq(Line) /\ \A l \in DOMAIN log : log[l].run = 0
  <2> DEFINE line == [crash |-> TRUE, run |-> 0, late |-> FALSE]
  <2>1. line \in Line /\ line.run = 0
    BY DEF Line
  <2> HIDE DEF line
  <2>2. /\ <<line>> \in Seq(Line) /\ DOMAIN <<line>> = {1} /\ <<line>>[1] = line
    BY <2>1
  <2>3. log = <<>> \/ log = <<line>>
    BY DEF line
  <2> QED BY <1>1, <2>1, <2>2, <2>3
<1>3. TypeOK
  <2>1. afl_area \in Area
    BY DEF Clean, Area
  <2>2. seen \in 1 .. Len(log) + 1
    BY <1>2, LenProperties
  <2>3. ProgramTypes
    <3>1. state \in Options /\ pc = "welcome"
      OBVIOUS
    <3>2. run_no \in 0 .. MaxRuns /\ loaded \in 0 .. request
      OBVIOUS
    <3>3. crashed \in BOOLEAN /\ force_new_netns \in BOOLEAN /\ tracing \in BOOLEAN
      OBVIOUS
    <3> QED BY <3>1, <3>2, <3>3 DEF ProgramTypes
  <2>4. AflTypes
    BY <1>1 DEF AflTypes
  <2>5. KcovTypes /\ NsTypes
    BY <1>1, <2>1 DEF KcovTypes, NsTypes
  <2>6. LogTypes
    BY <1>2, <2>2 DEF LogTypes
  <2> QED BY <2>3, <2>4, <2>5, <2>6, TypeParts
<1>4. Homes /\ Covering /\ Blaming /\ Moving /\ MapIsTheTest
  BY <1>1 DEF Homes, Placed, Covering, Testing, Blaming, Moving, MapIsTheTest
<1>5. Reading
  BY <1>2 DEF Reading
<1>6. Counting
  <2>1. Reported = {} /\ OnItsWay = 0 /\ Found = 0
    BY <1>1 DEF Reported, OnItsWay, Found
  <2>2. Cardinality(Lines(seen)) \in Nat
    BY <1>3, Finite
  <2> QED BY <2>1, <2>2, FS_EmptySet DEF Counting
<1>7. InStep /\ Alone
  BY <1>1 DEF InStep, Alone, Testing, Waiting
<1> QED BY <1>3, <1>4, <1>5, <1>6, <1>7 DEF IInv

\* Every step keeps it.
LEMMA Stays == IInv /\ [Next]_vars => IInv'
<1> SUFFICES ASSUME IInv, [Next]_vars PROVE IInv'
  OBVIOUS
<1>1. TypeOK'
  BY ProgramTypesStep, AflTypesStep, KcovTypesStep, NsTypesStep, LogTypesStep
     DEF TypeOK, ProgramTypes, AflTypes, KcovTypes, NsTypes, LogTypes, Area
<1>2. (IF state.forksrv THEN InStep ELSE Alone)'
  BY InStepStep, AloneStep
<1> QED
  BY <1>1, <1>2, HomesStep, CoveringStep, BlamingStep, ReadingStep, CountingStep, MovingStep,
       MapStep
     DEF IInv

\* The inductive invariant: where AFL and the program are (InStep), whose the
\* namespaces (Homes), the coverage and the map (Covering), the log lines
\* (Reading) and the statuses (Blaming, Counting, Moving) are.
THEOREM Invariant == Spec => []IInv
<1>1. IInv /\ UNCHANGED vars => IInv'
  BY Stays
<1> QED BY Start, Stays, PTL DEF Spec

\* The types of fuzznetlink, of AFL and of the kernel's parts.
THEOREM Types == Spec => []TypeOK
<1>1. IInv => TypeOK
  BY DEF IInv
<1> QED BY <1>1, Invariant, PTL

\* What AFL reads next is of the kind it takes it for, and the i-th status is
\* about the i-th test case (forksrv.c, fuzznetlink.c:107).
THEOREM InLockStep == Spec => []LockStep
<1>1. IInv => LockStep
  <2> SUFFICES ASSUME IInv PROVE LockStep
    OBVIOUS
  <2>1. TypeOK /\ st \in Seq(Message)
    BY DEF IInv, TypeOK
  <2>2. CASE state.forksrv
    <3>1. InStep
      BY <2>2 DEF IInv
    <3>2. st # <<>> => Head(st) = st[1]
      BY <2>1, Pipe
    <3>3. apc = "hello" /\ st # <<>> => Head(st).kind = apc
      BY <3>1, <3>2 DEF InStep, Says
    <3>4. apc = "pid" /\ st # <<>> => Head(st).kind = apc
      BY <3>1, <3>2 DEF InStep, Says
    <3>5. apc = "status" /\ st # <<>> => Head(st).kind = apc
      BY <3>1, <3>2 DEF InStep, Says
    <3> QED BY <2>1, <3>1, <3>3, <3>4, <3>5 DEF LockStep, InStep
  <2>3. CASE ~state.forksrv
    <3>1. apc = "hello" /\ st = <<>> /\ verdicts = <<>>
      BY <2>3 DEF IInv, Alone
    <3> QED BY <2>1, <3>1 DEF LockStep
  <2> QED BY <2>2, <2>3
<1> QED BY <1>1, Invariant, PTL

\* The map counts the steps of the test alone and no counter wraps to a smaller
\* class (fuzznetlink.c:226-240, kcov.c:51-79).
THEOREM TheMapIsTheTest == Spec => []MapIsTheTest
<1>1. IInv => MapIsTheTest
  BY DEF IInv
<1> QED BY <1>1, Invariant, PTL

\* A crash is reported with its test unless the log was overwritten, and no
\* crash line twice (fuzznetlink.c:252-278, 131).
THEOREM CrashesBlamed == Spec => []CrashBlamed
<1>1. IInv => CrashBlamed
  <2> SUFFICES ASSUME IInv PROVE CrashBlamed
    OBVIOUS
  <2> DEFINE Crashes == {l \in DOMAIN log : log[l].crash /\ (log[l].run > 0 \/ log[l].late)}
  <2>1. IsFiniteSet(Crashes) /\ Lines(seen) \subseteq Crashes
    <3>1. log \in Seq(Line)
      BY DEF IInv, TypeOK
    <3>2. IsFiniteSet(DOMAIN log)
      BY <3>1, LenProperties, FS_Interval
    <3> QED BY <3>2, FS_Subset DEF Lines
  <2>2. Cardinality(Lines(seen)) <= Cardinality(Crashes) /\ Cardinality(Crashes) \in Nat
    BY <2>1, FS_Subset, FS_CardinalityType
  <2>3. Cardinality(Reported) <= Cardinality(Crashes)
    <3>1. Cardinality(Reported) + OnItsWay + Found <= Cardinality(Lines(seen))
      BY DEF IInv, Counting
    <3>2. Cardinality(Reported) \in Nat /\ Cardinality(Lines(seen)) \in Nat
      BY Finite DEF IInv
    <3>3. Cardinality(Reported) <= Cardinality(Lines(seen))
      BY <3>1, <3>2, Bits
    <3> QED BY <2>2, <3>2, <3>3
  <2>4. \A i \in DOMAIN verdicts : Blames(i, verdicts[i].value)
    BY DEF IInv, Blaming
  <2> QED BY <2>3, <2>4 DEF CrashBlamed, Blames, Reported
<1> QED BY <1>1, Invariant, PTL

\* The test after a reported crash runs in another namespace, unless the kernel
\* had none left (fuzznetlink.c:170-175).
THEOREM CrashesIsolated == Spec => []CrashIsolated
<1>1. IInv => CrashIsolated
  BY DEF IInv, Moving, Moves, CrashIsolated
<1> QED BY <1>1, Invariant, PTL
=============================================================================
