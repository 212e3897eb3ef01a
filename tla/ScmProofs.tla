----------------------------- MODULE ScmProofs -----------------------------
(***************************************************************************)
(* The three servers of 2018-11-scm-rights with any number of clients,     *)
(* descriptors and faults.                                                 *)
(***************************************************************************)
EXTENDS ScmRights, FiniteSetTheorems, SequenceTheorems, TLAPS

In(q) == {q[k] : k \in DOMAIN q}
Once(q) == \A k, l \in DOMAIN q : q[k] = q[l] => k = l

Types ==
    /\ TypeOK
    /\ payload \in [Conns -> {"pass", "pa|ss", "other"}]
    /\ queue \in Seq(Conns) /\ backlog \in [Secondaries -> Seq(Conns)]
    /\ cur \in [Secondaries -> Conns \union {NoConn}]

\* Every server has a connection exactly while it works on one.
Busy ==
    /\ cpc \in {"accept", "dead"} <=> tcp_conn = NoConn
    /\ \A s \in Secondaries : spc[s] \in {"read", "fileconn", "write"} <=> cur[s] # NoConn

\* Secondary s works on connection c or has it in its queue.
With(c, s) == cur[s] = c \/ c \in In(backlog[s])

\* No connection waits twice, or in two queues.
Apart ==
    /\ Once(queue) /\ tcp_conn \notin In(queue)
    /\ \A s \in Secondaries : Once(backlog[s]) /\ cur[s] \notin In(backlog[s])
    /\ \A c \in Conns : ~(With(c, "go") /\ With(c, "rust"))

\* What has not been handed over yet: those who come, those in the queue, and
\* the one the front looks at.
Early(c) ==
    \/ client[c] = "new" \/ c \in In(queue)
    \/ tcp_conn = c /\ cpc \in {"peek", "answer", "connect"}
Untouched ==
    /\ \A c \in Conns : Early(c) =>
          reply[c] = {} /\ ux[c] = "none" /\ \A s \in Secondaries : ~With(c, s)
    /\ \A c \in Conns : client[c] = "new" => c \notin In(queue) /\ tcp_conn # c

\* A descriptor is held by who works on the connection.
Holding ==
    \A c \in Conns :
        /\ "c" \in refs[c] <=> tcp_conn = c
        /\ "conn" \in refs[c] => cur["go"] = c
        /\ "rust" \in refs[c] => cur["rust"] = c
        /\ "msg" \in refs[c] <=> ux[c] = "msg"

\* What the front has decided, and what nobody has answered yet.
Deciding ==
    /\ \A c \in Conns : payload[c] = "pass" => sent[c] \in {0, 2}
    /\ \A s \in Secondaries : \A c \in Conns : With(c, s) => reply[c] = {} /\ payload[c] # "other"
    /\ cpc = "connect" => payload[tcp_conn] # "other"
    /\ cpc = "answer" /\ payload[tcp_conn] = "pass" /\ client[tcp_conn] # "rst" =>
          sent[tcp_conn] = 0 /\ client[tcp_conn] = "fin"

Answered ==
    \A c \in Conns :
        /\ reply[c] \in {{}, {"c"}, {"go"}, {"rust"}}
        /\ reply[c] \intersect Secondaries # {} => payload[c] # "other"
        /\ "c" \in reply[c] /\ payload[c] = "pass" => sent[c] = 0 /\ client[c] # "open"

IInv == Types /\ Busy /\ Apart /\ Untouched /\ Holding /\ Deciding /\ Answered

-----------------------------------------------------------------------------
LEMMA Appended ==
    ASSUME NEW S, NEW q \in Seq(S), NEW x \in S
    PROVE  /\ Append(q, x) \in Seq(S) /\ In(Append(q, x)) = In(q) \union {x}
           /\ Once(q) /\ x \notin In(q) => Once(Append(q, x))
<1> DEFINE a == Append(q, x)
<1>1. a \in Seq(S) /\ Len(a) = Len(q) + 1 /\ a[Len(q) + 1] = x /\ \A k \in 1 .. Len(q) : a[k] = q[k]
  OBVIOUS
<1>2. DOMAIN a = 1 .. Len(q) + 1 /\ DOMAIN q = 1 .. Len(q) /\ Len(q) \in Nat
  BY <1>1
<1> HIDE DEF a
<1>3. In(a) = In(q) \union {x}
  BY <1>1, <1>2 DEF In
<1>4. ASSUME Once(q), x \notin In(q) PROVE Once(a)
  BY <1>1, <1>2, <1>4 DEF In, Once
<1> QED BY <1>1, <1>3, <1>4 DEF a

LEMMA Tailed ==
    ASSUME NEW S, NEW q \in Seq(S), q # <<>>
    PROVE  /\ Head(q) \in S /\ Tail(q) \in Seq(S) /\ In(q) = In(Tail(q)) \union {Head(q)}
           /\ Once(q) => Once(Tail(q)) /\ Head(q) \notin In(Tail(q))
<1> DEFINE t == Tail(q)
<1>1. t \in Seq(S) /\ Len(t) = Len(q) - 1 /\ Head(q) = q[1] /\ \A k \in 1 .. Len(q) - 1 : t[k] = q[k + 1]
  OBVIOUS
<1>2. DOMAIN t = 1 .. Len(q) - 1 /\ DOMAIN q = 1 .. Len(q) /\ Len(q) \in Nat \ {0}
  BY <1>1
<1> HIDE DEF t
<1>3. In(q) = In(t) \union {Head(q)}
  <2>1. ASSUME NEW k \in 2 .. Len(q) PROVE q[k] \in In(t)
    <3>1. k - 1 \in DOMAIN t /\ t[k - 1] = q[k]
      BY <1>1, <1>2
    <3> QED BY <3>1 DEF In
  <2>2. Head(q) \in In(q) /\ In(t) \subseteq In(q)
    <3>1. \A k \in DOMAIN t : k + 1 \in DOMAIN q /\ t[k] = q[k + 1]
      BY <1>1, <1>2
    <3> QED BY <1>1, <1>2, <3>1 DEF In
  <2>3. \A k \in DOMAIN q : k = 1 \/ k \in 2 .. Len(q)
    BY <1>2
  <2> QED BY <1>1, <2>1, <2>2, <2>3 DEF In
<1>4. ASSUME Once(q) PROVE Once(t) /\ Head(q) \notin In(t)
  <2>1. ASSUME NEW k \in DOMAIN t PROVE k + 1 \in DOMAIN q /\ t[k] = q[k + 1] /\ k + 1 # 1
    BY <1>1, <1>2
  <2>2. 1 \in DOMAIN q /\ DOMAIN t \subseteq Nat
    BY <1>2
  <2>3. Head(q) \notin In(t)
    BY <1>1, <1>4, <2>1, <2>2 DEF In, Once
  <2>4. Once(t)
    BY <1>4, <2>1, <2>2 DEF Once
  <2> QED BY <2>3, <2>4
<1>5. Head(q) \in S
  BY <1>1, <1>2
<1> QED BY <1>1, <1>3, <1>4, <1>5 DEF t

\* Nobody waits in an empty queue.
LEMMA Emptied == In(<<>>) = {} /\ Once(<<>>) /\ <<>> \in Seq(Conns)
BY DEF In, Once

LEMMA Members == ASSUME Types PROVE In(queue) \subseteq Conns /\ \A s \in Secondaries : In(backlog[s]) \subseteq Conns
BY DEF Types, In

LEMMA PendingIs == ASSUME NEW s \in Secondaries PROVE \A c : c \in Pending(s) <=> With(c, s)
BY DEF Pending, With, In

\* Who may hold a connection.
Parts == {"queue", "c", "msg", "file", "conn", "rust"}

LEMMA RefsUpdated ==
    ASSUME NEW f \in [Conns -> SUBSET Parts], NEW c \in Conns, NEW less, NEW more \in SUBSET Parts
    PROVE  [f EXCEPT ![c] = (f[c] \ less) \union more] \in [Conns -> SUBSET Parts]
OBVIOUS

LEMMA InitIInv == Init => IInv
<1> USE ConnAssumption, Emptied
<1>1. Init => Types
  BY DEF Init, Types, TypeOK, Secondaries
<1>2. Init => Busy /\ Apart /\ Untouched
  BY DEF Init, Busy, Apart, Untouched, Early, With, Secondaries
<1>3. Init => Holding /\ Deciding /\ Answered
  BY DEF Init, Holding, Deciding, Answered, With, Secondaries
<1> QED BY <1>1, <1>2, <1>3 DEF IInv

\* The front's death frees what it held.
LEMMA CDiesStep ==
    ASSUME IInv, CDies, UNCHANGED <<clients, reply, backlog, path, spc, cur>>
    PROVE  IInv'
<1> USE ConnAssumption, Emptied DEF IInv, CDies, SetRefs, clients
<1>1. Types'
  BY DEF Types, TypeOK, Secondaries
<1>2. Busy'
  BY DEF Busy, Types, TypeOK, Secondaries
<1>3. Apart'
  BY DEF Apart, With, Types, Busy, Untouched, Early, Secondaries
<1>4. Untouched'
  BY DEF Untouched, Early, With, Types, TypeOK, Busy, Apart, Secondaries
<1>5. Holding'
  BY DEF Holding, Types, TypeOK, Busy, Untouched, Early, With, Secondaries
<1>6. Deciding'
  BY DEF Deciding, Types, TypeOK, Busy, Apart, Untouched, Early, With, Secondaries
<1>7. Answered'
  BY DEF Answered, Deciding, Types, TypeOK, Busy, Untouched, Early, With, Secondaries
<1> QED BY <1>1, <1>2, <1>3, <1>4, <1>5, <1>6, <1>7

\* A secondary's death frees what it held and what was on its way to it.
LEMMA SecondaryDiesStep ==
    ASSUME IInv, NEW s \in Secondaries, SecondaryDies(s), UNCHANGED <<clients, reply, queue, cpc, tcp_conn>>,
           path' \in Secondaries \union {"none"}
    PROVE  IInv'
<1> USE ConnAssumption, Emptied, PendingIs DEF IInv, SecondaryDies, Holders, SetRefs, clients
<1>1. Types'
  BY DEF Types, TypeOK, Secondaries
<1>2. Busy'
  BY DEF Busy, Types, TypeOK, Secondaries
<1>3. Apart'
  BY DEF Apart, With, Types, Busy, Untouched, Early, Secondaries
<1>4. Untouched'
  BY DEF Untouched, Early, With, Types, TypeOK, Busy, Apart, Secondaries
<1>5. Holding'
  BY DEF Holding, Types, TypeOK, Busy, Untouched, Early, With, Secondaries
<1>6. Deciding'
  BY DEF Deciding, Types, TypeOK, Busy, Apart, Untouched, Early, With, Secondaries
<1>7. Answered'
  BY DEF Answered, Deciding, Types, TypeOK, Busy, Untouched, Early, With, Secondaries
<1> QED BY <1>1, <1>2, <1>3, <1>4, <1>5, <1>6, <1>7

LEMMA ClientConnectStep == ASSUME IInv, NEW c \in Conns, ClientConnect(c) PROVE IInv'
<1> USE ConnAssumption DEF IInv, ClientConnect, SetRefs, Take, clients, unix, procs
<1>0. /\ queue' = Append(queue, c) /\ queue' \in Seq(Conns) /\ In(queue') = In(queue) \union {c}
      /\ c \notin In(queue) /\ Once(queue')
  BY Appended DEF Types, Apart, Untouched
<1>1. Types'
  BY <1>0 DEF Types, TypeOK, Busy, Secondaries
<1>2. Busy'
  BY <1>0 DEF Busy, Types, TypeOK, Secondaries
<1>3. Apart'
  BY <1>0 DEF Apart, Types, Busy, Untouched, Early, With, Secondaries
<1>4. Untouched'
  BY <1>0 DEF Untouched, Early, Types, TypeOK, Busy, Apart, With, Secondaries
<1>5. Holding'
  BY <1>0 DEF Holding, Types, TypeOK, Busy, Untouched, Early, With, Secondaries
<1>6. Deciding'
  BY <1>0 DEF Deciding, Types, TypeOK, Busy, Apart, Untouched, Early, With, Secondaries
<1>7. Answered'
  BY DEF Answered, Untouched, Early, Types, TypeOK
<1> QED BY <1>1, <1>2, <1>3, <1>4, <1>5, <1>6, <1>7

LEMMA ClientSendStep == ASSUME IInv, NEW c \in Conns, ClientSend(c) PROVE IInv'
<1> USE ConnAssumption DEF IInv, ClientSend, unix, procs
<1>1. Types'
  BY DEF Types, TypeOK, Busy, Secondaries
<1>2. Busy'
  BY DEF Busy, Types, TypeOK, Secondaries
<1>3. Apart'
  BY DEF Apart, Types, Busy, Untouched, Early, With, Secondaries
<1>4. Untouched'
  BY DEF Untouched, Early, Types, TypeOK, Busy, Apart, With, Secondaries
<1>5. Holding'
  BY DEF Holding, Types, TypeOK, Busy, Untouched, Early, With, Secondaries
<1>6. Deciding'
  BY DEF Deciding, Types, TypeOK, Busy, Apart, Untouched, Early, With, Secondaries
<1>7. Answered'
  <2>1. reply' = reply /\ payload' = payload
    OBVIOUS
  <2>2. ASSUME NEW d \in Conns, "c" \in reply[d], payload[d] = "pass"
        PROVE  sent'[d] = 0 /\ client'[d] # "open"
    BY <2>2 DEF Answered, Types, TypeOK
  <2> QED BY <2>1, <2>2 DEF Answered
<1> QED BY <1>1, <1>2, <1>3, <1>4, <1>5, <1>6, <1>7

LEMMA ClientFinishStep == ASSUME IInv, NEW c \in Conns, ClientFinish(c) PROVE IInv'
<1> USE ConnAssumption DEF IInv, ClientFinish, unix, procs
<1>1. Types'
  BY DEF Types, TypeOK, Busy, Secondaries
<1>2. Busy'
  BY DEF Busy, Types, TypeOK, Secondaries
<1>3. Apart'
  BY DEF Apart, Types, Busy, Untouched, Early, With, Secondaries
<1>4. Untouched'
  BY DEF Untouched, Early, Types, TypeOK, Busy, Apart, With, Secondaries
<1>5. Holding'
  BY DEF Holding, Types, TypeOK, Busy, Untouched, Early, With, Secondaries
<1>6. Deciding'
  BY DEF Deciding, Types, TypeOK, Busy, Apart, Untouched, Early, With, Secondaries
<1>7. Answered'
  BY DEF Answered, Deciding, Types, TypeOK, Busy, Untouched, Early, With, Secondaries
<1> QED BY <1>1, <1>2, <1>3, <1>4, <1>5, <1>6, <1>7

LEMMA ClientResetStep == ASSUME IInv, NEW c \in Conns, ClientReset(c) PROVE IInv'
<1> USE ConnAssumption DEF IInv, ClientReset, unix, procs
<1>1. Types'
  BY DEF Types, TypeOK, Busy, Secondaries
<1>2. Busy'
  BY DEF Busy, Types, TypeOK, Secondaries
<1>3. Apart'
  BY DEF Apart, Types, Busy, Untouched, Early, With, Secondaries
<1>4. Untouched'
  BY DEF Untouched, Early, Types, TypeOK, Busy, Apart, With, Secondaries
<1>5. Holding'
  BY DEF Holding, Types, TypeOK, Busy, Untouched, Early, With, Secondaries
<1>6. Deciding'
  BY DEF Deciding, Types, TypeOK, Busy, Apart, Untouched, Early, With, Secondaries
<1>7. Answered'
  <2>1. reply' = reply /\ payload' = payload
    OBVIOUS
  <2>2. ASSUME NEW d \in Conns, "c" \in reply[d], payload[d] = "pass"
        PROVE  sent'[d] = 0 /\ client'[d] # "open"
    BY <2>2 DEF Answered, Types, TypeOK
  <2> QED BY <2>1, <2>2 DEF Answered
<1> QED BY <1>1, <1>2, <1>3, <1>4, <1>5, <1>6, <1>7

LEMMA AcceptStep == ASSUME IInv, Accept PROVE IInv'
<1> SUFFICES ASSUME ~CDies PROVE IInv'
  BY CDiesStep DEF Accept
<1> USE ConnAssumption DEF IInv, Accept, SetRefs, clients
<1>0. /\ Head(queue) \in Conns /\ Tail(queue) \in Seq(Conns)
      /\ In(queue) = In(Tail(queue)) \union {Head(queue)}
      /\ Head(queue) \notin In(Tail(queue)) /\ Once(Tail(queue))
  BY Tailed DEF Types, Apart
<1>a. /\ cpc' = "peek" /\ tcp_conn' = Head(queue) /\ queue' = Tail(queue)
      /\ refs' = [refs EXCEPT ![Head(queue)] = {"c"}]
      /\ UNCHANGED <<clients, reply, ux, backlog, path, spc, cur>>
  OBVIOUS
<1>1. Types'
  <2>1. refs' \in [Conns -> SUBSET Parts]
    BY <1>0, <1>a DEF Types, TypeOK, Parts
  <2> QED BY <1>0, <1>a, <2>1 DEF Types, TypeOK, Parts
<1>2. Busy'
  BY <1>0 DEF Busy, Types, TypeOK, Secondaries
<1>3. Apart'
  BY <1>0 DEF Apart, Types, Busy, Untouched, Early, With, Secondaries
<1>4. Untouched'
  <2>1. ASSUME NEW c \in Conns, Early(c)' PROVE Early(c)
    BY <1>0, <1>a, <2>1 DEF Early
  <2>2. \A c \in Conns, s \in Secondaries : With(c, s)' <=> With(c, s)
    BY <1>a DEF With
  <2>3. \A c \in Conns : client[c] = "new" => c \notin In(queue)
    BY DEF Untouched
  <2> QED BY <1>0, <1>a, <2>1, <2>2, <2>3 DEF Untouched, Early
<1>5. Holding'
  BY <1>0 DEF Holding, Types, TypeOK, Busy, Untouched, Early, With, Secondaries
<1>6. Deciding'
  BY <1>0 DEF Deciding, Types, TypeOK, Busy, Apart, Untouched, Early, With, Secondaries
<1>7. Answered'
  BY <1>0 DEF Answered, Deciding, Types, TypeOK, Busy, Untouched, Early, With, Secondaries
<1> QED BY <1>1, <1>2, <1>3, <1>4, <1>5, <1>6, <1>7

LEMMA PeekStep == ASSUME IInv, Peek PROVE IInv'
<1> USE ConnAssumption DEF IInv, Peek, clients, unix
<1>1. Types'
  BY DEF Types, TypeOK, Busy, Secondaries
<1>2. Busy'
  BY DEF Busy, Types, TypeOK, Secondaries
<1>3. Apart'
  BY DEF Apart, Types, Busy, Untouched, Early, With, Secondaries
<1>4. Untouched'
  BY DEF Untouched, Early, Types, TypeOK, Busy, Apart, With, Secondaries
<1>5. Holding'
  BY DEF Holding, Types, TypeOK, Busy, Untouched, Early, With, Secondaries
<1>6. Deciding'
  BY DEF Deciding, Types, TypeOK, Busy, Apart, Untouched, Early, With, Secondaries
<1>7. Answered'
  BY DEF Answered, Deciding, Types, TypeOK, Busy, Untouched, Early, With, Secondaries
<1> QED BY <1>1, <1>2, <1>3, <1>4, <1>5, <1>6, <1>7

LEMMA CAnswerStep == ASSUME IInv, CAnswer PROVE IInv'
<1> SUFFICES ASSUME client[tcp_conn] # "rst" PROVE IInv'
  BY CDiesStep DEF CAnswer
<1> USE ConnAssumption DEF IInv, CAnswer, clients
<1>0. tcp_conn \in Conns /\ reply' = [reply EXCEPT ![tcp_conn] = {"c"}]
  BY DEF Types, TypeOK, Busy, Untouched, Early
<1>1. Types'
  BY <1>0 DEF Types, TypeOK, Busy, Secondaries
<1>2. Busy'
  BY <1>0 DEF Busy, Types, TypeOK, Secondaries
<1>3. Apart'
  BY <1>0 DEF Apart, Types, Busy, Untouched, Early, With, Secondaries
<1>4. Untouched'
  BY <1>0 DEF Untouched, Early, Types, TypeOK, Busy, Apart, With, Secondaries
<1>5. Holding'
  BY <1>0 DEF Holding, Types, TypeOK, Busy, Untouched, Early, With, Secondaries
<1>6. Deciding'
  BY <1>0 DEF Deciding, Types, TypeOK, Busy, Apart, Untouched, Early, With, Secondaries
<1>7. Answered'
  BY <1>0 DEF Answered, Deciding, Types, TypeOK, Busy, Untouched, Early, With, Secondaries
<1> QED BY <1>1, <1>2, <1>3, <1>4, <1>5, <1>6, <1>7

LEMMA ConnectUnixStep == ASSUME IInv, ConnectUnix PROVE IInv'
<1> SUFFICES ASSUME path # "none" /\ spc[path] \notin {"off", "bind", "dead"} PROVE IInv'
  BY CDiesStep DEF ConnectUnix
<1> USE ConnAssumption DEF IInv, ConnectUnix, clients
<1>0. tcp_conn \in Conns /\ path \in Secondaries /\ ~With(tcp_conn, path)
  BY DEF Types, TypeOK, Busy, Untouched, Early
<1>a. /\ backlog' = [backlog EXCEPT ![path] = Append(backlog[path], tcp_conn)]
      /\ ux' = [ux EXCEPT ![tcp_conn] = "open"] /\ cpc' = "send_fd"
      /\ UNCHANGED <<clients, reply, tcp_conn, queue, refs, path, spc, cur>>
  OBVIOUS
<1>b. /\ Append(backlog[path], tcp_conn) \in Seq(Conns)
      /\ In(Append(backlog[path], tcp_conn)) = In(backlog[path]) \union {tcp_conn}
      /\ Once(Append(backlog[path], tcp_conn))
  <2>1. backlog[path] \in Seq(Conns) /\ tcp_conn \notin In(backlog[path]) /\ Once(backlog[path])
    BY <1>0 DEF Types, Apart, With
  <2> QED BY <1>0, <2>1, Appended
<1>c. \A s \in Secondaries :
        /\ With(tcp_conn, s)' <=> s = path
        /\ \A c \in Conns : c # tcp_conn => (With(c, s)' <=> With(c, s))
  <2>1. \A s \in Secondaries : ~With(tcp_conn, s)
    BY <1>0 DEF Untouched, Early, Busy, ConnectUnix
  <2>2. \A s \in Secondaries : backlog'[s] = IF s = path THEN Append(backlog[path], tcp_conn) ELSE backlog[s]
    BY <1>0, <1>a, <1>b DEF Types
  <2> QED BY <1>0, <1>a, <1>b, <2>1, <2>2 DEF With
<1>1. Types'
  BY <1>0, <1>a, <1>b DEF Types, TypeOK, Busy, Secondaries
<1>2. Busy'
  BY <1>0, <1>a, <1>b DEF Busy, Types, TypeOK, Secondaries
<1>3. Apart'
  <2>1. \A s \in Secondaries : Once(backlog'[s]) /\ cur'[s] \notin In(backlog'[s])
    BY <1>0, <1>a, <1>b DEF Apart, Types, With
  <2>2. \A c \in Conns : ~(With(c, "go")' /\ With(c, "rust")')
    BY <1>0, <1>c DEF Apart, Secondaries
  <2> QED BY <1>a, <2>1, <2>2 DEF Apart
<1>4. Untouched'
  <2>1. tcp_conn \notin In(queue) /\ client[tcp_conn] # "new"
    BY <1>0 DEF Apart, Untouched
  <2>2. ASSUME NEW c \in Conns, Early(c)' PROVE Early(c) /\ c # tcp_conn
    BY <1>a, <2>1, <2>2 DEF Early
  <2>3. ASSUME NEW c \in Conns, Early(c)'
        PROVE  reply'[c] = {} /\ ux'[c] = "none" /\ \A s \in Secondaries : ~With(c, s)'
    BY <1>a, <1>c, <2>2, <2>3 DEF Untouched
  <2> QED BY <1>a, <2>3 DEF Untouched
<1>5. Holding'
  BY <1>0, <1>a, <1>b DEF Holding, Types, TypeOK, Busy, Untouched, Early, With, Secondaries
<1>6. Deciding'
  <2>1. reply[tcp_conn] = {} /\ payload[tcp_conn] # "other"
    BY <1>0 DEF Deciding, Untouched, Early, Busy
  <2>2. ASSUME NEW s \in Secondaries, NEW c \in Conns, With(c, s)'
        PROVE  reply'[c] = {} /\ payload'[c] # "other"
    BY <1>a, <1>c, <2>1, <2>2 DEF Deciding
  <2> QED BY <1>a, <2>2 DEF Deciding
<1>7. Answered'
  BY <1>a DEF Answered
<1> QED BY <1>1, <1>2, <1>3, <1>4, <1>5, <1>6, <1>7

LEMMA SendFdStep == ASSUME IInv, SendFd PROVE IInv'
<1> SUFFICES ASSUME ux[tcp_conn] = "open" PROVE IInv'
  BY CDiesStep DEF SendFd
<1> USE ConnAssumption DEF IInv, SendFd, SetRefs, Take, clients
<1>1. Types'
  <2>1. refs' = [refs EXCEPT ![tcp_conn] = (refs[tcp_conn] \ {}) \union {"msg"}]
    BY DEF Types, TypeOK
  <2>2. tcp_conn \in Conns /\ {"msg"} \in SUBSET Parts /\ refs \in [Conns -> SUBSET Parts]
    BY DEF Types, TypeOK, Busy, Parts, Secondaries
  <2>3. refs' \in [Conns -> SUBSET Parts]
    BY <2>1, <2>2, RefsUpdated
  <2> QED BY <2>2, <2>3 DEF Types, TypeOK, Parts
<1>2. Busy'
  BY DEF Busy, Types, TypeOK, Secondaries
<1>3. Apart'
  BY DEF Apart, Types, Busy, Untouched, Early, With, Secondaries
<1>4. Untouched'
  BY DEF Untouched, Early, Types, TypeOK, Busy, Apart, With, Secondaries
<1>5. Holding'
  BY DEF Holding, Types, TypeOK, Busy, Untouched, Early, With, Secondaries
<1>6. Deciding'
  BY DEF Deciding, Types, TypeOK, Busy, Apart, Untouched, Early, With, Secondaries
<1>7. Answered'
  BY DEF Answered, Deciding, Types, TypeOK, Busy, Untouched, Early, With, Secondaries
<1> QED BY <1>1, <1>2, <1>3, <1>4, <1>5, <1>6, <1>7

LEMMA CloseStep == ASSUME IInv, Close PROVE IInv'
<1> USE ConnAssumption, Members DEF IInv, Close, SetRefs, Release, clients, unix
<1>1. Types'
  BY DEF Types, TypeOK, Busy, Secondaries
<1>2. Busy'
  BY DEF Busy, Types, TypeOK, Secondaries
<1>3. Apart'
  BY DEF Apart, Types, Busy, Untouched, Early, With, Secondaries
<1>4. Untouched'
  BY DEF Untouched, Early, Types, TypeOK, Busy, Apart, With, Secondaries
<1>5. Holding'
  BY DEF Holding, Types, TypeOK, Busy, Untouched, Early, With, Secondaries
<1>6. Deciding'
  BY DEF Deciding, Types, TypeOK, Busy, Apart, Untouched, Early, With, Secondaries
<1>7. Answered'
  BY DEF Answered, Deciding, Types, TypeOK, Busy, Untouched, Early, With, Secondaries
<1> QED BY <1>1, <1>2, <1>3, <1>4, <1>5, <1>6, <1>7

LEMMA UnlinkStep == ASSUME IInv, NEW s \in Secondaries, Unlink(s) PROVE IInv'
<1> USE ConnAssumption DEF IInv, Unlink, To, clients, c_serv
<1>1. Types'
  BY DEF Types, TypeOK, Busy, Secondaries
<1>2. Busy'
  BY DEF Busy, Types, TypeOK, Secondaries
<1>3. Apart'
  BY DEF Apart, Types, Busy, Untouched, Early, With, Secondaries
<1>4. Untouched'
  BY DEF Untouched, Early, Types, TypeOK, Busy, Apart, With, Secondaries
<1>5. Holding'
  BY DEF Holding, Types, TypeOK, Busy, Untouched, Early, With, Secondaries
<1>6. Deciding'
  BY DEF Deciding, Types, TypeOK, Busy, Apart, Untouched, Early, With, Secondaries
<1>7. Answered'
  BY DEF Answered, Deciding, Types, TypeOK, Busy, Untouched, Early, With, Secondaries
<1> QED BY <1>1, <1>2, <1>3, <1>4, <1>5, <1>6, <1>7

LEMMA BindListenStep == ASSUME IInv, NEW s \in Secondaries, BindListen(s) PROVE IInv'
<1> SUFFICES ASSUME path = "none" PROVE IInv'
  BY SecondaryDiesStep DEF BindListen, IInv, Types, TypeOK, Secondaries, c_serv
<1> USE ConnAssumption DEF IInv, BindListen, To, clients, c_serv
<1>1. Types'
  BY DEF Types, TypeOK, Busy, Secondaries
<1>2. Busy'
  BY DEF Busy, Types, TypeOK, Secondaries
<1>3. Apart'
  BY DEF Apart, Types, Busy, Untouched, Early, With, Secondaries
<1>4. Untouched'
  BY DEF Untouched, Early, Types, TypeOK, Busy, Apart, With, Secondaries
<1>5. Holding'
  BY DEF Holding, Types, TypeOK, Busy, Untouched, Early, With, Secondaries
<1>6. Deciding'
  BY DEF Deciding, Types, TypeOK, Busy, Apart, Untouched, Early, With, Secondaries
<1>7. Answered'
  BY DEF Answered, Deciding, Types, TypeOK, Busy, Untouched, Early, With, Secondaries
<1> QED BY <1>1, <1>2, <1>3, <1>4, <1>5, <1>6, <1>7

LEMMA AcceptUnixStep == ASSUME IInv, NEW s \in Secondaries, AcceptUnix(s) PROVE IInv'
<1> USE ConnAssumption DEF IInv, AcceptUnix, To, clients, c_serv
<1>0. /\ Head(backlog[s]) \in Conns /\ Tail(backlog[s]) \in Seq(Conns)
      /\ In(backlog[s]) = In(Tail(backlog[s])) \union {Head(backlog[s])}
      /\ Head(backlog[s]) \notin In(Tail(backlog[s])) /\ Once(Tail(backlog[s]))
  BY Tailed DEF Types, Apart
<1>1. Types'
  BY <1>0 DEF Types, TypeOK, Busy, Secondaries
<1>2. Busy'
  BY <1>0 DEF Busy, Types, TypeOK, Secondaries
<1>3. Apart'
  BY <1>0 DEF Apart, Types, Busy, Untouched, Early, With, Secondaries
<1>4. Untouched'
  BY <1>0 DEF Untouched, Early, Types, TypeOK, Busy, Apart, With, Secondaries
<1>5. Holding'
  BY <1>0 DEF Holding, Types, TypeOK, Busy, Untouched, Early, With, Secondaries
<1>6. Deciding'
  BY <1>0 DEF Deciding, Types, TypeOK, Busy, Apart, Untouched, Early, With, Secondaries
<1>7. Answered'
  BY <1>0 DEF Answered, Deciding, Types, TypeOK, Busy, Untouched, Early, With, Secondaries
<1> QED BY <1>1, <1>2, <1>3, <1>4, <1>5, <1>6, <1>7

LEMMA GoReadFDStep == ASSUME IInv, GoReadFD PROVE IInv'
<1> SUFFICES ASSUME ux[cur["go"]] = "msg" /\ Held < MaxFiles PROVE IInv'
  BY SecondaryDiesStep DEF GoReadFD, IInv, Types, TypeOK, Secondaries, c_serv
<1> USE ConnAssumption DEF IInv, GoReadFD, Readable, To, SetRefs, clients, c_serv
<1>1. Types'
  <2>1. refs' = [refs EXCEPT ![cur["go"]] = (refs[cur["go"]] \ {"msg"}) \union {"file"}]
    BY DEF Types, TypeOK
  <2>2. cur["go"] \in Conns /\ {"file"} \in SUBSET Parts /\ refs \in [Conns -> SUBSET Parts]
    BY DEF Types, TypeOK, Busy, Parts, Secondaries
  <2>3. refs' \in [Conns -> SUBSET Parts]
    BY <2>1, <2>2, RefsUpdated
  <2>4. ux' \in [Conns -> {"none", "open", "msg", "eof", "broken"}]
    BY <2>2 DEF Types, TypeOK
  <2>5. spc' \in [Secondaries -> {"off", "bind", "accept", "read", "fileconn", "write", "dead"}]
    <3>1. spc' = [spc EXCEPT !["go"] = "fileconn"]
      OBVIOUS
    <3> QED BY <3>1 DEF Types, TypeOK
  <2>6. UNCHANGED <<clients, reply, queue, path, cpc, tcp_conn, backlog, cur>>
    OBVIOUS
  <2> QED BY <2>3, <2>4, <2>5, <2>6 DEF Types, TypeOK, Parts
<1>2. Busy'
  BY DEF Busy, Types, TypeOK, Secondaries
<1>3. Apart'
  BY DEF Apart, Types, Busy, Untouched, Early, With, Secondaries
<1>4. Untouched'
  BY DEF Untouched, Early, Types, TypeOK, Busy, Apart, With, Secondaries
<1>5. Holding'
  BY DEF Holding, Types, TypeOK, Busy, Untouched, Early, With, Secondaries
<1>6. Deciding'
  BY DEF Deciding, Types, TypeOK, Busy, Apart, Untouched, Early, With, Secondaries
<1>7. Answered'
  BY DEF Answered, Deciding, Types, TypeOK, Busy, Untouched, Early, With, Secondaries
<1> QED BY <1>1, <1>2, <1>3, <1>4, <1>5, <1>6, <1>7

LEMMA GoFileConnStep == ASSUME IInv, GoFileConn PROVE IInv'
<1> SUFFICES ASSUME Held < MaxFiles PROVE IInv'
  BY SecondaryDiesStep DEF GoFileConn, IInv, Types, TypeOK, Secondaries, c_serv
<1> USE ConnAssumption DEF IInv, GoFileConn, To, SetRefs, Take, clients, c_serv
<1>1. Types'
  <2>1. refs' = [refs EXCEPT ![cur["go"]] = (refs[cur["go"]] \ {}) \union {"conn"}]
    BY DEF Types, TypeOK
  <2>2. cur["go"] \in Conns /\ {"conn"} \in SUBSET Parts /\ refs \in [Conns -> SUBSET Parts]
    BY DEF Types, TypeOK, Busy, Parts, Secondaries
  <2>3. refs' \in [Conns -> SUBSET Parts]
    BY <2>1, <2>2, RefsUpdated
  <2> QED BY <2>2, <2>3 DEF Types, TypeOK, Parts
<1>2. Busy'
  BY DEF Busy, Types, TypeOK, Secondaries
<1>3. Apart'
  BY DEF Apart, Types, Busy, Untouched, Early, With, Secondaries
<1>4. Untouched'
  BY DEF Untouched, Early, Types, TypeOK, Busy, Apart, With, Secondaries
<1>5. Holding'
  <2>1. cur["go"] \in Conns /\ refs' = [refs EXCEPT ![cur["go"]] = refs[cur["go"]] \union {"conn"}]
    BY DEF Types, TypeOK, Busy, Secondaries
  <2>2. tcp_conn' = tcp_conn /\ cur' = cur /\ ux' = ux
    OBVIOUS
  <2>3. refs \in [Conns -> SUBSET Parts]
    BY DEF Types, TypeOK, Parts
  <2> QED BY <2>1, <2>2, <2>3 DEF Holding
<1>6. Deciding'
  BY DEF Deciding, Types, TypeOK, Busy, Apart, Untouched, Early, With, Secondaries
<1>7. Answered'
  BY DEF Answered, Deciding, Types, TypeOK, Busy, Untouched, Early, With, Secondaries
<1> QED BY <1>1, <1>2, <1>3, <1>4, <1>5, <1>6, <1>7

LEMMA GoAnswerStep == ASSUME IInv, GoAnswer PROVE IInv'
<1> USE ConnAssumption, Members DEF IInv, GoAnswer, To, SetRefs, Release, clients, unix, c_serv
<1>a. cur["go"] \in Conns /\ reply[cur["go"]] = {} /\ payload[cur["go"]] # "other"
  BY DEF Types, TypeOK, Busy, Deciding, With, Secondaries
<1>0. cur["go"] \in Conns /\ (reply' = reply \/ reply' = [reply EXCEPT ![cur["go"]] = {"go"}])
  BY <1>a DEF Types, TypeOK
<1>1. Types'
  BY <1>0 DEF Types, TypeOK, Busy, Secondaries
<1>2. Busy'
  BY <1>0 DEF Busy, Types, TypeOK, Secondaries
<1>3. Apart'
  BY <1>0 DEF Apart, Types, Busy, Untouched, Early, With, Secondaries
<1>4. Untouched'
  BY <1>0 DEF Untouched, Early, Types, TypeOK, Busy, Apart, With, Secondaries
<1>5. Holding'
  BY <1>0 DEF Holding, Types, TypeOK, Busy, Untouched, Early, With, Secondaries
<1>6. Deciding'
  BY <1>0 DEF Deciding, Types, TypeOK, Busy, Apart, Untouched, Early, With, Secondaries
<1>7. Answered'
  <2>1. payload' = payload /\ sent' = sent /\ client' = client
    OBVIOUS
  <2>2. payload[cur["go"]] # "other" /\ reply \in [Conns -> SUBSET {"c", "go", "rust"}]
    BY <1>0 DEF Deciding, With, Types, TypeOK, Secondaries
  <2>3. ASSUME NEW d \in Conns PROVE reply'[d] = reply[d] \/ (d = cur["go"] /\ reply'[d] = {"go"})
    BY <1>0, <2>2
  <2> QED BY <2>1, <2>2, <2>3 DEF Answered
<1> QED BY <1>1, <1>2, <1>3, <1>4, <1>5, <1>6, <1>7

LEMMA GoFinalizerStep == ASSUME IInv, NEW c \in Conns, GoFinalizer(c) PROVE IInv'
<1> USE ConnAssumption DEF IInv, GoFinalizer, SetRefs, Release, clients, unix, procs
<1>1. Types'
  BY DEF Types, TypeOK, Busy, Secondaries
<1>2. Busy'
  BY DEF Busy, Types, TypeOK, Secondaries
<1>3. Apart'
  BY DEF Apart, Types, Busy, Untouched, Early, With, Secondaries
<1>4. Untouched'
  BY DEF Untouched, Early, Types, TypeOK, Busy, Apart, With, Secondaries
<1>5. Holding'
  BY DEF Holding, Types, TypeOK, Busy, Untouched, Early, With, Secondaries
<1>6. Deciding'
  BY DEF Deciding, Types, TypeOK, Busy, Apart, Untouched, Early, With, Secondaries
<1>7. Answered'
  BY DEF Answered, Deciding, Types, TypeOK, Busy, Untouched, Early, With, Secondaries
<1> QED BY <1>1, <1>2, <1>3, <1>4, <1>5, <1>6, <1>7

LEMMA RustRecvFdStep == ASSUME IInv, RustRecvFd PROVE IInv'
<1> SUFFICES ASSUME ux[cur["rust"]] = "msg" PROVE IInv'
  BY SecondaryDiesStep DEF RustRecvFd, IInv, Types, TypeOK, Secondaries, c_serv
<1> USE ConnAssumption DEF IInv, RustRecvFd, Readable, To, SetRefs, clients, c_serv
<1>1. Types'
  <2>1. refs' = [refs EXCEPT ![cur["rust"]] = (refs[cur["rust"]] \ {"msg"}) \union {"rust"}]
    BY DEF Types, TypeOK
  <2>2. cur["rust"] \in Conns /\ {"rust"} \in SUBSET Parts /\ refs \in [Conns -> SUBSET Parts]
    BY DEF Types, TypeOK, Busy, Parts, Secondaries
  <2>3. refs' \in [Conns -> SUBSET Parts]
    BY <2>1, <2>2, RefsUpdated
  <2>4. ux' \in [Conns -> {"none", "open", "msg", "eof", "broken"}]
    BY <2>2 DEF Types, TypeOK
  <2>5. spc' \in [Secondaries -> {"off", "bind", "accept", "read", "fileconn", "write", "dead"}]
    <3>1. spc' = [spc EXCEPT !["rust"] = "write"]
      OBVIOUS
    <3> QED BY <3>1 DEF Types, TypeOK
  <2>6. UNCHANGED <<clients, reply, queue, path, cpc, tcp_conn, backlog, cur>>
    OBVIOUS
  <2> QED BY <2>3, <2>4, <2>5, <2>6 DEF Types, TypeOK, Parts
<1>2. Busy'
  BY DEF Busy, Types, TypeOK, Secondaries
<1>3. Apart'
  BY DEF Apart, Types, Busy, Untouched, Early, With, Secondaries
<1>4. Untouched'
  BY DEF Untouched, Early, Types, TypeOK, Busy, Apart, With, Secondaries
<1>5. Holding'
  BY DEF Holding, Types, TypeOK, Busy, Untouched, Early, With, Secondaries
<1>6. Deciding'
  BY DEF Deciding, Types, TypeOK, Busy, Apart, Untouched, Early, With, Secondaries
<1>7. Answered'
  BY DEF Answered, Deciding, Types, TypeOK, Busy, Untouched, Early, With, Secondaries
<1> QED BY <1>1, <1>2, <1>3, <1>4, <1>5, <1>6, <1>7

LEMMA RustAnswerStep == ASSUME IInv, RustAnswer PROVE IInv'
<1> SUFFICES ASSUME client[cur["rust"]] # "rst" PROVE IInv'
  BY SecondaryDiesStep DEF RustAnswer, IInv, Types, TypeOK, Secondaries, c_serv
<1> USE ConnAssumption, Members DEF IInv, RustAnswer, To, SetRefs, Release, clients, c_serv
<1>0. cur["rust"] \in Conns /\ reply' = [reply EXCEPT ![cur["rust"]] = {"rust"}]
  BY DEF Types, TypeOK, Busy, Deciding, With, Secondaries
<1>1. Types'
  <2>1. refs' \in [Conns -> SUBSET {"queue", "c", "msg", "file", "conn", "rust"}]
    BY <1>0 DEF Types, TypeOK, Busy, Secondaries
  <2> QED BY <1>0, <2>1 DEF Types, TypeOK, Busy, Secondaries
<1>2. Busy'
  BY <1>0 DEF Busy, Types, TypeOK, Secondaries
<1>3. Apart'
  BY <1>0 DEF Apart, Types, Busy, Untouched, Early, With, Secondaries
<1>4. Untouched'
  BY <1>0 DEF Untouched, Early, Types, TypeOK, Busy, Apart, With, Secondaries
<1>5. Holding'
  BY <1>0 DEF Holding, Types, TypeOK, Busy, Untouched, Early, With, Secondaries
<1>6. Deciding'
  BY <1>0 DEF Deciding, Types, TypeOK, Busy, Apart, Untouched, Early, With, Secondaries
<1>7. Answered'
  <2>1. payload' = payload /\ sent' = sent /\ client' = client
    OBVIOUS
  <2>2. payload[cur["rust"]] # "other" /\ reply \in [Conns -> SUBSET {"c", "go", "rust"}]
    BY <1>0 DEF Deciding, With, Types, TypeOK, Secondaries
  <2>3. ASSUME NEW d \in Conns PROVE reply'[d] = reply[d] \/ (d = cur["rust"] /\ reply'[d] = {"rust"})
    BY <1>0, <2>2
  <2> QED BY <2>1, <2>2, <2>3 DEF Answered
<1> QED BY <1>1, <1>2, <1>3, <1>4, <1>5, <1>6, <1>7

LEMMA KillStep == ASSUME IInv, Kill PROVE IInv'
<1> USE DEF Kill, IInv, Types, TypeOK
<1>1. ASSUME CDies, UNCHANGED <<backlog, spc, cur>> PROVE IInv'
  BY <1>1, CDiesStep
<1>2. ASSUME NEW s \in Secondaries, SecondaryDies(s), UNCHANGED <<cpc, tcp_conn, queue>> PROVE IInv'
  BY <1>2, SecondaryDiesStep
<1> QED BY <1>1, <1>2

\* Every step of the clients, the servers and the collector.
LEMMA NextIInv == ASSUME IInv, [Next]_vars PROVE IInv'
<1>1. ASSUME NEW c \in Conns, ClientConnect(c) \/ ClientNext(c) \/ ClientReset(c) \/ GoFinalizer(c) PROVE IInv'
  BY <1>1, ClientConnectStep, ClientSendStep, ClientFinishStep, ClientResetStep, GoFinalizerStep DEF ClientNext
<1>2. CASE CNext
  BY <1>2, AcceptStep, PeekStep, CAnswerStep, ConnectUnixStep, SendFdStep, CloseStep DEF CNext
<1>3. ASSUME AcceptUnix("go") \/ AcceptUnix("rust") PROVE IInv'
  BY <1>3, AcceptUnixStep DEF Secondaries
<1>4. CASE GoNext \/ RustNext
  BY <1>3, <1>4, GoReadFDStep, GoFileConnStep, GoAnswerStep, RustRecvFdStep, RustAnswerStep DEF GoNext, RustNext
<1>5. ASSUME NEW s \in Secondaries, Start(s) PROVE IInv'
  BY <1>5, UnlinkStep, BindListenStep DEF Start
<1>6. CASE UNCHANGED vars
  <2>1. /\ UNCHANGED <<payload, client, sent, reply, queue, refs>>
        /\ UNCHANGED <<ux, backlog, path, cpc, tcp_conn, spc, cur>>
    BY <1>6 DEF vars, clients, unix, procs
  <2>2. (Types /\ Busy /\ Apart)'
    BY <2>1 DEF IInv, Types, TypeOK, Busy, Apart, With
  <2>3. (Untouched /\ Holding)'
    BY <2>1 DEF IInv, Untouched, Early, With, Holding
  <2>4. (Deciding /\ Answered)'
    BY <2>1 DEF IInv, Deciding, Answered, With
  <2> QED BY <2>2, <2>3, <2>4 DEF IInv
<1> QED BY <1>1, <1>2, <1>4, <1>5, <1>6, KillStep DEF Next

LEMMA Inductive == Spec => []IInv
<1> QED BY InitIInv, NextIInv, PTL DEF Spec

\* However many clients connect, and whoever dies or takes the path over, no
\* process keeps a connection it is done with.
THEOREM NoneKept == Spec => []NothingKept
<1>1. IInv => NothingKept
  BY DEF IInv, Types, Holding, NothingKept, Secondaries
<1> QED BY <1>1, Inductive, PTL

\* A client is answered once at most, and by the server its message is for.
THEOREM AnsweredRight == Spec => []RightServer
<1>1. ASSUME IInv PROVE RightServer
  <2>1. ASSUME NEW c \in Conns PROVE Cardinality(reply[c]) <= 1
    <3>1. reply[c] = {} \/ \E p \in {"c", "go", "rust"} : reply[c] = {p}
      BY <1>1 DEF IInv, Answered
    <3> QED BY <3>1, FS_EmptySet, FS_Singleton
  <2> QED BY <1>1, <2>1 DEF IInv, Answered, RightServer
<1> QED BY <1>1, Inductive, PTL
=============================================================================
