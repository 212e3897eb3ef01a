----------------------------- MODULE ScmRights -----------------------------
(***************************************************************************)
(* 2018-11-scm-rights: c_serv accepts TCP connections and looks at their   *)
(* first four bytes; those that begin with "pass" it hands over a Unix     *)
(* socket to the secondary server, go_serv or rust_serv, which answers and *)
(* closes them.  A connection ends for its client when the last descriptor *)
(* of it is closed, whichever process holds it.                            *)
(***************************************************************************)
EXTENDS Naturals, Sequences, FiniteSets

CONSTANTS
    Conns,       \* the clients' connections
    NoConn,
    Payloads,    \* what the clients may send
    MaxFiles,    \* descriptors of connections go_serv may hold
    MaxFaults    \* connections reset by clients, processes killed from outside

ASSUME ConnAssumption ==
    NoConn \notin Conns /\ Payloads \subseteq [Conns -> {"pass", "pa|ss", "other"}]

Secondaries == {"go", "rust"}

VARIABLES
    \* clients
    payload,          \* "pass", "pa|ss" (in two segments) or "other"
    client, sent,     \* its state; halves of the four bytes that have arrived
    reply,            \* servers whose answer it got
    \* kernel
    queue,            \* TCP connections to accept
    refs,             \* who holds a descriptor of a connection
    ended,            \* connections that have been closed
    ux,               \* the Unix connection made to hand it over
    backlog,          \* Unix connections to accept
    path,             \* whose socket /tmp/scm_example.sock is
    resets, kills,    \* bounded by MaxFaults
    \* processes
    cpc, tcp_conn,    \* c_serv
    spc, cur          \* go_serv and rust_serv

clients == <<payload, client, sent>>
unix == <<ux, backlog, path>>
faults == <<resets, kills>>
procs == <<cpc, tcp_conn, spc, cur>>
vars == <<clients, reply, queue, refs, ended, unix, faults, procs>>

Init ==
    /\ payload \in Payloads
    /\ client = [c \in Conns |-> "new"] /\ sent = [c \in Conns |-> 0]
    /\ reply = [c \in Conns |-> {}]
    /\ queue = <<>> /\ refs = [c \in Conns |-> {}] /\ ended = {}
    /\ ux = [c \in Conns |-> "none"] /\ backlog = [s \in Secondaries |-> <<>>] /\ path = "none"
    /\ resets = 0 /\ kills = 0
    /\ cpc = "accept" /\ tcp_conn = NoConn
    /\ spc = [s \in Secondaries |-> "off"] /\ cur = [s \in Secondaries |-> NoConn]

-----------------------------------------------------------------------------
(* The kernel. *)

\* Descriptors are closed; connections without any end.
SetRefs(new) ==
    /\ refs' = new
    /\ ended' = ended \union {c \in Conns : refs[c] # {} /\ new[c] = {}}

Release(c, holder) == SetRefs([refs EXCEPT ![c] = @ \ {holder}])
Take(c, holder) == SetRefs([refs EXCEPT ![c] = @ \union {holder}])

\* What a dead c_serv leaves: its connections are closed, those it had not
\* accepted are reset, and a Unix connection it had not used is at its end.
CDies ==
    /\ cpc' = "dead" /\ tcp_conn' = NoConn
    /\ queue' = <<>>
    /\ SetRefs([c \in Conns |-> refs[c] \ {"c", "queue"}])
    /\ ux' = [c \in Conns |-> IF ux[c] = "open" THEN "eof" ELSE ux[c]]

\* What a dead secondary leaves: descriptors on their way to it are closed too.
Holders(s) == IF s = "go" THEN {"file", "conn"} ELSE {"rust"}
Pending(s) == {cur[s]} \union {backlog[s][k] : k \in DOMAIN backlog[s]}
SecondaryDies(s) ==
    /\ spc' = [spc EXCEPT ![s] = "dead"] /\ cur' = [cur EXCEPT ![s] = NoConn]
    /\ backlog' = [backlog EXCEPT ![s] = <<>>]
    /\ ux' = [c \in Conns |-> IF c \in Pending(s) THEN "broken" ELSE ux[c]]
    /\ SetRefs([c \in Conns |-> refs[c] \ (Holders(s) \union (IF c \in Pending(s) THEN {"msg"} ELSE {}))])

-----------------------------------------------------------------------------
(* Clients, such as nc: connect, send in one or two segments, maybe close. *)
ClientConnect(c) ==
    /\ client[c] = "new" /\ cpc # "dead"
    /\ client' = [client EXCEPT ![c] = "open"]
    /\ queue' = Append(queue, c) /\ Take(c, "queue")
    /\ UNCHANGED <<payload, sent, reply, unix, faults, procs>>

ClientSend(c) ==
    /\ client[c] = "open" /\ sent[c] < 2
    /\ sent' = [sent EXCEPT ![c] = IF payload[c] = "pa|ss" THEN @ + 1 ELSE 2]
    /\ UNCHANGED <<payload, client, reply, queue, refs, ended, unix, faults, procs>>

ClientFinish(c) ==
    /\ client[c] = "open"
    /\ client' = [client EXCEPT ![c] = "fin"]
    /\ UNCHANGED <<payload, sent, reply, queue, refs, ended, unix, faults, procs>>

ClientReset(c) ==
    /\ client[c] \in {"open", "fin"} /\ resets + kills < MaxFaults
    /\ client' = [client EXCEPT ![c] = "rst"] /\ resets' = resets + 1
    /\ UNCHANGED <<payload, sent, reply, queue, refs, ended, unix, kills, procs>>

-----------------------------------------------------------------------------
(* c_serv. *)

\* accept's result is not checked: a failed accept makes send fail.
Accept ==
    /\ cpc = "accept" /\ queue # <<>>
    /\ LET c == Head(queue) IN
       \/ /\ cpc' = "peek" /\ tcp_conn' = c /\ queue' = Tail(queue)
          /\ SetRefs([refs EXCEPT ![c] = {"c"}])
          /\ UNCHANGED ux
       \/ client[c] = "rst" /\ CDies
    /\ UNCHANGED <<clients, reply, backlog, path, faults, spc, cur>>

\* Mutant of Peek: the bytes are counted and not compared.
PeekCounts ==
    /\ cpc = "peek"
    /\ sent[tcp_conn] > 0 \/ client[tcp_conn] # "open"
    /\ cpc' = IF client[tcp_conn] # "rst" /\ sent[tcp_conn] = 2 THEN "connect" ELSE "answer"
    /\ UNCHANGED <<clients, reply, queue, refs, ended, unix, faults, tcp_conn, spc, cur>>

\* recv with MSG_PEEK returns what has arrived, be it less than four bytes.
Peek ==
    /\ cpc = "peek"
    /\ sent[tcp_conn] > 0 \/ client[tcp_conn] # "open"
    /\ cpc' = IF client[tcp_conn] # "rst" /\ sent[tcp_conn] = 2 /\ payload[tcp_conn] # "other"
              THEN "connect" ELSE "answer"
    /\ UNCHANGED <<clients, reply, queue, refs, ended, unix, faults, tcp_conn, spc, cur>>

CAnswer ==
    /\ cpc = "answer"
    /\ IF client[tcp_conn] = "rst"
       THEN CDies /\ UNCHANGED reply
       ELSE /\ reply' = [reply EXCEPT ![tcp_conn] = @ \union {"c"}]
            /\ cpc' = "close" /\ UNCHANGED <<tcp_conn, queue, refs, ended, ux>>
    /\ UNCHANGED <<clients, backlog, path, faults, spc, cur>>

ConnectUnix ==
    /\ cpc = "connect"
    /\ IF path # "none" /\ spc[path] \notin {"off", "bind", "dead"}
       THEN /\ ux' = [ux EXCEPT ![tcp_conn] = "open"]
            /\ backlog' = [backlog EXCEPT ![path] = Append(@, tcp_conn)]
            /\ cpc' = "send_fd" /\ UNCHANGED <<tcp_conn, queue, refs, ended>>
       ELSE CDies /\ UNCHANGED backlog
    /\ UNCHANGED <<clients, reply, path, faults, spc, cur>>

SendFd ==
    /\ cpc = "send_fd"
    /\ IF ux[tcp_conn] = "open"
       THEN /\ ux' = [ux EXCEPT ![tcp_conn] = "msg"] /\ Take(tcp_conn, "msg")
            /\ cpc' = "close" /\ UNCHANGED <<tcp_conn, queue>>
       ELSE CDies
    /\ UNCHANGED <<clients, reply, backlog, path, faults, spc, cur>>

\* Mutant of Close: it is left to the process that got the connection.
CloseForgotten ==
    /\ cpc = "close"
    /\ cpc' = "accept" /\ tcp_conn' = NoConn
    /\ UNCHANGED <<clients, reply, queue, refs, ended, unix, faults, spc, cur>>

Close ==
    /\ cpc = "close"
    /\ Release(tcp_conn, "c")
    /\ cpc' = "accept" /\ tcp_conn' = NoConn
    /\ UNCHANGED <<clients, reply, queue, unix, faults, spc, cur>>

CNext == Accept \/ Peek \/ CAnswer \/ ConnectUnix \/ SendFd \/ Close

-----------------------------------------------------------------------------
(* go_serv and rust_serv. *)
To(s, pc) == spc' = [spc EXCEPT ![s] = pc]
c_serv == <<cpc, tcp_conn>>

\* Both take the path over from whoever has it.
Unlink(s) ==
    /\ spc[s] = "off"
    /\ path' = "none" /\ To(s, "bind")
    /\ UNCHANGED <<clients, reply, queue, refs, ended, ux, backlog, faults, c_serv, cur>>

\* bind fails if the other one was faster; neither then has a socket to go on
\* with.  (bind and listen: before listen nobody can connect either.)
BindListen(s) ==
    /\ spc[s] = "bind"
    /\ IF path = "none"
       THEN path' = s /\ To(s, "accept") /\ UNCHANGED <<refs, ended, ux, backlog, cur>>
       ELSE SecondaryDies(s) /\ UNCHANGED path
    /\ UNCHANGED <<clients, reply, queue, faults, c_serv>>

AcceptUnix(s) ==
    /\ spc[s] = "accept" /\ backlog[s] # <<>>
    /\ cur' = [cur EXCEPT ![s] = Head(backlog[s])]
    /\ backlog' = [backlog EXCEPT ![s] = Tail(@)]
    /\ To(s, "read")
    /\ UNCHANGED <<clients, reply, queue, refs, ended, ux, path, faults, c_serv>>

\* The message has arrived, or never will.
Readable(s) == spc[s] = "read" /\ ux[cur[s]] \in {"msg", "eof"}
Held == Cardinality({c \in Conns : "file" \in refs[c]}) + Cardinality({c \in Conns : "conn" \in refs[c]})

\* ReadFD.  Without a descriptor, because there is no message or no room for
\* another one, main prints the error and uses what it does not have.
GoReadFD ==
    /\ Readable("go")
    /\ IF ux[cur["go"]] = "msg" /\ Held < MaxFiles
       THEN /\ SetRefs([refs EXCEPT ![cur["go"]] = (@ \ {"msg"}) \union {"file"}])
            /\ ux' = [ux EXCEPT ![cur["go"]] = "none"]
            /\ To("go", "fileconn") /\ UNCHANGED <<backlog, cur>>
       ELSE SecondaryDies("go")
    /\ UNCHANGED <<clients, reply, queue, path, faults, c_serv>>

\* FileConn duplicates the descriptor; nobody closes the one of the file.
GoFileConn ==
    /\ spc["go"] = "fileconn"
    /\ IF Held < MaxFiles
       THEN Take(cur["go"], "conn") /\ To("go", "write") /\ UNCHANGED <<ux, backlog, cur>>
       ELSE SecondaryDies("go")
    /\ UNCHANGED <<clients, reply, queue, path, faults, c_serv>>

\* Mutant of GoAnswer: the connection is left to the garbage collector.
GoAnswerOnly ==
    /\ spc["go"] = "write"
    /\ reply' = IF client[cur["go"]] = "rst" THEN reply
                ELSE [reply EXCEPT ![cur["go"]] = @ \union {"go"}]
    /\ To("go", "accept") /\ cur' = [cur EXCEPT !["go"] = NoConn]
    /\ UNCHANGED <<clients, queue, refs, ended, unix, faults, c_serv>>

\* A failed write goes unnoticed.
GoAnswer ==
    /\ spc["go"] = "write"
    /\ reply' = IF client[cur["go"]] = "rst" THEN reply
                ELSE [reply EXCEPT ![cur["go"]] = @ \union {"go"}]
    /\ Release(cur["go"], "conn")
    /\ To("go", "accept") /\ cur' = [cur EXCEPT !["go"] = NoConn]
    /\ UNCHANGED <<clients, queue, unix, faults, c_serv>>

\* The garbage collector closes files that are out of use.
GoFinalizer(c) ==
    /\ "file" \in refs[c] /\ ~(spc["go"] = "fileconn" /\ cur["go"] = c)
    /\ Release(c, "file")
    /\ UNCHANGED <<clients, reply, queue, unix, faults, procs>>

RustRecvFd ==
    /\ Readable("rust")
    /\ IF ux[cur["rust"]] = "msg"
       THEN /\ SetRefs([refs EXCEPT ![cur["rust"]] = (@ \ {"msg"}) \union {"rust"}])
            /\ ux' = [ux EXCEPT ![cur["rust"]] = "none"]
            /\ To("rust", "write") /\ UNCHANGED <<backlog, cur>>
       ELSE SecondaryDies("rust")
    /\ UNCHANGED <<clients, reply, queue, path, faults, c_serv>>

\* A failed write is unwrapped; dropping the stream closes it.
RustAnswer ==
    /\ spc["rust"] = "write"
    /\ LET c == cur["rust"] IN
       IF client[c] = "rst"
       THEN SecondaryDies("rust") /\ UNCHANGED reply
       ELSE /\ reply' = [reply EXCEPT ![c] = @ \union {"rust"}]
            /\ Release(c, "rust")
            /\ To("rust", "accept") /\ cur' = [cur EXCEPT !["rust"] = NoConn]
            /\ UNCHANGED <<ux, backlog>>
    /\ UNCHANGED <<clients, queue, path, faults, c_serv>>

GoNext == AcceptUnix("go") \/ GoReadFD \/ GoFileConn \/ GoAnswer
RustNext == AcceptUnix("rust") \/ RustRecvFd \/ RustAnswer
Start(s) == Unlink(s) \/ BindListen(s)

Kill ==
    /\ resets + kills < MaxFaults /\ kills' = kills + 1
    /\ \/ cpc # "dead" /\ CDies /\ UNCHANGED <<backlog, spc, cur>>
       \/ \E s \in Secondaries :
             spc[s] \notin {"off", "dead"} /\ SecondaryDies(s) /\ UNCHANGED <<cpc, tcp_conn, queue>>
    /\ UNCHANGED <<clients, reply, path, resets>>

ClientNext(c) == ClientSend(c) \/ ClientFinish(c)

Next ==
    \/ \E c \in Conns : ClientConnect(c) \/ ClientNext(c) \/ ClientReset(c) \/ GoFinalizer(c)
    \/ CNext \/ GoNext \/ RustNext \/ Kill
    \/ \E s \in Secondaries : Start(s)

Spec == Init /\ [][Next]_vars

\* Clients send or close in the end, servers run, and the Go runtime collects
\* garbage every two minutes.  Nobody has to connect or start a secondary.
Fairness ==
    /\ WF_vars(CNext) /\ WF_vars(GoNext) /\ WF_vars(RustNext)
    /\ \A c \in Conns : WF_vars(ClientNext(c)) /\ WF_vars(GoFinalizer(c))
FairSpec == Spec /\ Fairness

-----------------------------------------------------------------------------
Dead(p) == IF p = "c" THEN cpc = "dead" ELSE spc[p] = "dead"

\* Types of the variables.
TypeOK ==
    /\ client \in [Conns -> {"new", "open", "fin", "rst"}] /\ sent \in [Conns -> 0 .. 2]
    /\ reply \in [Conns -> SUBSET {"c", "go", "rust"}]
    /\ refs \in [Conns -> SUBSET {"queue", "c", "msg", "file", "conn", "rust"}]
    /\ ux \in [Conns -> {"none", "open", "msg", "eof", "broken"}]
    /\ path \in Secondaries \union {"none"}
    /\ cpc \in {"accept", "peek", "connect", "send_fd", "answer", "close", "dead"}
    /\ tcp_conn \in Conns \union {NoConn}
    /\ spc \in [Secondaries -> {"off", "bind", "accept", "read", "fileconn", "write", "dead"}]

\* main of c_serv peeks, the others answer: a client has one answer at most,
\* and it is the one README.md promises for what it sent, if that came at once.
RightServer ==
    \A c \in Conns :
        /\ Cardinality(reply[c]) <= 1
        /\ reply[c] \intersect Secondaries # {} => payload[c] # "other"
        /\ "c" \in reply[c] /\ payload[c] = "pass" => sent[c] = 0

\* No connection is held by a process that is done with it: the front lets go
\* of what it has handed over or answered, go_serv of all but its files.
NothingKept ==
    /\ TypeOK
    /\ \A c \in Conns :
          /\ "c" \in refs[c] <=> tcp_conn = c
          /\ "conn" \in refs[c] \/ "rust" \in refs[c] => \E s \in Secondaries : cur[s] = c
          /\ "msg" \in refs[c] <=> ux[c] = "msg"

\* Each connection comes to its end, whoever dies, and with an answer if all
\* stay alive and its client did not reset it.
EveryoneServed ==
    \A c \in Conns :
        client[c] = "open" ~>
            /\ c \in ended
            /\ reply[c] # {} \/ client[c] = "rst" \/ \E p \in {"c", "go", "rust"} : Dead(p)
=============================================================================
