---------------------------- MODULE EchoServers ----------------------------
(***************************************************************************)
(* 2019-02-tcp-splice as it is benchmarked: runs of test-burst against one *)
(* of the four interchangeable echo servers.                               *)
(***************************************************************************)
EXTENDS Echo, Integers

CONSTANTS
    Kinds,       \* the servers to run: some of "naive", "splice", "iosubmit", "sockmap"
    SPLICE_MAX, MaxPipes

ASSUME ServersAssumption ==
    /\ Kinds \subseteq {"naive", "splice", "iosubmit", "sockmap"}
    /\ SPLICE_MAX \in Nat \ {0} /\ MaxPipes \in Nat

VARIABLES
    kind,                              \* the server that runs
    signals,                           \* signals interrupt its system calls
    spc, cd,                           \* every server's
    buf, m,                            \* echo-naive's and echo-iosubmit's
    nbytes, ring, events,              \* echo-iosubmit's
    pipe, n, pipes,                    \* echo-splice's
    slot, early, flight                \* echo-sockmap's

Naive == INSTANCE EchoNaive
Splice == INSTANCE EchoSplice
Iosubmit == INSTANCE EchoIosubmit
Sockmap == INSTANCE EchoSockmap

bufVars == <<buf, m>>
aioVars == <<nbytes, ring, events>>
pipeVars == <<pipe, n, pipes>>
mapVars == <<slot, early, flight>>
vars == <<echoVars, kind, signals, spc, cd, bufVars, aioVars, pipeVars, mapVars>>

Init ==
    /\ InitEcho
    /\ kind \in Kinds /\ signals \in (IF kind = "splice" THEN {FALSE} ELSE BOOLEAN)
    /\ spc = IF kind = "sockmap" THEN "prepare" ELSE "start"
    /\ kind # "splice" => pipes = MaxPipes
    /\ Naive!InitServer /\ Splice!InitServer /\ Iosubmit!InitServer /\ Sockmap!InitServer

\* net_bind_tcp, or PFATAL.
Listen ==
    /\ spc = "start"
    /\ \/ spc' = "accept" /\ Listening
       \/ spc' = "abort" /\ UNCHANGED rst
    /\ UNCHANGED <<clientVars, c2s, s2c, fin, told, backlog, back, cd, bufVars, aioVars, pipeVars, mapVars>>

ServerNext ==
    \/ Listen
    \/ kind = "naive" /\ Naive!ServerNext /\ UNCHANGED <<aioVars, pipeVars, mapVars>>
    \/ kind = "splice" /\ Splice!ServerNext /\ UNCHANGED <<bufVars, aioVars, mapVars>>
    \/ kind = "iosubmit" /\ Iosubmit!ServerNext /\ UNCHANGED <<pipeVars, mapVars>>
    \/ kind = "sockmap" /\ Sockmap!ServerNext /\ UNCHANGED <<bufVars, aioVars, pipeVars>>

serverVars == <<spc, cd, bufVars, aioVars, pipeVars, mapVars>>
Clients == ClientsOnly /\ UNCHANGED serverVars

Next == (Clients \/ ServerNext) /\ UNCHANGED <<kind, signals>>

\* Every process gets its turn; the network need not reset anything.
Spec == Init /\ [][Next]_vars
Fairness ==
    /\ WF_vars(ServerNext /\ UNCHANGED <<kind, signals>>)
    /\ \A c \in Conns : WF_vars(ClientNext(c) /\ UNCHANGED <<kind, signals, serverVars>>)
FairSpec == Spec /\ Fairness

-----------------------------------------------------------------------------
TypeOK ==
    /\ EchoTypeOK
    /\ signals \in BOOLEAN
    /\ kind # "sockmap" => \A c \in Conns : Len(s2c[c]) <= DOWN
    /\ kind = "naive" => Naive!ServerTypeOK
    /\ kind = "splice" => Splice!ServerTypeOK
    /\ kind = "iosubmit" => Iosubmit!ServerTypeOK
    /\ kind = "sockmap" => Sockmap!ServerTypeOK

Held(c) ==
    CASE kind = "naive" -> Naive!Held(c)
      [] kind = "splice" -> Splice!Held(c)
      [] kind = "iosubmit" -> Iosubmit!Held(c)
      [] kind = "sockmap" -> Sockmap!Held(c)

\* Without resets and signals the bytes a client still waits for are exactly
\* those it has not sent and those under way: no buffer, pipe, map or server
\* step loses or invents any.
Conservation ==
    /\ TypeOK
    /\ \A c \in Conns : ~signals /\ cpc[c] \notin {"new", "dead"} /\ ~rst[c] /\ ~fin[c] =>
        rx_bytes[c] = tx_bytes[c] + Len(c2s[c]) + Held(c) + Len(s2c[c])

\* Who brings a server down: a client that was interrupted before its bytes were
\* back, if the server cannot write without SIGPIPE; never one that closed after
\* its bursts, even if its connection is reset then.  echo-splice ends for two
\* more reasons.
ServerSurvives ==
    ~signals /\ spc = "exit" =>
        \/ kind \in {"splice", "iosubmit"} /\ cpc[cd] = "dead" /\ Piped(cd)
        \/ kind = "splice" /\ (pipes = 0 \/ Len(pipe) < n)

\* What comes back is in order and from this connection, even where a signal
\* makes the server lose some of it.
OrderKept ==
    \A c \in Conns :
        /\ \A k \in DOMAIN back[c] : back[c][k][1] = c
        /\ \A k \in 1 .. Len(back[c]) - 1 : back[c][k][2] < back[c][k + 1][2]

\* Without signals every server implements EchoPromise.
Promise == INSTANCE EchoPromise WITH back <- IF signals THEN [c \in Conns |-> <<>>] ELSE back
PromiseSpec == Promise!Spec

\* Without signals every run of test-burst comes to an end, whatever the sizes
\* of bursts and buffers and even if the server never listens.  The exception
\* is echo-sockmap: a client, and those behind it, wait for ever if all its
\* bytes came before the insertion.
ClientsFinish ==
    \/ signals
    \/ <>(\A c \in Conns : cpc[c] \in {"closed", "dead"})
    \/ kind = "sockmap" /\ <>[]Sockmap!Stuck
=============================================================================
