------------------------------- MODULE Echo -------------------------------
(***************************************************************************)
(* 2019-02-tcp-splice: the TCP connections between the measuring client    *)
(* test-burst.c and an echo server.  Each connection is one run of         *)
(* test-burst; the servers extend this module.                             *)
(*                                                                         *)
(* The client sends a burst without blocking while it reads back what is   *)
(* already there, and only blocks in recvmsg once everything is sent.  One *)
(* action is one system call; the EINTR returns that go back to the loop's *)
(* top change nothing and are left out.  A client may be interrupted       *)
(* anywhere; its socket is then closed for it.                             *)
(***************************************************************************)
EXTENDS Naturals, Sequences, FiniteSets

CONSTANTS
    Conns,       \* the runs of test-burst, and so their connections
    NoConn,
    BurstSz, BurstCount, \* their options: bytes of each burst, and how many
    BUFFER_SIZE,         \* bytes of a buffer, the clients' and the servers'
    UP, DOWN,    \* bytes the socket buffers hold towards the server, and back unless it
                 \* made its own larger
    MaxMishaps   \* bound on the connections that break: the network resets them,
                 \* or their client is interrupted

ASSUME EchoAssumption ==
    NoConn \notin Conns /\ BurstSz \in [Conns -> Nat \ {0}] /\ BurstCount \in Nat \ {0} /\ BUFFER_SIZE \in Nat \ {0} /\ UP \in Nat \ {0} /\ DOWN \in Nat \ {0} /\ MaxMishaps \in Nat

VARIABLES
    \* the clients
    cpc,                  \* "new", "send", "recv", "print", "closed" or "dead"
    burst_i, tx_bytes, rx_bytes,
    sent,                 \* bytes sent on the connection
    printed,              \* history: bytes still missing at each latency printed
    \* the connections
    c2s, s2c,             \* bytes on their way
    fin,                  \* the client's end was closed, and its FIN sent
    rst,                  \* the connection was torn down, or nobody listens
    told,                 \* the client's socket has reported ECONNRESET
    backlog,              \* connections the server has not accepted
    back                  \* history: bytes the server gave to the kernel

clientVars == <<cpc, burst_i, tx_bytes, rx_bytes, sent, printed>>
connVars   == <<c2s, s2c, fin, rst, told, backlog, back>>
echoVars   == <<clientVars, connVars>>

InitEcho ==
    /\ cpc = [c \in Conns |-> "new"]
    /\ burst_i = [c \in Conns |-> 0]
    /\ tx_bytes = [c \in Conns |-> 0] /\ rx_bytes = [c \in Conns |-> 0]
    /\ sent = [c \in Conns |-> 0]
    /\ printed = [c \in Conns |-> <<>>]
    /\ c2s = [c \in Conns |-> <<>>] /\ s2c = [c \in Conns |-> <<>>]
    /\ fin = [c \in Conns |-> FALSE] /\ rst = [c \in Conns |-> TRUE]
    /\ told = [c \in Conns |-> FALSE]
    /\ backlog = <<>>
    /\ back = [c \in Conns |-> <<>>]

\* Broken variant: while (tx_bytes).
LoopPcTxOnly(tx, rx) == IF tx > 0 THEN "send" ELSE "print"

\* while (tx_bytes || rx_bytes)
LoopPc(tx, rx) == IF tx > 0 THEN "send" ELSE IF rx > 0 THEN "recv" ELSE "print"

\* connect() is refused before the server listens and once it has exited: PFATAL.
Refused(c) ==
    /\ cpc[c] = "new" /\ rst[c]
    /\ cpc' = [cpc EXCEPT ![c] = "dead"]
    /\ UNCHANGED <<burst_i, tx_bytes, rx_bytes, sent, printed, connVars>>

\* connect() and the first burst's counters.
Connect(c) ==
    /\ cpc[c] = "new" /\ ~rst[c]
    /\ backlog' = Append(backlog, c)
    /\ cpc' = [cpc EXCEPT ![c] = "send"]
    /\ tx_bytes' = [tx_bytes EXCEPT ![c] = BurstSz[c]]
    /\ rx_bytes' = [rx_bytes EXCEPT ![c] = BurstSz[c]]
    /\ UNCHANGED <<burst_i, sent, printed, c2s, s2c, fin, rst, told, back>>

\* The vectors tx_iov and rx_iov point at the same buffer this many times.
iov_cnt(c) == BurstSz[c] \div BUFFER_SIZE + 1

\* The bytes the vector asks for once trunc_iov has cut it: those wanted, or
\* all that its blocks hold.
trunc_iov(cnt, b_sz, desired) == IF desired <= cnt * b_sz THEN desired ELSE cnt * b_sz

\* sendmsg(MSG_DONTWAIT) takes what fits.
ClientSend(c) ==
    /\ cpc[c] = "send" /\ ~rst[c]
    /\ \E n \in 1 .. trunc_iov(iov_cnt(c), BUFFER_SIZE, tx_bytes[c]) :
        /\ Len(c2s[c]) + n <= UP
        /\ c2s' = [c2s EXCEPT ![c] = @ \o [k \in 1 .. n |-> <<c, sent[c] + k>>]]
        /\ sent' = [sent EXCEPT ![c] = @ + n]
        /\ tx_bytes' = [tx_bytes EXCEPT ![c] = @ - n]
    /\ cpc' = [cpc EXCEPT ![c] = IF rx_bytes[c] > 0 THEN "recv" ELSE LoopPc(tx_bytes'[c], 0)]
    /\ UNCHANGED <<burst_i, rx_bytes, printed, s2c, fin, rst, told, backlog, back>>

\* EAGAIN: go on to recvmsg.
ClientSendFull(c) ==
    /\ cpc[c] = "send" /\ ~rst[c] /\ Len(c2s[c]) = UP
    /\ rx_bytes[c] > 0
    /\ cpc' = [cpc EXCEPT ![c] = "recv"]
    /\ UNCHANGED <<burst_i, tx_bytes, rx_bytes, sent, printed, connVars>>

\* ECONNRESET, which the socket reports once: break out of the burst.
ClientSendError(c) ==
    /\ cpc[c] = "send" /\ rst[c] /\ ~told[c]
    /\ told' = [told EXCEPT ![c] = TRUE]
    /\ cpc' = [cpc EXCEPT ![c] = "print"]
    /\ UNCHANGED <<burst_i, tx_bytes, rx_bytes, sent, printed, c2s, s2c, fin, rst, backlog, back>>

\* EPIPE: without MSG_NOSIGNAL and a handler SIGPIPE kills the process before
\* sendmsg returns, so the branch at line 128 is never reached.
ClientKilled(c) ==
    /\ cpc[c] = "send" /\ rst[c]
    /\ cpc' = [cpc EXCEPT ![c] = "dead"]
    /\ UNCHANGED <<burst_i, tx_bytes, rx_bytes, sent, printed, connVars>>

\* Broken variant: recvmsg always blocks.
AlwaysBlocking(c) == TRUE

\* flags: MSG_WAITALL once everything is sent, MSG_DONTWAIT before.
Blocking(c) == tx_bytes[c] = 0

\* recvmsg: with MSG_WAITALL the kernel keeps taking until all is there or the
\* connection fails.
ClientRecv(c) ==
    /\ cpc[c] = "recv"
    /\ \E n \in 1 .. Len(s2c[c]) :
        /\ n <= trunc_iov(iov_cnt(c), BUFFER_SIZE, rx_bytes[c])
        /\ s2c' = [s2c EXCEPT ![c] = SubSeq(@, n + 1, Len(@))]
        /\ rx_bytes' = [rx_bytes EXCEPT ![c] = @ - n]
    /\ cpc' = [cpc EXCEPT ![c] = IF Blocking(c) /\ rx_bytes'[c] > 0 /\ ~rst[c]
                                THEN "recv" ELSE LoopPc(tx_bytes[c], rx_bytes'[c])]
    /\ UNCHANGED <<burst_i, tx_bytes, sent, printed, c2s, fin, rst, told, backlog, back>>

\* EAGAIN: continue.
ClientRecvEmpty(c) ==
    /\ cpc[c] = "recv" /\ ~rst[c] /\ ~Blocking(c) /\ s2c[c] = <<>>
    /\ cpc' = [cpc EXCEPT ![c] = LoopPc(tx_bytes[c], rx_bytes[c])]
    /\ UNCHANGED <<burst_i, tx_bytes, rx_bytes, sent, printed, connVars>>

\* recvmsg fails or returns 0: PFATAL, the process ends.
ClientRecvError(c) ==
    /\ cpc[c] = "recv" /\ rst[c] /\ s2c[c] = <<>>
    /\ cpc' = [cpc EXCEPT ![c] = "dead"]
    /\ UNCHANGED <<burst_i, tx_bytes, rx_bytes, sent, printed, connVars>>

MoreBursts(i) == i < BurstCount

\* The latency is printed and the next burst, or close(), follows.
PrintBurst(c) ==
    /\ cpc[c] = "print"
    /\ printed' = [printed EXCEPT ![c] = Append(@, rx_bytes[c])]
    /\ burst_i' = [burst_i EXCEPT ![c] = @ + 1]
    /\ IF MoreBursts(burst_i[c] + 1)
       THEN /\ tx_bytes' = [tx_bytes EXCEPT ![c] = BurstSz[c]]
            /\ rx_bytes' = [rx_bytes EXCEPT ![c] = BurstSz[c]]
            /\ cpc' = [cpc EXCEPT ![c] = "send"]
            /\ UNCHANGED fin
       ELSE /\ cpc' = [cpc EXCEPT ![c] = "closed"]
            /\ fin' = [fin EXCEPT ![c] = ~rst[c]]
            /\ UNCHANGED <<tx_bytes, rx_bytes>>
    /\ UNCHANGED <<sent, c2s, s2c, rst, told, backlog, back>>

Broken == {c \in Conns : rst[c] \/ (cpc[c] = "dead" /\ fin[c])}

\* The process is interrupted, and the kernel closes its socket.
ClientInterrupted(c) ==
    /\ cpc[c] \in {"send", "recv", "print"}
    /\ Cardinality(Broken) < MaxMishaps
    /\ cpc' = [cpc EXCEPT ![c] = "dead"]
    /\ fin' = [fin EXCEPT ![c] = ~rst[c]]
    /\ UNCHANGED <<burst_i, tx_bytes, rx_bytes, sent, printed, c2s, s2c, rst, told, backlog, back>>

\* The connection is torn down: only what has already arrived can still be read.
TornDown(c) ==
    /\ rst' = [rst EXCEPT ![c] = TRUE]
    /\ \E k \in 0 .. Len(c2s[c]) : c2s' = [c2s EXCEPT ![c] = SubSeq(@, 1, k)]
    /\ \E k \in 0 .. Len(s2c[c]) : s2c' = [s2c EXCEPT ![c] = SubSeq(@, 1, k)]
    /\ UNCHANGED <<clientVars, fin, told, backlog, back>>

\* The client's host answers bytes that nobody will read with a reset.
Unwanted(c) ==
    /\ fin[c] /\ ~rst[c] /\ s2c[c] # <<>>
    /\ TornDown(c)

ClientNext(c) ==
    \/ Connect(c) \/ Refused(c)
    \/ ClientSend(c) \/ ClientSendFull(c) \/ ClientSendError(c) \/ ClientKilled(c)
    \/ ClientRecv(c) \/ ClientRecvEmpty(c) \/ ClientRecvError(c)
    \/ PrintBurst(c) \/ Unwanted(c)

\* The network or a host resets a connection.
Reset(c) ==
    /\ cpc[c] # "new" /\ ~rst[c]
    /\ Cardinality(Broken) < MaxMishaps
    /\ TornDown(c)

ClientsOnly == \E c \in Conns : ClientNext(c) \/ ClientInterrupted(c) \/ Reset(c)

-----------------------------------------------------------------------------
(* The server's side of a connection *)

\* The socket listens: connections are no longer refused.
Listening == rst' = [c \in Conns |-> FALSE]

\* Some of the first max bytes received on c.
Received(c, max) == {SubSeq(c2s[c], 1, n) : n \in {m \in 1 .. Len(c2s[c]) : m <= max}}

Taken(c, bytes) == c2s' = [c2s EXCEPT ![c] = SubSeq(@, Len(bytes) + 1, Len(@))]

\* recv returns 0, or ECONNRESET.
AtEnd(c) == c2s[c] = <<>> /\ (fin[c] \/ rst[c])

\* A write finds the connection torn down after the client's FIN: EPIPE, and
\* SIGPIPE unless the caller asked for none.  Otherwise it is ECONNRESET.
Piped(c) == rst[c] /\ fin[c]

\* The kernel accepts some of the bytes for sending.
Room(c) == DOWN - Len(s2c[c])
Given(c, bytes) ==
    /\ s2c' = [s2c EXCEPT ![c] = @ \o bytes]
    /\ back' = [back EXCEPT ![c] = @ \o bytes]

\* close(cd): a client that has not closed sees the connection torn down.
Hangup(cs) ==
    rst' = [c \in Conns |-> rst[c] \/ (c \in cs /\ ~fin[c])]

-----------------------------------------------------------------------------
EchoTypeOK ==
    /\ cpc \in [Conns -> {"new", "send", "recv", "print", "closed", "dead"}]
    /\ burst_i \in [Conns -> 0 .. BurstCount]
    /\ \A c \in Conns :
        /\ tx_bytes[c] \in 0 .. BurstSz[c] /\ rx_bytes[c] \in 0 .. BurstSz[c]
        /\ printed[c] \in Seq(0 .. BurstSz[c])
    /\ sent \in [Conns -> Nat]
    /\ c2s \in [Conns -> Seq(Conns \X Nat)] /\ s2c \in [Conns -> Seq(Conns \X Nat)]
    /\ fin \in [Conns -> BOOLEAN] /\ rst \in [Conns -> BOOLEAN] /\ told \in [Conns -> BOOLEAN]
    /\ backlog \in Seq(Conns) /\ back \in [Conns -> Seq(Conns \X Nat)]
    /\ \A c \in Conns : Len(c2s[c]) <= UP

\* A latency is printed once the whole burst came back, or because sendmsg
\* reported a reset; one that recvmsg meets never leads to a latency.
PrintedWhenReflected ==
    \A c \in Conns : ~told[c] => \A n \in DOMAIN printed[c] : printed[c][n] = 0
=============================================================================
