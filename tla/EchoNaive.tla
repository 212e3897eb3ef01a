----------------------------- MODULE EchoNaive -----------------------------
(***************************************************************************)
(* 2019-02-tcp-splice/echo-naive.c: accept, then recv and send in turn     *)
(* until the end of the stream, one connection at a time.  A blocking send *)
(* hands the kernel its bytes as room appears; a signal or a reset ends it *)
(* early.                                                                  *)
(***************************************************************************)
EXTENDS Echo

VARIABLES
    signals, \* signals may interrupt recv and send
    spc,     \* "start", "accept", "recv", "send", "close", "exit" or "abort"
    cd,      \* connection being served
    buf,     \* the n bytes received
    m        \* bytes of buf that send has handed over

serverVars == <<spc, cd, buf, m>>

InitServer ==
    /\ cd = NoConn /\ buf = <<>> /\ m = 0

Accept ==
    /\ spc = "accept" /\ backlog # <<>>
    /\ cd' = Head(backlog) /\ backlog' = Tail(backlog)
    /\ spc' = "recv"
    /\ UNCHANGED <<clientVars, c2s, s2c, fin, rst, told, back, buf, m>>

Recv ==
    /\ spc = "recv"
    /\ \E bytes \in Received(cd, BUFFER_SIZE) : buf' = bytes /\ Taken(cd, bytes)
    /\ m' = 0
    /\ spc' = "send"
    /\ UNCHANGED <<clientVars, s2c, fin, rst, told, backlog, back, cd>>

\* n == 0, or ECONNRESET.
RecvEnd ==
    /\ spc = "recv" /\ AtEnd(cd)
    /\ spc' = "close"
    /\ UNCHANGED <<echoVars, cd, buf, m>>

\* Broken variant: whatever send took is taken for everything.
SendOnce ==
    /\ spc = "send" /\ ~rst[cd]
    /\ \E k \in 1 .. Len(buf) : k <= Room(cd) /\ Given(cd, SubSeq(buf, 1, k))
    /\ spc' = "recv"
    /\ UNCHANGED <<clientVars, c2s, fin, rst, told, backlog, cd, buf, m>>

\* The kernel takes more of the bytes; send returns when it has them all.
Send ==
    /\ spc = "send" /\ ~rst[cd]
    /\ \E k \in 1 .. Len(buf) - m :
        /\ k <= Room(cd)
        /\ Given(cd, SubSeq(buf, m + 1, m + k))
        /\ m' = m + k
    /\ spc' = IF m' = Len(buf) THEN "recv" ELSE "send"
    /\ UNCHANGED <<clientVars, c2s, fin, rst, told, backlog, cd, buf>>

\* Broken variant: no MSG_NOSIGNAL.
SendPiped ==
    /\ spc = "send" /\ rst[cd]
    /\ IF Piped(cd) /\ m = 0
       THEN spc' = "exit" /\ Hangup(Conns)
       ELSE spc' = "close" /\ UNCHANGED rst
    /\ UNCHANGED <<clientVars, c2s, s2c, fin, told, backlog, back, cd, buf, m>>

\* send, with MSG_NOSIGNAL, fails with ECONNRESET or EPIPE, or falls short and
\* SO_ERROR says so.
SendReset ==
    /\ spc = "send" /\ rst[cd]
    /\ spc' = "close"
    /\ UNCHANGED <<echoVars, cd, buf, m>>

\* EINTR before any byte was taken: continue, back to recv.
SendInterrupted ==
    /\ signals /\ spc = "send" /\ m = 0
    /\ spc' = "recv"
    /\ UNCHANGED <<echoVars, cd, buf, m>>

\* Broken variant: after a short send everything is sent again.
SendAllAgain ==
    /\ signals /\ spc = "send" /\ m > 0 /\ ~rst[cd]
    /\ m' = 0
    /\ UNCHANGED <<echoVars, spc, cd, buf>>

\* A signal after some bytes: m != n and no socket error, PFATAL.
SendShort ==
    /\ signals /\ spc = "send" /\ m > 0 /\ ~rst[cd]
    /\ spc' = "exit"
    /\ Hangup(Conns)
    /\ UNCHANGED <<clientVars, c2s, s2c, fin, told, backlog, back, cd, buf, m>>

\* close(cd); goto again_accept.
Close ==
    /\ spc = "close"
    /\ Hangup({cd})
    /\ spc' = "accept"
    /\ UNCHANGED <<clientVars, c2s, s2c, fin, told, backlog, back, cd, buf, m>>

ServerNext ==
    \/ Accept \/ Recv \/ RecvEnd \/ Send \/ SendReset \/ SendInterrupted \/ SendShort \/ Close

-----------------------------------------------------------------------------
ServerTypeOK ==
    /\ spc \in {"start", "abort", "accept", "recv", "send", "close", "exit"}
    /\ cd \in Conns \cup {NoConn} /\ buf \in Seq(Conns \X Nat) /\ m \in 0 .. Len(buf)

\* What the server has received and not yet given back.
Held(c) == IF cd = c /\ spc = "send" THEN Len(buf) - m ELSE 0
=============================================================================
