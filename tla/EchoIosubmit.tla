---------------------------- MODULE EchoIosubmit ----------------------------
(***************************************************************************)
(* 2019-02-tcp-splice/echo-iosubmit.c: one io_submit carries the write of  *)
(* what the last read brought and the next read, both from and into the    *)
(* same buffer.  On blocking sockets the kernel runs them one after the    *)
(* other before io_submit returns.                                         *)
(***************************************************************************)
EXTENDS Echo, Integers

VARIABLES
    signals,  \* signals may interrupt the write
    spc,      \* "start", "accept", "write", "read", "reap", "events", "close", "exit" or "abort"
    cd,
    buf,      \* the buffer both control blocks point at
    nbytes,   \* cb[0].aio_nbytes
    m,        \* bytes the write has handed over
    ring,     \* results the kernel has put into the completion ring
    events    \* the array io_getevents fills, zeroed before each call

serverVars == <<spc, cd, buf, nbytes, m, ring, events>>

InitServer ==
    /\ cd = NoConn
    /\ buf = <<>> /\ nbytes = 0 /\ m = 0 /\ ring = <<>> /\ events = <<0, 0>>

\* Broken variant: the control blocks of the last connection are reused.
AcceptStale ==
    /\ spc = "accept" /\ backlog # <<>>
    /\ cd' = Head(backlog) /\ backlog' = Tail(backlog)
    /\ m' = 0
    /\ spc' = "write"
    /\ UNCHANGED <<clientVars, c2s, s2c, fin, rst, told, back, buf, nbytes, ring, events>>

\* The control blocks are set up anew: the first write is empty.
Accept ==
    /\ spc = "accept" /\ backlog # <<>>
    /\ cd' = Head(backlog) /\ backlog' = Tail(backlog)
    /\ nbytes' = 0 /\ m' = 0
    /\ spc' = "write"
    /\ UNCHANGED <<clientVars, c2s, s2c, fin, rst, told, back, buf, ring, events>>

\* IOCB_CMD_PWRITE of buf[0 .. nbytes), as room appears.
Write ==
    /\ spc = "write" /\ ~rst[cd] /\ m < nbytes
    /\ \E k \in 1 .. nbytes - m :
        /\ k <= Room(cd)
        /\ Given(cd, SubSeq(buf, m + 1, m + k))
        /\ m' = m + k
    /\ UNCHANGED <<clientVars, c2s, fin, rst, told, backlog, spc, cd, buf, nbytes, ring, events>>

\* The write is over: all bytes, a signal after some of them, or an error when
\* none went; an empty write meets the connection's error too.
WriteDone ==
    /\ spc = "write" /\ ~(Piped(cd) /\ m = 0)
    /\ \/ m = nbytes \/ rst[cd]
       \/ signals
    /\ ring' = Append(ring, IF m = 0 /\ (nbytes > 0 \/ rst[cd]) THEN -1 ELSE m)
    /\ spc' = "read"
    /\ UNCHANGED <<echoVars, cd, buf, nbytes, m, events>>

\* A write cannot ask for no SIGPIPE: the process ends within io_submit.
WritePiped ==
    /\ spc = "write" /\ Piped(cd) /\ m = 0
    /\ spc' = "exit" /\ Hangup(Conns)
    /\ UNCHANGED <<clientVars, c2s, s2c, fin, told, backlog, back, cd, buf, nbytes, m, ring, events>>

\* IOCB_CMD_PREAD into the same buffer.
ReadSome ==
    /\ spc = "read"
    /\ \E bytes \in Received(cd, BUFFER_SIZE) :
        /\ buf' = bytes
        /\ ring' = Append(ring, Len(bytes))
        /\ Taken(cd, bytes)
    /\ spc' = "reap"
    /\ UNCHANGED <<clientVars, s2c, fin, rst, told, backlog, back, cd, nbytes, m, events>>

ReadEnd ==
    /\ spc = "read" /\ AtEnd(cd)
    /\ ring' = Append(ring, IF rst[cd] THEN -1 ELSE 0)
    /\ spc' = "reap"
    /\ UNCHANGED <<echoVars, cd, buf, nbytes, m, events>>

\* io_getevents reads the ring without a system call while there is anything in
\* it, up to max_nr; it never waits for min_nr.
io_getevents ==
    /\ spc = "reap"
    /\ LET i == IF Len(ring) < 2 THEN Len(ring) ELSE 2
       IN  /\ events' = [k \in 1 .. 2 |-> IF k <= i THEN ring[k] ELSE 0]
           /\ ring' = SubSeq(ring, i + 1, Len(ring))
    /\ spc' = "events"
    /\ UNCHANGED <<echoVars, cd, buf, nbytes, m>>

\* The write's result is only looked at for an error.
Events ==
    /\ spc = "events"
    /\ IF events[1] < 0 \/ events[2] <= 0
       THEN spc' = "close" /\ UNCHANGED <<nbytes, m>>
       ELSE nbytes' = events[2] /\ m' = 0 /\ spc' = "write"
    /\ UNCHANGED <<echoVars, cd, buf, ring, events>>

Close ==
    /\ spc = "close"
    /\ Hangup({cd})
    /\ spc' = "accept"
    /\ UNCHANGED <<clientVars, c2s, s2c, fin, told, backlog, back, cd, buf, nbytes, m, ring, events>>

ServerNext ==
    \/ Accept \/ Write \/ WriteDone \/ WritePiped \/ ReadSome \/ ReadEnd
    \/ io_getevents \/ Events \/ Close

-----------------------------------------------------------------------------
ServerTypeOK ==
    /\ spc \in {"start", "abort", "accept", "write", "read", "reap", "events", "close", "exit"}
    /\ cd \in Conns \cup {NoConn} /\ buf \in Seq(Conns \X Nat)
    /\ nbytes \in 0 .. BUFFER_SIZE /\ m \in 0 .. nbytes
    /\ events \in Seq(-1 .. BUFFER_SIZE) /\ Len(events) = 2
    /\ ring \in Seq(-1 .. BUFFER_SIZE) /\ Len(ring) <= 2 /\ (spc \in {"accept", "write", "close"} => ring = <<>>)

\* What was read and waits for its write, in this io_submit or the next.
Held(c) ==
    IF cd # c THEN 0
    ELSE IF spc = "write" THEN nbytes - m
    ELSE IF spc \in {"reap", "events"} THEN Len(buf) ELSE 0
=============================================================================
