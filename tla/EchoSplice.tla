----------------------------- MODULE EchoSplice -----------------------------
(***************************************************************************)
(* 2019-02-tcp-splice/echo-splice.c: bytes go from the socket into a pipe  *)
(* and from the pipe back into the socket.  A pipe is made for every       *)
(* connection and never closed.  Both splices block; a signal ends the     *)
(* process like every other unexpected errno and is left out.              *)
(***************************************************************************)
EXTENDS Echo

CONSTANTS
    SPLICE_MAX,
    MaxPipes    \* bound on the pipes the process has descriptors for

VARIABLES
    spc,     \* "start", "accept", "in", "out", "close", "exit" or "abort"
    cd,
    pipe,    \* contents of the pipe of this connection
    n,       \* bytes the first splice moved
    pipes    \* pipes there are still descriptors for

serverVars == <<spc, cd, pipe, n, pipes>>

InitServer ==
    /\ cd = NoConn /\ pipe = <<>> /\ n = 0 /\ pipes \in 1 .. MaxPipes

\* net_accept, pipe() and F_SETPIPE_SZ; PFATAL when no descriptor is left.
Accept ==
    /\ spc = "accept" /\ backlog # <<>>
    /\ cd' = Head(backlog) /\ backlog' = Tail(backlog)
    /\ IF pipes > 0
       THEN pipes' = pipes - 1 /\ pipe' = <<>> /\ spc' = "in" /\ UNCHANGED rst
       ELSE spc' = "exit" /\ Hangup(Conns) /\ UNCHANGED <<pipes, pipe>>
    /\ UNCHANGED <<clientVars, c2s, s2c, fin, told, back, n>>

\* splice(cd, pfd[1])
SpliceIn ==
    /\ spc = "in"
    /\ \E bytes \in Received(cd, SPLICE_MAX) :
        /\ pipe' = pipe \o bytes
        /\ n' = Len(bytes)
        /\ Taken(cd, bytes)
    /\ spc' = "out"
    /\ UNCHANGED <<clientVars, s2c, fin, rst, told, backlog, back, cd, pipes>>

SpliceInEnd ==
    /\ spc = "in" /\ AtEnd(cd)
    /\ spc' = "close"
    /\ UNCHANGED <<echoVars, cd, pipe, n, pipes>>

\* splice(pfd[0], cd, n): blocks until all n bytes are in the socket.
SpliceOut ==
    /\ spc = "out" /\ ~rst[cd]
    /\ \E k \in 1 .. Len(pipe) :
        /\ k <= Room(cd)
        /\ Given(cd, SubSeq(pipe, 1, k))
        /\ pipe' = SubSeq(pipe, k + 1, Len(pipe))
    /\ spc' = IF pipe' = <<>> THEN "in" ELSE "out"
    /\ UNCHANGED <<clientVars, c2s, fin, rst, told, backlog, cd, n, pipes>>

\* ECONNRESET before any byte went: break.  After some went, m != n:
\* FATAL("expecting splice to block").  splice cannot ask for no SIGPIPE, so
\* that the branch for EPIPE at line 104 is never reached.
SpliceOutReset ==
    /\ spc = "out" /\ rst[cd]
    /\ IF Len(pipe) = n /\ ~Piped(cd)
       THEN spc' = "close" /\ UNCHANGED rst
       ELSE spc' = "exit" /\ Hangup(Conns)
    /\ UNCHANGED <<clientVars, c2s, s2c, fin, told, backlog, back, cd, pipe, n, pipes>>

Close ==
    /\ spc = "close"
    /\ Hangup({cd})
    /\ spc' = "accept"
    /\ UNCHANGED <<clientVars, c2s, s2c, fin, told, backlog, back, cd, pipe, n, pipes>>

ServerNext ==
    \/ Accept \/ SpliceIn \/ SpliceInEnd \/ SpliceOut \/ SpliceOutReset \/ Close

-----------------------------------------------------------------------------
ServerTypeOK ==
    /\ spc \in {"start", "abort", "accept", "in", "out", "close", "exit"}
    /\ cd \in Conns \cup {NoConn} /\ pipe \in Seq(Conns \X Nat)
    /\ n \in 0 .. SPLICE_MAX /\ Len(pipe) <= SPLICE_MAX
    /\ pipes \in 0 .. MaxPipes

Held(c) == IF cd = c /\ spc = "out" THEN Len(pipe) ELSE 0
=============================================================================
