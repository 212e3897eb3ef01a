---------------------------- MODULE EchoSockmap ----------------------------
(***************************************************************************)
(* 2019-02-tcp-splice/echo-sockmap.c and echo-sockmap-kern.c: the server   *)
(* puts a connection into slot 0 of a map and waits for its end; the       *)
(* kernel runs the program on what arrives, which sends it back on the     *)
(* socket in slot 0.  The send buffer is set so large that it never fills. *)
(*                                                                         *)
(* The program is called when bytes arrive.  Those that were already there *)
(* at the insertion are handed over together with the next ones.           *)
(***************************************************************************)
EXTENDS Echo

VARIABLES
    signals,  \* signals may interrupt poll
    spc,      \* "prepare", "accept", "update", "poll", "delete", "close", ...
    cd,
    slot,     \* the connection in slot 0, or NoConn
    early,    \* bytes that were there at the insertion and still are
    flight    \* bytes the program has redirected, not yet sent

serverVars == <<spc, cd, slot, early, flight>>

InitServer == cd = NoConn /\ slot = NoConn /\ early = 0 /\ flight = <<>>

\* The map and the two programs are made and attached, or PFATAL.
Prepare ==
    /\ spc = "prepare" /\ spc' \in {"start", "abort"}
    /\ UNCHANGED <<echoVars, cd, slot, early, flight>>

Accept ==
    /\ spc = "accept" /\ backlog # <<>>
    /\ cd' = Head(backlog) /\ backlog' = Tail(backlog)
    /\ spc' = "update"
    /\ UNCHANGED <<clientVars, c2s, s2c, fin, rst, told, back, slot, early, flight>>

\* tbpf_map_update_elem: the map takes established connections only.
Update ==
    /\ spc = "update" /\ ~fin[cd] /\ ~rst[cd]
    /\ slot' = cd /\ early' = Len(c2s[cd])
    /\ spc' = "poll"
    /\ UNCHANGED <<echoVars, cd, flight>>

\* EOPNOTSUPP: close, again_accept.
UpdateClosed ==
    /\ spc = "update" /\ (fin[cd] \/ rst[cd])
    /\ spc' = "close"
    /\ UNCHANGED <<echoVars, cd, slot, early, flight>>

\* _prog_parser and _prog_verdict on all that has arrived: back on slot 0.
Verdict ==
    /\ slot # NoConn /\ Len(c2s[slot]) > early
    /\ flight' = flight \o c2s[slot] /\ Taken(slot, c2s[slot])
    /\ early' = 0
    /\ UNCHANGED <<clientVars, s2c, fin, rst, told, backlog, back, spc, cd, slot>>

\* The kernel sends what was redirected; there is always room for it.
Transmit ==
    /\ slot # NoConn /\ ~rst[slot] /\ flight # <<>>
    /\ Given(slot, flight) /\ flight' = <<>>
    /\ UNCHANGED <<clientVars, c2s, fin, rst, told, backlog, spc, cd, slot, early>>

\* poll returns: the client closed, an error, or a signal, which nobody tells
\* apart.
Poll ==
    /\ spc = "poll" /\ (fin[cd] \/ rst[cd] \/ signals)
    /\ spc' = "delete"
    /\ UNCHANGED <<echoVars, cd, slot, early, flight>>

\* tbpf_map_delete_elem; EINVAL means that the kernel has already done it.
Delete ==
    /\ spc = "delete"
    /\ slot' = NoConn /\ early' = 0 /\ flight' = <<>>
    /\ spc' = "close"
    /\ UNCHANGED <<echoVars, cd>>

Close ==
    /\ spc = "close"
    /\ Hangup({cd})
    /\ spc' = "accept"
    /\ UNCHANGED <<clientVars, c2s, s2c, fin, told, backlog, back, cd, slot, early, flight>>

ServerNext ==
    \/ Prepare \/ Accept \/ Update \/ UpdateClosed \/ Poll \/ Delete \/ Close
    \/ Verdict \/ Transmit

-----------------------------------------------------------------------------
ServerTypeOK ==
    /\ spc \in {"prepare", "start", "abort", "accept", "update", "poll", "delete", "close"}
    /\ cd \in Conns \cup {NoConn} /\ slot \in {cd, NoConn}
    /\ early \in 0 .. UP /\ flight \in Seq(Conns \X Nat)

Held(c) == IF slot = c THEN Len(flight) ELSE 0

\* Only bytes from before the insertion are left and no more come: nothing
\* makes the kernel call the program.
Stuck == spc = "poll" /\ early > 0 /\ Len(c2s[cd]) = early /\ ~fin[cd] /\ ~rst[cd]
=============================================================================
