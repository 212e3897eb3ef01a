------------------------------ MODULE Connectx ------------------------------
(***************************************************************************)
(* 2022-02-connectx/connectx.py, the UDP half: connect a socket from a     *)
(* given or a free local port, sharing the port with other connections but *)
(* never the 4-tuple.  The kernel has no such call.  The program takes     *)
(* SO_REUSEADDR for a lock: bound with it, cleared, the socket keeps every *)
(* other out of its address while a netlink lookup tells whether it is the *)
(* one the kernel would deliver to.                                        *)
(*                                                                         *)
(* Callers are processes of their own, each with its netlink socket.  The  *)
(* kernel's UDP table is external: bind, connect, close and lookup.        *)
(***************************************************************************)
EXTENDS Integers, Sequences, FiniteSets, SequencesExt

CONSTANTS
    Callers,   \* positive numbers
    IPs,       \* local addresses
    WILDCARD,  \* the wildcard address
    Remotes,   \* remote addresses
    NoPeer,
    Source,    \* the local address of the route to a remote address
    lo, hi,    \* the ephemeral ports
    skip,      \* the reserved ones
    MaxCalls   \* bound: calls of connectx in a behaviour

ASSUME ConnectxAssumption ==
    /\ Callers \subseteq Nat \ {0}
    /\ Source \in [Remotes -> IPs] /\ WILDCARD \notin IPs
    /\ Remotes # {} /\ NoPeer \notin Remotes
    /\ lo \in Nat \ {0} /\ hi \in Nat /\ lo <= hi /\ skip \subseteq Nat
    /\ MaxCalls \in Nat

VARIABLES
    \* the callers
    pc, want,     \* what the call was asked for
    local,        \* local_addr as the call goes on
    start, off,   \* _get_udp_port's search
    overlapped,   \* history: something else happened during the call
    calls,
    \* the kernel's table
    chain,        \* bound sockets, the newest first
    addr, peer, reuse

callVars == <<pc, want, local, start, off, overlapped, calls>>
tableVars == <<chain, addr, peer, reuse>>
vars == <<callVars, tableVars>>

\* Sockets: of the callers, the one _get_src_route opens for a moment, and
\* one of a program that binds without connecting and without SO_REUSEADDR.
RouteSock(c) == 0 - c
Plain == 0
Socks == Callers \cup {RouteSock(c) : c \in Callers} \cup {Plain}

ports == lo .. hi
Wants == [ip : IPs \cup {WILDCARD}, port : {0} \cup ports, remote : Remotes]
NoWant == CHOOSE w \in Wants : TRUE
NoAddr == [ip |-> WILDCARD, port |-> 0]

Busy == {"route", "routed", "random", "search", "bind", "lock", "check", "connect", "unlock", "cleanup"}
Over == {"done", "failed", "again", "raised"}

-----------------------------------------------------------------------------
(* The kernel's UDP sockets.                                               *)

Bound == Range(chain)
Overlap(a, b) == a.port = b.port /\ (a.ip = b.ip \/ WILDCARD \in {a.ip, b.ip})

\* bind is refused unless both sides of every conflict have SO_REUSEADDR.
Refused(a, shares) == \E t \in Bound : Overlap(addr[t], a) /\ ~(shares /\ reuse[t])

\* The socket a datagram from r to a goes to: connected before bound, bound
\* to the address before the wildcard, the newest among equals.
Score(t, a, r) ==
    IF addr[t] = a /\ peer[t] = r THEN 3
    ELSE IF addr[t] = a /\ peer[t] = NoPeer THEN 2
    ELSE IF addr[t] = [a EXCEPT !.ip = WILDCARD] /\ peer[t] = NoPeer THEN 1 ELSE 0

Found(a, r) ==
    {chain[i] : i \in {j \in DOMAIN chain :
        /\ Score(chain[j], a, r) > 0
        /\ \A k \in DOMAIN chain :
            \/ Score(chain[k], a, r) < Score(chain[j], a, r)
            \/ Score(chain[k], a, r) = Score(chain[j], a, r) /\ j <= k}}

BindTo(s, a, r, shares) ==
    /\ chain' = <<s>> \o chain
    /\ addr' = [addr EXCEPT ![s] = a]
    /\ peer' = [peer EXCEPT ![s] = r]
    /\ reuse' = [reuse EXCEPT ![s] = shares]

Unbind(s) ==
    /\ chain' = RemoveFirst(chain, s)
    /\ addr' = [addr EXCEPT ![s] = NoAddr]
    /\ peer' = [peer EXCEPT ![s] = NoPeer]
    /\ reuse' = [reuse EXCEPT ![s] = FALSE]

\* History: binding or closing a socket disturbs every call in progress.
Disturb == overlapped' = [d \in Callers |-> overlapped[d] \/ pc[d] \in Busy]

\* The call of c ends; its variables are forgotten.
Return(c, how) ==
    /\ pc' = [pc EXCEPT ![c] = how]
    /\ want' = [want EXCEPT ![c] = NoWant] /\ local' = [local EXCEPT ![c] = NoAddr]
    /\ start' = [start EXCEPT ![c] = lo] /\ off' = [off EXCEPT ![c] = 0]
    /\ overlapped' = [overlapped EXCEPT ![c] = FALSE]
    /\ UNCHANGED calls

-----------------------------------------------------------------------------
Init ==
    /\ pc = [c \in Callers |-> "idle"] /\ want = [c \in Callers |-> NoWant]
    /\ local = [c \in Callers |-> NoAddr]
    /\ start = [c \in Callers |-> lo] /\ off = [c \in Callers |-> 0]
    /\ overlapped = [c \in Callers |-> FALSE] /\ calls = 0
    /\ chain = <<>>
    /\ addr = [s \in Socks |-> NoAddr]
    /\ peer = [s \in Socks |-> NoPeer] /\ reuse = [s \in Socks |-> FALSE]

\* connectx on a fresh datagram socket.
Call(c) ==
    /\ pc[c] = "idle" /\ calls < MaxCalls
    /\ calls' = calls + 1
    /\ \E w \in Wants :
        /\ want' = [want EXCEPT ![c] = w]
        /\ local' = [local EXCEPT ![c] = [ip |-> w.ip, port |-> w.port]]
        /\ pc' = [pc EXCEPT ![c] = IF w.ip = WILDCARD THEN "route"
                                   ELSE IF w.port = 0 THEN "random" ELSE "bind"]
    /\ UNCHANGED <<start, off>>
    /\ overlapped' = [d \in Callers |->
            IF d = c THEN \E e \in Callers \ {c} : pc[e] \in Busy
            ELSE overlapped[d] \/ pc[d] \in Busy]
    /\ UNCHANGED tableVars

AfterRoute(c) == IF want[c].port = 0 THEN "random" ELSE "bind"

\* The ports the kernel may choose from for a socket with SO_REUSEADDR.
AutoPorts == {p \in ports \ skip : ~Refused([ip |-> WILDCARD, port |-> p], TRUE)}

\* _get_src_route connects a socket with SO_REUSEADDR and no address.
RouteOpen(c) ==
    /\ pc[c] = "route"
    /\ \E p \in AutoPorts :
        LET a == [ip |-> Source[want[c].remote], port |-> p] IN
        /\ BindTo(RouteSock(c), a, want[c].remote, TRUE)
        /\ local' = [local EXCEPT ![c].ip = a.ip]
    /\ pc' = [pc EXCEPT ![c] = "routed"]
    /\ UNCHANGED <<want, start, off, overlapped, calls>>

\* No port is left even for that.
RouteFails(c) ==
    /\ pc[c] = "route" /\ AutoPorts = {}
    /\ Return(c, "again")
    /\ UNCHANGED tableVars

RouteClose(c) ==
    /\ pc[c] = "routed"
    /\ Unbind(RouteSock(c))
    /\ pc' = [pc EXCEPT ![c] = AfterRoute(c)]
    /\ UNCHANGED <<want, local, start, off, overlapped, calls>>

\* _get_udp_port starts anywhere in the range.
SearchStarts(c) ==
    /\ pc[c] = "random"
    /\ \E s \in ports : start' = [start EXCEPT ![c] = s]
    /\ pc' = [pc EXCEPT ![c] = "search"]
    /\ UNCHANGED <<want, local, off, overlapped, calls, tableVars>>

\* The ports from start to hi, then from lo.
Port(c) == LET port == start[c] + off[c]
           IN  IF port > hi THEN port - (hi + 1) + lo ELSE port

\* Broken variant: one port too few is tried.
MoreShort(c) == off[c] < hi - lo

More(c) == off[c] < hi + 1 - lo

\* _get_udp_port: the first port no socket answers on for this remote.
SearchSkip(c) ==
    /\ pc[c] = "search" /\ More(c)
    /\ \/ Port(c) \in skip
       \/ Found([local[c] EXCEPT !.port = Port(c)], want[c].remote) # {}
    /\ off' = [off EXCEPT ![c] = @ + 1]
    /\ UNCHANGED <<pc, want, local, start, overlapped, calls, tableVars>>

SearchFound(c) ==
    /\ pc[c] = "search" /\ More(c)
    /\ Port(c) \notin skip
    /\ Found([local[c] EXCEPT !.port = Port(c)], want[c].remote) = {}
    /\ local' = [local EXCEPT ![c].port = Port(c)]
    /\ start' = [start EXCEPT ![c] = lo] /\ off' = [off EXCEPT ![c] = 0]
    /\ pc' = [pc EXCEPT ![c] = "bind"]
    /\ UNCHANGED <<want, overlapped, calls, tableVars>>

\* EAGAIN.
SearchEnds(c) ==
    /\ pc[c] = "search" /\ ~More(c)
    /\ Return(c, "again")
    /\ UNCHANGED tableVars

\* SO_REUSEADDR = 1 and bind.
Bind(c) ==
    /\ pc[c] = "bind" /\ ~Refused(local[c], TRUE)
    /\ BindTo(c, local[c], NoPeer, TRUE)
    /\ pc' = [pc EXCEPT ![c] = "lock"]
    /\ UNCHANGED <<want, local, start, off, overlapped, calls>>

\* EADDRINUSE: somebody does not share, or holds the lock.
BindFails(c) ==
    /\ pc[c] = "bind" /\ Refused(local[c], TRUE)
    /\ Return(c, "failed")
    /\ UNCHANGED tableVars

\* Broken variant: the lock is not taken.
NoLock(c) ==
    /\ pc[c] = "lock"
    /\ pc' = [pc EXCEPT ![c] = "check"]
    /\ UNCHANGED <<want, local, start, off, overlapped, calls, tableVars>>

\* SO_REUSEADDR = 0: from here nobody else can bind to this address.
Lock(c) ==
    /\ pc[c] = "lock"
    /\ reuse' = [reuse EXCEPT ![c] = FALSE]
    /\ pc' = [pc EXCEPT ![c] = "check"]
    /\ UNCHANGED <<want, local, start, off, overlapped, calls, chain, addr, peer>>

\* Does the kernel deliver to this socket?  Its cookie is compared.
Check(c) ==
    /\ pc[c] = "check"
    /\ pc' = [pc EXCEPT ![c] = IF Found(local[c], want[c].remote) = {c} THEN "connect" ELSE "cleanup"]
    /\ UNCHANGED <<want, local, start, off, overlapped, calls, tableVars>>

Connect(c) ==
    /\ pc[c] = "connect"
    /\ peer' = [peer EXCEPT ![c] = want[c].remote]
    /\ pc' = [pc EXCEPT ![c] = "unlock"]
    /\ UNCHANGED <<want, local, start, off, overlapped, calls, chain, addr, reuse>>

Unlock(c) ==
    /\ pc[c] = "unlock"
    /\ reuse' = [reuse EXCEPT ![c] = TRUE]
    /\ Return(c, "done")
    /\ UNCHANGED <<chain, addr, peer>>

\* Broken variant: the lock is kept on failure.
CleanupLocked(c) ==
    /\ pc[c] = "cleanup"
    /\ Return(c, "failed")
    /\ UNCHANGED tableVars

\* connect(AF_UNSPEC) leaves a socket that was bound to an address and a port
\* where it is; the lock is given up, and EADDRINUSE raised.
Cleanup(c) ==
    /\ pc[c] = "cleanup"
    /\ reuse' = [reuse EXCEPT ![c] = TRUE]
    /\ Return(c, "failed")
    /\ UNCHANGED <<chain, addr, peer>>

\* An OSError from the netlink socket, or from connect (its route is gone, a
\* filter refuses it), leaves connectx from where it is: in the critical
\* section with the lock taken.
Raises(c) ==
    /\ pc[c] \in {"search", "check", "connect"}
    /\ Return(c, "raised")
    /\ UNCHANGED tableVars

\* The caller closes the socket, connected or not.
Close(c) ==
    /\ pc[c] \in Over
    /\ Unbind(c)
    /\ pc' = [pc EXCEPT ![c] = "idle"] /\ Disturb
    /\ UNCHANGED <<want, local, start, off, calls>>

_connectx_udp(c) ==
    \/ RouteOpen(c) \/ RouteFails(c) \/ RouteClose(c)
    \/ SearchStarts(c) \/ SearchSkip(c) \/ SearchFound(c) \/ SearchEnds(c)
    \/ Bind(c) \/ BindFails(c) \/ Lock(c) \/ Check(c) \/ Connect(c) \/ Unlock(c)
    \/ Cleanup(c) \/ Raises(c)

\* The other program.
PlainBind ==
    /\ Plain \notin Bound
    /\ \E ip \in IPs \cup {WILDCARD}, p \in ports :
        LET a == [ip |-> ip, port |-> p] IN
        ~Refused(a, FALSE) /\ BindTo(Plain, a, NoPeer, FALSE)
    /\ Disturb
    /\ UNCHANGED <<pc, want, local, start, off, calls>>

PlainClose ==
    /\ Plain \in Bound
    /\ Unbind(Plain) /\ Disturb
    /\ UNCHANGED <<pc, want, local, start, off, calls>>

Next == PlainBind \/ PlainClose \/ \E c \in Callers : Call(c) \/ _connectx_udp(c) \/ Close(c)
Spec == Init /\ [][Next]_vars

-----------------------------------------------------------------------------
(* Properties.                                                             *)

\* Sockets are bound once, a search stays in the range (the assertions of
\* connectx.py:217-218), and only a call past its search has a port.
TypeOK ==
    /\ pc \in [Callers -> {"idle"} \cup Busy \cup Over]
    /\ want \in [Callers -> Wants] /\ calls \in 0 .. MaxCalls
    /\ local \in [Callers -> [ip : IPs \cup {WILDCARD}, port : {0} \cup ports]]
    /\ start \in [Callers -> ports] /\ off \in [Callers -> 0 .. hi + 1 - lo]
    /\ overlapped \in [Callers -> BOOLEAN]
    /\ chain \in Seq(Socks) /\ IsInjective(chain)
    /\ addr \in [Socks -> [ip : IPs \cup {WILDCARD}, port : {0} \cup ports]]
    /\ peer \in [Socks -> Remotes \cup {NoPeer}] /\ reuse \in [Socks -> BOOLEAN]

Established(c) == pc[c] = "done"

\* A connection made by connectx keeps its datagrams: no other socket shares
\* its 4-tuple or takes its address without sharing, whatever other calls do
\* in between (the critical section of connectx.py:147-165, test.py:11).  Only
\* a socket of _get_src_route can come in between.
Exclusive ==
    /\ TypeOK
    /\ \A c \in Callers : Established(c) =>
        /\ Found(addr[c], peer[c]) \subseteq {c} \cup {RouteSock(d) : d \in Callers}
        /\ ~ \E d \in Callers \ {c} : Established(d) /\ addr[d] = addr[c] /\ peer[d] = peer[c]
        /\ Plain \in Bound => ~Overlap(addr[Plain], addr[c])

\* A port is never left locked: outside the critical section every socket of
\* connectx shares its address, unless an exception of the lookup or of
\* connect got out of the critical section (connectx.py:149-165).
PortsUnlocked ==
    \A c \in Callers : c \in Bound /\ ~reuse[c] => pc[c] \in {"check", "connect", "unlock", "cleanup", "raised"}

Taken(c, a, r) ==
    \E t \in Bound \ {c} : \/ addr[t] = a /\ peer[t] = r
                           \/ Overlap(addr[t], a) /\ ~reuse[t]

\* A call that nothing disturbs fails only when it has to: with EADDRINUSE
\* when the 4-tuple is connected or its address is not shared, with EAGAIN
\* when every port in the range that is not reserved answers for this remote
\* address.  So a range of n ports carries n connections to one remote
\* address (README.md:22-25, test.py:52).
NoSpuriousFailure ==
    [][\A c \in Callers : pc[c] \in Busy /\ ~overlapped[c] =>
        /\ pc'[c] = "failed" => want[c].port # 0 /\ Taken(c, local[c], want[c].remote)
        /\ pc'[c] = "again" => \A p \in ports \ skip :
                Found([ip |-> local[c].ip, port |-> p], want[c].remote) # {} \/ pc[c] = "route"]_vars
=============================================================================
