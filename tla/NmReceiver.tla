----------------------------- MODULE NmReceiver -----------------------------
(***************************************************************************)
(* 2015-12-nm-single-rx-queue/main.c: a netmap receiver.  It takes frames  *)
(* out of a ring that the network card fills at the same time, counts      *)
(* them, gives ARP and ICMP to the host's stack and drops everything else. *)
(*                                                                         *)
(* The card owns the slots from filled up to returned, one of which stays  *)
(* empty.  poll gives back what has been read and moves tail to what has   *)
(* come.  A frame overwrites no more of its buffer than its own length.    *)
(***************************************************************************)
EXTENDS Naturals, Sequences

CONSTANTS
    Slots,       \* of the ring
    NmFrames,    \* what may come: [len, type, proto], "none" where it is too short to have one
    MaxFrames    \* bound on the frames that come

ASSUME RingAssumption ==
    /\ Slots \in Nat /\ Slots >= 2 /\ MaxFrames \in Nat
    /\ \A f \in NmFrames :
          f.len \in Nat /\ (f.len < 14 => f.type = "none") /\ (f.len < 24 => f.proto = "none")

VARIABLES
    npc,                    \* "open", "poll", "time", "scan" or "exit"
    slot,                   \* length, buffer and NS_FORWARD of each slot
    forward,                \* NR_FORWARD
    cur, tail,              \* the program's view; head is always cur
    filled, returned,       \* the card's view
    pps, late,              \* late: the second that is counted is over
    printed, came, host     \* history: frames printed, all that came, those given to the host

nmVars == <<npc, slot, forward, cur, tail, filled, returned, pps, late, printed, came, host>>

nm_ring_next(k) == (k + 1) % Slots

InitNm ==
    /\ npc = "open"
    /\ slot = [k \in 0 .. Slots - 1 |->
                  [id |-> 0, len |-> 0, type |-> "none", proto |-> "none", forward |-> FALSE]]
    /\ forward = FALSE /\ cur = 0 /\ tail = 0 /\ filled = 0 /\ returned = 0
    /\ pps = 0 /\ late = FALSE /\ printed = 0 /\ came = <<>> /\ host = <<>>

\* The card writes a frame into the next free slot; without one it is lost.
NmArrive ==
    /\ npc \notin {"open", "exit"} /\ Len(came) < MaxFrames
    /\ nm_ring_next(filled) # returned
    /\ \E f \in NmFrames :
        /\ came' = Append(came, f)
        /\ slot' = [slot EXCEPT ![filled] =
                       [id |-> Len(came) + 1, len |-> f.len, forward |-> FALSE,
                        type |-> IF f.len >= 14 THEN f.type ELSE @.type,
                        proto |-> IF f.len >= 24 THEN f.proto ELSE @.proto]]
    /\ filled' = nm_ring_next(filled)
    /\ UNCHANGED <<npc, forward, cur, tail, returned, pps, late, printed, host>>

Second ==
    /\ npc \notin {"open", "exit"} /\ ~late /\ late' = TRUE
    /\ UNCHANGED <<npc, slot, forward, cur, tail, filled, returned, pps, printed, came, host>>

NmOpen ==
    /\ npc = "open" /\ npc' \in {"poll", "exit"}
    /\ UNCHANGED <<slot, forward, cur, tail, filled, returned, pps, late, printed, came, host>>

\* The slots from a up to b.
Span(a, b) == ((b + Slots) - a) % Slots

\* What the host has when the first of the slots from a on are given back, the
\* flagged ones to it.
GivenBack(a, b) ==
    LET given[n \in 0 .. Span(a, b)] ==
          IF n = 0 THEN host
          ELSE LET s == slot[((a + n) - 1) % Slots]
               IN  IF forward /\ s.forward THEN Append(given[n - 1], s.id) ELSE given[n - 1]
    IN  given

\* poll returns because of frames or after a second; or it fails.
Poll ==
    /\ npc = "poll"
    /\ \/ /\ npc' = "time"
          /\ host' = GivenBack(returned, cur)[Span(returned, cur)]
          /\ returned' = cur /\ tail' = filled /\ forward' = FALSE
       \/ npc' = "exit" /\ UNCHANGED <<host, returned, tail, forward>>
    /\ UNCHANGED <<slot, cur, filled, pps, late, printed, came>>

PrintRate ==
    /\ npc = "time" /\ npc' = "scan"
    /\ late' = FALSE
    /\ IF late THEN printed' = printed + pps /\ pps' = 0 ELSE UNCHANGED <<printed, pps>>
    /\ UNCHANGED <<slot, forward, cur, tail, filled, returned, came, host>>

\* Mutant: the lengths are not looked at.
FilterAny(s) == s.type = "arp" \/ (s.type = "ip" /\ s.proto = "icmp")

\* ARP, and IPv4 that carries ICMP, is not dropped.
filter_packet(s) ==
    \/ s.len >= 14 /\ s.type = "arp"
    \/ s.len >= 34 /\ s.type = "ip" /\ s.proto = "icmp"

\* One frame, if there is one.
Scan ==
    /\ npc = "scan"
    /\ \/ cur = tail /\ npc' = "poll" /\ UNCHANGED <<cur, pps, forward, slot>>
       \/ /\ cur # tail /\ npc' = npc
          /\ pps' = pps + 1
          /\ IF filter_packet(slot[cur])
             THEN forward' = TRUE /\ slot' = [slot EXCEPT ![cur].forward = TRUE]
             ELSE UNCHANGED <<forward, slot>>
          /\ cur' = nm_ring_next(cur)
    /\ UNCHANGED <<tail, filled, returned, late, printed, came, host>>

receiver == NmOpen \/ Poll \/ PrintRate \/ Scan
NmNext == receiver \/ NmArrive \/ Second

-----------------------------------------------------------------------------
\* Frames that came before those in the slots from a on.
Before(a) == Len(came) - Span(a, filled)

ForHost(f) == f.type = "arp" \/ (f.type = "ip" /\ f.proto = "icmp" /\ f.len >= 34)

\* While the card writes: each frame is counted once, in the second it is read,
\* and those given back are with the host, once and in order, if they are whole
\* ARP or ICMP headers, whatever an earlier frame left in their buffer.
ForwardsExactly ==
    /\ printed + pps = Before(cur)
    /\ {host[m] : m \in DOMAIN host} = {n \in 1 .. Before(returned) : ForHost(came[n])}
    /\ \A m \in 1 .. Len(host) - 1 : host[m] < host[m + 1]
=============================================================================
