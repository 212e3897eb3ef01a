--------------------------- MODULE MCDropPackets ---------------------------
(***************************************************************************)
(* Instance of DropPackets.  Frames: up to three tags, every length next   *)
(* to a boundary of the headers, and every combination of what is compared *)
(* in the IPv4 header with options; the other frames have all of it.       *)
(***************************************************************************)
EXTENDS DropPackets, FiniteSets

MCTags == {<<>>, <<"8021Q">>, <<"8021AD", "8021Q">>, <<"8021Q", "8021Q", "8021Q">>}
Ends == {ETH + VLAN * t + h : t \in 0 .. 3, h \in {0, IP, IP + UDP, IP6, IP6 + UDP}}
MCFrames ==
    [len : {e - 1 : e \in Ends} \cup Ends, tags : MCTags, proto : {"ip", "ip6", "other"},
     udp : BOOLEAN, net : BOOLEAN, port : BOOLEAN, options : {FALSE}, optport : {FALSE}]
    \cup
    [len : {ETH + IP + UDP, ETH + VLAN + IP + UDP - 1}, tags : {<<>>, <<"8021Q">>}, proto : {"ip"},
     udp : BOOLEAN, net : BOOLEAN, port : BOOLEAN, options : {TRUE}, optport : BOOLEAN]

\* A frame too short for a type, one too short for ICMP, and those that are
\* long enough.
MCNmFrames ==
    {[len |-> 13, type |-> "none", proto |-> "none"], [len |-> 14, type |-> "arp", proto |-> "none"],
     [len |-> 33, type |-> "ip", proto |-> "icmp"], [len |-> 34, type |-> "ip", proto |-> "icmp"],
     [len |-> 60, type |-> "ip", proto |-> "other"]}
=============================================================================
