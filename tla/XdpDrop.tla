------------------------------ MODULE XdpDrop ------------------------------
(***************************************************************************)
(* 2018-07-dropping-packets/xdp-drop-ebpf.c: an XDP program that walks the *)
(* headers of a frame and drops the benchmark's traffic.                   *)
(*                                                                         *)
(* A frame is its length, the types of its VLAN tags, what they carry, and *)
(* what the program compares.  With IP options the eight bytes behind a    *)
(* header of fixed size are not the UDP header: the port read is optport.  *)
(***************************************************************************)
EXTENDS Naturals, Sequences

CONSTANT Frames

ETH == 14
VLAN == 4
IP == 20
IP6 == 40
UDP == 8
VlanTypes == {"8021Q", "8021AD"}

ASSUME FramesAssumption ==
    /\ Frames # {}
    /\ \A f \in Frames :
        /\ f.len \in Nat /\ f.tags \in Seq(VlanTypes) /\ f.proto \notin VlanTypes
        /\ {f.udp, f.net, f.port, f.options, f.optport} \subseteq BOOLEAN

VARIABLES
    frame,
    step,      \* "eth", "vlan", "ip" or "done"
    nh_off, h_proto, i,
    seen,      \* history: the bytes read are all before this one
    verdict

xdpVars == <<frame, step, nh_off, h_proto, i, seen, verdict>>

InitXdp(frames) ==
    /\ frame \in frames
    /\ step = "eth" /\ nh_off = 0 /\ h_proto = "none" /\ i = 0
    /\ seen = 0 /\ verdict = "none"

Verdict(v) == verdict' = v /\ step' = "done"
TypeBehind(tags) == IF tags < Len(frame.tags) THEN frame.tags[tags + 1] ELSE frame.proto
DataEnd(off) == off > frame.len

\* The Ethernet header.
Eth ==
    /\ step = "eth"
    /\ \/ DataEnd(ETH) /\ Verdict("PASS") /\ UNCHANGED <<nh_off, h_proto, seen>>
       \/ /\ ~DataEnd(ETH)
          /\ nh_off' = ETH /\ h_proto' = TypeBehind(0) /\ seen' = ETH
          /\ step' = "vlan" /\ UNCHANGED verdict
    /\ UNCHANGED <<frame, i>>

\* Mutant: the offset moves on after the check.
VlanLate ==
    /\ step = "vlan" /\ i < 2
    /\ i' = i + 1
    /\ \/ h_proto \notin VlanTypes /\ UNCHANGED <<nh_off, h_proto, seen, step, verdict>>
       \/ h_proto \in VlanTypes /\ DataEnd(nh_off) /\ Verdict("PASS") /\ UNCHANGED <<nh_off, h_proto, seen>>
       \/ /\ h_proto \in VlanTypes /\ ~DataEnd(nh_off)
          /\ nh_off' = nh_off + VLAN /\ h_proto' = TypeBehind(i + 1) /\ seen' = nh_off + VLAN
          /\ UNCHANGED <<step, verdict>>
    /\ UNCHANGED frame

\* One round of the loop: one tag, if there is one.
Vlan ==
    /\ step = "vlan" /\ i < 2
    /\ i' = i + 1
    /\ \/ h_proto \notin VlanTypes /\ UNCHANGED <<nh_off, h_proto, seen, step, verdict>>
       \/ /\ h_proto \in VlanTypes /\ nh_off' = nh_off + VLAN
          /\ \/ DataEnd(nh_off') /\ Verdict("PASS") /\ UNCHANGED <<h_proto, seen>>
             \/ /\ ~DataEnd(nh_off')
                /\ h_proto' = TypeBehind(i + 1) /\ seen' = nh_off' /\ UNCHANGED <<step, verdict>>
    /\ UNCHANGED frame

\* udph->dest, behind a header of size header.
Dest(header) == IF header = IP /\ frame.options THEN frame.optport ELSE frame.port

\* The IP and the UDP header: protocol, destination network and port.
Match(header) ==
    LET end == nh_off + header + UDP IN
    IF DataEnd(end) THEN Verdict("PASS") /\ UNCHANGED seen
    ELSE /\ seen' = end
         /\ Verdict(IF frame.udp /\ frame.net /\ Dest(header) THEN "DROP" ELSE "PASS")

Ip ==
    /\ step = "vlan" /\ i = 2
    /\ \/ h_proto = "ip" /\ Match(IP)
       \/ h_proto = "ip6" /\ Match(IP6)
       \/ h_proto \notin {"ip", "ip6"} /\ Verdict("PASS") /\ UNCHANGED seen
    /\ UNCHANGED <<frame, nh_off, h_proto, i>>

xdp_drop_benchmark_traffic == Eth \/ Vlan \/ Ip

-----------------------------------------------------------------------------
\* A whole UDP header to the benchmark's networks and port, under at most two
\* VLAN tags.
Benchmark(f) ==
    /\ Len(f.tags) <= 2 /\ f.proto \in {"ip", "ip6"}
    /\ f.len >= ETH + VLAN * Len(f.tags) + (IF f.proto = "ip" THEN IP ELSE IP6) + UDP
    /\ f.udp /\ f.net /\ f.port

\* No byte behind the end of the frame is read.  Exactly the benchmark's
\* traffic is dropped, as long as its IP headers have no options; with options
\* at least nothing but UDP to its network.
DropsBenchmark ==
    /\ seen <= frame.len
    /\ verdict # "none" /\ ~frame.options => (verdict = "DROP") = Benchmark(frame)
    /\ verdict = "DROP" => frame.udp /\ frame.net
=============================================================================
