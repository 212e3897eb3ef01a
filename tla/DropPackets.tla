---------------------------- MODULE DropPackets ----------------------------
(***************************************************************************)
(* 2018-07-dropping-packets and 2015-12-nm-single-rx-queue: one of the     *)
(* receiving programs behind a socket, the XDP program that meets the      *)
(* frame before any socket, or the netmap receiver that takes it from the  *)
(* network card.                                                           *)
(***************************************************************************)
EXTENDS RecvLoops, XdpDrop, NmReceiver

VARIABLE part    \* "loop", "xdp" or "netmap"

vars == <<part, loopVars, xdpVars, nmVars>>

AnyLoop == {CHOOSE l \in Loops : TRUE}
AnyFrame == {CHOOSE f \in Frames : TRUE}

Init ==
    /\ InitNm
    /\ \/ part = "loop" /\ InitLoops(Loops) /\ InitXdp(AnyFrame)
       \/ part = "xdp" /\ InitLoops(AnyLoop) /\ InitXdp(Frames)
       \/ part = "netmap" /\ InitLoops(AnyLoop) /\ InitXdp(AnyFrame)

Next ==
    /\ UNCHANGED part
    /\ \/ part = "loop" /\ LoopsNext /\ UNCHANGED <<xdpVars, nmVars>>
       \/ part = "xdp" /\ xdp_drop_benchmark_traffic /\ UNCHANGED <<loopVars, nmVars>>
       \/ part = "netmap" /\ NmNext /\ UNCHANGED <<loopVars, xdpVars>>

\* The programs are given the processor; packets and signals need not come.
Fairness == WF_vars(part = "loop" /\ Program /\ UNCHANGED <<part, xdpVars, nmVars>>)
Spec == Init /\ [][Next]_vars /\ Fairness

\* Accounted, of the loops, and ForwardsExactly, of the netmap receiver: what
\* comes is counted once, however signals and the network card interfere.
NothingUncounted == (part = "loop" => Accounted) /\ (part = "netmap" => ForwardsExactly)

\* KeepsReceiving, of a part that receives.
LoopKeepsReceiving == part = "loop" => KeepsReceiving
=============================================================================
