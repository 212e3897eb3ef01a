---------------------------- MODULE EchoPromise ----------------------------
(***************************************************************************)
(* What an echo server of 2019-02-tcp-splice promises its clients: on each *)
(* connection the bytes come back in the order they were sent, none is     *)
(* left out or repeated, and none comes from another connection.  A byte   *)
(* is its connection and its position in what the client sent there.       *)
(***************************************************************************)
EXTENDS Naturals, Sequences

CONSTANT Conns

VARIABLES
    sent,   \* bytes sent so far, per connection
    back    \* the bytes sent back, per connection

vars == <<sent, back>>

Init ==
    /\ sent = [c \in Conns |-> 0]
    /\ back = [c \in Conns |-> <<>>]

Send(c) ==
    /\ sent'[c] > sent[c]
    /\ sent' = [sent EXCEPT ![c] = sent'[c]]
    /\ UNCHANGED back

Reflect(c) ==
    /\ Len(back[c]) < Len(back'[c]) /\ Len(back'[c]) <= sent[c]
    /\ back' = [back EXCEPT ![c] =
                  [k \in 1 .. Len(back'[c]) |->
                     IF k <= Len(back[c]) THEN back[c][k] ELSE <<c, k>>]]
    /\ UNCHANGED sent

Next == \E c \in Conns : Send(c) \/ Reflect(c)

Spec == Init /\ [][Next]_vars
=============================================================================
