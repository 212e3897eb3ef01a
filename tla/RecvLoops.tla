----------------------------- MODULE RecvLoops -----------------------------
(***************************************************************************)
(* 2018-07-dropping-packets: the programs that receive datagrams as fast   *)
(* as they can and count them, while SIGALRM prints the counters and       *)
(* starts them again.                                                      *)
(*   recv      one read() each            trunc     recvmmsg(MSG_TRUNC)    *)
(*   recvmmsg  MAX_MSG at once            busypoll  the same, busy polling *)
(*   bpf, ebpf read(), behind a filter that drops everything               *)
(*                                                                         *)
(* The handler may run between any two instructions.  As the Makefile      *)
(* builds them (-O2), packets and bytes are changed by one instruction     *)
(* each, but the loops over MAX_MSG messages keep bytes in a register      *)
(* from the first addition to the last.                                    *)
(***************************************************************************)
EXTENDS Naturals, Sequences

CONSTANTS
    Loops,       \* the programs to run
    Lengths,     \* of datagrams
    MTU_SIZE, MAX_MSG,
    QueueLen,    \* datagrams the socket's receive buffer holds
    MaxPackets,  \* bound on the datagrams sent
    MaxTicks     \* bound on the signals

ASSUME LoopsAssumption ==
    /\ Loops \subseteq {"recv", "recvmmsg", "trunc", "busypoll", "bpf", "ebpf"}
    /\ Lengths \subseteq Nat /\ MTU_SIZE \in Nat \ {0} /\ MAX_MSG \in Nat \ {0} /\ QueueLen \in Nat \ {0}

VARIABLES
    loop, pc,          \* "start", "setup", "recv", "sum", "packets", "bytes", "exit" or "abort"
    queue, arrived,    \* lengths of the datagrams waiting; how many came
    filter,            \* the socket drops what comes
    r, msg_len, reg,   \* result of the call, lengths of the messages, bytes in a register
    packets, bytes,
    got, reported,     \* history: what the calls returned, what was printed
    again,             \* history: bytes printed by signals in the loop over the messages
    ticks

socket == <<queue, filter>>
counters == <<packets, bytes>>
loopVars == <<loop, pc, socket, arrived, r, msg_len, reg, counters, got, reported, again, ticks>>

Nothing == [packets |-> 0, bytes |-> 0]
Zeros == [k \in 1 .. MAX_MSG |-> 0]

\* Sums of the first lengths.
SumsOf(lens) ==
    LET sum[n \in 0 .. Len(lens)] == IF n = 0 THEN 0 ELSE sum[n - 1] + lens[n] IN sum
SumOf(lens) == SumsOf(lens)[Len(lens)]

InitLoops(loops) ==
    /\ loop \in loops /\ pc = "start"
    /\ queue = <<>> /\ arrived = 0 /\ filter = FALSE
    /\ r = 0 /\ msg_len = Zeros /\ reg = 0
    /\ packets = 0 /\ bytes = 0 /\ got = Nothing /\ reported = Nothing
    /\ again = 0 /\ ticks = 0

Stays == UNCHANGED <<loop, arrived, reported, again, ticks>>

\* A datagram comes in: dropped by the filter or for want of room.
Arrive ==
    /\ pc \notin {"start", "exit", "abort"} /\ arrived < MaxPackets
    /\ arrived' = arrived + 1
    /\ \E len \in Lengths :
        queue' = IF filter \/ Len(queue) = QueueLen THEN queue ELSE Append(queue, len)
    /\ UNCHANGED <<loop, pc, filter, r, msg_len, reg, counters, got, reported, again, ticks>>

\* socket, setsockopt and bind, or PFATAL.
Start(next) ==
    /\ pc = "start" /\ pc' \in {next, "abort"}
    /\ UNCHANGED <<socket, r, msg_len, reg, counters, got>> /\ Stays

\* What a program asks of the bound socket: from here on everything that comes
\* is dropped, or nothing changes (SO_BUSY_POLL).
Setup(drops) ==
    /\ pc = "setup"
    /\ \/ pc' = "recv" /\ filter' = drops
       \/ pc' = "abort" /\ UNCHANGED filter
    /\ UNCHANGED <<queue, r, msg_len, reg, counters, got>> /\ Stays

Least(a, b) == IF a < b THEN a ELSE b

\* Mutant: nothing received ends every program.
ZeroEnds(atZero) == "exit"

\* What an empty datagram, r == 0, leads to.
AfterZero(atZero) == atZero

\* read() takes one datagram, what is longer than the buffer is lost.
Read(atZero) ==
    /\ pc = "recv" /\ queue # <<>>
    /\ r' = Least(Head(queue), MTU_SIZE) /\ queue' = Tail(queue)
    /\ pc' = IF r' = 0 THEN AfterZero(atZero) ELSE "packets"
    /\ got' = IF pc' = "exit" THEN got
              ELSE [packets |-> got.packets + 1, bytes |-> got.bytes + r']
    /\ UNCHANGED <<filter, msg_len, reg, counters>> /\ Stays

\* packets += 1; bytes += r;
ReadPackets ==
    /\ pc = "packets" /\ packets' = packets + 1
    /\ pc' = IF r = 0 THEN "recv" ELSE "bytes"
    /\ UNCHANGED <<socket, r, msg_len, reg, bytes, got>> /\ Stays
ReadBytes ==
    /\ pc = "bytes" /\ bytes' = bytes + r /\ pc' = "recv"
    /\ UNCHANGED <<socket, r, msg_len, reg, packets, got>> /\ Stays

\* msg_len of a message: what was copied or, with MSG_TRUNC, the whole length.
MsgLen(len, flags) == IF flags = "MSG_TRUNC" THEN len ELSE Least(len, MTU_SIZE)

\* recvmmsg() takes what is waiting, up to MAX_MSG; the loop starts and loads
\* bytes.
Recvmmsg(flags) ==
    /\ pc = "recv" /\ queue # <<>>
    /\ r' = Least(Len(queue), MAX_MSG)
    /\ msg_len' = [k \in 1 .. MAX_MSG |-> IF k <= r' THEN MsgLen(queue[k], flags) ELSE msg_len[k]]
    /\ queue' = SubSeq(queue, r' + 1, Len(queue))
    /\ reg' = bytes
    /\ got' = [packets |-> got.packets + r',
               bytes |-> got.bytes + SumOf([k \in 1 .. r' |-> MsgLen(queue[k], flags)])]
    /\ pc' = "sum"
    /\ UNCHANGED <<filter, counters>> /\ Stays

\* Mutant: the lengths of the last call stay.
SumNoReset ==
    /\ pc = "sum"
    /\ bytes' = reg + SumOf(msg_len) /\ pc' = "packets"
    /\ UNCHANGED <<socket, r, reg, msg_len, packets, got>> /\ Stays

\* The end of the loop over all MAX_MSG messages: bytes is stored.
Sum ==
    /\ pc = "sum"
    /\ bytes' = reg + SumOf(msg_len) /\ msg_len' = Zeros
    /\ pc' = "packets"
    /\ UNCHANGED <<socket, r, reg, packets, got>> /\ Stays
AddPackets ==
    /\ pc = "packets" /\ packets' = packets + r /\ pc' = "recv"
    /\ UNCHANGED <<socket, r, msg_len, reg, bytes, got>> /\ Stays

\* SIGALRM, at any point.  A read or recvmmsg that waits returns EINTR and is
\* called again.  What it prints in the loop over the messages is in the
\* register as well, unless another signal has printed it there.
timer_handler ==
    /\ pc \notin {"exit", "abort"} /\ ticks < MaxTicks /\ ticks' = ticks + 1
    /\ reported' = [packets |-> reported.packets + packets, bytes |-> reported.bytes + bytes]
    /\ again' = IF pc = "sum" THEN again + bytes ELSE again
    /\ packets' = 0 /\ bytes' = 0
    /\ UNCHANGED <<loop, pc, socket, arrived, r, msg_len, reg, got>>

Reading(atZero) == Read(atZero) \/ ReadPackets \/ ReadBytes
Summing(flags) == Recvmmsg(flags) \/ Sum \/ AddPackets

recv_loop     == loop = "recv" /\ (Start("recv") \/ Reading("exit"))
recvmmsg_loop == loop = "recvmmsg" /\ (Start("recv") \/ Summing("none"))
trunc_loop    == loop = "trunc" /\ (Start("recv") \/ Summing("MSG_TRUNC"))
busypoll_loop == loop = "busypoll" /\ (Start("setup") \/ Setup(FALSE) \/ Summing("none"))
bpf_drop      == loop = "bpf" /\ (Start("setup") \/ Setup(TRUE) \/ Reading("packets"))
ebpf_drop     == loop = "ebpf" /\ (Start("setup") \/ Setup(TRUE) \/ Reading("packets"))

Program == recv_loop \/ recvmmsg_loop \/ trunc_loop \/ busypoll_loop \/ bpf_drop \/ ebpf_drop
LoopsNext == Program \/ Arrive \/ timer_handler

-----------------------------------------------------------------------------
Reads == loop \in {"recv", "bpf", "ebpf"}

LoopsTypeOK ==
    /\ pc \in {"start", "setup", "recv", "sum", "packets", "bytes", "exit", "abort"}
    /\ queue \in Seq(Lengths) /\ Len(queue) <= QueueLen /\ filter \in BOOLEAN
    /\ r \in Nat /\ reg \in Nat /\ packets \in Nat /\ bytes \in Nat
    /\ again \in Nat /\ msg_len \in [1 .. MAX_MSG -> Nat]

\* Of the last call, not yet counted.
PacketsDue == IF pc \in {"sum", "packets"} THEN IF Reads THEN 1 ELSE r ELSE 0
BytesDue == IF Reads THEN IF pc \in {"packets", "bytes"} THEN r ELSE 0 ELSE SumOf(msg_len)

\* What bytes is, or will be once the loop over the messages has stored it.
Kept == IF pc = "sum" THEN reg ELSE bytes

\* Whenever the signal comes, each packet is printed once, or about to be, and
\* no byte is lost or printed again, except by a program that sums messages:
\* exactly the bytes that a signal printed while the register held them.
Accounted ==
    /\ LoopsTypeOK
    /\ reported.packets + packets + PacketsDue = got.packets
    /\ reported.bytes + Kept + BytesDue = got.bytes + again
    /\ Reads => again = 0

\* A program that got its socket always comes back to an empty queue; only an
\* empty datagram ends recv-loop, and nothing ends the others.
KeepsReceiving ==
    \/ []<>(pc = "recv" /\ queue = <<>>)
    \/ <>(pc = "abort")
    \/ <>(pc = "exit" /\ loop = "recv" /\ r = 0)
=============================================================================
