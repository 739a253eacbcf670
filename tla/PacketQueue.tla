----------------------------- MODULE PacketQueue -----------------------------
(***************************************************************************)
(* What a descriptor ring of the network card promises, stated without     *)
(* descriptors, head or tail registers: a FIFO of at most Cap packets      *)
(* between a producer and a consumer.  Packets are numbered in the order   *)
(* they are offered.  A lossy queue drops a packet offered while it is     *)
(* full (the receive ring, which the wire fills at its own pace); a        *)
(* lossless one is never offered a packet it has no room for (the         *)
(* transmit ring, whose producer blocks instead).                          *)
(*                                                                         *)
(* Module Net is checked against two instances: the receive ring           *)
(* (Net!RxRefined) and the transmit ring (Net!TxRefined).                  *)
(***************************************************************************)
EXTENDS Naturals, Sequences

CONSTANTS
    Cap,        \* packets the ring can hold
    Lossy       \* whether a packet offered to a full ring is dropped

VARIABLES
    queue,      \* packets offered and not yet taken, oldest first
    count,      \* packets offered so far
    out         \* packets taken, in the order they were taken

qvars == <<queue, count, out>>

Init == queue = <<>> /\ count = 0 /\ out = <<>>

\* The next packet enters the ring.
Put ==
    /\ Len(queue) < Cap
    /\ queue' = Append(queue, count + 1)
    /\ count' = count + 1
    /\ UNCHANGED out

\* The next packet is offered to a full ring and lost.
Drop ==
    /\ Lossy
    /\ Len(queue) = Cap
    /\ count' = count + 1
    /\ UNCHANGED <<queue, out>>

\* The oldest packets leave the ring, one or several at once (a consumer
\* may take a batch in one atomic step).
Get ==
    /\ \E k \in 1..Len(queue) :
        /\ out' = out \o SubSeq(queue, 1, k)
        /\ queue' = SubSeq(queue, k + 1, Len(queue))
    /\ UNCHANGED count

Next == Put \/ Drop \/ Get

Spec == Init /\ [][Next]_qvars
=============================================================================
