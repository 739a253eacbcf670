--------------------------------- MODULE Net ---------------------------------
(***************************************************************************)
(* Packet send and receive (src/kernel/net/net.c) over the e1000 driver's  *)
(* descriptor rings (src/drivers/e1000.c), with the network card as a      *)
(* second actor that runs concurrently with the kernel.                    *)
(*                                                                         *)
(* Transmit ring: the driver owns E1000_TDT, the card owns TDH.  The       *)
(* driver fills tx_desc_array[TDT] when its DD bit is set, clears DD and   *)
(* advances TDT; the card sends the descriptors from TDH up to TDT,        *)
(* setting DD on each (CMD.RS) and advancing TDH.  TDH = TDT means an      *)
(* empty ring to the card.                                                 *)
(*                                                                         *)
(* Receive ring: the card stores an arriving packet at RDH and sets DD     *)
(* while RDH # RDT, and drops it when RDH = RDT; the driver takes the      *)
(* descriptor after RDT when its DD is set, clears DD and moves RDT onto   *)
(* it.                                                                     *)
(*                                                                         *)
(* Calls run under the big kernel lock, so each handler is one step.  A    *)
(* task that finds no room (send) or no packet (recv) blocks on            *)
(* send_block_queue or recv_block_queue; the do_scheduler of some hart     *)
(* wakes the whole queue (CheckNet), and the rest of the loop runs when    *)
(* the woken task is picked again (NetSend, RecvResume).  Picking and     *)
(* switching tasks is module Kernel; here a woken task simply resumes.     *)
(* Packets are numbered in the order the driver accepts them (transmit)   *)
(* or the card sees them on the wire (receive); lengths and payloads are   *)
(* left out.                                                               *)
(***************************************************************************)
EXTENDS Naturals, Sequences, SequencesExt, FiniteSets

CONSTANTS
    TxDescs,    \* TXDESCS: descriptors of the transmit ring
    RxDescs,    \* RXDESCS: descriptors of the receive ring
    Task,       \* the tasks calling sys_net_send / sys_net_recv
    PktNums,    \* pkt_num arguments of sys_net_recv
    MaxSend,    \* bound on the packets handed to sys_net_send
    MaxArrive   \* bound on the packets arriving from the wire

ASSUME /\ TxDescs \in Nat \ {0} /\ RxDescs \in Nat \ {0, 1}
       /\ PktNums \subseteq Nat \ {0}
       /\ MaxSend \in Nat /\ MaxArrive \in Nat

TxIdx == 0..(TxDescs - 1)               \* tx_desc_array[], tx_pkt_buffer[]
RxIdx == 0..(RxDescs - 1)               \* rx_desc_array[], rx_pkt_buffer[]

\* Where a task is: in user mode, blocked on a net queue, or woken by
\* check_net_* and due to retry.
States == {"user", "sendWait", "sendReady", "recvWait", "recvReady"}

VARIABLES
    tdt, tdh,   \* E1000_TDT (driver), TDH (card)
    txDD,       \* tx_desc_array[i].status & E1000_TXD_STAT_DD
    txPkt,      \* the packet copied into tx_pkt_buffer[i]
    rdt, rdh,   \* E1000_RDT (driver), RDH (card)
    rxDD,       \* rx_desc_array[i].status & E1000_RXD_STAT_DD
    rxPkt,      \* the packet the card stored in rx_pkt_buffer[i]
    st,         \* where each task is
    recvLeft,   \* packets a task blocked in do_net_recv still waits for
    sent,       \* packets e1000_transmit accepted (numbered 1..sent)
    wire,       \* packets the card put on the wire, in order
    arrived,    \* packets that reached the card (numbered 1..arrived)
    received    \* packets do_net_recv handed to tasks, in order

vars == <<tdt, tdh, txDD, txPkt, rdt, rdh, rxDD, rxPkt, st, recvLeft, sent,
          wire, arrived, received>>

-----------------------------------------------------------------------------
(* Driver (e1000.c).                                                       *)

\* e1000_init: e1000_reset zeroes the four ring registers; configure_tx
\* sets CMD.RS and DD on every tx descriptor; configure_rx sets RDT to
\* RXDESCS - 1, and the rx descriptors start with DD clear (static data).
Init ==
    /\ tdt = 0 /\ tdh = 0
    /\ txDD = [i \in TxIdx |-> TRUE]
    /\ txPkt = [i \in TxIdx |-> 0]
    /\ rdt = RxDescs - 1 /\ rdh = 0
    /\ rxDD = [i \in RxIdx |-> FALSE]
    /\ rxPkt = [i \in RxIdx |-> 0]
    /\ st = [t \in Task |-> "user"]
    /\ recvLeft = [t \in Task |-> 0]
    /\ sent = 0 /\ wire = <<>> /\ arrived = 0 /\ received = <<>>

\* is_tx_desc_stat_dd, and the test e1000_transmit starts with: the
\* descriptor at TDT is free.
TxDescReady == txDD[tdt]

\* Mutant: is_rx_desc_stat_dd testing the descriptor at RDT itself.
RxDescReadyAtTail == rxDD[rdt]

\* is_rx_desc_stat_dd: the descriptor after RDT holds a packet.
RxDescReady == rxDD[(rdt + 1) % RxDescs]

\* The accepting half of e1000_transmit: clear DD, copy the packet into
\* the buffer of descriptor TDT and advance TDT.
Transmit ==
    /\ txDD' = [txDD EXCEPT ![tdt] = FALSE]
    /\ txPkt' = [txPkt EXCEPT ![tdt] = sent + 1]
    /\ sent' = sent + 1
    /\ tdt' = (tdt + 1) % TxDescs

\* Mutant: e1000_poll that does not clear DD of the descriptor it took.
PollKeepDD(R) ==
    LET tail == (R.rdt + 1) % RxDescs
    IN  [R EXCEPT !.rdt = tail, !.got = Append(@, rxPkt[tail]),
                  !.left = @ - 1]

\* e1000_poll, called when the descriptor after RDT has DD set: copy the
\* packet out, clear DD and move RDT onto the descriptor.  R holds the
\* driver's side of the ring and what do_net_recv has collected.
Poll(R) ==
    LET tail == (R.rdt + 1) % RxDescs
    IN  [R EXCEPT !.rdt = tail, !.dd[tail] = FALSE,
                  !.got = Append(@, rxPkt[tail]), !.left = @ - 1]

\* Mutant: the loop of do_net_recv running pkt_num + 1 times (i <= pkt_num).
RECURSIVE PollLoopOneMore(_)
PollLoopOneMore(R) ==
    IF R.left = -1 \/ ~R.dd[(R.rdt + 1) % RxDescs] THEN R
    ELSE PollLoopOneMore(Poll(R))

\* The loop of do_net_recv: poll until pkt_num packets were taken or a
\* poll returns 0.
RECURSIVE PollLoop(_)
PollLoop(R) ==
    IF R.left = 0 \/ ~R.dd[(R.rdt + 1) % RxDescs] THEN R
    ELSE PollLoop(Poll(R))

-----------------------------------------------------------------------------
(* System calls (net.c).                                                   *)

\* Mutant: e1000_transmit without the DD test.
TrySendNoDDCheck(t) ==
    /\ Transmit /\ st' = [st EXCEPT ![t] = "user"]
    /\ UNCHANGED <<tdh, rdt, rdh, rxDD, rxPkt, recvLeft, wire, arrived, received>>

\* One pass of do_net_send's loop for task t: e1000_transmit, and on 0
\* do_block on send_block_queue.
TrySend(t) ==
    /\ IF TxDescReady
       THEN Transmit /\ st' = [st EXCEPT ![t] = "user"]
       ELSE st' = [st EXCEPT ![t] = "sendWait"] /\ UNCHANGED <<txDD, txPkt, sent, tdt>>
    /\ UNCHANGED <<tdh, rdt, rdh, rxDD, rxPkt, recvLeft, wire, arrived, received>>

Pending == Cardinality({t \in Task : st[t] \in {"sendWait", "sendReady"}})

\* sys_net_send of one packet by a task in user mode, or the next pass of
\* the loop once do_block returns in a task woken by check_net_send.  No
\* behaviour reaches the second case: a sender blocks only when the
\* descriptor at TDT was posted and not yet sent, that is once TDT has
\* gone all the way round onto TDH, which the card takes for an empty ring
\* (run tx_full).
NetSend(t) ==
    /\ st[t] \in {"user", "sendReady"}
    /\ st[t] = "user" => sent + Pending < MaxSend
    /\ TrySend(t)

\* do_net_recv for task t still waiting for n packets: poll them in turn,
\* and block on recv_block_queue when a poll returns 0.
TryRecv(t, n) ==
    LET R == PollLoop([rdt |-> rdt, dd |-> rxDD, got |-> received, left |-> n])
    IN  /\ rdt' = R.rdt
        /\ rxDD' = R.dd
        /\ received' = R.got
        /\ recvLeft' = [recvLeft EXCEPT ![t] = R.left]
        /\ st' = [st EXCEPT ![t] = IF R.left = 0 THEN "user" ELSE "recvWait"]
        /\ UNCHANGED <<tdt, tdh, txDD, txPkt, rdh, rxPkt, sent, wire, arrived>>

\* sys_net_recv(buffer, pkt_num, lens).
NetRecv(t) ==
    /\ st[t] = "user"
    /\ \E n \in PktNums : TryRecv(t, n)

\* do_net_recv after do_block returns: the inner while polls again.
RecvResume(t) ==
    /\ st[t] = "recvReady"
    /\ TryRecv(t, recvLeft[t])

\* check_net_send and check_net_recv, run by do_scheduler: when the
\* descriptor the driver would use next is ready, every task blocked on
\* that queue is unblocked.
CheckNet ==
    /\ \/ TxDescReady /\ \E t \in Task : st[t] = "sendWait"
       \/ RxDescReady /\ \E t \in Task : st[t] = "recvWait"
    /\ st' = [t \in Task |->
                CASE st[t] = "sendWait" /\ TxDescReady -> "sendReady"
                  [] st[t] = "recvWait" /\ RxDescReady -> "recvReady"
                  [] OTHER -> st[t]]
    /\ UNCHANGED <<tdt, tdh, txDD, txPkt, rdt, rdh, rxDD, rxPkt, recvLeft,
                   sent, wire, arrived, received>>

-----------------------------------------------------------------------------
(* The card.                                                               *)

\* The card sends the descriptor at TDH, writes DD back and advances TDH.
CardTransmit ==
    /\ tdh # tdt
    /\ wire' = Append(wire, txPkt[tdh])
    /\ txDD' = [txDD EXCEPT ![tdh] = TRUE]
    /\ tdh' = (tdh + 1) % TxDescs
    /\ UNCHANGED <<tdt, txPkt, rdt, rdh, rxDD, rxPkt, st, recvLeft, sent,
                   arrived, received>>

\* A packet arrives: stored at RDH with DD set while RDH # RDT, else lost.
CardReceive ==
    /\ arrived < MaxArrive
    /\ arrived' = arrived + 1
    /\ IF rdh # rdt
       THEN /\ rxPkt' = [rxPkt EXCEPT ![rdh] = arrived + 1]
            /\ rxDD' = [rxDD EXCEPT ![rdh] = TRUE]
            /\ rdh' = (rdh + 1) % RxDescs
       ELSE UNCHANGED <<rxPkt, rxDD, rdh>>
    /\ UNCHANGED <<tdt, tdh, txDD, txPkt, rdt, st, recvLeft, sent, wire,
                   received>>

-----------------------------------------------------------------------------
Next ==
    \/ CheckNet
    \/ CardTransmit
    \/ CardReceive
    \/ \E t \in Task : NetSend(t) \/ NetRecv(t) \/ RecvResume(t)

Spec == Init /\ [][Next]_vars

(* do_scheduler runs on every timer interrupt, a READY task is eventually *)
(* picked (Kernel!ReadyEventuallyRuns), and the card works through the    *)
(* descriptors it was given.  The wire and the user calls are not fair.   *)
FairSpec ==
    /\ Spec
    /\ WF_vars(CheckNet)
    /\ WF_vars(CardTransmit)
    /\ \A t \in Task : /\ WF_vars(st[t] = "sendReady" /\ NetSend(t))
                      /\ WF_vars(RecvResume(t))
-----------------------------------------------------------------------------
(* Properties.                                                             *)

TypeOK ==
    /\ tdt \in TxIdx /\ tdh \in TxIdx /\ rdt \in RxIdx /\ rdh \in RxIdx
    /\ txDD \in [TxIdx -> BOOLEAN] /\ rxDD \in [RxIdx -> BOOLEAN]
    /\ txPkt \in [TxIdx -> 0..MaxSend] /\ rxPkt \in [RxIdx -> 0..MaxArrive]
    /\ st \in [Task -> States]
    /\ recvLeft \in [Task -> 0..Max(PktNums)]
    /\ sent \in 0..MaxSend /\ arrived \in 0..MaxArrive
    /\ wire \in Seq(1..MaxSend) /\ received \in Seq(1..MaxArrive)

(* No packet handed to e1000_transmit is lost: each one is on the wire or *)
(* still in a descriptor the card has not written back (DD clear).  The  *)
(* driver may only reuse a descriptor whose DD the card has set, and the *)
(* card may write it back only after sending it.                         *)
TxNoLoss ==
    \A k \in 1..sent :
        \/ k \in Range(wire)
        \/ \E i \in TxIdx : ~txDD[i] /\ txPkt[i] = k

(* A task blocked in do_net_recv is not left waiting while a packet sits *)
(* in the descriptor after RDT: check_net_recv must test the descriptor  *)
(* e1000_poll takes next, or the waiter sleeps on a full ring.           *)
RecvNotStranded ==
    \A t \in Task :
        (st[t] = "recvWait" /\ rxDD[(rdt + 1) % RxDescs])
            ~> (st[t] # "recvWait" \/ ~rxDD[(rdt + 1) % RxDescs])

(* The receive ring refines a lossy FIFO of RXDESCS - 1 packets: read     *)
(* from the registers, the ring holds the packets in the descriptors      *)
(* strictly between RDT and RDH, the card drops a packet only when RDH    *)
(* has caught up with RDT, and do_net_recv takes them oldest first, each  *)
(* once.                                                                  *)
RxHeld == [i \in 1..((rdh + RxDescs - rdt - 1) % RxDescs) |->
              rxPkt[(rdt + i) % RxDescs]]

RxRing == INSTANCE PacketQueue
              WITH Cap <- RxDescs - 1, Lossy <- TRUE,
                   queue <- RxHeld, count <- arrived, out <- received

RxRefined == RxRing!Spec

(* The transmit ring refines a lossless FIFO of TXDESCS packets: the card *)
(* sends, in order, every packet e1000_transmit accepted, and the ring    *)
(* holds the packets in the descriptors from TDH up to TDT.  The card     *)
(* reads TDH = TDT as an empty ring.                                      *)
TxHeld == [i \in 1..((tdt + TxDescs - tdh) % TxDescs) |->
              txPkt[(tdh + i - 1) % TxDescs]]

TxRing == INSTANCE PacketQueue
              WITH Cap <- TxDescs, Lossy <- FALSE,
                   queue <- TxHeld, count <- sent, out <- wire

TxRefined == TxRing!Spec
=============================================================================
