-------------------------- MODULE ReliableOrdered --------------------------
(***************************************************************************)
(* Reliable ordered delivery over one direction of one channel of a link   *)
(* (RUDPLink).  The sending RUDPLink fragments a message, keeps every      *)
(* fragment in a retransmit queue until it is acked, and sends it at once  *)
(* and again on every retransmit period.  The receiving RUDPLink acks      *)
(* whatever arrives, reassembles fragments, and keeps complete messages in *)
(* a map by first sequence number, from which the game thread polls the    *)
(* number it waits for.                                                    *)
(*                                                                         *)
(* Three threads take part on each side.  Here the sender's game thread    *)
(* (AddToSendQueue, SocketSend), send thread (Dispatch...) and receive     *)
(* thread (ReceiveAck) interleave with the receiver's receive thread       *)
(* (RecvData, EarlyOut, Receive...), game thread (BeginPoll, Poll,         *)
(* EndPoll) and send thread (DispatchAckQueue).  The network loses,        *)
(* duplicates and reorders.                                                *)
(*                                                                         *)
(* The eight channels of a link do not touch each other's state, so one    *)
(* stands for all.  Payloads are abstracted to the pieces <<message, part>>*)
(* that a fragment carries.                                                *)
(***************************************************************************)
EXTENDS Fragmentation

VARIABLES               \* besides sendSeq (m_SendSeq_reliable) and sent
    \* Sender.
    retransmitQueue,    \* m_RetransmitQueue_reliable: not yet acked
    toSend,             \* packs of addToSendQueue still to be sent at once
    \* Network.
    net,                \* data packets in flight or in the socket's buffer
    ackNet,             \* acked sequence numbers in flight
    \* Receiver.
    ackQueue,           \* m_AckQueue
    recvThread,         \* where recvData has got to, and with which packet
    fragments,          \* m_Reliable_fragments
    recvQueue,          \* m_RecvQueue_reliable_order
    recvSeq,            \* m_RecvSeq_reliable
    polling,            \* the game thread holds m_RecvQueuesMutex
    \* History.
    delivered           \* messages the game thread was handed

senderVars == <<sendSeq, retransmitQueue, toSend, sent>>
netVars == <<net, ackNet>>
recvThreadVars == <<recvThread, fragments>>
pollVars == <<recvSeq, polling, delivered>>
vars == <<senderVars, netVars, ackQueue, recvThreadVars, recvQueue, pollVars>>

-----------------------------------------------------------------------------
\* Packets.

Idle == [step |-> "idle"]

\* std::map::insert: an entry that is already there stays.
MapInsert(queue, entry) ==
    IF \E e \in queue : e.seq = entry.seq THEN queue ELSE queue \cup {entry}

-----------------------------------------------------------------------------
Init ==
    /\ sendSeq = FirstSeq
    /\ retransmitQueue = {}
    /\ toSend = <<>>
    /\ net = {}
    /\ ackNet = {}
    /\ ackQueue = {}
    /\ recvThread = Idle
    /\ fragments = {}
    /\ recvQueue = {}
    /\ recvSeq = FirstSeq
    /\ polling = FALSE
    /\ sent = <<>>
    /\ delivered = <<>>

-----------------------------------------------------------------------------
\* Sender, game thread.

\* Mutant: the fragments are sent once and not queued for retransmission.
AddToSendQueue_SendOnce(n) ==
    /\ toSend = <<>>
    /\ SentPackets + n <= MaxPackets
    /\ toSend' = serializeNormalPacket(Len(sent) + 1, n, sendSeq)
    /\ sendSeq' = Add(sendSeq, n)
    /\ sent' = Append(sent, [start |-> SentPackets, n |-> n])
    /\ UNCHANGED <<retransmitQueue, netVars, ackQueue, recvThreadVars, recvQueue, pollVars>>

\* Take a message of n fragments: number them and queue them for
\* retransmission, under one lock.  (That new sends are blocked when the
\* connection ends is the environment not calling this any more.)
AddToSendQueue(n) ==
    /\ toSend = <<>>
    /\ SentPackets + n <= MaxPackets
    /\ LET packs == serializeNormalPacket(Len(sent) + 1, n, sendSeq)
       IN /\ retransmitQueue' = retransmitQueue \cup {packs[k] : k \in 1 .. n}
          /\ toSend' = packs
    /\ sendSeq' = Add(sendSeq, n)
    /\ sent' = Append(sent, [start |-> SentPackets, n |-> n])
    /\ UNCHANGED <<netVars, ackQueue, recvThreadVars, recvQueue, pollVars>>

\* Send the next fragment at once, after the lock is released.  It may be
\* lost; it may also have been acked and freed by now, and what is sent then
\* is either its old bytes or nothing the receiver takes.
SocketSend ==
    /\ toSend # <<>>
    /\ InTransit(net, {Head(toSend)}, net')
    /\ toSend' = Tail(toSend)
    /\ UNCHANGED <<sendSeq, retransmitQueue, sent, ackNet,
                   ackQueue, recvThreadVars, recvQueue, pollVars>>

\* Sender, send thread: send the whole queue again; any part of it arrives.
DispatchReliableOrderedQueue ==
    /\ retransmitQueue # {}
    /\ InTransit(net, retransmitQueue, net')
    /\ UNCHANGED <<senderVars, ackNet, ackQueue, recvThreadVars, recvQueue, pollVars>>

\* Sender, receive thread: an ack removes the packet with its number.
ReceiveAck(s) ==
    /\ s \in ackNet
    /\ retransmitQueue' = {p \in retransmitQueue : p.seq # s}
    /\ ackNet' \in {ackNet, ackNet \ {s}}
    /\ UNCHANGED <<sendSeq, toSend, sent, net,
                   ackQueue, recvThreadVars, recvQueue, pollVars>>

-----------------------------------------------------------------------------
\* Receiver, receive thread.

\* Mutant: only a packet that is not processed yet is acked.
RecvData_AckNewer(p) ==
    /\ recvThread = Idle
    /\ p \in net
    /\ net' \in {net, net \ {p}}
    /\ ackQueue' = IF isSequenceNewer(p.seq, recvSeq) THEN ackQueue \cup {p.seq} ELSE ackQueue
    /\ recvThread' = [step |-> "acked", pack |-> p]
    /\ UNCHANGED <<senderVars, ackNet, fragments, recvQueue, pollVars>>

\* A packet arrives, for the last time or not, and is acked first.
RecvData(p) ==
    /\ recvThread = Idle
    /\ p \in net
    /\ net' \in {net, net \ {p}}
    /\ ackQueue' = ackQueue \cup {p.seq}
    /\ recvThread' = [step |-> "acked", pack |-> p]
    /\ UNCHANGED <<senderVars, ackNet, fragments, recvQueue, pollVars>>

\* Without a lock: drop what the game thread already processed.
EarlyOut ==
    /\ recvThread.step = "acked"
    /\ recvThread' = IF isSequenceNewer(recvThread.pack.seq, recvSeq)
                        THEN [recvThread EXCEPT !.step = "newer"]
                        ELSE Idle
    /\ UNCHANGED <<senderVars, netVars, ackQueue, fragments, recvQueue, pollVars>>

\* A message that was not cut goes to the queue, once the lock is free.
ReceiveUnfragmented ==
    /\ recvThread.step = "newer"
    /\ recvThread.pack.first /\ recvThread.pack.last
    /\ ~polling
    /\ recvQueue' = MapInsert(recvQueue, createNormalPacket(recvThread.pack))
    /\ recvThread' = Idle
    /\ UNCHANGED <<senderVars, netVars, ackQueue, fragments, pollVars>>

\* A fragment is buffered (if it is not yet), and more of its message is missing.
BufferFragment ==
    /\ recvThread.step = "newer"
    /\ ~(recvThread.pack.first /\ recvThread.pack.last)
    /\ LET p == recvThread.pack
           buffered == \E f \in fragments : f.seq = p.seq
           frags == fragments \cup {p}
       IN \/ buffered /\ UNCHANGED fragments
          \/ /\ ~buffered
             /\ ~\E back, ahead \in SeqNum :
                   FirstFragmentBack(frags, p.seq, back) /\ LastFragmentAhead(frags, p.seq, ahead)
             /\ fragments' = frags
    /\ recvThread' = Idle
    /\ UNCHANGED <<senderVars, netVars, ackQueue, recvQueue, pollVars>>

\* A fragment completes its message: the fragments leave the buffer, and the
\* message goes to the queue once the lock is free.
ReassembleFragments ==
    /\ recvThread.step = "newer"
    /\ ~(recvThread.pack.first /\ recvThread.pack.last)
    /\ ~polling
    /\ LET p == recvThread.pack
           frags == fragments \cup {p}
       IN /\ ~\E f \in fragments : f.seq = p.seq
          /\ \E back, ahead \in SeqNum :
                /\ FirstFragmentBack(frags, p.seq, back)
                /\ LastFragmentAhead(frags, p.seq, ahead)
                /\ LET seqBegin == Sub(p.seq, back)
                       n == back + ahead + 1
                   IN /\ recvQueue' = MapInsert(recvQueue, defragmentPacket(frags, seqBegin, n))
                      /\ fragments' = {f \in frags : Sub(f.seq, seqBegin) >= n}
    /\ recvThread' = Idle
    /\ UNCHANGED <<senderVars, netVars, ackQueue, pollVars>>

\* Receiver, send thread: send all queued acks and forget them; any part of
\* them arrives (lost, or past the size of one datagram).
DispatchAckQueue ==
    /\ ackQueue # {}
    /\ InTransit(ackNet, ackQueue, ackNet')
    /\ ackQueue' = {}
    /\ UNCHANGED <<senderVars, net, recvThreadVars, recvQueue, pollVars>>

-----------------------------------------------------------------------------
\* Receiver, game thread (ZNode::update).

BeginPoll ==
    /\ ~polling
    /\ polling' = TRUE
    /\ UNCHANGED <<senderVars, netVars, ackQueue, recvThreadVars, recvQueue, recvSeq, delivered>>

\* Mutant: the first entry of the map is handed over, whatever its number.
Poll_First ==
    /\ polling
    /\ \E e \in recvQueue :
          /\ \A other \in recvQueue : e.seq <= other.seq
          /\ recvQueue' = recvQueue \ {e}
          /\ recvSeq' = Add(e.seq, e.n)
          /\ delivered' = Append(delivered, [head |-> e.head, body |-> e.body])
    /\ UNCHANGED <<senderVars, netVars, ackQueue, recvThreadVars, polling>>

\* Mutant: the counter is wider than 32 bits.
Poll_NoWrap ==
    /\ polling
    /\ \E e \in recvQueue :
          /\ e.seq = recvSeq
          /\ recvQueue' = recvQueue \ {e}
          /\ recvSeq' = recvSeq + e.n
          /\ delivered' = Append(delivered, [head |-> e.head, body |-> e.body])
    /\ UNCHANGED <<senderVars, netVars, ackQueue, recvThreadVars, polling>>

\* Hand the message that is waited for to the game.
Poll ==
    /\ polling
    /\ \E e \in recvQueue :
          /\ e.seq = recvSeq
          /\ recvQueue' = recvQueue \ {e}
          /\ recvSeq' = Add(recvSeq, e.n)
          /\ delivered' = Append(delivered, [head |-> e.head, body |-> e.body])
    /\ UNCHANGED <<senderVars, netVars, ackQueue, recvThreadVars, polling>>

\* poll found nothing, so the loop ends and the lock is released.
EndPoll ==
    /\ polling
    /\ ~\E e \in recvQueue : e.seq = recvSeq
    /\ polling' = FALSE
    /\ UNCHANGED <<senderVars, netVars, ackQueue, recvThreadVars, recvQueue, recvSeq, delivered>>

-----------------------------------------------------------------------------
Sender ==
    \/ \E n \in FragCounts : AddToSendQueue(n)
    \/ SocketSend
    \/ DispatchReliableOrderedQueue
    \/ \E s \in ackNet : ReceiveAck(s)

Receiver ==
    \/ \E p \in net : RecvData(p)
    \/ EarlyOut
    \/ ReceiveUnfragmented
    \/ BufferFragment
    \/ ReassembleFragments
    \/ DispatchAckQueue
    \/ BeginPoll
    \/ Poll
    \/ EndPoll

Next == Sender \/ Receiver

Spec == Init /\ [][Next]_vars

-----------------------------------------------------------------------------
\* Fairness: every thread keeps running (each loops for ever), a lock that is
\* free again and again is obtained, and a network to which a datagram is
\* handed again and again lets it through again and again.

Numbers == {Add(FirstSeq, i) : i \in 0 .. MaxPackets - 1}

DispatchReaches(s) == DispatchReliableOrderedQueue /\ \E p \in net' : p.seq = s
RecvDataNumbered(s) == \E p \in net : p.seq = s /\ RecvData(p)
AckReaches(s) == DispatchAckQueue /\ s \in ackNet'

ReceiveThread == EarlyOut \/ ReceiveUnfragmented \/ BufferFragment \/ ReassembleFragments

Update == BeginPoll \/ Poll \/ EndPoll

Fairness ==
    /\ SF_vars(ReceiveThread)
    /\ WF_vars(Update)
    /\ \A s \in Numbers :
          /\ SF_vars(DispatchReaches(s))
          /\ SF_vars(RecvDataNumbered(s))
          /\ SF_vars(AckReaches(s))
          /\ WF_vars(ReceiveAck(s))

FairSpec == Spec /\ Fairness

-----------------------------------------------------------------------------
\* Properties.

\* Every variable has its type: the sequence counters stay 32-bit numbers,
\* packets and queue entries have the fields the code reads.
TypeOK ==
    /\ sendSeq \in SeqNum
    /\ retransmitQueue \in SUBSET Packet
    /\ toSend \in Seq(Packet)
    /\ net \in SUBSET Packet
    /\ ackNet \in SUBSET SeqNum
    /\ ackQueue \in SUBSET SeqNum
    /\ recvThread \in {Idle} \cup [step : {"acked", "newer"}, pack : Packet]
    /\ fragments \in SUBSET Packet
    /\ recvQueue \in SUBSET Entry
    /\ recvSeq \in SeqNum
    /\ polling \in BOOLEAN
    /\ sent \in Seq([start : Nat, n : Nat])
    /\ delivered \in Seq([head : Nat, body : Seq(Nat \X Nat)])

\* The game thread is handed the accepted messages whole, in the order they
\* were accepted, each once and none left out (sendReliableOrdered: "Messages
\* are guarenteed to arrive and also in the order they were sent").
OrderedDelivery ==
    /\ Len(delivered) <= Len(sent)
    /\ \A i \in 1 .. Len(delivered) : delivered[i].body = Body(i)

\* Fragment k of message m has got to the receiver and will not be lost there.
Received(m, k) ==
    \/ m <= Len(delivered)
    \/ \E e \in recvQueue : e.body = Body(m)
    \/ \E f \in fragments : f.msg = m /\ f.part = k
    \/ recvThread # Idle /\ recvThread.pack.msg = m /\ recvThread.pack.part = k

\* The sender forgets a fragment (and isPacketDelivered reports its message
\* as delivered) only when the receiver holds or processed it: an ack is sent
\* before the packet is processed, and must never be for one dropped later.
AckedIsReceived ==
    \A m \in 1 .. Len(sent) : \A k \in 1 .. sent[m].n :
        \/ \E p \in retransmitQueue : p.msg = m /\ p.part = k
        \/ Received(m, k)

\* What the receiver's game thread sees of the link.
Handed == [i \in 1 .. Len(delivered) |-> delivered[i].body]

Channel == INSTANCE OrderedChannel WITH
    Message <- Messages, accepted <- Accepted, handed <- Handed

\* Seen from the two game threads, the link is an ordered channel: every step
\* of the threads accepts a message, hands over the next one, or changes
\* nothing they see.
ImplementsOrderedChannel == Channel!Spec

\* When the application stops sending (here: at the bound, or earlier), every
\* accepted message is handed over in the end.
EventuallyDelivered == <>[](Len(delivered) = Len(sent))

\* And every fragment is acked in the end: isPacketDelivered becomes true, the
\* retransmissions stop and the sender's queue is empty.
EventuallyAcked == <>[](retransmitQueue = {})

-----------------------------------------------------------------------------
\* What comments of the code say and the code does not keep.

\* "copy id, type etc from first fragment" (defragmentPacket): a message is
\* handed over under its own message id.
HeaderOfFirstFragment == \A i \in 1 .. Len(delivered) : delivered[i].head = i
=============================================================================
