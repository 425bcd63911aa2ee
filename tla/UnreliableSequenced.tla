------------------------ MODULE UnreliableSequenced ------------------------
(***************************************************************************)
(* Unreliable sequenced delivery over one direction of one channel of a    *)
(* link (RUDPLink).  The sending RUDPLink cuts a message into fragments    *)
(* and sends each of them once.  The receiving RUDPLink drops what is      *)
(* older than its counter, moves the counter past a complete message, and  *)
(* queues it for the game thread.  The network loses, duplicates and       *)
(* reorders.                                                               *)
(*                                                                         *)
(* The counter and the fragments belong to the receive thread alone; only  *)
(* the queue is shared with the game thread, which pushes and pops under   *)
(* m_RecvQueuesMutex.  So one packet is one step of the receive thread,    *)
(* and one poll one step of the game thread.                               *)
(*                                                                         *)
(* The receiver's counter has no initial value: the constructor of         *)
(* RUDPLink fills m_RecvSeq_reliable twice and m_RecvSeq_unreliable never. *)
(***************************************************************************)
EXTENDS Fragmentation

CONSTANT FirstRecvSeqs  \* values the receiver's counter may start with

ASSUME FirstRecvSeqsAssumption == FirstRecvSeqs \subseteq SeqNum

VARIABLES               \* besides sendSeq (m_SendSeq_unreliable) and sent
    net,                \* packets in flight or in the socket's buffer
    fragments,          \* m_Ureliable_fragments
    recvSeq,            \* m_RecvSeq_unreliable
    recvQueue,          \* m_RecvQueue_unreliable_sequenced
    \* History.
    firstRecvSeq,       \* what recvSeq was at first
    arrived,            \* packets the receive thread took
    delivered           \* messages the game thread was handed

senderVars == <<sendSeq, sent>>
recvThreadVars == <<fragments, recvSeq, arrived>>
vars == <<senderVars, net, recvThreadVars, recvQueue, firstRecvSeq, delivered>>

-----------------------------------------------------------------------------
Init ==
    /\ sendSeq = FirstSeq
    /\ sent = <<>>
    /\ net = {}
    /\ fragments = {}
    /\ firstRecvSeq \in FirstRecvSeqs
    /\ recvSeq = firstRecvSeq
    /\ recvQueue = <<>>
    /\ arrived = {}
    /\ delivered = <<>>

-----------------------------------------------------------------------------
\* Sender, game thread.

\* Mutant: the counter is wider than 32 bits.
AddToSendQueue_NoWrap(n) ==
    /\ SentPackets + n <= MaxPackets
    /\ LET packs == serializeNormalPacket(Len(sent) + 1, n, sendSeq)
       IN InTransit(net, {packs[k] : k \in 1 .. n}, net')
    /\ sendSeq' = sendSeq + n
    /\ sent' = Append(sent, [start |-> SentPackets, n |-> n])
    /\ UNCHANGED <<recvThreadVars, recvQueue, firstRecvSeq, delivered>>

\* Number the n fragments of a message and send each of them once.
AddToSendQueue(n) ==
    /\ SentPackets + n <= MaxPackets
    /\ LET packs == serializeNormalPacket(Len(sent) + 1, n, sendSeq)
       IN InTransit(net, {packs[k] : k \in 1 .. n}, net')
    /\ sendSeq' = Add(sendSeq, n)
    /\ sent' = Append(sent, [start |-> SentPackets, n |-> n])
    /\ UNCHANGED <<recvThreadVars, recvQueue, firstRecvSeq, delivered>>

-----------------------------------------------------------------------------
\* Receiver, receive thread.

\* A packet arrives, for the last time or not.
RecvData(p) ==
    /\ p \in net
    /\ net' \in {net, net \ {p}}
    /\ arrived' = arrived \cup {p}
    /\ UNCHANGED <<senderVars, firstRecvSeq, delivered>>

\* Out of sequence (older): dropped.
ReceiveOlder(p) ==
    /\ RecvData(p)
    /\ ~isSequenceNewer(p.seq, recvSeq)
    /\ UNCHANGED <<fragments, recvSeq, recvQueue>>

\* A message that was not cut is the newest now.
ReceiveUnfragmented(p) ==
    /\ RecvData(p)
    /\ isSequenceNewer(p.seq, recvSeq)
    /\ p.first /\ p.last
    /\ recvSeq' = Add(p.seq, 1)
    /\ recvQueue' = Append(recvQueue, createNormalPacket(p))
    /\ UNCHANGED fragments

\* Mutant: the counter moves with every fragment.
BufferFragment_Counts(p) ==
    /\ RecvData(p)
    /\ isSequenceNewer(p.seq, recvSeq)
    /\ ~(p.first /\ p.last)
    /\ LET frags == fragments \cup {p}
       IN \/ p \in fragments /\ UNCHANGED fragments
          \/ /\ ~\E f \in fragments : f.seq = p.seq
             /\ ~\E back, ahead \in SeqNum :
                   FirstFragmentBack(frags, p.seq, back) /\ LastFragmentAhead(frags, p.seq, ahead)
             /\ fragments' = frags
    /\ recvSeq' = Add(p.seq, 1)
    /\ UNCHANGED recvQueue

\* A fragment is buffered (if it is not yet), and more of its message is missing.
BufferFragment(p) ==
    /\ RecvData(p)
    /\ isSequenceNewer(p.seq, recvSeq)
    /\ ~(p.first /\ p.last)
    /\ LET buffered == \E f \in fragments : f.seq = p.seq
           frags == fragments \cup {p}
       IN \/ buffered /\ UNCHANGED fragments
          \/ /\ ~buffered
             /\ ~\E back, ahead \in SeqNum :
                   FirstFragmentBack(frags, p.seq, back) /\ LastFragmentAhead(frags, p.seq, ahead)
             /\ fragments' = frags
    /\ UNCHANGED <<recvSeq, recvQueue>>

\* Mutant: the counter stays before the message, as a retransmission could
\* still complete an earlier one.
ReassembleFragments_CounterStays(p) ==
    /\ RecvData(p)
    /\ isSequenceNewer(p.seq, recvSeq)
    /\ ~(p.first /\ p.last)
    /\ ~\E f \in fragments : f.seq = p.seq
    /\ LET frags == fragments \cup {p}
       IN \E back, ahead \in SeqNum :
             /\ FirstFragmentBack(frags, p.seq, back)
             /\ LastFragmentAhead(frags, p.seq, ahead)
             /\ LET seqBegin == Sub(p.seq, back)
                    n == back + ahead + 1
                IN /\ recvQueue' = Append(recvQueue, defragmentPacket(frags, seqBegin, n))
                   /\ fragments' = {f \in frags : Sub(f.seq, seqBegin) >= n}
    /\ UNCHANGED recvSeq

\* A fragment completes its message, which is the newest now.  Its fragments
\* leave the buffer, and so do all that are older than it.
ReassembleFragments(p) ==
    /\ RecvData(p)
    /\ isSequenceNewer(p.seq, recvSeq)
    /\ ~(p.first /\ p.last)
    /\ ~\E f \in fragments : f.seq = p.seq
    /\ LET frags == fragments \cup {p}
       IN \E back, ahead \in SeqNum :
             /\ FirstFragmentBack(frags, p.seq, back)
             /\ LastFragmentAhead(frags, p.seq, ahead)
             /\ LET seqBegin == Sub(p.seq, back)
                    n == back + ahead + 1
                IN /\ recvQueue' = Append(recvQueue, defragmentPacket(frags, seqBegin, n))
                   /\ recvSeq' = Add(p.seq, ahead + 1)
                   /\ fragments' = {f \in frags : /\ Sub(f.seq, seqBegin) >= n
                                                  /\ isSequenceNewer(f.seq, recvSeq')}

-----------------------------------------------------------------------------
\* Receiver, game thread (ZNode::update).

\* Hand the oldest message in the queue to the game.
Poll ==
    /\ recvQueue # <<>>
    /\ delivered' = Append(delivered, [head |-> Head(recvQueue).head, body |-> Head(recvQueue).body])
    /\ recvQueue' = Tail(recvQueue)
    /\ UNCHANGED <<senderVars, net, recvThreadVars, firstRecvSeq>>

-----------------------------------------------------------------------------
Next ==
    \/ \E n \in FragCounts : AddToSendQueue(n)
    \/ \E p \in net : ReceiveOlder(p)
    \/ \E p \in net : ReceiveUnfragmented(p)
    \/ \E p \in net : BufferFragment(p)
    \/ \E p \in net : ReassembleFragments(p)
    \/ Poll

Spec == Init /\ [][Next]_vars

-----------------------------------------------------------------------------
\* Properties.

\* Every variable has its type: the sequence counters stay 32-bit numbers,
\* packets and queue entries have the fields the code reads.
TypeOK ==
    /\ sendSeq \in SeqNum
    /\ sent \in Seq([start : Nat, n : Nat])
    /\ net \in SUBSET Packet
    /\ fragments \in SUBSET Packet
    /\ recvSeq \in SeqNum
    /\ recvQueue \in Seq(Entry)
    /\ firstRecvSeq \in SeqNum
    /\ arrived \in SUBSET Packet
    /\ delivered \in Seq([head : Nat, body : Seq(Nat \X Nat)])

\* The message an entry carries, and the newest that was handed over.
MessageOf(body) == body[1][1]
Newest == IF delivered = <<>> THEN 0 ELSE MessageOf(delivered[Len(delivered)].body)

\* What the receiver's game thread sees of the link.
Handed == [i \in 1 .. Len(delivered) |-> delivered[i].body]

Channel == INSTANCE SequencedChannel WITH
    Message <- Messages, accepted <- Accepted, handed <- Handed, newest <- Newest

\* Seen from the two game threads, the link is a sequenced channel: messages
\* are whole, none is handed over twice or after a newer one, whatever the
\* network does and whatever the receiver's counter started with.
ImplementsSequencedChannel == Channel!Spec

\* Message m is queued for the game thread, or was handed to it.
Kept(m) ==
    \/ \E i \in 1 .. Len(recvQueue) : recvQueue[i].body = Body(m)
    \/ \E i \in 1 .. Len(delivered) : delivered[i].body = Body(m)

\* Message m got through whole: each of its fragments arrived, and the first
\* value of the counter hides none of them.
GotThrough(m) ==
    \A k \in 1 .. sent[m].n :
        \E p \in arrived : p.msg = m /\ p.part = k /\ isSequenceNewer(p.seq, firstRecvSeq)

\* A message that got through is kept unless a newer one is: in particular the
\* newest of all is handed over, in whichever order the fragments of it and of
\* others arrived ("older packets are dropped" is the only reason to drop).
NewestIsKept ==
    \A m \in 1 .. Len(sent) :
        GotThrough(m) => \E newer \in m .. Len(sent) : Kept(newer)
=============================================================================
