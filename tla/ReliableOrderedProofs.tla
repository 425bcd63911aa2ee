----------------------- MODULE ReliableOrderedProofs -----------------------
EXTENDS ReliableOrdered, FragmentationProofs

-----------------------------------------------------------------------------
\* The inductive invariant.

\* Every packet anywhere was sent as it is.
PacketsSent ==
    /\ \A p \in retransmitQueue : IsSent(p)
    /\ \A i \in 1 .. Len(toSend) : IsSent(toSend[i])
    /\ \A p \in net : IsSent(p)
    /\ \A p \in fragments : IsSent(p)
    /\ recvThread # Idle => IsSent(recvThread.pack)

\* What is queued for the game thread are whole messages.
QueueWhole == \A e \in recvQueue : \E m \in 1 .. Len(sent) : IsMessage(e, m)

\* Position of the message the game thread waits for.
NextPosition ==
    IF Len(delivered) = 0 THEN 0
    ELSE sent[Len(delivered)].start + sent[Len(delivered)].n

WaitsForNext == recvSeq = Add(FirstSeq, NextPosition)

IInv == TypeOK /\ Layout /\ PacketsSent /\ QueueWhole /\ OrderedDelivery /\ WaitsForNext

USE DEF SeqNum, SeqMod

-----------------------------------------------------------------------------
\* The invariant holds initially.
LEMMA InitIInv == Init => IInv
<1> SUFFICES ASSUME Init PROVE IInv
  OBVIOUS
<1>1. FirstSeq \in SeqNum /\ MaxPackets \in Nat
  BY FragmentationAssumption, HalfRangeAssumption
<1>2. TypeOK
  <2>1. /\ sendSeq \in SeqNum /\ recvSeq \in SeqNum
        /\ retransmitQueue \in SUBSET Packet /\ net \in SUBSET Packet
        /\ fragments \in SUBSET Packet /\ recvQueue \in SUBSET Entry
        /\ ackNet \in SUBSET SeqNum /\ ackQueue \in SUBSET SeqNum
    BY <1>1 DEF Init
  <2>2. polling \in BOOLEAN
    BY DEF Init
  <2>3. recvThread \in {Idle} \cup [step : {"acked", "newer"}, pack : Packet]
    BY DEF Init
  <2>4. /\ toSend \in Seq(Packet) /\ sent \in Seq([start : Nat, n : Nat])
        /\ delivered \in Seq([head : Nat, body : Seq(Nat \X Nat)])
    BY EmptySeq DEF Init
  <2> QED
    BY <2>1, <2>2, <2>3, <2>4 DEF TypeOK
<1>3. Add(FirstSeq, 0) = FirstSeq
  BY <1>1, HalfRangeAssumption DEF Add
<1>4. Layout
  BY <1>1, <1>3 DEF Init, Layout, SentPackets
<1>5. PacketsSent /\ QueueWhole
  BY DEF Init, PacketsSent, QueueWhole
<1>6. OrderedDelivery /\ WaitsForNext
  BY <1>3 DEF Init, OrderedDelivery, WaitsForNext, NextPosition
<1> QED
  BY <1>2, <1>4, <1>5, <1>6 DEF IInv

-----------------------------------------------------------------------------
\* The steps that accept no message keep what was sent.

\* A step that leaves the receive queue and what was sent alone keeps the queue whole.
LEMMA QueueUnchanged ==
    ASSUME UNCHANGED <<sendSeq, sent, recvQueue>>, Layout, QueueWhole
    PROVE  QueueWhole'
BY SentUnchanged DEF QueueWhole

\* A step that polls nothing and sends nothing keeps the delivered messages and the wait.
LEMMA DeliveredUnchanged ==
    ASSUME UNCHANGED <<sent, recvSeq, delivered>>, OrderedDelivery, WaitsForNext
    PROVE  OrderedDelivery' /\ WaitsForNext'
BY DEF OrderedDelivery, WaitsForNext, NextPosition, Body

-----------------------------------------------------------------------------
\* Each step keeps the invariant.

\* Sending a fragment at once puts a sent packet in flight, or nothing.
LEMMA SocketSendIInv == IInv /\ SocketSend => IInv'
<1> SUFFICES ASSUME IInv, SocketSend PROVE IInv'
  OBVIOUS
<1> USE DEF SocketSend, pollVars, recvThreadVars
<1>1. Layout' /\ QueueWhole' /\ OrderedDelivery' /\ WaitsForNext'
  BY SentUnchanged, QueueUnchanged, DeliveredUnchanged DEF IInv
<1>2. /\ Head(toSend) = toSend[1] /\ 1 \in 1 .. Len(toSend)
      /\ Head(toSend) \in Packet
      /\ Tail(toSend) \in Seq(Packet) /\ Len(Tail(toSend)) = Len(toSend) - 1
      /\ \A i \in 1 .. Len(Tail(toSend)) : Tail(toSend)[i] = toSend[i + 1]
  <2>1. toSend \in Seq(Packet) /\ toSend # <<>>
    BY DEF IInv, TypeOK
  <2> QED
    BY <2>1, HeadTailProperties
<1>3. net' \subseteq net \cup {Head(toSend)}
  BY InTransitPackets
<1>4. TypeOK'
  BY <1>2, <1>3 DEF IInv, TypeOK
<1>5. PacketsSent'
  <2>1. \A p : IsSent(p) => IsSent(p)'
    BY SentUnchanged DEF IInv
  <2>2. \A i \in 1 .. Len(Tail(toSend)) : i + 1 \in 1 .. Len(toSend)
    BY <1>2 DEF IInv, TypeOK
  <2>3. (\A i \in 1 .. Len(toSend) : IsSent(toSend[i]))'
    <3>1. \A i \in 1 .. Len(Tail(toSend)) : IsSent(Tail(toSend)[i])
      BY <1>2, <2>2 DEF IInv, PacketsSent
    <3> QED
      BY <2>1, <3>1
  <2>4. \A p \in net' : IsSent(p)'
    BY <1>2, <1>3, <2>1 DEF IInv, PacketsSent
  <2>5. (recvThread # Idle => IsSent(recvThread.pack))'
    BY <2>1 DEF IInv, PacketsSent, Idle
  <2> QED
    BY <2>1, <2>3, <2>4, <2>5 DEF IInv, PacketsSent
<1> QED
  BY <1>1, <1>4, <1>5 DEF IInv

\* Sending the retransmit queue again puts sent packets in flight.
LEMMA DispatchReliableOrderedQueueIInv == IInv /\ DispatchReliableOrderedQueue => IInv'
<1> SUFFICES ASSUME IInv, DispatchReliableOrderedQueue PROVE IInv'
  OBVIOUS
<1> USE DEF DispatchReliableOrderedQueue, senderVars, pollVars, recvThreadVars
<1>1. Layout' /\ QueueWhole' /\ OrderedDelivery' /\ WaitsForNext'
  BY SentUnchanged, QueueUnchanged, DeliveredUnchanged DEF IInv
<1>2. net' \subseteq net \cup retransmitQueue
  BY InTransitPackets
<1>3. TypeOK'
  BY <1>2 DEF IInv, TypeOK
<1>4. PacketsSent'
  <2>1. \A p : IsSent(p) => IsSent(p)'
    BY SentUnchanged DEF IInv
  <2>2. \A p \in net' : IsSent(p)'
    BY <1>2, <2>1 DEF IInv, PacketsSent
  <2>3. (recvThread # Idle => IsSent(recvThread.pack))'
    BY <2>1 DEF IInv, PacketsSent, Idle
  <2> QED
    BY <2>1, <2>2, <2>3 DEF IInv, PacketsSent
<1> QED
  BY <1>1, <1>3, <1>4 DEF IInv

\* An ack only removes packets from the retransmit queue.
LEMMA ReceiveAckIInv == ASSUME NEW s PROVE IInv /\ ReceiveAck(s) => IInv'
<1> SUFFICES ASSUME IInv, ReceiveAck(s) PROVE IInv'
  OBVIOUS
<1> USE DEF ReceiveAck, pollVars, recvThreadVars
<1>1. Layout' /\ QueueWhole' /\ OrderedDelivery' /\ WaitsForNext'
  BY SentUnchanged, QueueUnchanged, DeliveredUnchanged DEF IInv
<1>2. retransmitQueue' \subseteq retransmitQueue /\ ackNet' \subseteq ackNet
  OBVIOUS
<1>3. TypeOK'
  BY <1>2 DEF IInv, TypeOK
<1>4. PacketsSent'
  <2>1. \A p : IsSent(p) => IsSent(p)'
    BY SentUnchanged DEF IInv
  <2>2. (recvThread # Idle => IsSent(recvThread.pack))'
    BY <2>1 DEF IInv, PacketsSent, Idle
  <2> QED
    BY <1>2, <2>1, <2>2 DEF IInv, PacketsSent
<1> QED
  BY <1>1, <1>3, <1>4 DEF IInv

\* The packet that arrives is one that was sent.
LEMMA RecvDataIInv == ASSUME NEW p PROVE IInv /\ RecvData(p) => IInv'
<1> SUFFICES ASSUME IInv, RecvData(p) PROVE IInv'
  OBVIOUS
<1> USE DEF RecvData, senderVars, pollVars
<1>1. Layout' /\ QueueWhole' /\ OrderedDelivery' /\ WaitsForNext'
  BY SentUnchanged, QueueUnchanged, DeliveredUnchanged DEF IInv
<1>2. p \in net /\ p \in Packet /\ net' \subseteq net
  BY DEF IInv, TypeOK
<1>3. TypeOK'
  <2>1. p.seq \in SeqNum
    BY <1>2 DEF Packet
  <2>2. recvThread' \in {Idle} \cup [step : {"acked", "newer"}, pack : Packet]
    BY <1>2
  <2> QED
    BY <1>2, <2>1, <2>2 DEF IInv, TypeOK
<1>4. PacketsSent'
  <2>1. \A q : IsSent(q) => IsSent(q)'
    BY SentUnchanged DEF IInv
  <2>2. recvThread'.pack = p
    OBVIOUS
  <2> QED
    BY <1>2, <2>1, <2>2 DEF IInv, PacketsSent
<1> QED
  BY <1>1, <1>3, <1>4 DEF IInv

\* The early-out drops the packet or keeps it.
LEMMA EarlyOutIInv == IInv /\ EarlyOut => IInv'
<1> SUFFICES ASSUME IInv, EarlyOut PROVE IInv'
  OBVIOUS
<1> USE DEF EarlyOut, senderVars, netVars, pollVars
<1>1. Layout' /\ QueueWhole' /\ OrderedDelivery' /\ WaitsForNext'
  BY SentUnchanged, QueueUnchanged, DeliveredUnchanged DEF IInv
<1>2. /\ recvThread # Idle
      /\ recvThread \in [step : {"acked", "newer"}, pack : Packet]
  BY DEF IInv, TypeOK, Idle
<1>3. \/ recvThread' = Idle
      \/ /\ recvThread' \in [step : {"acked", "newer"}, pack : Packet]
         /\ recvThread'.pack = recvThread.pack
  BY <1>2
<1>4. TypeOK'
  BY <1>3 DEF IInv, TypeOK
<1>5. PacketsSent'
  <2>1. \A q : IsSent(q) => IsSent(q)'
    BY SentUnchanged DEF IInv
  <2>2. (recvThread # Idle => IsSent(recvThread.pack))'
    BY <1>2, <1>3, <2>1 DEF IInv, PacketsSent, Idle
  <2> QED
    BY <2>1, <2>2 DEF IInv, PacketsSent
<1> QED
  BY <1>1, <1>4, <1>5 DEF IInv

\* Sending acks concerns no packet.
LEMMA DispatchAckQueueIInv == IInv /\ DispatchAckQueue => IInv'
<1> SUFFICES ASSUME IInv, DispatchAckQueue PROVE IInv'
  OBVIOUS
<1> USE DEF DispatchAckQueue, senderVars, recvThreadVars, pollVars
<1>1. Layout' /\ QueueWhole' /\ OrderedDelivery' /\ WaitsForNext'
  BY SentUnchanged, QueueUnchanged, DeliveredUnchanged DEF IInv
<1>2. TypeOK'
  BY InTransitPackets DEF IInv, TypeOK
<1>3. PacketsSent'
  <2>1. \A q : IsSent(q) => IsSent(q)'
    BY SentUnchanged DEF IInv
  <2>2. (recvThread # Idle => IsSent(recvThread.pack))'
    BY <2>1 DEF IInv, PacketsSent, Idle
  <2> QED
    BY <2>1, <2>2 DEF IInv, PacketsSent
<1> QED
  BY <1>1, <1>2, <1>3 DEF IInv

\* Taking and releasing the lock of the receive queues moves nothing.
LEMMA LockIInv == IInv /\ (BeginPoll \/ EndPoll) => IInv'
<1> SUFFICES ASSUME IInv, BeginPoll \/ EndPoll PROVE IInv'
  OBVIOUS
<1>1. UNCHANGED <<senderVars, netVars, ackQueue, recvThreadVars, recvQueue, recvSeq, delivered>>
  BY DEF BeginPoll, EndPoll
<1>2. polling' \in BOOLEAN
  BY DEF BeginPoll, EndPoll
<1> USE DEF senderVars, netVars, recvThreadVars
<1>3. Layout' /\ QueueWhole' /\ OrderedDelivery' /\ WaitsForNext'
  BY <1>1, SentUnchanged, QueueUnchanged, DeliveredUnchanged DEF IInv
<1>4. TypeOK'
  BY <1>1, <1>2 DEF IInv, TypeOK
<1>5. PacketsSent'
  <2>1. \A q : IsSent(q) => IsSent(q)'
    BY <1>1, SentUnchanged DEF IInv
  <2>2. (recvThread # Idle => IsSent(recvThread.pack))'
    BY <1>1, <2>1 DEF IInv, PacketsSent, Idle
  <2> QED
    BY <1>1, <2>1, <2>2 DEF IInv, PacketsSent
<1> QED
  BY <1>3, <1>4, <1>5 DEF IInv

\* A whole message put in the queue leaves it a queue of whole messages.
LEMMA MapInsertWhole ==
    ASSUME QueueWhole, TypeOK, NEW e, e \in Entry, \E m \in 1 .. Len(sent) : IsMessage(e, m)
    PROVE  /\ MapInsert(recvQueue, e) \in SUBSET Entry
           /\ \A x \in MapInsert(recvQueue, e) : \E m \in 1 .. Len(sent) : IsMessage(x, m)
BY DEF MapInsert, QueueWhole, TypeOK

\* A message that was not cut joins the queue whole.
LEMMA ReceiveUnfragmentedIInv == IInv /\ ReceiveUnfragmented => IInv'
<1> SUFFICES ASSUME IInv, ReceiveUnfragmented PROVE IInv'
  OBVIOUS
<1> USE DEF ReceiveUnfragmented, senderVars, netVars, pollVars
<1> DEFINE p == recvThread.pack
           e == createNormalPacket(p)
<1>1. Layout' /\ OrderedDelivery' /\ WaitsForNext'
  BY SentUnchanged, DeliveredUnchanged DEF IInv
<1>2. IsSent(p) /\ p \in Packet
  BY SentIsPacket DEF IInv, PacketsSent, Idle
<1>3. PICK m \in 1 .. Len(sent) : p.msg = m /\ IsMessage(e, m)
  BY <1>2, UnfragmentedIsMessage DEF IInv
<1>4. e \in Entry
  <2>1. e = [seq |-> e.seq, n |-> e.n, head |-> e.head, body |-> e.body] /\ e.head \in Nat
    BY <1>2 DEF createNormalPacket, Packet
  <2> HIDE DEF e
  <2> QED
    BY <1>3, <2>1, MessageIsEntry DEF IInv
<1>5. /\ recvQueue' \in SUBSET Entry
      /\ \A x \in recvQueue' : \E i \in 1 .. Len(sent) : IsMessage(x, i)
  <2> HIDE DEF e
  <2>1. recvQueue' = MapInsert(recvQueue, e)
    BY DEF e
  <2> QED
    BY <1>3, <1>4, <2>1, MapInsertWhole DEF IInv
<1>6. QueueWhole'
  <2>1. \A x, i : IsMessage(x, i) => IsMessage(x, i)'
    BY SentUnchanged DEF IInv
  <2> QED
    BY <1>5, <2>1 DEF QueueWhole
<1>7. TypeOK'
  BY <1>5 DEF IInv, TypeOK
<1>8. PacketsSent'
  <2>1. \A q : IsSent(q) => IsSent(q)'
    BY SentUnchanged DEF IInv
  <2> QED
    BY <2>1 DEF IInv, PacketsSent
<1> QED
  BY <1>1, <1>6, <1>7, <1>8 DEF IInv

\* A fragment that joins the buffer is one that was sent.
LEMMA BufferFragmentIInv == IInv /\ BufferFragment => IInv'
<1> SUFFICES ASSUME IInv, BufferFragment PROVE IInv'
  OBVIOUS
<1>1. /\ UNCHANGED <<senderVars, netVars, ackQueue, recvQueue, pollVars>>
      /\ recvThread' = Idle
      /\ recvThread.step = "newer"
      /\ fragments' \subseteq fragments \cup {recvThread.pack}
  BY DEF BufferFragment
<1> USE DEF senderVars, netVars, pollVars
<1>2. Layout' /\ QueueWhole' /\ OrderedDelivery' /\ WaitsForNext'
  BY <1>1, SentUnchanged, QueueUnchanged, DeliveredUnchanged DEF IInv
<1>3. IsSent(recvThread.pack) /\ recvThread.pack \in Packet
  BY <1>1, SentIsPacket DEF IInv, PacketsSent, Idle
<1>4. TypeOK'
  BY <1>1, <1>3 DEF IInv, TypeOK
<1>5. PacketsSent'
  <2>1. \A q : IsSent(q) => IsSent(q)'
    BY <1>1, SentUnchanged DEF IInv
  <2> QED
    BY <1>1, <1>3, <2>1 DEF IInv, PacketsSent
<1> QED
  BY <1>2, <1>4, <1>5 DEF IInv

\* What reassembly puts in the queue is one whole message.
LEMMA ReassembleFragmentsIInv == IInv /\ ReassembleFragments => IInv'
<1> SUFFICES ASSUME IInv, ReassembleFragments PROVE IInv'
  OBVIOUS
<1> USE DEF senderVars, netVars, pollVars
<1> DEFINE p == recvThread.pack
           frags == fragments \cup {p}
<1>1. PICK back, ahead \in SeqNum :
        /\ FirstFragmentBack(frags, p.seq, back)
        /\ LastFragmentAhead(frags, p.seq, ahead)
        /\ recvQueue' = MapInsert(recvQueue, defragmentPacket(frags, Sub(p.seq, back), back + ahead + 1))
        /\ fragments' \subseteq frags
  BY DEF ReassembleFragments
<1>2. /\ UNCHANGED <<senderVars, netVars, ackQueue, pollVars>>
      /\ recvThread' = Idle
      /\ recvThread.step = "newer"
  BY DEF ReassembleFragments
<1> DEFINE e == defragmentPacket(frags, Sub(p.seq, back), back + ahead + 1)
<1>3. Layout' /\ OrderedDelivery' /\ WaitsForNext'
  BY <1>2, SentUnchanged, DeliveredUnchanged DEF IInv
<1>4. IsSent(p) /\ p \in Packet
  BY <1>2, SentIsPacket DEF IInv, PacketsSent, Idle
<1>5. (\A f \in frags : IsSent(f)) /\ frags \subseteq Packet /\ frags # {}
  BY <1>4 DEF IInv, PacketsSent, TypeOK
<1>6. PICK m \in 1 .. Len(sent) : \E k \in 1 .. sent[m].n : p = Fragment(m, k)
  BY <1>4 DEF IsSent
<1>7. PICK k \in 1 .. sent[m].n : p = Fragment(m, k)
  BY <1>6
<1>8. IsMessage(e, m)
  <2> HIDE DEF frags, p
  <2> QED
    BY <1>1, <1>5, <1>7, ReassembledIsMessage DEF IInv, FoundMessage
<1>9. e \in Entry
  <2>1. LowestFragment(frags) \in Packet
    BY <1>5, LowestFragmentExists
  <2>2. e = [seq |-> e.seq, n |-> e.n, head |-> e.head, body |-> e.body] /\ e.head \in Nat
    BY <2>1 DEF defragmentPacket, Packet
  <2> HIDE DEF e
  <2> QED
    BY <1>8, <2>2, MessageIsEntry DEF IInv
<1>10. /\ recvQueue' \in SUBSET Entry
       /\ \A x \in recvQueue' : \E i \in 1 .. Len(sent) : IsMessage(x, i)
  <2>1. recvQueue' = MapInsert(recvQueue, e)
    BY <1>1
  <2> HIDE DEF e
  <2> QED
    BY <1>8, <1>9, <2>1, MapInsertWhole DEF IInv
<1>11. QueueWhole'
  <2>1. \A x, i : IsMessage(x, i) => IsMessage(x, i)'
    BY <1>2, SentUnchanged DEF IInv
  <2> QED
    BY <1>2, <1>10, <2>1 DEF QueueWhole
<1>12. TypeOK'
  BY <1>1, <1>2, <1>5, <1>10 DEF IInv, TypeOK
<1>13. PacketsSent'
  <2>1. \A q : IsSent(q) => IsSent(q)'
    BY <1>2, SentUnchanged DEF IInv
  <2> QED
    BY <1>1, <1>2, <1>5, <2>1 DEF IInv, PacketsSent
<1> QED
  BY <1>3, <1>11, <1>12, <1>13 DEF IInv

\* The message that poll finds at the number it waits for is the one that
\* follows the last it handed over.
LEMMA PolledIsNext ==
    ASSUME IInv, NEW e \in recvQueue, e.seq = recvSeq
    PROVE  /\ Len(delivered) + 1 \in 1 .. Len(sent)
           /\ IsMessage(e, Len(delivered) + 1)
<1> USE DEF IInv
<1>1. PICK m \in 1 .. Len(sent) : IsMessage(e, m)
  BY DEF QueueWhole
<1> DEFINE d == Len(delivered)
<1>2. d \in Nat /\ Len(sent) \in Nat /\ d <= Len(sent)
  BY DEF TypeOK, OrderedDelivery
<1>3. \A i \in 1 .. Len(sent) : /\ sent[i].start \in Nat
                                /\ sent[i].n \in Nat \ {0}
                                /\ sent[i].start + sent[i].n \in 0 .. SeqMod - 1
                                /\ sent[i].start \in 0 .. SeqMod - 1
  <2> TAKE i \in 1 .. Len(sent)
  <2>1. sent[i] \in [start : Nat, n : Nat] /\ sent[i].n > 0
    BY ElementOfSeq DEF TypeOK, Layout
  <2>2. sent[i].start \in Nat /\ sent[i].n \in Nat \ {0} /\ 1 \in 1 .. sent[i].n
    BY <2>1
  <2>3. sent[i].start + sent[i].n <= SentPackets /\ SentPackets \in 0 .. MaxPackets
    BY <2>2, PositionBounds
  <2>4. MaxPackets <= SeqMod - 1 /\ MaxPackets \in Nat /\ SeqMod \in Nat
    BY FragmentationAssumption, HalfRangeAssumption
  <2> QED
    BY <2>2, <2>3, <2>4, SMTT(30)
<1>4. NextPosition \in 0 .. SeqMod - 1
  <2>1. CASE d = 0
    BY <2>1, HalfRangeAssumption DEF NextPosition
  <2>2. CASE d # 0
    <3>1. d \in 1 .. Len(sent)
      BY <1>2, <2>2
    <3> QED
      BY <1>3, <2>2, <3>1 DEF NextPosition
  <2> QED
    BY <2>1, <2>2
<1>5. sent[m].start = NextPosition
  <2>1. Add(FirstSeq, sent[m].start) = Add(FirstSeq, NextPosition)
    BY <1>1 DEF IsMessage, WaitsForNext
  <2> QED
    BY <1>3, <1>4, <2>1, AddInjective
<1>6. CASE d = 0
  <2>1. sent[1].start = 0 /\ 1 \in 1 .. Len(sent)
    BY DEF Layout, TypeOK
  <2>2. m = 1
    BY <1>5, <1>6, <2>1, UniqueStart DEF NextPosition
  <2> QED
    BY <1>1, <1>6, <2>2
<1>7. CASE d # 0
  <2>1. d \in 1 .. Len(sent) /\ sent[m].start = sent[d].start + sent[d].n
    BY <1>2, <1>5, <1>7 DEF NextPosition
  <2>2. d < Len(sent)
    <3>1. CASE m = d
      BY <1>3, <2>1, <3>1
    <3>2. CASE m < d
      <4>1. sent[m].start + sent[m].n <= sent[d].start
        BY <2>1, <3>2 DEF Layout
      <4>2. \A a, b, n, l \in Nat : ~(a + n <= b /\ a = b + l /\ n > 0)
        OBVIOUS
      <4>3. /\ sent[m].start \in Nat /\ sent[m].n \in Nat \ {0}
            /\ sent[d].start \in Nat /\ sent[d].n \in Nat
        BY <1>3, <2>1
      <4> QED
        BY <2>1, <4>1, <4>2, <4>3
    <3>3. CASE m > d
      BY <1>2, <3>3
    <3> QED
      BY <1>2, <3>1, <3>2, <3>3
  <2>3. d \in 1 .. Len(sent) - 1 /\ d + 1 \in 1 .. Len(sent)
    BY <1>2, <2>1, <2>2
  <2>4. sent[d + 1].start = sent[m].start
    BY <2>1, <2>3 DEF Layout
  <2>5. m = d + 1
    BY <2>3, <2>4, UniqueStart
  <2> QED
    BY <1>1, <2>5
<1> QED
  BY <1>6, <1>7

\* The message polled is the next one, and the wait moves to the one after it.
LEMMA PollIInv == IInv /\ Poll => IInv'
<1> SUFFICES ASSUME IInv, Poll PROVE IInv'
  OBVIOUS
<1> USE DEF senderVars, netVars, recvThreadVars
<1>1. PICK e \in recvQueue :
        /\ e.seq = recvSeq
        /\ recvQueue' = recvQueue \ {e}
        /\ recvSeq' = Add(recvSeq, e.n)
        /\ delivered' = Append(delivered, [head |-> e.head, body |-> e.body])
  BY DEF Poll
<1>2. UNCHANGED <<senderVars, netVars, ackQueue, recvThreadVars, polling>>
  BY DEF Poll
<1> DEFINE m == Len(delivered) + 1
           d == [head |-> e.head, body |-> e.body]
<1>3. m \in 1 .. Len(sent) /\ IsMessage(e, m)
  BY <1>1, PolledIsNext
<1>4. /\ Len(delivered') = m
      /\ \A i \in 1 .. m : delivered'[i] = IF i = m THEN d ELSE delivered[i]
      /\ delivered' \in Seq([head : Nat, body : Seq(Nat \X Nat)])
  <2>1. d \in [head : Nat, body : Seq(Nat \X Nat)]
    BY DEF IInv, TypeOK, Entry
  <2>2. delivered \in Seq([head : Nat, body : Seq(Nat \X Nat)])
    BY DEF IInv, TypeOK
  <2>3. delivered' = Append(delivered, d)
    BY <1>1
  <2> HIDE DEF d
  <2>4. /\ delivered' \in Seq([head : Nat, body : Seq(Nat \X Nat)])
        /\ Len(delivered') = m
        /\ \A i \in 1 .. Len(delivered) : delivered'[i] = delivered[i]
        /\ delivered'[m] = d
    BY <2>1, <2>2, <2>3, AppendProperties
  <2>5. Len(delivered) \in Nat
    BY <2>2
  <2>6. \A i \in 1 .. m : i = m \/ i \in 1 .. Len(delivered)
    BY <2>5
  <2> QED
    BY <2>4, <2>6
<1>5. Layout'
  BY <1>2, SentUnchanged DEF IInv
<1>6. QueueWhole'
  <2>1. \A x, i : IsMessage(x, i) => IsMessage(x, i)'
    BY <1>2, SentUnchanged DEF IInv
  <2> QED
    BY <1>1, <1>2, <2>1 DEF IInv, QueueWhole
<1>7. PacketsSent'
  <2>1. \A q : IsSent(q) => IsSent(q)'
    BY <1>2, SentUnchanged DEF IInv
  <2>2. (recvThread # Idle => IsSent(recvThread.pack))'
    BY <1>2, <2>1 DEF IInv, PacketsSent, Idle
  <2> QED
    BY <1>2, <2>1, <2>2 DEF IInv, PacketsSent
<1>8. OrderedDelivery'
  <2>1. Len(delivered') <= Len(sent')
    BY <1>2, <1>3, <1>4
  <2>2. \A i : Body(i)' = Body(i)
    BY <1>2 DEF Body
  <2>3. \A i \in 1 .. m : delivered'[i].body = Body(i)
    <3> TAKE i \in 1 .. m
    <3>1. CASE i = m
      BY <1>3, <1>4, <3>1 DEF IsMessage
    <3>2. CASE i # m
      <4>1. Len(delivered) \in Nat
        BY DEF IInv, TypeOK
      <4>2. i \in 1 .. Len(delivered)
        BY <3>2, <4>1
      <4> QED
        BY <1>4, <3>2, <4>2 DEF IInv, OrderedDelivery
    <3> QED
      BY <3>1, <3>2
  <2> QED
    BY <1>4, <2>1, <2>2, <2>3 DEF OrderedDelivery
<1>9. recvSeq' = Add(FirstSeq, sent[m].start + sent[m].n) /\ recvSeq' \in SeqNum
  <2>1. sent[m] \in [start : Nat, n : Nat] /\ sent[m].n > 0
    BY <1>3, ElementOfSeq DEF IInv, TypeOK, Layout
  <2>2. 1 \in 1 .. sent[m].n
    BY <2>1
  <2>3. sent[m].start + sent[m].n <= SentPackets /\ SentPackets \in 0 .. MaxPackets
    BY <1>3, <2>2, PositionBounds DEF IInv
  <2>4. MaxPackets < SeqMod /\ MaxPackets \in Nat /\ SeqMod \in Nat
    BY FragmentationAssumption, HalfRangeAssumption
  <2>5. /\ sent[m].start \in 0 .. SeqMod - 1 /\ sent[m].n \in 0 .. SeqMod - 1
        /\ sent[m].start + sent[m].n < SeqMod
    BY <2>1, <2>3, <2>4
  <2>6. recvSeq = Add(FirstSeq, sent[m].start) /\ e.n = sent[m].n
    BY <1>1, <1>3 DEF IsMessage
  <2>7. recvSeq' = Add(FirstSeq, sent[m].start + sent[m].n)
    BY <1>1, <2>5, <2>6, AddAdd
  <2>8. recvSeq' \in SeqNum
    BY <1>1, <2>5, <2>6, SeqNumClosed DEF IInv, TypeOK
  <2> QED
    BY <2>7, <2>8
<1>10. WaitsForNext'
  <2>1. m # 0
    BY <1>3
  <2> QED
    BY <1>2, <1>4, <1>9, <2>1 DEF WaitsForNext, NextPosition
<1>11. TypeOK'
  BY <1>1, <1>2, <1>4, <1>9 DEF IInv, TypeOK
<1> QED
  BY <1>5, <1>6, <1>7, <1>8, <1>10, <1>11 DEF IInv

\* A new message is laid out behind the others, and nothing else changes place.
LEMMA AddToSendQueueIInv == ASSUME NEW n \in FragCounts PROVE IInv /\ AddToSendQueue(n) => IInv'
<1> SUFFICES ASSUME IInv, AddToSendQueue(n) PROVE IInv'
  OBVIOUS
<1> USE DEF netVars, recvThreadVars, pollVars
<1>packs. PICK packs : packs = serializeNormalPacket(Len(sent) + 1, n, sendSeq)
  OBVIOUS
<1>1. /\ SentPackets + n <= MaxPackets
      /\ retransmitQueue' = retransmitQueue \cup {packs[k] : k \in 1 .. n}
      /\ toSend' = packs
      /\ sendSeq' = Add(sendSeq, n)
      /\ sent' = Append(sent, [start |-> SentPackets, n |-> n])
      /\ UNCHANGED <<netVars, ackQueue, recvThreadVars, recvQueue, pollVars>>
  BY <1>packs DEF AddToSendQueue
<1>2. /\ Layout' /\ Len(sent') = Len(sent) + 1 /\ sendSeq' \in SeqNum
      /\ \A i \in 1 .. Len(sent) : sent'[i] = sent[i]
      /\ \A p : IsSent(p) => IsSent(p)'
      /\ \A i \in 1 .. Len(sent) : Body(i)' = Body(i)
      /\ \A e : \A i \in 1 .. Len(sent) :
             IsMessage(e, i) => i \in 1 .. Len(sent') /\ IsMessage(e, i)'
      /\ packs \in Seq(Packet) /\ Len(packs) = n
      /\ \A k \in 1 .. n : IsSent(packs[k])'
  BY <1>1, <1>packs, AcceptMessage DEF IInv
<1>3. Len(sent) \in Nat /\ Len(sent) <= Len(sent')
  BY <1>2 DEF IInv, TypeOK
<1>4. TypeOK'
  <2>1. \A k \in 1 .. n : packs[k] \in Packet
    BY <1>2, ElementOfSeq
  <2>2. retransmitQueue' \in SUBSET Packet
    BY <1>1, <2>1 DEF IInv, TypeOK
  <2>3. sent' \in Seq([start : Nat, n : Nat])
    BY <1>2 DEF Layout
  <2> QED
    BY <1>1, <1>2, <2>2, <2>3 DEF IInv, TypeOK
<1>5. PacketsSent'
  <2>1. (\A p \in retransmitQueue : IsSent(p))'
    BY <1>1, <1>2 DEF IInv, PacketsSent
  <2>2. (\A i \in 1 .. Len(toSend) : IsSent(toSend[i]))'
    BY <1>1, <1>2
  <2>3. (recvThread # Idle => IsSent(recvThread.pack))'
    BY <1>1, <1>2 DEF IInv, PacketsSent, Idle
  <2> QED
    BY <1>1, <1>2, <2>1, <2>2, <2>3 DEF IInv, PacketsSent
<1>6. QueueWhole'
  BY <1>1, <1>2 DEF IInv, QueueWhole
<1>7. OrderedDelivery'
  <2>1. Len(delivered) \in Nat /\ Len(delivered) <= Len(sent)
    BY DEF IInv, TypeOK, OrderedDelivery
  <2>2. \A i \in 1 .. Len(delivered) : i \in 1 .. Len(sent) /\ delivered[i].body = Body(i)'
    BY <1>2, <1>3, <2>1 DEF IInv, OrderedDelivery
  <2>3. Len(delivered) <= Len(sent')
    BY <1>2, <1>3, <2>1
  <2> QED
    BY <1>1, <2>2, <2>3 DEF OrderedDelivery
<1>8. WaitsForNext'
  <2>1. Len(delivered) # 0 => Len(delivered) \in 1 .. Len(sent)
    BY <1>3 DEF IInv, TypeOK, OrderedDelivery
  <2>2. NextPosition' = NextPosition
    BY <1>1, <1>2, <2>1 DEF NextPosition
  <2> QED
    BY <1>1, <2>2 DEF IInv, WaitsForNext
<1> QED
  BY <1>2, <1>4, <1>5, <1>6, <1>7, <1>8 DEF IInv

\* Every step keeps the invariant.
LEMMA NextIInv == IInv /\ [Next]_vars => IInv'
<1> SUFFICES ASSUME IInv, [Next]_vars PROVE IInv'
  OBVIOUS
<1>1. CASE UNCHANGED vars
  <2> USE <1>1 DEF vars, senderVars, netVars, recvThreadVars, pollVars
  <2>1. Layout' /\ QueueWhole' /\ OrderedDelivery' /\ WaitsForNext'
    BY SentUnchanged, QueueUnchanged, DeliveredUnchanged DEF IInv
  <2>2. TypeOK'
    BY DEF IInv, TypeOK
  <2>3. PacketsSent'
    <3>1. \A q : IsSent(q) => IsSent(q)'
      BY SentUnchanged DEF IInv
    <3>2. (recvThread # Idle => IsSent(recvThread.pack))'
      BY <3>1 DEF IInv, PacketsSent, Idle
    <3> QED
      BY <3>1, <3>2 DEF IInv, PacketsSent
  <2> QED
    BY <2>1, <2>2, <2>3 DEF IInv
<1>2. CASE Sender
  BY <1>2, AddToSendQueueIInv, SocketSendIInv, DispatchReliableOrderedQueueIInv,
     ReceiveAckIInv DEF Sender
<1>3. CASE Receiver
  BY <1>3, RecvDataIInv, EarlyOutIInv, ReceiveUnfragmentedIInv, BufferFragmentIInv,
     ReassembleFragmentsIInv, DispatchAckQueueIInv, LockIInv, PollIInv DEF Receiver
<1> QED
  BY <1>1, <1>2, <1>3 DEF Next

\* The inductive invariant holds in every state.
THEOREM Invariance == Spec => []IInv
<1> QED
  BY InitIInv, NextIInv, PTL DEF Spec

\* The sequence counters stay 32-bit numbers and every packet and queue entry
\* keeps its form, whatever the threads and the network do.
THEOREM TypeCorrect == Spec => []TypeOK
<1>1. IInv => TypeOK
  BY DEF IInv
<1> QED
  BY <1>1, Invariance, PTL

\* For every width, start of the window, fragmentation and number of packets:
\* the game thread is handed exactly the accepted messages, whole and in
\* order, although duplicates, early arrivals and stale entries pile up.
THEOREM OrderedDeliveryHolds == Spec => []OrderedDelivery
<1>1. IInv => OrderedDelivery
  BY DEF IInv
<1> QED
  BY <1>1, Invariance, PTL

-----------------------------------------------------------------------------
\* What is acked has been received.

\* The receiver has got packet p: it is being processed, buffered, part of a
\* queued message, or part of a message that was handed over.
HasGot(p) ==
    \/ p.msg <= Len(delivered)
    \/ \E e \in recvQueue : IsMessage(e, p.msg)
    \/ p \in fragments
    \/ recvThread # Idle /\ recvThread.pack = p

\* Every sent packet is kept for retransmission until the receiver has it, and
\* every ack on its way is for a packet the receiver has.
KeptOrGot == \A p : IsSent(p) => p \in retransmitQueue \/ HasGot(p)

AcksAreForGot == \A s \in ackNet \cup ackQueue : \E p : IsSent(p) /\ p.seq = s /\ HasGot(p)

AckIInv == KeptOrGot /\ AcksAreForGot

\* Two sent packets with the same number are the same.
LEMMA SentNumberUnique ==
    ASSUME Layout, NEW p, NEW q, IsSent(p), IsSent(q), p.seq = q.seq
    PROVE  p = q
<1>1. PICK m \in 1 .. Len(sent) : \E k \in 1 .. sent[m].n : p = Fragment(m, k)
  BY DEF IsSent
<1>2. PICK k \in 1 .. sent[m].n : p = Fragment(m, k)
  BY <1>1
<1>3. q.seq = Add(FirstSeq, sent[m].start + k - 1)
  BY <1>2 DEF Fragment
<1> QED
  BY <1>2, <1>3, NumberIdentifies

\* A sent packet belongs to a message that was accepted.
LEMMA SentMessage ==
    ASSUME NEW p, IsSent(p)
    PROVE  p.msg \in 1 .. Len(sent)
BY DEF IsSent, Fragment

\* A step keeps the acks right that accepts no message, forgets no packet,
\* adds no ack and loses nothing the receiver has.
LEMMA AckInvKept ==
    ASSUME AckIInv, sent' = sent, retransmitQueue \subseteq retransmitQueue',
           ackNet' \cup ackQueue' \subseteq ackNet \cup ackQueue,
           \A p : IsSent(p) /\ HasGot(p) => HasGot(p)'
    PROVE  AckIInv'
<1>1. \A p : IsSent(p)' <=> IsSent(p)
  BY DEF IsSent, Fragment
<1>2. KeptOrGot'
  BY <1>1 DEF AckIInv, KeptOrGot
<1>3. AcksAreForGot'
  <2> SUFFICES ASSUME NEW s \in ackNet' \cup ackQueue'
               PROVE  \E p : IsSent(p)' /\ p.seq = s /\ HasGot(p)'
    BY DEF AcksAreForGot
  <2>1. PICK p : IsSent(p) /\ p.seq = s /\ HasGot(p)
    BY DEF AckIInv, AcksAreForGot
  <2> QED
    BY <1>1, <2>1
<1> QED
  BY <1>2, <1>3 DEF AckIInv

\* A step that leaves the receiver's data and what was sent alone loses nothing.
LEMMA GotUnchanged ==
    ASSUME UNCHANGED <<sent, delivered, recvQueue, fragments, recvThread>>
    PROVE  \A p : HasGot(p) => HasGot(p)'
BY DEF HasGot, IsMessage, Body, Idle

\* Nor does one after which every message that was queued, every fragment that
\* was buffered and the packet that was processed are somewhere.
LEMMA GotStays ==
    ASSUME sent' = sent, Len(delivered) <= Len(delivered'),
           Len(delivered) \in Nat, Len(delivered') \in Nat,
           \A m \in 1 .. Len(sent) : (\E e \in recvQueue : IsMessage(e, m)) =>
               m <= Len(delivered') \/ \E e \in recvQueue' : IsMessage(e, m),
           \A p : IsSent(p) /\ p \in fragments => HasGot(p)',
           \A p : IsSent(p) /\ recvThread # Idle /\ recvThread.pack = p => HasGot(p)'
    PROVE  \A p : IsSent(p) /\ HasGot(p) => HasGot(p)'
<1> SUFFICES ASSUME NEW p, IsSent(p), HasGot(p) PROVE HasGot(p)'
  OBVIOUS
<1>1. p.msg \in 1 .. Len(sent) /\ p.msg \in Int
  BY SentMessage
<1>2. \A e, m : IsMessage(e, m)' <=> IsMessage(e, m)
  BY DEF IsMessage, Body
<1>3. CASE p.msg <= Len(delivered)
  BY <1>1, <1>3 DEF HasGot
<1>4. CASE \E e \in recvQueue : IsMessage(e, p.msg)
  BY <1>1, <1>2, <1>4 DEF HasGot
<1>5. CASE p \in fragments
  BY <1>5
<1>6. CASE recvThread # Idle /\ recvThread.pack = p
  BY <1>6
<1> QED
  BY <1>3, <1>4, <1>5, <1>6 DEF HasGot

\* Sending and locking change nothing the receiver has and acks nothing.
LEMMA QuietAcks ==
    IInv /\ AckIInv /\ (\/ SocketSend \/ DispatchReliableOrderedQueue
                        \/ DispatchAckQueue \/ BeginPoll \/ EndPoll \/ UNCHANGED vars)
        => AckIInv'
<1> SUFFICES ASSUME IInv, AckIInv,
                    \/ SocketSend \/ DispatchReliableOrderedQueue
                    \/ DispatchAckQueue \/ BeginPoll \/ EndPoll \/ UNCHANGED vars
             PROVE  AckIInv'
  OBVIOUS
<1>1. /\ UNCHANGED <<sent, retransmitQueue, delivered, recvQueue, fragments, recvThread>>
      /\ ackNet' \cup ackQueue' \subseteq ackNet \cup ackQueue
  <2> USE DEF senderVars, netVars, recvThreadVars, pollVars, vars
  <2>1. CASE SocketSend \/ DispatchReliableOrderedQueue
    BY <2>1 DEF SocketSend, DispatchReliableOrderedQueue
  <2>2. CASE DispatchAckQueue
    BY <2>2, InTransitPackets DEF DispatchAckQueue
  <2>3. CASE BeginPoll \/ EndPoll \/ UNCHANGED vars
    BY <2>3 DEF BeginPoll, EndPoll
  <2> QED
    BY <2>1, <2>2, <2>3
<1> QED
  BY <1>1, GotUnchanged, AckInvKept

\* The packet an ack removes is the one it is for, which the receiver has.
LEMMA ReceiveAckAcks ==
    ASSUME IInv, AckIInv, NEW s, ReceiveAck(s)
    PROVE  AckIInv'
<1> USE DEF ReceiveAck, recvThreadVars, pollVars
<1>1. \A p : HasGot(p) => HasGot(p)'
  BY GotUnchanged
<1>2. \A p : IsSent(p)' <=> IsSent(p)
  BY DEF IsSent, Fragment
<1>3. PICK q : IsSent(q) /\ q.seq = s /\ HasGot(q)
  BY DEF AckIInv, AcksAreForGot
<1>4. KeptOrGot'
  <2> SUFFICES ASSUME NEW p, IsSent(p), ~HasGot(p)' PROVE p \in retransmitQueue'
    BY <1>2 DEF KeptOrGot
  <2>1. p \in retransmitQueue
    BY <1>1 DEF AckIInv, KeptOrGot
  <2>2. p.seq # s
    BY <1>1, <1>3, SentNumberUnique DEF IInv
  <2> QED
    BY <2>1, <2>2
<1>5. AcksAreForGot'
  <2> SUFFICES ASSUME NEW t \in ackNet' \cup ackQueue'
               PROVE  \E p : IsSent(p)' /\ p.seq = t /\ HasGot(p)'
    BY DEF AcksAreForGot
  <2>1. t \in ackNet \cup ackQueue
    OBVIOUS
  <2>2. PICK p : IsSent(p) /\ p.seq = t /\ HasGot(p)
    BY <2>1 DEF AckIInv, AcksAreForGot
  <2> QED
    BY <1>1, <1>2, <2>2
<1> QED
  BY <1>4, <1>5 DEF AckIInv

\* The packet that is acked is the one recvData goes on with.
LEMMA RecvDataAcks ==
    ASSUME IInv, AckIInv, NEW q, RecvData(q)
    PROVE  AckIInv'
<1> USE DEF RecvData, senderVars, pollVars
<1>1. recvThread' = [step |-> "acked", pack |-> q] /\ recvThread' # Idle
  BY DEF Idle
<1>2. \A p : HasGot(p) => HasGot(p)'
  BY <1>1 DEF HasGot, IsMessage, Body
<1>3. \A p : IsSent(p)' <=> IsSent(p)
  BY DEF IsSent, Fragment
<1>4. IsSent(q) /\ HasGot(q)'
  <2>1. IsSent(q)
    BY DEF IInv, PacketsSent
  <2>2. HasGot(q)'
    BY <1>1 DEF HasGot
  <2> QED
    BY <2>1, <2>2
<1>5. KeptOrGot'
  BY <1>2, <1>3 DEF AckIInv, KeptOrGot
<1>6. AcksAreForGot'
  <2> SUFFICES ASSUME NEW s \in ackNet' \cup ackQueue'
               PROVE  \E p : IsSent(p)' /\ p.seq = s /\ HasGot(p)'
    BY DEF AcksAreForGot
  <2>1. CASE s = q.seq
    BY <1>3, <1>4, <2>1
  <2>2. CASE s \in ackNet \cup ackQueue
    <3>1. PICK p : IsSent(p) /\ p.seq = s /\ HasGot(p)
      BY <2>2 DEF AckIInv, AcksAreForGot
    <3> QED
      BY <1>2, <1>3, <3>1
  <2> QED
    BY <2>1, <2>2
<1> QED
  BY <1>5, <1>6 DEF AckIInv

\* A packet below the one that is waited for is part of a message that was
\* handed over.
LEMMA OldIsDelivered ==
    ASSUME IInv, NEW p, IsSent(p), ~isSequenceNewer(p.seq, recvSeq)
    PROVE  p.msg <= Len(delivered)
<1> USE DEF IInv
<1>1. PICK m \in 1 .. Len(sent) : \E k \in 1 .. sent[m].n : p = Fragment(m, k)
  BY DEF IsSent
<1>2. PICK k \in 1 .. sent[m].n : p = Fragment(m, k)
  BY <1>1
<1>d. PICK d \in Nat : d = Len(delivered)
  BY DEF TypeOK
<1>a. PICK a \in Int : a = sent[m].start + k - 1
  BY PositionBounds
<1>3. /\ p.msg = m /\ p.seq = Add(FirstSeq, a)
      /\ a \in 0 .. HalfRange - 1
      /\ sent[m].start \in Nat /\ SentPackets \in 0 .. MaxPackets
  BY <1>2, <1>a, PositionBounds DEF Fragment
<1>4. CASE d = 0
  <2>1. recvSeq = Add(FirstSeq, 0)
    BY <1>d, <1>4 DEF WaitsForNext, NextPosition
  <2>2. 0 \in 0 .. HalfRange /\ a >= 0
    BY <1>3, HalfRangeAssumption
  <2>3. isSequenceNewer(p.seq, recvSeq)
    BY <1>3, <2>1, <2>2, NewerIsLater
  <2> QED
    BY <2>3
<1>5. CASE d # 0
  <2>1. d \in 1 .. Len(sent) /\ Len(sent) \in Nat
    <3>1. Len(sent) \in Nat
      BY DEF TypeOK
    <3>2. d <= Len(sent)
      BY <1>d DEF OrderedDelivery
    <3> QED
      BY <1>d, <1>5, <3>1, <3>2
  <2>b. PICK b : b = sent[d].start + sent[d].n
    OBVIOUS
  <2>2. recvSeq = Add(FirstSeq, b)
    BY <1>d, <1>5, <2>b DEF WaitsForNext, NextPosition
  <2>3. b \in 0 .. HalfRange
    <3>1. sent[d] \in [start : Nat, n : Nat] /\ sent[d].n > 0
      BY <2>1, ElementOfSeq DEF Layout
    <3>2. 1 \in 1 .. sent[d].n
      BY <3>1
    <3>3. b <= SentPackets
      BY <2>1, <2>b, <3>2, PositionBounds
    <3>4. MaxPackets \in Nat /\ MaxPackets <= HalfRange /\ HalfRange \in Nat
      BY FragmentationAssumption, HalfRangeAssumption
    <3>5. b \in Nat
      BY <2>b, <3>1
    <3>6. SentPackets <= MaxPackets /\ SentPackets \in Nat
      BY <1>3, <3>4
    <3> HIDE DEF SeqNum, SeqMod
    <3> QED
      BY <3>3, <3>4, <3>5, <3>6
  <2>4. a < b
    BY <1>3, <2>2, <2>3, NewerIsLater
  <2>5. ~(m > d)
    <3>1. m > d => b <= sent[m].start
      BY <2>1, <2>b DEF Layout
    <3> QED
      BY <1>3, <1>a, <2>3, <2>4, <3>1
  <2> QED
    BY <1>3, <1>d, <2>1, <2>5
<1> QED
  BY <1>4, <1>5

\* A packet dropped by the early-out, which is acked already, was handed over.
LEMMA EarlyOutAcks ==
    ASSUME IInv, AckIInv, EarlyOut
    PROVE  AckIInv'
<1> USE DEF EarlyOut, senderVars, netVars, pollVars
<1>1. recvThread \in [step : {"acked", "newer"}, pack : Packet] /\ IsSent(recvThread.pack)
  BY DEF IInv, TypeOK, PacketsSent, Idle
<1>2. CASE isSequenceNewer(recvThread.pack.seq, recvSeq)
  <2>1. recvThread' # Idle /\ recvThread'.pack = recvThread.pack
    BY <1>1, <1>2 DEF Idle
  <2>2. \A p : HasGot(p) => HasGot(p)'
    BY <2>1 DEF HasGot, IsMessage, Body
  <2> QED
    BY <2>2, AckInvKept
<1>3. CASE ~isSequenceNewer(recvThread.pack.seq, recvSeq)
  <2>1. recvThread.pack.msg <= Len(delivered)
    BY <1>1, <1>3, OldIsDelivered
  <2>2. \A p : HasGot(p) => HasGot(p)'
    BY <2>1 DEF HasGot, IsMessage, Body
  <2> QED
    BY <2>2, AckInvKept
<1> QED
  BY <1>2, <1>3

\* A message put in the queue is in it, now or already.
LEMMA InsertedIsQueued ==
    ASSUME Layout, QueueWhole, NEW e, NEW m \in 1 .. Len(sent), IsMessage(e, m)
    PROVE  \E x \in MapInsert(recvQueue, e) : IsMessage(x, m)
<1>1. CASE \E x \in recvQueue : x.seq = e.seq
  <2>1. PICK x \in recvQueue : x.seq = e.seq
    BY <1>1
  <2>2. PICK i \in 1 .. Len(sent) : IsMessage(x, i)
    BY DEF QueueWhole
  <2>3. Add(FirstSeq, sent[i].start) = Add(FirstSeq, sent[m].start)
    BY <2>1, <2>2 DEF IsMessage
  <2>4. i = m
    BY <2>3, UniqueStart
  <2> QED
    BY <2>2, <2>4 DEF MapInsert
<1>2. CASE ~\E x \in recvQueue : x.seq = e.seq
  BY <1>2 DEF MapInsert
<1> QED
  BY <1>1, <1>2

\* A message that was not cut goes to the queue, or is there already.
LEMMA ReceiveUnfragmentedAcks ==
    ASSUME IInv, AckIInv, ReceiveUnfragmented
    PROVE  AckIInv'
<1> USE DEF ReceiveUnfragmented, senderVars, netVars, pollVars
<1>1. IsSent(recvThread.pack)
  BY DEF IInv, PacketsSent, Idle
<1>2. PICK e : e = createNormalPacket(recvThread.pack)
  OBVIOUS
<1>3. recvThread.pack.msg \in 1 .. Len(sent) /\ IsMessage(e, recvThread.pack.msg)
  BY <1>1, <1>2, UnfragmentedIsMessage DEF IInv
<1>4. \E x \in recvQueue' : IsMessage(x, recvThread.pack.msg)
  BY <1>2, <1>3, InsertedIsQueued DEF IInv
<1>5. recvQueue \subseteq recvQueue'
  BY DEF MapInsert
<1>6. \A p : HasGot(p) => HasGot(p)'
  BY <1>4, <1>5 DEF HasGot, IsMessage, Body
<1> QED
  BY <1>6, AckInvKept

\* A fragment goes to the buffer, or is there already.
LEMMA BufferFragmentAcks ==
    ASSUME IInv, AckIInv, BufferFragment
    PROVE  AckIInv'
<1> USE DEF BufferFragment, senderVars, netVars, pollVars
<1>1. IsSent(recvThread.pack)
  BY DEF IInv, PacketsSent, Idle
<1>2. fragments \subseteq fragments' /\ recvThread.pack \in fragments'
  <2>1. CASE \E f \in fragments : f.seq = recvThread.pack.seq
    BY <1>1, <2>1, SentNumberUnique DEF IInv, PacketsSent
  <2>2. CASE ~\E f \in fragments : f.seq = recvThread.pack.seq
    BY <2>2
  <2> QED
    BY <2>1, <2>2
<1>3. \A p : HasGot(p) => HasGot(p)'
  BY <1>2 DEF HasGot, IsMessage, Body
<1> QED
  BY <1>3, AckInvKept

\* Only the fragments of message m are within its length of its first number.
LEMMA WithinMessage ==
    ASSUME Layout, NEW p, IsSent(p), NEW m \in 1 .. Len(sent),
           ~(Sub(p.seq, Add(FirstSeq, sent[m].start)) >= sent[m].n)
    PROVE  p.msg = m
<1>1. PICK m2 \in 1 .. Len(sent) : \E k \in 1 .. sent[m2].n : p = Fragment(m2, k)
  BY DEF IsSent
<1>2. PICK k \in 1 .. sent[m2].n : p = Fragment(m2, k)
  BY <1>1
<1>a. PICK a \in Int : a = sent[m2].start + k - 1
  BY PositionBounds
<1>3. p.msg = m2 /\ p.seq = Add(FirstSeq, a) /\ a \in 0 .. SeqMod - 1
  BY <1>2, <1>a, PositionBounds DEF Fragment
<1>4. sent[m] \in [start : Nat, n : Nat] /\ sent[m].n > 0
  BY ElementOfSeq DEF Layout
<1>b. PICK b \in Nat, n \in Nat \ {0} : b = sent[m].start /\ n = sent[m].n
  BY <1>4
<1>5. b + n <= SeqMod /\ b \in 0 .. SeqMod - 1
  <2>1. 1 \in 1 .. sent[m].n
    BY <1>4
  <2>2. b + n <= SentPackets /\ SentPackets \in 0 .. MaxPackets
    BY <1>b, <2>1, PositionBounds
  <2>3. MaxPackets \in Nat /\ MaxPackets <= HalfRange /\ HalfRange \in Nat
    BY FragmentationAssumption, HalfRangeAssumption
  <2> QED
    BY <2>2, <2>3
<1>6. Sub(p.seq, Add(FirstSeq, b)) = IF a >= b THEN a - b ELSE a - b + SeqMod
  BY <1>3, <1>5, SubDistance
<1>7. a >= b /\ a - b < n
  <2>1. SeqMod \in Nat
    BY HalfRangeAssumption
  <2>2. ~((IF a >= b THEN a - b ELSE a - b + SeqMod) >= n)
    BY <1>6, <1>b
  <2> HIDE DEF SeqMod
  <2> QED
    BY <1>3, <1>5, <2>1, <2>2
<1>8. a - b + 1 \in 1 .. sent[m].n /\ sent[m].start + (a - b + 1) - 1 = a
  <2>1. a - b + 1 \in 1 .. n
    BY <1>7
  <2>2. b + (a - b + 1) - 1 = a
    OBVIOUS
  <2> QED
    BY <1>b, <2>1, <2>2
<1>9. p = Fragment(m, a - b + 1)
  BY <1>3, <1>8, NumberIdentifies
<1> QED
  BY <1>9 DEF Fragment

\* Reassembly takes only fragments of the message out of the buffer that it
\* puts in the queue.
LEMMA ReassembleFragmentsAcks ==
    ASSUME IInv, AckIInv, ReassembleFragments
    PROVE  AckIInv'
<1> USE DEF senderVars, netVars, pollVars
<1>p. PICK p : p = recvThread.pack
  OBVIOUS
<1>f. PICK frags : frags = fragments \cup {p}
  OBVIOUS
<1>1. PICK back, ahead \in SeqNum :
        /\ FirstFragmentBack(frags, p.seq, back)
        /\ LastFragmentAhead(frags, p.seq, ahead)
        /\ recvQueue' = MapInsert(recvQueue, defragmentPacket(frags, Sub(p.seq, back), back + ahead + 1))
        /\ fragments' = {f \in frags : Sub(f.seq, Sub(p.seq, back)) >= back + ahead + 1}
  BY <1>p, <1>f DEF ReassembleFragments
<1>2. /\ UNCHANGED <<senderVars, netVars, ackQueue, pollVars>>
      /\ recvThread' = Idle
      /\ recvThread.step = "newer"
  BY DEF ReassembleFragments
<1>3. IsSent(p) /\ \A f \in frags : IsSent(f)
  BY <1>p, <1>f, <1>2 DEF IInv, PacketsSent, Idle
<1>4. PICK m \in 1 .. Len(sent) : \E k \in 1 .. sent[m].n : p = Fragment(m, k)
  BY <1>3 DEF IsSent
<1>5. PICK k \in 1 .. sent[m].n : p = Fragment(m, k)
  BY <1>4
<1>e. PICK e : e = defragmentPacket(frags, Sub(p.seq, back), back + ahead + 1)
  OBVIOUS
<1>6. /\ IsMessage(e, m)
      /\ fragments' = {f \in frags : Sub(f.seq, Add(FirstSeq, sent[m].start)) >= sent[m].n}
  <2>1. FoundMessage(frags, m, k, back, ahead)
    BY <1>1, <1>3, <1>5, ReassembledIsMessage DEF IInv
  <2> QED
    BY <1>1, <1>5, <1>e, <2>1 DEF FoundMessage
<1>7. \E x \in recvQueue' : IsMessage(x, m)
  BY <1>1, <1>e, <1>6, InsertedIsQueued DEF IInv
<1>8. recvQueue \subseteq recvQueue'
  BY <1>1 DEF MapInsert
<1>9. \A f \in frags : f \in fragments' \/ f.msg = m
  BY <1>3, <1>6, WithinMessage DEF IInv
<1>10. \A q : q \in frags => HasGot(q)'
  BY <1>2, <1>7, <1>9 DEF HasGot, IsMessage, Body
<1>11. \A q : HasGot(q) => HasGot(q)'
  BY <1>p, <1>f, <1>2, <1>8, <1>10 DEF HasGot, IsMessage, Body
<1> QED
  BY <1>2, <1>11, AckInvKept

\* The entry that leaves the queue is the message that is handed over.
LEMMA PollAcks ==
    ASSUME IInv, IInv', AckIInv, Poll
    PROVE  AckIInv'
<1>1. PICK e \in recvQueue :
        /\ e.seq = recvSeq
        /\ recvQueue' = recvQueue \ {e}
        /\ delivered' = Append(delivered, [head |-> e.head, body |-> e.body])
  BY DEF Poll
<1>2. UNCHANGED <<senderVars, netVars, ackQueue, recvThreadVars, polling>>
  BY DEF Poll
<1> USE DEF senderVars, netVars, recvThreadVars
<1>3. Len(delivered) + 1 \in 1 .. Len(sent) /\ IsMessage(e, Len(delivered) + 1)
  BY <1>1, PolledIsNext
<1>4. Len(delivered) \in Nat /\ Len(delivered') = Len(delivered) + 1
  BY <1>1 DEF IInv, TypeOK
<1>5. \A m \in 1 .. Len(sent) : IsMessage(e, m) => m <= Len(delivered')
  <2> SUFFICES ASSUME NEW m \in 1 .. Len(sent), IsMessage(e, m) PROVE m <= Len(delivered')
    OBVIOUS
  <2>1. Add(FirstSeq, sent[m].start) = Add(FirstSeq, sent[Len(delivered) + 1].start)
    BY <1>3 DEF IsMessage
  <2>2. m = Len(delivered) + 1
    BY <1>3, <2>1, UniqueStart DEF IInv
  <2> QED
    BY <1>4, <2>2
<1>6. \A p : IsSent(p) /\ HasGot(p) => HasGot(p)'
  <2>1. \A m \in 1 .. Len(sent) : (\E x \in recvQueue : IsMessage(x, m)) =>
            m <= Len(delivered') \/ \E x \in recvQueue' : IsMessage(x, m)
    BY <1>1, <1>5
  <2>2. \A p : p \in fragments => HasGot(p)'
    BY <1>2 DEF HasGot
  <2>3. \A p : recvThread # Idle /\ recvThread.pack = p => HasGot(p)'
    BY <1>2 DEF HasGot, Idle
  <2> QED
    BY <1>2, <1>4, <2>1, <2>2, <2>3, GotStays
<1> QED
  BY <1>2, <1>6, AckInvKept

\* A new message is queued for retransmission, and the others are as they were.
LEMMA AddToSendQueueAcks ==
    ASSUME IInv, AckIInv, NEW n \in FragCounts, AddToSendQueue(n)
    PROVE  AckIInv'
<1> USE DEF netVars, recvThreadVars, pollVars
<1>packs. PICK packs : packs = serializeNormalPacket(Len(sent) + 1, n, sendSeq)
  OBVIOUS
<1>1. /\ SentPackets + n <= MaxPackets
      /\ retransmitQueue' = retransmitQueue \cup {packs[k] : k \in 1 .. n}
      /\ sendSeq' = Add(sendSeq, n)
      /\ sent' = Append(sent, [start |-> SentPackets, n |-> n])
      /\ UNCHANGED <<netVars, ackQueue, recvThreadVars, recvQueue, pollVars>>
  BY <1>packs DEF AddToSendQueue
<1>2. /\ Len(sent') = Len(sent) + 1
      /\ \A i \in 1 .. Len(sent) : sent'[i] = sent[i]
      /\ sent'[Len(sent) + 1] = [start |-> SentPackets, n |-> n]
      /\ \A p : IsSent(p) => IsSent(p)'
      /\ \A e : \A i \in 1 .. Len(sent) : IsMessage(e, i) => IsMessage(e, i)'
      /\ DOMAIN packs = 1 .. n
      /\ \A k \in 1 .. n : IsSent(packs[k])'
  BY <1>1, <1>packs, AcceptMessage DEF IInv
<1>3. \A p : IsSent(p) /\ HasGot(p) => HasGot(p)'
  BY <1>1, <1>2, SentMessage DEF HasGot, Idle
<1>4. \A p : IsSent(p)' => IsSent(p) \/ p \in retransmitQueue'
  <2> SUFFICES ASSUME NEW p, IsSent(p)', ~IsSent(p) PROVE p \in retransmitQueue'
    OBVIOUS
  <2>1. PICK m \in 1 .. Len(sent') : \E k \in 1 .. sent'[m].n : p = Fragment(m, k)'
    BY DEF IsSent
  <2>2. PICK k \in 1 .. sent'[m].n : p = Fragment(m, k)'
    BY <2>1
  <2>3. m \notin 1 .. Len(sent)
    BY <1>2, <2>2 DEF IsSent, Fragment
  <2>4. m = Len(sent) + 1
    BY <1>2, <2>3 DEF IInv, TypeOK
  <2>5. k \in 1 .. n
    BY <1>2, <2>4
  <2>6. packs[k].msg = m /\ packs[k].part = k
    BY <1>packs, <2>4, <2>5 DEF serializeNormalPacket
  <2>7. \E i \in 1 .. Len(sent') : \E j \in 1 .. sent'[i].n : packs[k] = Fragment(i, j)'
    BY <1>2, <2>5 DEF IsSent
  <2>8. packs[k] = p
    BY <2>2, <2>6, <2>7 DEF Fragment
  <2> QED
    BY <1>1, <2>5, <2>8
<1>5. KeptOrGot'
  BY <1>1, <1>3, <1>4 DEF AckIInv, KeptOrGot
<1>6. AcksAreForGot'
  <2> SUFFICES ASSUME NEW s \in ackNet' \cup ackQueue'
               PROVE  \E p : IsSent(p)' /\ p.seq = s /\ HasGot(p)'
    BY DEF AcksAreForGot
  <2>1. PICK p : IsSent(p) /\ p.seq = s /\ HasGot(p)
    BY <1>1 DEF AckIInv, AcksAreForGot
  <2> QED
    BY <1>2, <1>3, <2>1
<1> QED
  BY <1>5, <1>6 DEF AckIInv

\* Nothing is acked at first.
LEMMA InitAcks == Init => AckIInv
<1> SUFFICES ASSUME Init PROVE AckIInv
  OBVIOUS
<1> QED
  BY DEF Init, AckIInv, KeptOrGot, AcksAreForGot, IsSent

\* Every step keeps the acks right.
LEMMA NextAcks == IInv /\ IInv' /\ AckIInv /\ [Next]_vars => AckIInv'
<1> SUFFICES ASSUME IInv, IInv', AckIInv, [Next]_vars PROVE AckIInv'
  OBVIOUS
<1>1. CASE UNCHANGED vars
  BY <1>1, QuietAcks
<1>2. CASE Sender
  BY <1>2, AddToSendQueueAcks, QuietAcks, ReceiveAckAcks DEF Sender
<1>3. CASE Receiver
  BY <1>3, RecvDataAcks, EarlyOutAcks, ReceiveUnfragmentedAcks, BufferFragmentAcks,
     ReassembleFragmentsAcks, QuietAcks, PollAcks DEF Receiver
<1> QED
  BY <1>1, <1>2, <1>3 DEF Next

\* The strengthening says what the property says of every fragment.
LEMMA AckInvImplies == IInv /\ AckIInv => AckedIsReceived
<1> SUFFICES ASSUME IInv, AckIInv, NEW m \in 1 .. Len(sent), NEW k \in 1 .. sent[m].n
             PROVE  (\E p \in retransmitQueue : p.msg = m /\ p.part = k) \/ Received(m, k)
  BY DEF AckedIsReceived
<1>1. PICK p : p = Fragment(m, k)
  OBVIOUS
<1>2. IsSent(p) /\ p.msg = m /\ p.part = k
  BY <1>1 DEF IsSent, Fragment
<1>3. p \in retransmitQueue \/ HasGot(p)
  BY <1>2 DEF AckIInv, KeptOrGot
<1>4. HasGot(p) => Received(m, k)
  BY <1>2 DEF HasGot, Received, IsMessage
<1> QED
  BY <1>2, <1>3, <1>4

\* For every width, start of the window, fragmentation and number of packets:
\* the sender forgets a fragment only when the receiver has it for good, though
\* acks are sent before the packet is processed, and are lost, repeated and
\* late themselves.
THEOREM AckedIsReceivedHolds == Spec => []AckedIsReceived
<1>1. IInv /\ IInv' /\ AckIInv /\ [Next]_vars => AckIInv'
  BY NextAcks
<1>2. IInv /\ AckIInv => AckedIsReceived
  BY AckInvImplies
<1> QED
  BY <1>1, <1>2, InitAcks, Invariance, PTL DEF Spec

-----------------------------------------------------------------------------
\* The link implements the ordered channel.

\* Both views are sequences of message bodies.
Views ==
    /\ Accepted \in Seq(Seq(Nat \X Nat)) /\ Len(Accepted) = Len(sent)
    /\ Handed \in Seq(Seq(Nat \X Nat)) /\ Len(Handed) = Len(delivered)
    /\ \A m \in 1 .. Len(sent) : Body(m) \in Seq(Nat \X Nat)

\* What the two game threads see are sequences of messages.
LEMMA ViewsAreSequences == TypeOK /\ Layout => Views
<1> SUFFICES ASSUME TypeOK, Layout PROVE Views
  OBVIOUS
<1>1. Len(sent) \in Nat /\ Len(delivered) \in Nat
  BY DEF TypeOK
<1>2. /\ Accepted \in Seq(Seq(Nat \X Nat)) /\ Len(Accepted) = Len(sent)
      /\ \A m \in 1 .. Len(sent) : Body(m) \in Seq(Nat \X Nat)
  BY AcceptedIsSequence, BodyIsSequence DEF AcceptedView
<1>3. \A i \in 1 .. Len(delivered) : delivered[i].body \in Seq(Nat \X Nat)
  <2> TAKE i \in 1 .. Len(delivered)
  <2>1. delivered[i] \in [head : Nat, body : Seq(Nat \X Nat)]
    BY ElementOfSeq DEF TypeOK
  <2> QED
    BY <2>1
<1>4. Handed \in Seq(Seq(Nat \X Nat)) /\ Len(Handed) = Len(delivered)
  <2>1. Handed = [i \in 1 .. Len(delivered) |-> Handed[i]]
    BY DEF Handed
  <2>2. \A i \in 1 .. Len(delivered) : Handed[i] \in Seq(Nat \X Nat)
    BY <1>3 DEF Handed
  <2>3. Handed \in Seq(Seq(Nat \X Nat))
    BY <1>1, <2>1, <2>2, SeqOfFunction
  <2>4. DOMAIN Handed = 1 .. Len(delivered)
    BY DEF Handed
  <2> QED
    BY <1>1, <2>3, <2>4, LenProperties
<1> QED
  BY <1>2, <1>4 DEF Views

\* The initial states map to the channel's.
LEMMA InitRefines == Init => Channel!Init
<1> SUFFICES ASSUME Init PROVE Channel!Init
  OBVIOUS
<1>1. Accepted = <<>>
  BY DEF Init, Accepted
<1>2. Handed = <<>>
  BY DEF Init, Handed
<1> QED
  BY <1>1, <1>2 DEF Channel!Init

\* Accepting a message appends it.
LEMMA AddToSendQueueRefines ==
    ASSUME NEW n \in FragCounts, IInv, AddToSendQueue(n)
    PROVE  Channel!Accept
<1>1. \E body \in Messages : Accepted' = Append(Accepted, body)
  BY AcceptedGrows DEF AddToSendQueue, IInv
<1>2. Handed' = Handed
  BY DEF AddToSendQueue, pollVars, Handed
<1> QED
  BY <1>1, <1>2 DEF Channel!Accept

\* Polling hands over the next message.
LEMMA PollRefines ==
    ASSUME IInv, IInv', Poll
    PROVE  Channel!Deliver
<1>1. PICK e \in recvQueue :
        e.seq = recvSeq /\ delivered' = Append(delivered, [head |-> e.head, body |-> e.body])
  BY DEF Poll
<1>2. sent' = sent
  BY DEF Poll, senderVars
<1>m. PICK m \in Nat : m = Len(delivered) + 1
  BY DEF IInv, TypeOK
<1>3. m \in 1 .. Len(sent) /\ e.body = Body(m)
  BY <1>m, <1>1, PolledIsNext DEF IsMessage
<1>4. /\ Len(delivered') = m /\ delivered'[m].body = e.body
      /\ \A i \in 1 .. Len(delivered) : delivered'[i] = delivered[i]
  <2>1. PICK d \in [head : Nat, body : Seq(Nat \X Nat)] : d = [head |-> e.head, body |-> e.body]
    BY DEF IInv, TypeOK, Entry
  <2>2. delivered \in Seq([head : Nat, body : Seq(Nat \X Nat)])
    BY DEF IInv, TypeOK
  <2>3. /\ Len(delivered') = Len(delivered) + 1 /\ delivered'[Len(delivered) + 1] = d
        /\ \A i \in 1 .. Len(delivered) : delivered'[i] = delivered[i]
    BY <1>1, <2>1, <2>2, AppendProperties
  <2> QED
    BY <1>m, <2>1, <2>3
<1>5. /\ Accepted \in Seq(Seq(Nat \X Nat)) /\ Len(Accepted) = Len(sent)
      /\ Handed \in Seq(Seq(Nat \X Nat)) /\ Len(Handed) = Len(delivered)
      /\ Handed' \in Seq(Seq(Nat \X Nat)) /\ Len(Handed') = Len(delivered')
      /\ Body(m) \in Seq(Nat \X Nat)
  <2>1. TypeOK /\ TypeOK' /\ Layout /\ Layout'
    BY DEF IInv
  <2>2. Views /\ Views'
    BY <2>1, ViewsAreSequences, PTL
  <2> QED
    BY <1>3, <2>2 DEF Views
<1>6. Accepted[m] = Body(m)
  BY <1>3 DEF Accepted
<1>7. Handed' = Append(Handed, Body(m))
  <2>1. \A i \in 1 .. Len(delivered) : i \in 1 .. Len(delivered')
    BY <1>m, <1>4 DEF IInv, TypeOK
  <2>2. \A i \in 1 .. Len(delivered) : Handed'[i] = Handed[i]
    BY <1>4, <2>1 DEF Handed
  <2>3. m \in 1 .. Len(delivered')
    BY <1>m, <1>4
  <2>4. Handed'[m] = Body(m)
    BY <1>3, <1>4, <2>3 DEF Handed
  <2> QED
    BY <1>m, <1>4, <1>5, <2>2, <2>4, AppendIs
<1>8. Accepted' = Accepted
  BY <1>2 DEF Accepted, Body
<1>9. Len(Handed) < Len(Accepted) /\ m = Len(Handed) + 1
  BY <1>m, <1>3, <1>5 DEF IInv, TypeOK
<1>10. Handed' = Append(Handed, Accepted[Len(Handed) + 1])
  BY <1>6, <1>7, <1>9
<1> QED
  BY <1>8, <1>9, <1>10 DEF Channel!Deliver

\* Any other step changes neither view.
LEMMA OthersStutter ==
    ASSUME UNCHANGED <<sent, delivered>>
    PROVE  UNCHANGED Channel!channelVars
BY DEF Channel!channelVars, Accepted, Handed, Body

\* Every step of the threads and the network is a step of the channel or a stutter.
LEMMA NextRefines == IInv /\ IInv' /\ [Next]_vars => [Channel!Next]_(Channel!channelVars)
<1> SUFFICES ASSUME IInv, IInv', [Next]_vars PROVE [Channel!Next]_(Channel!channelVars)
  OBVIOUS
<1> USE DEF vars, senderVars, netVars, recvThreadVars, pollVars
<1>1. CASE \E n \in FragCounts : AddToSendQueue(n)
  BY <1>1, AddToSendQueueRefines DEF Channel!Next
<1>2. CASE Poll
  BY <1>2, PollRefines DEF Channel!Next
<1>3. CASE UNCHANGED vars
  BY <1>3, OthersStutter
<1>4. CASE SocketSend \/ DispatchReliableOrderedQueue \/ \E s \in ackNet : ReceiveAck(s)
  <2>1. UNCHANGED <<sent, delivered>>
    BY <1>4 DEF SocketSend, DispatchReliableOrderedQueue, ReceiveAck
  <2> QED
    BY <2>1, OthersStutter
<1>5. CASE \/ \E p \in net : RecvData(p)
           \/ EarlyOut \/ ReceiveUnfragmented \/ BufferFragment \/ ReassembleFragments
           \/ DispatchAckQueue \/ BeginPoll \/ EndPoll
  <2>1. UNCHANGED <<sent, delivered>>
    BY <1>5 DEF RecvData, EarlyOut, ReceiveUnfragmented, BufferFragment,
                ReassembleFragments, DispatchAckQueue, BeginPoll, EndPoll
  <2> QED
    BY <2>1, OthersStutter
<1> QED
  BY <1>1, <1>2, <1>3, <1>4, <1>5 DEF Next, Sender, Receiver

\* The two RUDPLinks, their threads and a network that loses, duplicates and
\* reorders together behave as the ordered channel that
\* ZNode::sendReliableOrdered promises.
THEOREM LinkImplementsOrderedChannel == Spec => ImplementsOrderedChannel
<1>1. IInv /\ IInv' /\ [Next]_vars => [Channel!Next]_(Channel!channelVars)
  BY NextRefines
<1> QED
  BY <1>1, InitRefines, Invariance, PTL DEF Spec, ImplementsOrderedChannel, Channel!Spec
=============================================================================
