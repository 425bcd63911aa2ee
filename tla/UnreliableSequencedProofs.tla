--------------------- MODULE UnreliableSequencedProofs ---------------------
EXTENDS UnreliableSequenced, FragmentationProofs

-----------------------------------------------------------------------------
\* The inductive invariant.

\* Every packet anywhere was sent as it is.
PacketsSent ==
    /\ \A p \in net : IsSent(p)
    /\ \A p \in fragments : IsSent(p)
    /\ \A p \in arrived : IsSent(p)

\* The message at place i of the queue.
Queued(i) == MessageOf(recvQueue[i].body)

\* The message the receive thread took to be the newest so far: the last it
\* queued, which the game thread may have taken since.
Front == IF recvQueue = <<>> THEN Newest ELSE Queued(Len(recvQueue))

\* What is queued are whole messages, each newer than the one before it and
\* than what was handed over.
InSequence ==
    /\ Newest \in 0 .. Len(sent)
    /\ Newest # 0 => delivered # <<>> /\ delivered[Len(delivered)].body = Body(Newest)
    /\ \A i \in 1 .. Len(recvQueue) :
          /\ Queued(i) \in 1 .. Len(sent)
          /\ IsMessage(recvQueue[i], Queued(i))
          /\ Newest < Queued(i)
    /\ \A i, j \in 1 .. Len(recvQueue) : i < j => Queued(i) < Queued(j)

\* The counter is where it started, or right after the newest message.
CounterAtFront ==
    recvSeq = IF Front = 0 THEN firstRecvSeq
              ELSE Add(FirstSeq, sent[Front].start + sent[Front].n)

\* What arrived of messages newer than that is in the buffer, unless the
\* first value of the counter hid it.
ArrivedIsBuffered ==
    \A p \in arrived : p.msg > Front /\ isSequenceNewer(p.seq, firstRecvSeq) => p \in fragments

\* No such message is complete.
NoneIsComplete ==
    \A m \in 1 .. Len(sent) :
        m > Front => \E k \in 1 .. sent[m].n : Fragment(m, k) \notin fragments

IInv ==
    /\ TypeOK /\ Layout /\ PacketsSent
    /\ InSequence /\ CounterAtFront /\ ArrivedIsBuffered /\ NoneIsComplete

USE DEF SeqNum, SeqMod

-----------------------------------------------------------------------------
\* Messages, their numbers, and the newest.

\* A message says which one it is.
LEMMA MessageOfBody ==
    ASSUME Layout, NEW m \in 1 .. Len(sent)
    PROVE  MessageOf(Body(m)) = m
<1>1. sent[m] \in [start : Nat, n : Nat] /\ sent[m].n > 0
  BY ElementOfSeq DEF Layout
<1>2. 1 \in 1 .. sent[m].n
  BY <1>1
<1> QED
  BY <1>2 DEF MessageOf, Body

\* A fragment that was sent is the one its fields say.
LEMMA SentIsFragment ==
    ASSUME NEW p, IsSent(p)
    PROVE  /\ p.msg \in 1 .. Len(sent) /\ p.part \in 1 .. sent[p.msg].n
           /\ p = Fragment(p.msg, p.part)
<1>1. PICK m \in 1 .. Len(sent) : \E k \in 1 .. sent[m].n : p = Fragment(m, k)
  BY DEF IsSent
<1>2. PICK k \in 1 .. sent[m].n : p = Fragment(m, k)
  BY <1>1
<1>3. p.msg = m /\ p.part = k
  BY <1>2 DEF Fragment
<1> QED
  BY <1>2, <1>3

\* The number after a message, in the window.
LEMMA EndOfMessage ==
    ASSUME Layout, NEW m \in 1 .. Len(sent)
    PROVE  /\ sent[m].start \in Nat /\ sent[m].n \in Nat \ {0}
           /\ sent[m].start + sent[m].n \in 0 .. HalfRange
           /\ sent[m].start + sent[m].n < SeqMod
           /\ sent[m].start \in 0 .. SeqMod - 1 /\ sent[m].n \in 0 .. SeqMod - 1
<1>1. sent[m] \in [start : Nat, n : Nat] /\ sent[m].n > 0
  BY ElementOfSeq DEF Layout
<1>2. 1 \in 1 .. sent[m].n
  BY <1>1
<1>3. sent[m].start + sent[m].n <= SentPackets /\ SentPackets \in 0 .. MaxPackets
  BY <1>2, PositionBounds
<1>4. PICK a, n, total, size, half \in Nat :
         /\ a = sent[m].start /\ n = sent[m].n /\ total = SentPackets
         /\ size = SeqMod /\ half = HalfRange
  <2>1. SeqMod \in Nat /\ HalfRange \in Nat
    BY HalfRangeAssumption
  <2>2. SentPackets \in Nat
    BY <1>3, FragmentationAssumption
  <2> HIDE DEF SeqMod
  <2> QED
    BY <1>1, <2>1, <2>2
<1>5. n > 0 /\ a + n <= total /\ total <= half /\ half < size
  BY <1>1, <1>3, <1>4, FragmentationAssumption, HalfRangeAssumption
<1>6. a + n \in 0 .. half /\ a + n < size /\ a \in 0 .. size - 1 /\ n \in 0 .. size - 1
  BY <1>5
<1> QED
  BY <1>4, <1>5, <1>6

\* Messages later in the sequence space are later messages.
LEMMA LaterMessage ==
    ASSUME Layout, NEW m \in 1 .. Len(sent), NEW k \in 1 .. sent[m].n, NEW m2 \in 1 .. Len(sent)
    PROVE  sent[m].start + k - 1 >= sent[m2].start + sent[m2].n <=> m > m2
<1>1. /\ sent[m].start \in Nat /\ sent[m].n \in Nat \ {0}
      /\ sent[m2].start \in Nat /\ sent[m2].n \in Nat \ {0}
  BY EndOfMessage
<1>2. CASE m > m2
  <2>1. sent[m2].start + sent[m2].n <= sent[m].start
    BY <1>2 DEF Layout
  <2> QED
    BY <1>1, <1>2, <2>1
<1>3. CASE m = m2
  BY <1>1, <1>3
<1>4. CASE m < m2
  <2>1. sent[m].start + sent[m].n <= sent[m2].start
    BY <1>4 DEF Layout
  <2>2. PICK a, n, a2, n2 \in Nat :
           a = sent[m].start /\ n = sent[m].n /\ a2 = sent[m2].start /\ n2 = sent[m2].n
    BY <1>1
  <2>3. k \in 1 .. n /\ a + n <= a2 /\ n2 >= 1
    BY <1>1, <2>1, <2>2
  <2>4. ~(a + k - 1 >= a2 + n2)
    BY <2>3
  <2>5. ~(m > m2)
    BY <1>4
  <2> QED
    BY <2>2, <2>4, <2>5
<1> QED
  BY <1>2, <1>3, <1>4

\* The newest message is one that was sent.
LEMMA FrontIsSent ==
    ASSUME TypeOK, InSequence
    PROVE  Front \in 0 .. Len(sent) /\ Newest <= Front
<1>1. CASE recvQueue = <<>>
  BY <1>1 DEF Front, InSequence, TypeOK
<1>2. CASE recvQueue # <<>>
  <2>1. recvQueue \in Seq(Entry) /\ Len(sent) \in Nat
    BY DEF TypeOK
  <2>2. Len(recvQueue) \in 1 .. Len(recvQueue)
    BY <1>2, <2>1
  <2>3. /\ Queued(Len(recvQueue)) \in 1 .. Len(sent)
        /\ Newest < Queued(Len(recvQueue))
        /\ Newest \in 0 .. Len(sent)
    BY <2>2 DEF InSequence
  <2> QED
    BY <1>2, <2>1, <2>3 DEF Front
<1> QED
  BY <1>1, <1>2

\* Once a message was queued, the receiver's comparison tells the fragments of
\* newer messages from the others.
LEMMA NewerThanFront ==
    ASSUME IInv, Front # 0, NEW m \in 1 .. Len(sent), NEW k \in 1 .. sent[m].n
    PROVE  isSequenceNewer(Fragment(m, k).seq, recvSeq) <=> m > Front
<1> USE DEF IInv
<1>1. Front \in 1 .. Len(sent)
  BY FrontIsSent DEF TypeOK
<1>2. recvSeq = Add(FirstSeq, sent[Front].start + sent[Front].n)
  BY DEF CounterAtFront
<1>3. sent[Front].start + sent[Front].n \in 0 .. HalfRange
  BY <1>1, EndOfMessage
<1>4. sent[m].start + k - 1 \in 0 .. HalfRange - 1
  BY PositionBounds
<1>5. isSequenceNewer(Fragment(m, k).seq, recvSeq)
         <=> sent[m].start + k - 1 >= sent[Front].start + sent[Front].n
  BY <1>2, <1>3, <1>4, NewerIsLater DEF Fragment
<1> QED
  BY <1>1, <1>5, LaterMessage

\* A packet the receiver does not drop belongs to a newer message than the
\* newest so far.
LEMMA TakenIsNewer ==
    ASSUME IInv, NEW m \in 1 .. Len(sent), NEW k \in 1 .. sent[m].n,
           isSequenceNewer(Fragment(m, k).seq, recvSeq)
    PROVE  m > Front
<1>1. CASE Front = 0
  BY <1>1
<1>2. CASE Front # 0
  BY <1>2, NewerThanFront
<1> QED
  BY <1>1, <1>2

-----------------------------------------------------------------------------
\* The invariant holds initially.
LEMMA InitIInv == Init => IInv
<1> SUFFICES ASSUME Init PROVE IInv
  OBVIOUS
<1>1. FirstSeq \in SeqNum /\ MaxPackets \in Nat /\ firstRecvSeq \in SeqNum
  BY FragmentationAssumption, FirstRecvSeqsAssumption DEF Init
<1>2. TypeOK
  <2>1. /\ sendSeq \in SeqNum /\ recvSeq \in SeqNum
        /\ net \in SUBSET Packet /\ fragments \in SUBSET Packet /\ arrived \in SUBSET Packet
    BY <1>1 DEF Init
  <2>2. /\ sent \in Seq([start : Nat, n : Nat]) /\ recvQueue \in Seq(Entry)
        /\ delivered \in Seq([head : Nat, body : Seq(Nat \X Nat)])
    BY EmptySeq DEF Init
  <2> QED
    BY <1>1, <2>1, <2>2 DEF TypeOK
<1>3. Add(FirstSeq, 0) = FirstSeq
  BY <1>1, HalfRangeAssumption DEF Add
<1>4. Layout
  <2>1. sent \in Seq([start : Nat, n : Nat]) /\ Len(sent) = 0
    BY <1>2 DEF Init, TypeOK
  <2> QED
    BY <1>1, <1>3, <2>1 DEF Init, Layout, SentPackets
<1>5. PacketsSent /\ ArrivedIsBuffered
  BY DEF Init, PacketsSent, ArrivedIsBuffered
<1>6. Newest = 0 /\ Front = 0
  BY DEF Init, Newest, Front
<1>7. InSequence
  <2>1. Len(sent) = 0 /\ Len(recvQueue) = 0
    BY DEF Init
  <2> QED
    BY <1>6, <2>1 DEF InSequence
<1>8. CounterAtFront /\ NoneIsComplete
  <2>1. Len(sent) = 0
    BY DEF Init
  <2> QED
    BY <1>6, <2>1 DEF Init, CounterAtFront, NoneIsComplete
<1> QED
  BY <1>2, <1>4, <1>5, <1>7, <1>8 DEF IInv

-----------------------------------------------------------------------------
\* Receiving.

\* A packet that arrives was sent, and is the fragment its fields say.
LEMMA ArrivingIsFragment ==
    ASSUME IInv, NEW p, RecvData(p)
    PROVE  /\ p \in Packet /\ IsSent(p)
           /\ p.msg \in 1 .. Len(sent) /\ p.part \in 1 .. sent[p.msg].n
           /\ p = Fragment(p.msg, p.part)
<1>1. p \in net
  BY DEF RecvData
<1>2. p \in Packet /\ IsSent(p)
  BY <1>1 DEF IInv, TypeOK, PacketsSent
<1> QED
  BY <1>2, SentIsFragment

\* A packet that arrives leaves types and packets as they are, if the buffer
\* takes nothing else.
LEMMA ArrivalKeepsPackets ==
    ASSUME IInv, NEW p, RecvData(p), fragments' \subseteq fragments \cup {p}
    PROVE  /\ Layout' /\ PacketsSent'
           /\ net' \in SUBSET Packet /\ fragments' \in SUBSET Packet /\ arrived' \in SUBSET Packet
<1>1. p \in Packet /\ IsSent(p)
  BY ArrivingIsFragment
<1>2. /\ UNCHANGED <<sendSeq, sent>>
      /\ net' \subseteq net /\ arrived' = arrived \cup {p}
  BY DEF RecvData, senderVars
<1>3. Layout' /\ \A q : IsSent(q) => IsSent(q)'
  BY <1>2, SentUnchanged DEF IInv
<1>4. PacketsSent'
  BY <1>1, <1>2, <1>3 DEF IInv, PacketsSent
<1> QED
  BY <1>1, <1>2, <1>3, <1>4 DEF IInv, TypeOK

\* Without a message for the queue, what is in it stays in sequence.
LEMMA QueueUnchanged ==
    ASSUME InSequence, UNCHANGED <<sendSeq, sent, recvQueue, delivered>>
    PROVE  InSequence' /\ Front' = Front /\ Newest' = Newest
<1>1. Newest' = Newest
  BY DEF Newest
<1>2. Front' = Front /\ \A i : Queued(i)' = Queued(i)
  BY <1>1 DEF Front, Queued
<1>3. \A m : Body(m)' = Body(m)
  BY DEF Body
<1>4. \A e, m : IsMessage(e, m) => IsMessage(e, m)'
  BY <1>3 DEF IsMessage
<1> QED
  BY <1>1, <1>2, <1>3, <1>4 DEF InSequence

\* A packet the receiver drops belongs to no newer message, unless it was the
\* first value of the counter that hid it.
LEMMA ReceiveOlderIInv == ASSUME NEW p PROVE IInv /\ ReceiveOlder(p) => IInv'
<1> SUFFICES ASSUME IInv, ReceiveOlder(p) PROVE IInv'
  OBVIOUS
<1>1. /\ RecvData(p) /\ ~isSequenceNewer(p.seq, recvSeq)
      /\ UNCHANGED <<sendSeq, sent, fragments, recvSeq, recvQueue, firstRecvSeq, delivered>>
      /\ arrived' = arrived \cup {p}
  BY DEF ReceiveOlder, RecvData, senderVars
<1>2. /\ Layout' /\ PacketsSent'
      /\ net' \in SUBSET Packet /\ fragments' \in SUBSET Packet /\ arrived' \in SUBSET Packet
  BY <1>1, ArrivalKeepsPackets
<1>3. InSequence' /\ Front' = Front
  BY <1>1, QueueUnchanged DEF IInv
<1>4. TypeOK'
  BY <1>1, <1>2 DEF IInv, TypeOK
<1>5. CounterAtFront'
  BY <1>1, <1>3 DEF IInv, CounterAtFront
<1>6. NoneIsComplete'
  BY <1>1, <1>3 DEF IInv, NoneIsComplete, Fragment
<1>7. ~(p.msg > Front /\ isSequenceNewer(p.seq, firstRecvSeq))
  <2>1. CASE Front = 0
    BY <1>1, <2>1 DEF IInv, CounterAtFront
  <2>2. CASE Front # 0
    BY <1>1, <2>2, ArrivingIsFragment, NewerThanFront
  <2> QED
    BY <2>1, <2>2
<1>8. ArrivedIsBuffered'
  BY <1>1, <1>3, <1>7 DEF IInv, ArrivedIsBuffered
<1> QED
  BY <1>2, <1>3, <1>4, <1>5, <1>6, <1>8 DEF IInv

\* A newer message put in the queue is the newest, and all stay in sequence.
LEMMA QueueNewest ==
    ASSUME IInv, NEW m \in 1 .. Len(sent), m > Front, NEW e \in Entry, IsMessage(e, m),
           recvQueue' = Append(recvQueue, e), UNCHANGED <<sendSeq, sent, delivered>>
    PROVE  recvQueue' \in Seq(Entry) /\ Front' = m /\ InSequence'
<1>1. recvQueue \in Seq(Entry) /\ Len(recvQueue) \in Nat /\ Len(sent) \in Nat
  BY DEF IInv, TypeOK
<1>2. PICK len \in Nat : len = Len(recvQueue)
  BY <1>1
<1>3. /\ recvQueue' \in Seq(Entry) /\ recvQueue' # <<>>
      /\ Len(recvQueue') = len + 1
      /\ recvQueue'[len + 1] = e
      /\ \A i \in 1 .. len : recvQueue'[i] = recvQueue[i]
  BY <1>1, <1>2, AppendProperties
<1>4. Newest' = Newest /\ Newest <= Front /\ Newest \in Nat /\ Front \in Nat
  <2>1. Newest' = Newest
    BY DEF Newest
  <2>2. Front \in 0 .. Len(sent) /\ Newest <= Front /\ Newest \in 0 .. Len(sent)
    BY FrontIsSent DEF IInv, InSequence
  <2> QED
    BY <2>1, <2>2
<1>5. /\ Queued(len + 1)' = m
      /\ \A i \in 1 .. len : Queued(i)' = Queued(i)
  BY <1>3, MessageOfBody DEF IInv, IsMessage, Queued
<1>6. Front' = m
  BY <1>3, <1>5 DEF Front
<1>7. \A i \in 1 .. len : Queued(i) <= Front
  <2> TAKE i \in 1 .. len
  <2>1. Front = Queued(len) /\ len \in 1 .. len
    BY <1>2 DEF Front
  <2>2. Queued(i) \in Nat /\ Queued(len) \in Nat /\ (i < len => Queued(i) < Queued(len))
    BY <1>2, <2>1 DEF IInv, InSequence
  <2>3. i = len \/ i < len
    OBVIOUS
  <2> QED
    BY <2>1, <2>2, <2>3
<1>8. \A i : Body(i)' = Body(i)
  BY DEF Body
<1>9. \A i \in 1 .. len + 1 : i \in 1 .. len \/ i = len + 1
  OBVIOUS
<1>10. \A i \in 1 .. len + 1 :
         /\ Queued(i)' \in 1 .. Len(sent)
         /\ IsMessage(recvQueue[i], Queued(i))'
         /\ Newest < Queued(i)'
  <2> TAKE i \in 1 .. len + 1
  <2>1. CASE i \in 1 .. len
    <3>1. /\ Queued(i) \in 1 .. Len(sent) /\ Newest < Queued(i)
          /\ IsMessage(recvQueue[i], Queued(i))
      BY <1>2, <2>1 DEF IInv, InSequence
    <3>2. recvQueue'[i] = recvQueue[i] /\ Queued(i)' = Queued(i)
      BY <1>3, <1>5, <2>1
    <3> QED
      BY <1>8, <3>1, <3>2 DEF IsMessage
  <2>2. CASE i = len + 1
    <3>1. recvQueue'[i] = e /\ Queued(i)' = m
      BY <1>3, <1>5, <2>2
    <3>2. Newest < m
      BY <1>4
    <3> QED
      BY <1>8, <3>1, <3>2 DEF IsMessage
  <2> QED
    BY <1>9, <2>1, <2>2
<1>11. \A i, j \in 1 .. len + 1 : i < j => Queued(i)' < Queued(j)'
  <2> TAKE i, j \in 1 .. len + 1
  <2> HAVE i < j
  <2>1. i \in 1 .. len
    OBVIOUS
  <2>2. Queued(i) \in Nat /\ Queued(i) <= Front /\ Queued(i)' = Queued(i)
    BY <1>2, <1>5, <1>7, <2>1 DEF IInv, InSequence
  <2>3. CASE j \in 1 .. len
    BY <1>2, <1>5, <2>1, <2>2, <2>3 DEF IInv, InSequence
  <2>4. CASE j = len + 1
    <3>1. Queued(j)' = m
      BY <1>5, <2>4
    <3> QED
      BY <1>4, <2>2, <3>1
  <2> QED
    BY <1>9, <2>3, <2>4
<1>12. /\ (Newest \in 0 .. Len(sent))'
       /\ (Newest # 0 => delivered # <<>> /\ delivered[Len(delivered)].body = Body(Newest))'
  BY <1>4 DEF IInv, InSequence, Body
<1> QED
  BY <1>3, <1>6, <1>4, <1>10, <1>11, <1>12 DEF InSequence

\* A newer message that is complete moves the counter past it, whatever leaves
\* the buffer of messages that are not newer than it.
LEMMA TakeMessage ==
    ASSUME IInv, NEW p, RecvData(p), isSequenceNewer(p.seq, recvSeq),
           NEW e \in Entry, IsMessage(e, p.msg), recvQueue' = Append(recvQueue, e),
           recvSeq' = Add(FirstSeq, sent[p.msg].start + sent[p.msg].n),
           fragments' \subseteq fragments \cup {p},
           \A f \in fragments : f.msg > p.msg => f \in fragments'
    PROVE  IInv'
<1>1. PICK m \in 1 .. Len(sent) : m = p.msg
  BY ArrivingIsFragment
<1>2. PICK k \in 1 .. sent[m].n : p = Fragment(m, k)
  BY <1>1, ArrivingIsFragment
<1>3. /\ UNCHANGED <<sendSeq, sent, firstRecvSeq, delivered>>
      /\ arrived' = arrived \cup {p}
  BY DEF RecvData, senderVars
<1>4. m > Front
  BY <1>2, TakenIsNewer
<1>5. recvQueue' \in Seq(Entry) /\ Front' = m /\ InSequence'
  BY <1>1, <1>3, <1>4, QueueNewest
<1>6. /\ Layout' /\ PacketsSent'
      /\ net' \in SUBSET Packet /\ fragments' \in SUBSET Packet /\ arrived' \in SUBSET Packet
  BY ArrivalKeepsPackets
<1>7. recvSeq' \in SeqNum
  <2>1. sent[m].start + sent[m].n \in SeqNum
    BY EndOfMessage, HalfRangeAssumption DEF IInv
  <2> QED
    BY <1>1, <2>1, SeqNumClosed, FragmentationAssumption
<1>8. TypeOK'
  BY <1>3, <1>5, <1>6, <1>7 DEF IInv, TypeOK
<1>9. CounterAtFront'
  BY <1>1, <1>3, <1>4, <1>5 DEF CounterAtFront
<1>10. Front \in Nat /\ m \in Nat /\ Len(sent) \in Nat
  BY FrontIsSent DEF IInv, TypeOK
<1>11. ArrivedIsBuffered'
  <2>1. ASSUME NEW q \in arrived', q.msg > m, isSequenceNewer(q.seq, firstRecvSeq)
        PROVE  q \in fragments'
    <3>1. q.msg \in Nat
      BY <1>6, <2>1 DEF Packet
    <3>2. q # p /\ q \in arrived /\ q.msg > Front
      BY <1>1, <1>3, <1>4, <1>10, <2>1, <3>1
    <3>3. q \in fragments
      BY <2>1, <3>2 DEF IInv, ArrivedIsBuffered
    <3> QED
      BY <1>1, <2>1, <3>3
  <2> QED
    BY <1>3, <1>5, <2>1 DEF ArrivedIsBuffered
<1>12. NoneIsComplete'
  <2>1. ASSUME NEW m2 \in 1 .. Len(sent), m2 > m
        PROVE  \E k2 \in 1 .. sent[m2].n : Fragment(m2, k2) \notin fragments'
    <3>1. m2 > Front
      BY <1>4, <1>10, <2>1
    <3>2. PICK k2 \in 1 .. sent[m2].n : Fragment(m2, k2) \notin fragments
      BY <3>1 DEF IInv, NoneIsComplete
    <3>3. Fragment(m2, k2).msg = m2
      BY DEF Fragment
    <3>4. Fragment(m2, k2) # p
      BY <1>1, <1>10, <2>1, <3>3
    <3> QED
      BY <3>2, <3>4
  <2>2. \A m2, k2 : Fragment(m2, k2)' = Fragment(m2, k2)
    BY <1>3 DEF Fragment
  <2> QED
    BY <1>3, <1>5, <2>1, <2>2 DEF NoneIsComplete
<1> QED
  BY <1>5, <1>6, <1>8, <1>9, <1>11, <1>12 DEF IInv

\* A message that was not cut.
LEMMA ReceiveUnfragmentedIInv == ASSUME NEW p PROVE IInv /\ ReceiveUnfragmented(p) => IInv'
<1> SUFFICES ASSUME IInv, ReceiveUnfragmented(p) PROVE IInv'
  OBVIOUS
<1>1. /\ RecvData(p) /\ isSequenceNewer(p.seq, recvSeq)
      /\ p.first /\ p.last
      /\ recvSeq' = Add(p.seq, 1)
      /\ fragments' = fragments
  BY DEF ReceiveUnfragmented
<1>2. PICK e : e = createNormalPacket(p) /\ recvQueue' = Append(recvQueue, e)
  BY DEF ReceiveUnfragmented
<1>3. /\ p \in Packet /\ IsSent(p)
      /\ p.msg \in 1 .. Len(sent) /\ p.part \in 1 .. sent[p.msg].n
      /\ p = Fragment(p.msg, p.part)
  BY <1>1, ArrivingIsFragment
<1>4. IsMessage(e, p.msg)
  BY <1>1, <1>2, <1>3, UnfragmentedIsMessage DEF IInv
<1>5. e \in Entry
  <2>1. e = [seq |-> e.seq, n |-> e.n, head |-> e.head, body |-> e.body] /\ e.head \in Nat
    BY <1>2, <1>3 DEF createNormalPacket, Packet
  <2> QED
    BY <1>3, <1>4, <2>1, MessageIsEntry DEF IInv
<1>6. recvSeq' = Add(FirstSeq, sent[p.msg].start + sent[p.msg].n)
  <2>1. p.seq = Add(FirstSeq, sent[p.msg].start) /\ sent[p.msg].n = 1
    BY <1>2, <1>4 DEF IsMessage, createNormalPacket
  <2>2. /\ sent[p.msg].start \in 0 .. SeqMod - 1 /\ 1 \in 0 .. SeqMod - 1
        /\ sent[p.msg].start + 1 < SeqMod
    BY <1>3, <2>1, EndOfMessage DEF IInv
  <2> QED
    BY <1>1, <2>1, <2>2, AddAdd
<1> QED
  BY <1>1, <1>2, <1>4, <1>5, <1>6, TakeMessage

\* A fragment of a later message stays in the buffer when a message leaves it.
LEMMA LaterStaysBuffered ==
    ASSUME Layout, NEW m \in 1 .. Len(sent), NEW m2 \in 1 .. Len(sent), m2 > m,
           NEW k2 \in 1 .. sent[m2].n
    PROVE  /\ Sub(Fragment(m2, k2).seq, Add(FirstSeq, sent[m].start)) >= sent[m].n
           /\ isSequenceNewer(Fragment(m2, k2).seq, Add(FirstSeq, sent[m].start + sent[m].n))
<1> DEFINE pos == sent[m2].start + k2 - 1
<1>1. /\ pos \in 0 .. HalfRange - 1 /\ pos \in 0 .. SeqMod - 1
      /\ sent[m].start \in Nat /\ sent[m].n \in Nat /\ sent[m].start \in 0 .. SeqMod - 1
      /\ sent[m].start + sent[m].n \in 0 .. HalfRange
  BY PositionBounds, EndOfMessage
<1>2. pos >= sent[m].start + sent[m].n
  BY LaterMessage
<1> HIDE DEF pos
<1>3. Fragment(m2, k2).seq = Add(FirstSeq, pos)
  BY DEF Fragment, pos
<1>4. Sub(Add(FirstSeq, pos), Add(FirstSeq, sent[m].start)) = pos - sent[m].start
  BY <1>1, <1>2, SubDistance
<1>5. isSequenceNewer(Add(FirstSeq, pos), Add(FirstSeq, sent[m].start + sent[m].n))
  BY <1>1, <1>2, NewerIsLater
<1> QED
  BY <1>1, <1>2, <1>3, <1>4, <1>5

\* A message that its last missing fragment completes.
LEMMA ReassembleFragmentsIInv == ASSUME NEW p PROVE IInv /\ ReassembleFragments(p) => IInv'
<1> SUFFICES ASSUME IInv, ReassembleFragments(p) PROVE IInv'
  OBVIOUS
<1>1. PICK frags : frags = fragments \cup {p}
  OBVIOUS
<1>2. PICK back, ahead \in SeqNum :
        /\ FirstFragmentBack(frags, p.seq, back)
        /\ LastFragmentAhead(frags, p.seq, ahead)
        /\ recvQueue' = Append(recvQueue, defragmentPacket(frags, Sub(p.seq, back), back + ahead + 1))
        /\ recvSeq' = Add(p.seq, ahead + 1)
        /\ fragments' = {f \in frags : /\ Sub(f.seq, Sub(p.seq, back)) >= back + ahead + 1
                                       /\ isSequenceNewer(f.seq, recvSeq')}
  BY <1>1 DEF ReassembleFragments
<1>3. RecvData(p) /\ isSequenceNewer(p.seq, recvSeq)
  BY DEF ReassembleFragments
<1>4. PICK e : e = defragmentPacket(frags, Sub(p.seq, back), back + ahead + 1)
  OBVIOUS
<1>5. PICK m \in 1 .. Len(sent) : m = p.msg
  BY <1>3, ArrivingIsFragment
<1>6. PICK k \in 1 .. sent[m].n : p = Fragment(m, k) /\ IsSent(p) /\ p \in Packet
  BY <1>3, <1>5, ArrivingIsFragment
<1>7. (\A f \in frags : IsSent(f)) /\ frags \subseteq Packet /\ frags # {}
  BY <1>1, <1>6 DEF IInv, PacketsSent, TypeOK
<1>8. /\ back = k - 1 /\ back + ahead + 1 = sent[m].n
      /\ Sub(p.seq, back) = Add(FirstSeq, sent[m].start)
      /\ IsMessage(e, m)
  <2>1. /\ Layout
        /\ FirstFragmentBack(frags, Fragment(m, k).seq, back)
        /\ LastFragmentAhead(frags, Fragment(m, k).seq, ahead)
    BY <1>2, <1>6 DEF IInv
  <2>2. \A f \in frags : IsSent(f)
    BY <1>7
  <2> HIDE DEF SeqNum, SeqMod
  <2>3. FoundMessage(frags, m, k, back, ahead)
    BY <2>1, <2>2, ReassembledIsMessage, Zenon
  <2> QED
    BY <1>4, <1>6, <2>3 DEF FoundMessage
<1>9. e \in Entry
  <2>1. LowestFragment(frags) \in Packet
    BY <1>7, LowestFragmentExists
  <2>2. e = [seq |-> e.seq, n |-> e.n, head |-> e.head, body |-> e.body] /\ e.head \in Nat
    BY <1>4, <2>1 DEF defragmentPacket, Packet
  <2> QED
    BY <1>8, <2>2, MessageIsEntry DEF IInv
<1>10. recvSeq' = Add(FirstSeq, sent[m].start + sent[m].n)
  <2>1. /\ sent[m].start \in Nat /\ sent[m].n \in Nat
        /\ sent[m].start + sent[m].n < SeqMod
        /\ sent[m].start + k - 1 \in 0 .. SeqMod - 1
    BY EndOfMessage, PositionBounds DEF IInv
  <2>2. p.seq = Add(FirstSeq, sent[m].start + k - 1)
    BY <1>6 DEF Fragment
  <2>3. k \in Nat /\ k >= 1 /\ k <= sent[m].n /\ ahead + 1 = sent[m].n - k + 1
    BY <1>2, <1>8, <2>1, HalfRangeAssumption
  <2>4. /\ ahead + 1 \in 0 .. SeqMod - 1
        /\ (sent[m].start + k - 1) + (ahead + 1) = sent[m].start + sent[m].n
    <3>1. PICK a, n, size \in Nat : a = sent[m].start /\ n = sent[m].n /\ size = SeqMod
      BY <2>1, HalfRangeAssumption
    <3>2. ahead \in Nat /\ k \in Nat
      BY <1>2, <2>3
    <3>3. k >= 1 /\ k <= n /\ ahead + 1 = n - k + 1 /\ a + n < size
      BY <2>1, <2>3, <3>1
    <3>4. ahead + 1 \in 0 .. size - 1 /\ (a + k - 1) + (ahead + 1) = a + n
      BY <3>2, <3>3
    <3> QED
      BY <3>1, <3>4
  <2> QED
    BY <1>2, <2>1, <2>2, <2>4, AddAdd
<1>11. \A f \in fragments : f.msg > m => f \in fragments'
  <2> TAKE f \in fragments
  <2> HAVE f.msg > m
  <2>1. f \in frags /\ IsSent(f)
    BY <1>1, <1>7
  <2>2. /\ f.msg \in 1 .. Len(sent) /\ f.part \in 1 .. sent[f.msg].n
        /\ f = Fragment(f.msg, f.part)
    BY <2>1, SentIsFragment
  <2>3. /\ Sub(f.seq, Add(FirstSeq, sent[m].start)) >= sent[m].n
        /\ isSequenceNewer(f.seq, Add(FirstSeq, sent[m].start + sent[m].n))
    BY <2>2, LaterStaysBuffered DEF IInv
  <2> QED
    BY <1>2, <1>8, <1>10, <2>1, <2>3
<1>12. fragments' \subseteq fragments \cup {p}
  BY <1>1, <1>2
<1> QED
  BY <1>2, <1>3, <1>4, <1>5, <1>8, <1>9, <1>10, <1>11, <1>12, TakeMessage

\* The search finds the first and the last fragment of a complete message.
LEMMA CompleteIsFound ==
    ASSUME Layout, NEW frags, NEW m \in 1 .. Len(sent), NEW k \in 1 .. sent[m].n,
           \A i \in 1 .. sent[m].n : Fragment(m, i) \in frags
    PROVE  \E back, ahead \in SeqNum :
              /\ FirstFragmentBack(frags, Fragment(m, k).seq, back)
              /\ LastFragmentAhead(frags, Fragment(m, k).seq, ahead)
<1>1. PICK a \in Nat, n \in Nat \ {0}, size \in Nat :
        a = sent[m].start /\ n = sent[m].n /\ size = SeqMod
  <2>1. sent[m].start \in Nat /\ sent[m].n \in Nat \ {0}
    BY EndOfMessage
  <2>2. SeqMod \in Nat
    BY HalfRangeAssumption
  <2> HIDE DEF SeqMod
  <2> QED
    BY <2>1, <2>2
<1>2. \A i \in 1 .. n : /\ a + i - 1 \in 0 .. size - 1
                        /\ Fragment(m, i).seq = Add(FirstSeq, a + i - 1)
                        /\ Fragment(m, i).first = (i = 1)
                        /\ Fragment(m, i).last = (i = n)
  BY <1>1, PositionBounds DEF Fragment
<1>3. k \in Nat /\ k >= 1 /\ k <= n
  BY <1>1
<1>4. /\ k - 1 \in 0 .. size - 1 /\ n - k \in 0 .. size - 1
      /\ \A i \in 0 .. k - 1 : k - i \in 1 .. n /\ (a + k - 1) - i = a + (k - i) - 1
                               /\ i \in 0 .. a + k - 1
      /\ \A i \in 0 .. n - k : k + i \in 1 .. n /\ (a + k - 1) + i = a + (k + i) - 1
                               /\ i \in 0 .. size - 1 /\ (a + k - 1) + i < size
  <2>1. n \in 1 .. n
    OBVIOUS
  <2>2. a + n - 1 \in 0 .. size - 1
    BY <1>2, <2>1
  <2> QED
    BY <1>3, <2>2
<1>5. \A i \in 0 .. k - 1 : Fragment(m, k - i).seq = Sub(Fragment(m, k).seq, i)
  <2> TAKE i \in 0 .. k - 1
  <2>1. Sub(Add(FirstSeq, a + k - 1), i) = Add(FirstSeq, (a + k - 1) - i)
    BY <1>1, <1>2, <1>3, <1>4, SubAdd
  <2> QED
    BY <1>2, <1>3, <1>4, <2>1
<1>6. \A i \in 0 .. n - k : Fragment(m, k + i).seq = Add(Fragment(m, k).seq, i)
  <2> TAKE i \in 0 .. n - k
  <2>1. Add(Add(FirstSeq, a + k - 1), i) = Add(FirstSeq, (a + k - 1) + i)
    BY <1>1, <1>2, <1>3, <1>4, AddAdd
  <2> QED
    BY <1>2, <1>3, <1>4, <2>1
<1>7. FirstFragmentBack(frags, Fragment(m, k).seq, k - 1)
  <2>1. Fragment(m, 1) \in frags /\ Fragment(m, 1).first
        /\ Fragment(m, 1).seq = Sub(Fragment(m, k).seq, k - 1)
    <3>1. k - 1 \in 0 .. k - 1 /\ k - (k - 1) = 1 /\ 1 \in 1 .. n
      BY <1>3
    <3> QED
      BY <1>1, <1>2, <1>5, <3>1
  <2>2. \A i \in 0 .. (k - 1) - 1 : Fragment(m, k - i) \in frags /\ ~Fragment(m, k - i).first
                                   /\ Fragment(m, k - i).seq = Sub(Fragment(m, k).seq, i)
    <3> TAKE i \in 0 .. (k - 1) - 1
    <3>1. i \in 0 .. k - 1 /\ k - i \in 1 .. n /\ k - i # 1
      BY <1>3
    <3> QED
      BY <1>1, <1>2, <1>5, <3>1
  <2> QED
    BY <2>1, <2>2 DEF FirstFragmentBack
<1>8. LastFragmentAhead(frags, Fragment(m, k).seq, n - k)
  <2>1. Fragment(m, n) \in frags /\ Fragment(m, n).last
        /\ Fragment(m, n).seq = Add(Fragment(m, k).seq, n - k)
    <3>1. n - k \in 0 .. n - k /\ k + (n - k) = n /\ n \in 1 .. n
      BY <1>3
    <3> QED
      BY <1>1, <1>2, <1>6, <3>1
  <2>2. \A i \in 0 .. (n - k) - 1 : Fragment(m, k + i) \in frags /\ ~Fragment(m, k + i).last
                                   /\ Fragment(m, k + i).seq = Add(Fragment(m, k).seq, i)
    <3> TAKE i \in 0 .. (n - k) - 1
    <3>1. i \in 0 .. n - k /\ k + i \in 1 .. n /\ k + i # n
      BY <1>3
    <3> QED
      BY <1>1, <1>2, <1>6, <3>1
  <2> QED
    BY <2>1, <2>2 DEF LastFragmentAhead
<1> QED
  BY <1>1, <1>4, <1>7, <1>8

\* A fragment of a message of which more is missing.
LEMMA BufferFragmentIInv == ASSUME NEW p PROVE IInv /\ BufferFragment(p) => IInv'
<1> SUFFICES ASSUME IInv, BufferFragment(p) PROVE IInv'
  OBVIOUS
<1>1. /\ RecvData(p) /\ isSequenceNewer(p.seq, recvSeq)
      /\ UNCHANGED <<sendSeq, sent, recvSeq, recvQueue, firstRecvSeq, delivered>>
      /\ arrived' = arrived \cup {p}
  BY DEF BufferFragment, RecvData, senderVars
<1>2. PICK m \in 1 .. Len(sent) : m = p.msg
  BY <1>1, ArrivingIsFragment
<1>3. PICK k \in 1 .. sent[m].n : p = Fragment(m, k)
  BY <1>1, <1>2, ArrivingIsFragment
<1>4. /\ fragments' = fragments \cup {p}
      /\ \/ fragments' = fragments
         \/ ~\E back, ahead \in SeqNum :
               FirstFragmentBack(fragments', p.seq, back) /\ LastFragmentAhead(fragments', p.seq, ahead)
  <2>1. CASE \E f \in fragments : f.seq = p.seq
    <3>1. PICK f \in fragments : f.seq = p.seq
      BY <2>1
    <3>2. IsSent(f) /\ f.seq = Add(FirstSeq, sent[m].start + k - 1)
      BY <1>3, <3>1 DEF IInv, PacketsSent, Fragment
    <3>3. f = p
      BY <1>3, <3>2, NumberIdentifies DEF IInv
    <3>4. fragments' = fragments
      BY <2>1 DEF BufferFragment
    <3> QED
      BY <3>3, <3>4
  <2>2. CASE ~\E f \in fragments : f.seq = p.seq
    BY <2>2 DEF BufferFragment
  <2> QED
    BY <2>1, <2>2
<1>5. /\ Layout' /\ PacketsSent'
      /\ net' \in SUBSET Packet /\ fragments' \in SUBSET Packet /\ arrived' \in SUBSET Packet
  BY <1>1, <1>4, ArrivalKeepsPackets
<1>6. InSequence' /\ Front' = Front
  BY <1>1, QueueUnchanged DEF IInv
<1>7. TypeOK'
  BY <1>1, <1>5 DEF IInv, TypeOK
<1>8. CounterAtFront'
  BY <1>1, <1>6 DEF IInv, CounterAtFront
<1>9. ArrivedIsBuffered'
  BY <1>1, <1>4, <1>6 DEF IInv, ArrivedIsBuffered
<1>10. NoneIsComplete'
  <2>1. ASSUME NEW m2 \in 1 .. Len(sent), m2 > Front
        PROVE  \E k2 \in 1 .. sent[m2].n : Fragment(m2, k2) \notin fragments'
    <3>1. PICK k2 \in 1 .. sent[m2].n : Fragment(m2, k2) \notin fragments
      BY <2>1 DEF IInv, NoneIsComplete
    <3>2. CASE m2 # m
      <4>1. Fragment(m2, k2).msg = m2
        BY DEF Fragment
      <4> QED
        BY <1>2, <1>4, <3>1, <3>2, <4>1
    <3>3. CASE m2 = m /\ fragments' = fragments
      BY <3>1, <3>3
    <3>4. CASE m2 = m /\ fragments' # fragments
      <4>1. ~\E back, ahead \in SeqNum :
               /\ FirstFragmentBack(fragments', Fragment(m, k).seq, back)
               /\ LastFragmentAhead(fragments', Fragment(m, k).seq, ahead)
        BY <1>3, <1>4, <3>4
      <4> QED
        BY <3>4, <4>1, CompleteIsFound DEF IInv
    <3> QED
      BY <3>2, <3>3, <3>4
  <2>2. \A m2, k2 : Fragment(m2, k2)' = Fragment(m2, k2)
    BY <1>1 DEF Fragment
  <2> QED
    BY <1>1, <1>6, <2>1, <2>2 DEF NoneIsComplete
<1> QED
  BY <1>5, <1>6, <1>7, <1>8, <1>9, <1>10 DEF IInv

-----------------------------------------------------------------------------
\* The game threads.

\* Handing over the oldest message in the queue makes it the newest handed
\* over, and leaves the newest queued or handed over the same.
LEMMA PollFacts ==
    ASSUME IInv, Poll
    PROVE  /\ recvQueue # <<>> /\ Queued(1) \in 1 .. Len(sent) /\ Newest < Queued(1)
           /\ recvQueue[1].body = Body(Queued(1))
           /\ delivered' \in Seq([head : Nat, body : Seq(Nat \X Nat)])
           /\ delivered' # <<>> /\ Len(delivered') = Len(delivered) + 1
           /\ delivered'[Len(delivered')].body = recvQueue[1].body
           /\ \A i \in 1 .. Len(delivered) : delivered'[i] = delivered[i]
           /\ Newest' = Queued(1)
           /\ recvQueue' \in Seq(Entry) /\ Len(recvQueue') = Len(recvQueue) - 1
           /\ \A i \in 1 .. Len(recvQueue) - 1 : recvQueue'[i] = recvQueue[i + 1]
           /\ Front' = Front
<1>1. recvQueue \in Seq(Entry) /\ recvQueue # <<>>
  BY DEF IInv, TypeOK, Poll
<1>2. PICK len \in Nat : len = Len(recvQueue) /\ 1 \in 1 .. len
  BY <1>1
<1>3. recvQueue' = Tail(recvQueue) /\ Head(recvQueue) = recvQueue[1]
  BY <1>1 DEF Poll
<1>4. /\ recvQueue' \in Seq(Entry) /\ Len(recvQueue') = len - 1
      /\ \A i \in 1 .. len - 1 : recvQueue'[i] = recvQueue[i + 1]
  BY <1>1, <1>2, <1>3, HeadTailProperties
<1>5. recvQueue[1] \in Entry
  BY <1>1, <1>2, ElementOfSeq
<1>6. PICK d \in [head : Nat, body : Seq(Nat \X Nat)] :
        d = [head |-> recvQueue[1].head, body |-> recvQueue[1].body]
  BY <1>5 DEF Entry
<1>7. delivered' = Append(delivered, d) /\ d.body = recvQueue[1].body
  BY <1>3, <1>6 DEF Poll
<1>8. /\ delivered' \in Seq([head : Nat, body : Seq(Nat \X Nat)])
      /\ delivered' # <<>>
      /\ Len(delivered') = Len(delivered) + 1
      /\ delivered'[Len(delivered) + 1] = d
      /\ \A i \in 1 .. Len(delivered) : delivered'[i] = delivered[i]
  <2>1. delivered \in Seq([head : Nat, body : Seq(Nat \X Nat)])
    BY DEF IInv, TypeOK
  <2>2. /\ Append(delivered, d) \in Seq([head : Nat, body : Seq(Nat \X Nat)])
        /\ Len(Append(delivered, d)) = Len(delivered) + 1
        /\ Append(delivered, d)[Len(delivered) + 1] = d
        /\ \A i \in 1 .. Len(delivered) : Append(delivered, d)[i] = delivered[i]
    BY <2>1, AppendProperties
  <2>3. delivered' # <<>>
    <3>1. Len(delivered) \in Nat /\ Len(delivered') = Len(delivered) + 1
      BY <1>7, <2>1, <2>2
    <3> QED
      BY <3>1
  <2> QED
    BY <1>7, <2>2, <2>3
<1>9. /\ Queued(1) \in 1 .. Len(sent) /\ Newest < Queued(1)
      /\ recvQueue[1].body = Body(Queued(1))
  BY <1>2 DEF IInv, InSequence, IsMessage
<1>10. delivered'[Len(delivered')].body = recvQueue[1].body
  BY <1>7, <1>8
<1>11. Newest' = Queued(1)
  BY <1>8, <1>10 DEF Newest, Queued
<1>12. Front' = Front
  <2>1. CASE len = 1
    <3>1. recvQueue' = <<>>
      BY <1>4, <2>1
    <3> QED
      BY <1>1, <1>2, <1>11, <2>1, <3>1 DEF Front
  <2>2. CASE len # 1
    <3>1. recvQueue' # <<>> /\ len - 1 \in 1 .. len - 1 /\ (len - 1) + 1 = len
      BY <1>2, <1>4, <2>2
    <3>2. recvQueue'[len - 1] = recvQueue[len]
      BY <1>4, <3>1
    <3> QED
      BY <1>1, <1>2, <1>4, <3>1, <3>2 DEF Front, Queued
  <2> QED
    BY <2>1, <2>2
<1> QED
  BY <1>1, <1>2, <1>4, <1>8, <1>9, <1>10, <1>11, <1>12

\* What no step of the receive thread changes.
LEMMA BufferUnchanged ==
    ASSUME IInv, UNCHANGED <<sent, fragments, recvSeq, arrived, firstRecvSeq>>, Front' = Front
    PROVE  CounterAtFront' /\ ArrivedIsBuffered' /\ NoneIsComplete'
<1>1. CounterAtFront'
  BY DEF IInv, CounterAtFront
<1>2. ArrivedIsBuffered'
  BY DEF IInv, ArrivedIsBuffered
<1>3. \A m, k : Fragment(m, k)' = Fragment(m, k)
  BY DEF Fragment
<1>4. NoneIsComplete'
  BY <1>3 DEF IInv, NoneIsComplete
<1> QED
  BY <1>1, <1>2, <1>4

\* Polling keeps the invariant.
LEMMA PollIInv == IInv /\ Poll => IInv'
<1> SUFFICES ASSUME IInv, Poll PROVE IInv'
  OBVIOUS
<1>1. UNCHANGED <<sendSeq, sent, net, fragments, recvSeq, arrived, firstRecvSeq>>
  BY DEF Poll, senderVars, recvThreadVars
<1>2. PICK len \in Nat : len = Len(recvQueue) /\ 1 \in 1 .. len
  BY PollFacts DEF IInv, TypeOK
<1>3. /\ Queued(1) \in 1 .. Len(sent)
      /\ delivered' \in Seq([head : Nat, body : Seq(Nat \X Nat)])
      /\ delivered' # <<>>
      /\ delivered'[Len(delivered')].body = Body(Queued(1))
      /\ Newest' = Queued(1)
      /\ recvQueue' \in Seq(Entry) /\ Len(recvQueue') = len - 1
      /\ \A i \in 1 .. len - 1 : recvQueue'[i] = recvQueue[i + 1]
      /\ Front' = Front
  BY <1>2, PollFacts
<1>4. Layout' /\ \A q : IsSent(q) => IsSent(q)'
  BY <1>1, SentUnchanged DEF IInv
<1>5. TypeOK'
  <2>1. recvQueue' \in Seq(Entry) /\ delivered' \in Seq([head : Nat, body : Seq(Nat \X Nat)])
    BY <1>3
  <2> QED
    BY <1>1, <2>1 DEF IInv, TypeOK
<1>6. PacketsSent'
  BY <1>1, <1>4 DEF IInv, PacketsSent
<1>7. \A m : Body(m)' = Body(m)
  BY <1>1 DEF Body
<1>8. InSequence'
  <2>1. \A i \in 1 .. len - 1 : Queued(i)' = Queued(i + 1) /\ i + 1 \in 1 .. len
    BY <1>3 DEF Queued
  <2>2. \A i \in 1 .. len - 1 : /\ Queued(i)' \in 1 .. Len(sent)
                                /\ IsMessage(recvQueue[i], Queued(i))'
                                /\ Queued(1) < Queued(i)'
    <3> TAKE i \in 1 .. len - 1
    <3>1. /\ Queued(i + 1) \in 1 .. Len(sent)
          /\ IsMessage(recvQueue[i + 1], Queued(i + 1))
          /\ Queued(1) < Queued(i + 1)
      <4>1. i + 1 \in 1 .. Len(recvQueue) /\ 1 \in 1 .. Len(recvQueue) /\ 1 < i + 1
        BY <1>2, <2>1
      <4> QED
        BY <4>1 DEF IInv, InSequence
    <3>2. recvQueue'[i] = recvQueue[i + 1] /\ Queued(i)' = Queued(i + 1)
      BY <1>3, <2>1
    <3> QED
      BY <1>1, <1>7, <3>1, <3>2 DEF IsMessage
  <2>3. \A i, j \in 1 .. len - 1 : i < j => Queued(i)' < Queued(j)'
    <3> TAKE i, j \in 1 .. len - 1
    <3> HAVE i < j
    <3>1. i + 1 \in 1 .. len /\ j + 1 \in 1 .. len /\ i + 1 < j + 1
      OBVIOUS
    <3> QED
      BY <1>2, <2>1, <3>1 DEF IInv, InSequence
  <2>4. Newest' \in 0 .. Len(sent)
    BY <1>3
  <2>5. (Newest # 0 => delivered # <<>> /\ delivered[Len(delivered)].body = Body(Newest))'
    BY <1>3, <1>7
  <2> QED
    BY <1>1, <1>3, <2>2, <2>3, <2>4, <2>5 DEF InSequence
<1>9. CounterAtFront' /\ ArrivedIsBuffered' /\ NoneIsComplete'
  BY <1>1, <1>3, BufferUnchanged
<1> QED
  BY <1>4, <1>5, <1>6, <1>8, <1>9 DEF IInv

\* A new message is laid out behind the others, and nothing else changes place.
LEMMA AddToSendQueueIInv == ASSUME NEW n \in FragCounts PROVE IInv /\ AddToSendQueue(n) => IInv'
<1> SUFFICES ASSUME IInv, AddToSendQueue(n) PROVE IInv'
  OBVIOUS
<1>packs. PICK packs : packs = serializeNormalPacket(Len(sent) + 1, n, sendSeq)
  OBVIOUS
<1>1. /\ SentPackets + n <= MaxPackets
      /\ InTransit(net, {packs[k] : k \in 1 .. n}, net')
      /\ sendSeq' = Add(sendSeq, n)
      /\ sent' = Append(sent, [start |-> SentPackets, n |-> n])
      /\ UNCHANGED <<fragments, recvSeq, arrived, recvQueue, firstRecvSeq, delivered>>
  BY <1>packs DEF AddToSendQueue, recvThreadVars
<1>2. /\ Layout' /\ Len(sent') = Len(sent) + 1 /\ sendSeq' \in SeqNum
      /\ \A i \in 1 .. Len(sent) : sent'[i] = sent[i]
      /\ sent'[Len(sent) + 1] = [start |-> SentPackets, n |-> n]
      /\ \A p : IsSent(p) => IsSent(p)'
      /\ \A i \in 1 .. Len(sent) : Body(i)' = Body(i)
      /\ packs \in Seq(Packet) /\ Len(packs) = n
      /\ \A k \in 1 .. n : IsSent(packs[k])'
  BY <1>1, <1>packs, AcceptMessage DEF IInv
<1>3. PICK len \in Nat : len = Len(sent) /\ Len(sent') = len + 1
                         /\ \A i \in 1 .. len : i \in 1 .. len + 1
  BY <1>2 DEF IInv, TypeOK
<1>4. net' \subseteq net \cup {packs[k] : k \in 1 .. n}
  BY <1>1, InTransitPackets
<1>5. TypeOK'
  <2>1. \A k \in 1 .. n : packs[k] \in Packet
    BY <1>2, ElementOfSeq
  <2>2. net' \in SUBSET Packet
    BY <1>4, <2>1 DEF IInv, TypeOK
  <2>3. sent' \in Seq([start : Nat, n : Nat])
    BY <1>2 DEF Layout
  <2> QED
    BY <1>1, <1>2, <2>2, <2>3 DEF IInv, TypeOK
<1>6. PacketsSent'
  BY <1>1, <1>2, <1>4 DEF IInv, PacketsSent
<1>7. Newest' = Newest /\ Front' = Front /\ \A i : Queued(i)' = Queued(i)
  <2>1. Newest' = Newest /\ \A i : Queued(i)' = Queued(i)
    BY <1>1 DEF Newest, Queued
  <2> QED
    BY <1>1, <2>1 DEF Front, Queued
<1>8. Newest \in 0 .. len /\ Front \in 0 .. len
  BY <1>3, FrontIsSent DEF IInv, InSequence
<1>9. InSequence'
  <2>1. \A i \in 1 .. Len(recvQueue) :
          /\ Queued(i)' \in 1 .. Len(sent')
          /\ IsMessage(recvQueue[i], Queued(i))'
          /\ Newest < Queued(i)'
    <3> TAKE i \in 1 .. Len(recvQueue)
    <3>1. /\ Queued(i) \in 1 .. len /\ Newest < Queued(i)
          /\ IsMessage(recvQueue[i], Queued(i))
      BY <1>3 DEF IInv, InSequence
    <3> QED
      BY <1>1, <1>2, <1>3, <1>7, <3>1 DEF IsMessage
  <2>2. Newest' \in 0 .. Len(sent')
    BY <1>3, <1>7, <1>8
  <2>3. (Newest # 0 => delivered # <<>> /\ delivered[Len(delivered)].body = Body(Newest))'
    <3>1. Newest # 0 => Newest \in 1 .. len
      BY <1>8
    <3>2. Newest # 0 => [k \in 1 .. sent'[Newest].n |-> <<Newest, k>>] = Body(Newest)
      BY <1>2, <1>3, <3>1 DEF Body
    <3> QED
      BY <1>1, <1>7, <3>2 DEF IInv, InSequence, Body
  <2> QED
    BY <1>1, <1>7, <2>1, <2>2, <2>3 DEF IInv, InSequence
<1>10. CounterAtFront'
  <2>1. Front # 0 => Front \in 1 .. len
    BY <1>8
  <2> QED
    BY <1>1, <1>2, <1>3, <1>7, <2>1 DEF IInv, CounterAtFront
<1>11. ArrivedIsBuffered'
  BY <1>1, <1>7 DEF IInv, ArrivedIsBuffered
<1>12. NoneIsComplete'
  <2>1. ASSUME NEW m \in 1 .. len, m > Front
        PROVE  (\E k \in 1 .. sent[m].n : Fragment(m, k) \notin fragments)'
    <3>1. PICK k \in 1 .. sent[m].n : Fragment(m, k) \notin fragments
      BY <1>3, <2>1 DEF IInv, NoneIsComplete
    <3>2. sent'[m] = sent[m]
      BY <1>2, <1>3
    <3> QED
      BY <1>1, <3>1, <3>2 DEF Fragment
  <2>2. (\E k \in 1 .. sent[len + 1].n : Fragment(len + 1, k) \notin fragments)'
    <3>1. sent'[len + 1].n = n /\ 1 \in 1 .. n
      BY <1>2, <1>3, FragmentationAssumption
    <3>2. ASSUME NEW f \in fragments PROVE f.msg # len + 1
      <4>1. f.msg \in 1 .. len
        BY <1>3, SentIsFragment DEF IInv, PacketsSent
      <4> QED
        BY <4>1
    <3> QED
      BY <1>1, <3>1, <3>2 DEF Fragment
  <2>3. \A m \in 1 .. len + 1 : m \in 1 .. len \/ m = len + 1
    OBVIOUS
  <2> QED
    BY <1>3, <1>7, <2>1, <2>2, <2>3 DEF NoneIsComplete
<1> QED
  BY <1>2, <1>5, <1>6, <1>9, <1>10, <1>11, <1>12 DEF IInv

\* Every step keeps the invariant.
LEMMA NextIInv == IInv /\ [Next]_vars => IInv'
<1> SUFFICES ASSUME IInv, [Next]_vars PROVE IInv'
  OBVIOUS
<1>1. CASE UNCHANGED vars
  <2>1. UNCHANGED <<sendSeq, sent, net, fragments, recvSeq, arrived, recvQueue, firstRecvSeq, delivered>>
    BY <1>1 DEF vars, senderVars, recvThreadVars
  <2>2. Layout' /\ \A q : IsSent(q) => IsSent(q)'
    BY <2>1, SentUnchanged DEF IInv
  <2>3. InSequence' /\ Front' = Front
    BY <2>1, QueueUnchanged DEF IInv
  <2>4. TypeOK' /\ PacketsSent'
    BY <2>1, <2>2 DEF IInv, TypeOK, PacketsSent
  <2>5. CounterAtFront' /\ ArrivedIsBuffered' /\ NoneIsComplete'
    BY <2>1, <2>3, BufferUnchanged
  <2> QED
    BY <2>2, <2>3, <2>4, <2>5 DEF IInv
<1>2. CASE Next
  BY <1>2, AddToSendQueueIInv, ReceiveOlderIInv, ReceiveUnfragmentedIInv, BufferFragmentIInv,
     ReassembleFragmentsIInv, PollIInv DEF Next
<1> QED
  BY <1>1, <1>2

-----------------------------------------------------------------------------
\* The theorems.

\* The inductive invariant holds in every state.
THEOREM Invariance == Spec => []IInv
<1> QED
  BY InitIInv, NextIInv, PTL DEF Spec

\* The sequence counters stay 32-bit numbers and every packet and queue entry
\* keeps its form, whatever the receiver's counter started with and the
\* network does.
THEOREM TypeCorrect == Spec => []TypeOK
<1>1. IInv => TypeOK
  BY DEF IInv
<1> QED
  BY <1>1, Invariance, PTL

\* The newest message is in the queue, or was the last handed over.
LEMMA FrontIsKept ==
    ASSUME IInv, Front # 0
    PROVE  Kept(Front)
<1>1. CASE recvQueue = <<>>
  <2>1. Front = Newest /\ Newest # 0
    BY <1>1 DEF Front
  <2>2. delivered # <<>> /\ delivered[Len(delivered)].body = Body(Front)
    BY <2>1 DEF IInv, InSequence
  <2>3. Len(delivered) \in 1 .. Len(delivered)
    BY <2>2 DEF IInv, TypeOK
  <2> QED
    BY <2>2, <2>3 DEF Kept
<1>2. CASE recvQueue # <<>>
  <2>1. Len(recvQueue) \in 1 .. Len(recvQueue) /\ Front = Queued(Len(recvQueue))
    BY <1>2 DEF Front, IInv, TypeOK
  <2>2. IsMessage(recvQueue[Len(recvQueue)], Front)
    BY <2>1 DEF IInv, InSequence
  <2> QED
    BY <2>1, <2>2 DEF Kept, IsMessage
<1> QED
  BY <1>1, <1>2

\* For every order of arrival: a message all of whose fragments arrived is
\* queued or handed over, unless a newer one is.
THEOREM NewestIsKeptHolds == Spec => []NewestIsKept
<1>1. IInv => NewestIsKept
  <2> SUFFICES ASSUME IInv, NEW m \in 1 .. Len(sent), GotThrough(m)
               PROVE  \E newer \in m .. Len(sent) : Kept(newer)
    BY DEF NewestIsKept
  <2>1. Front \in 0 .. Len(sent) /\ Len(sent) \in Nat
    BY FrontIsSent DEF IInv, TypeOK
  <2>2. CASE m > Front
    <3>1. PICK k \in 1 .. sent[m].n : Fragment(m, k) \notin fragments
      BY <2>2 DEF IInv, NoneIsComplete
    <3>2. PICK p \in arrived : p.msg = m /\ p.part = k /\ isSequenceNewer(p.seq, firstRecvSeq)
      BY DEF GotThrough
    <3>3. p = Fragment(m, k)
      BY <3>2, SentIsFragment DEF IInv, PacketsSent
    <3>4. p \in fragments
      BY <2>2, <3>2 DEF IInv, ArrivedIsBuffered
    <3> QED
      BY <3>1, <3>3, <3>4
  <2>3. CASE m <= Front
    <3>1. Front \in m .. Len(sent) /\ Front # 0
      BY <2>1, <2>3
    <3> QED
      BY <3>1, FrontIsKept
  <2> QED
    BY <2>1, <2>2, <2>3
<1> QED
  BY <1>1, Invariance, PTL

-----------------------------------------------------------------------------
\* The link implements the sequenced channel.

\* What the receiver's game thread was handed is a sequence of payloads.
HandedView == Handed \in Seq(Seq(Nat \X Nat)) /\ Len(Handed) = Len(delivered)

\* And it is one in every state where types are right.
LEMMA HandedIsSequence == TypeOK => HandedView
<1> SUFFICES ASSUME TypeOK PROVE HandedView
  OBVIOUS
<1>1. delivered \in Seq([head : Nat, body : Seq(Nat \X Nat)]) /\ Len(delivered) \in Nat
  BY DEF TypeOK
<1>2. Handed = [i \in 1 .. Len(delivered) |-> Handed[i]]
  BY DEF Handed
<1>3. \A i \in 1 .. Len(delivered) : Handed[i] \in Seq(Nat \X Nat)
  <2> TAKE i \in 1 .. Len(delivered)
  <2>1. delivered[i] \in [head : Nat, body : Seq(Nat \X Nat)]
    BY <1>1, ElementOfSeq
  <2> QED
    BY <2>1 DEF Handed
<1>4. Handed \in Seq(Seq(Nat \X Nat))
  BY <1>1, <1>2, <1>3, SeqOfFunction
<1>5. DOMAIN Handed = 1 .. Len(delivered)
  BY DEF Handed
<1> QED
  BY <1>1, <1>4, <1>5, LenProperties DEF HandedView

\* The initial states map to the channel's.
LEMMA InitRefines == Init => Channel!Init
<1> SUFFICES ASSUME Init PROVE Channel!Init
  OBVIOUS
<1>1. Accepted = <<>> /\ Handed = <<>> /\ Newest = 0
  BY DEF Init, Accepted, Handed, Newest
<1> QED
  BY <1>1 DEF Channel!Init

\* Accepting a message appends it.
LEMMA AddToSendQueueRefines ==
    ASSUME NEW n \in FragCounts, IInv, AddToSendQueue(n)
    PROVE  Channel!Accept
<1>1. \E body \in Messages : Accepted' = Append(Accepted, body)
  BY AcceptedGrows DEF AddToSendQueue, IInv
<1>2. Handed' = Handed /\ Newest' = Newest
  BY DEF AddToSendQueue, Handed, Newest
<1> QED
  BY <1>1, <1>2 DEF Channel!Accept

\* Polling hands over a message that is newer than those handed over before.
LEMMA PollRefines ==
    ASSUME IInv, IInv', Poll
    PROVE  Channel!Deliver
<1>1. PICK m : m = Queued(1)
  OBVIOUS
<1>2. PICK len \in Nat : len = Len(delivered)
  BY DEF IInv, TypeOK
<1>3. /\ m \in 1 .. Len(sent) /\ Newest < m /\ Newest' = m
      /\ Len(delivered') = len + 1
      /\ delivered'[len + 1].body = Body(m)
      /\ \A i \in 1 .. len : delivered'[i] = delivered[i]
  BY <1>1, <1>2, PollFacts
<1>4. /\ Handed \in Seq(Seq(Nat \X Nat)) /\ Len(Handed) = len
      /\ Handed' \in Seq(Seq(Nat \X Nat)) /\ Len(Handed') = len + 1
      /\ Len(Accepted) = Len(sent)
      /\ Body(m) \in Seq(Nat \X Nat)
  <2>1. TypeOK /\ TypeOK' /\ Layout
    BY DEF IInv
  <2>2. HandedView /\ HandedView' /\ AcceptedView
    BY <2>1, HandedIsSequence, AcceptedIsSequence, PTL
  <2> QED
    BY <1>2, <1>3, <2>1, <2>2, BodyIsSequence DEF HandedView, AcceptedView
<1>5. Handed' = Append(Handed, Body(m))
  <2>1. len + 1 \in 1 .. len + 1 /\ \A i \in 1 .. len : i \in 1 .. len + 1
    OBVIOUS
  <2>2. Handed'[len + 1] = Body(m) /\ \A i \in 1 .. len : Handed'[i] = Handed[i]
    <3>1. Handed' = [i \in 1 .. len + 1 |-> delivered'[i].body]
      BY <1>3 DEF Handed
    <3>2. Handed = [i \in 1 .. len |-> delivered[i].body]
      BY <1>2 DEF Handed
    <3> QED
      <4>1. Handed'[len + 1] = delivered'[len + 1].body
        BY <2>1, <3>1
      <4>2. \A i \in 1 .. len : Handed'[i] = delivered'[i].body
        BY <2>1, <3>1
      <4>3. \A i \in 1 .. len : Handed[i] = delivered[i].body
        BY <3>2
      <4> QED
        BY <1>3, <4>1, <4>2, <4>3
  <2> QED
    BY <1>4, <2>2, AppendIs
<1>6. Accepted' = Accepted
  BY DEF Poll, senderVars, Accepted, Body
<1>7. Accepted[m] = Body(m)
  BY <1>3 DEF Accepted
<1>8. m \in Newest + 1 .. Len(Accepted)
  BY <1>3, <1>4 DEF IInv, InSequence
<1> QED
  BY <1>3, <1>5, <1>6, <1>7, <1>8 DEF Channel!Deliver

\* Any other step changes neither view.
LEMMA OthersStutter ==
    ASSUME UNCHANGED <<sent, delivered>>
    PROVE  UNCHANGED Channel!channelVars
BY DEF Channel!channelVars, Accepted, Handed, Body, Newest

\* Every step of the threads and the network is a step of the channel or a stutter.
LEMMA NextRefines == IInv /\ IInv' /\ [Next]_vars => [Channel!Next]_(Channel!channelVars)
<1> SUFFICES ASSUME IInv, IInv', [Next]_vars PROVE [Channel!Next]_(Channel!channelVars)
  OBVIOUS
<1>1. CASE \E n \in FragCounts : AddToSendQueue(n)
  BY <1>1, AddToSendQueueRefines DEF Channel!Next
<1>2. CASE Poll
  BY <1>2, PollRefines DEF Channel!Next
<1>3. CASE UNCHANGED vars
  BY <1>3, OthersStutter DEF vars, senderVars
<1>4. CASE \E p \in net : \/ ReceiveOlder(p) \/ ReceiveUnfragmented(p)
                          \/ BufferFragment(p) \/ ReassembleFragments(p)
  <2>1. UNCHANGED <<sent, delivered>>
    BY <1>4 DEF ReceiveOlder, ReceiveUnfragmented, BufferFragment, ReassembleFragments,
                RecvData, senderVars
  <2> QED
    BY <2>1, OthersStutter
<1> QED
  BY <1>1, <1>2, <1>3, <1>4 DEF Next

\* Whatever the network loses, duplicates or reorders and whatever the
\* receiver's counter started with, the two RUDPLinks behave as the sequenced
\* channel that ZNode::sendUnreliableSequenced promises.
THEOREM LinkImplementsSequencedChannel == Spec => ImplementsSequencedChannel
<1>1. IInv /\ IInv' /\ [Next]_vars => [Channel!Next]_(Channel!channelVars)
  BY NextRefines
<1> QED
  BY InitRefines, <1>1, Invariance, PTL DEF Spec, ImplementsSequencedChannel, Channel!Spec
=============================================================================
