-------------------------- MODULE UserRelayProofs --------------------------
EXTENDS UserRelay, SequenceTheorems, TLAPS

-----------------------------------------------------------------------------
\* The inductive invariant.

\* Among what a node was handed is message k of node o, by o itself, on
\* channel c.
HandedDirectly(received, o, c, k) ==
    \E i \in 1 .. Len(received) :
        /\ received[i].from = o /\ received[i].origin = o
        /\ received[i].channel = c /\ received[i].num = k

\* What may be under way from node f to node r on channel c: a message of f
\* itself, or one that f was handed and relays, which is not to be relayed
\* again.
MayTravel(f, r, c, p) ==
    /\ r \in Linked(f) /\ p.origin # r
    /\ p.channel = c
    /\ p.num <= Len(sent[p.origin])
    /\ p.origin # f => /\ ~p.relay
                       /\ f \in Listening /\ p.origin \in Linked(f)
                       /\ HandedDirectly(handed[f], p.origin, c, p.num)

\* What node n may have been handed.
MayBeHanded(n, h) ==
    /\ h.origin # n
    /\ h.channel = h.sentOn
    /\ h.num <= Len(sent[h.origin])
    /\ h.from # h.origin => /\ h.from \in Listening /\ h.origin \in Linked(h.from)
                            /\ HandedDirectly(handed[h.from], h.origin, h.channel, h.num)

AllMayTravel ==
    \A f, r \in Node, c \in Channels : \A i \in 1 .. Len(queue[f][r][c]) :
        MayTravel(f, r, c, queue[f][r][c][i])

AllMayBeHanded ==
    \A n \in Node : \A i \in 1 .. Len(handed[n]) : MayBeHanded(n, handed[n][i])

\* In a queue the messages of one origin are in the order they were sent in.
Ascending(packets) ==
    \A i, j \in 1 .. Len(packets) :
        i < j /\ packets[i].origin = packets[j].origin => packets[i].num < packets[j].num

QueueInOrder ==
    \A f, r \in Node, c \in Channels : Ascending(queue[f][r][c])

\* What is under way is newer than what came the same way before.
QueueIsNewer ==
    \A f, r \in Node, c \in Channels :
        \A i \in 1 .. Len(queue[f][r][c]), k \in 1 .. Len(handed[r]) :
            /\ handed[r][k].from = f /\ handed[r][k].channel = c
            /\ handed[r][k].origin = queue[f][r][c][i].origin
            => handed[r][k].num < queue[f][r][c][i].num

IInv ==
    /\ TypeOK
    /\ AllMayTravel /\ AllMayBeHanded
    /\ QueueInOrder /\ QueueIsNewer /\ InOrder

-----------------------------------------------------------------------------
\* Queues.

Queues == [Node -> [Node -> [Channels -> Seq(Packet)]]]

\* What is added is at the end of the queues to the receivers that are not
\* blocked, and nowhere else.
LEMMA WithAddedAt ==
    ASSUME NEW queues \in Queues, NEW n \in Node, NEW receivers \in SUBSET Node,
           NEW c \in Channels, NEW p \in Packet
    PROVE  /\ WithAdded(queues, n, receivers, c, p) \in Queues
           /\ \A f, r \in Node, d \in Channels :
                 WithAdded(queues, n, receivers, c, p)[f][r][d] =
                    IF f = n /\ r \in receivers /\ <<n, r>> \notin Unconnected /\ d = c
                    THEN Append(queues[f][r][d], p) ELSE queues[f][r][d]
<1> DEFINE Row == [m \in Node |-> IF m \in receivers /\ <<n, m>> \notin Unconnected
                                  THEN [queues[n][m] EXCEPT ![c] = Append(queues[n][m][c], p)]
                                  ELSE queues[n][m]]
<1>1. WithAdded(queues, n, receivers, c, p) = [queues EXCEPT ![n] = Row]
  BY Zenon DEF WithAdded
<1>2. \A m \in Node : /\ queues[n][m] \in [Channels -> Seq(Packet)]
                      /\ Append(queues[n][m][c], p) \in Seq(Packet)
  BY AppendProperties DEF Queues
<1>3. \A m \in Node : [queues[n][m] EXCEPT ![c] = Append(queues[n][m][c], p)] \in [Channels -> Seq(Packet)]
  BY <1>2
<1>4. Row \in [Node -> [Channels -> Seq(Packet)]]
  BY <1>2, <1>3
<1>5. [queues EXCEPT ![n] = Row] \in Queues
  BY <1>4 DEF Queues
<1>6. \A r \in Node, d \in Channels :
         Row[r][d] = IF r \in receivers /\ <<n, r>> \notin Unconnected /\ d = c THEN Append(queues[n][r][d], p)
                     ELSE queues[n][r][d]
  BY <1>2
<1>7. \A f \in Node : [queues EXCEPT ![n] = Row][f] = IF f = n THEN Row ELSE queues[f]
  BY DEF Queues
<1> HIDE DEF Row
<1> QED
  BY <1>1, <1>5, <1>6, <1>7

\* Taking the head off one queue leaves the others as they are.
LEMMA PolledAt ==
    ASSUME TypeOK, NEW n \in Node, NEW from \in Node, NEW c \in Channels,
           queue[from][n][c] # <<>>
    PROVE  /\ Polled(n, from, c) \in Queues
           /\ \A f, r \in Node, d \in Channels :
                 Polled(n, from, c)[f][r][d] =
                    IF f = from /\ r = n /\ d = c THEN Tail(queue[f][r][d])
                    ELSE queue[f][r][d]
<1> DEFINE Cell == [queue[from][n] EXCEPT ![c] = Tail(@)]
           Row  == [queue[from] EXCEPT ![n] = Cell]
<1>1. /\ queue \in Queues
      /\ queue[from] \in [Node -> [Channels -> Seq(Packet)]]
      /\ queue[from][n] \in [Channels -> Seq(Packet)]
      /\ Tail(queue[from][n][c]) \in Seq(Packet)
  BY HeadTailProperties DEF TypeOK, Queues
<1>2. Polled(n, from, c) = [queue EXCEPT ![from] = Row]
  BY <1>1 DEF Polled, Queues
<1>3. Cell \in [Channels -> Seq(Packet)]
  BY <1>1
<1>4. Row \in [Node -> [Channels -> Seq(Packet)]]
  BY <1>1, <1>3
<1>5. [queue EXCEPT ![from] = Row] \in Queues
  BY <1>1, <1>4 DEF Queues
<1>6. \A r \in Node, d \in Channels :
         Row[r][d] = IF r = n /\ d = c THEN Tail(queue[from][r][d]) ELSE queue[from][r][d]
  BY <1>1
<1>7. \A f \in Node : [queue EXCEPT ![from] = Row][f] = IF f = from THEN Row ELSE queue[f]
  BY <1>1 DEF Queues
<1> QED
  BY <1>2, <1>5, <1>6, <1>7

\* A link has another node at its other end.
LEMMA LinkedIsOther ==
    ASSUME NEW n \in Node
    PROVE  Linked(n) \subseteq Node \ {n}
BY UserRelayAssumption, ElementOfSeq DEF Linked

-----------------------------------------------------------------------------
\* Types.

LEMMA TypeInit == Init => TypeOK
<1> SUFFICES ASSUME Init PROVE TypeOK
  OBVIOUS
<1>1. queue \in [Node -> [Node -> [Channels -> Seq(Packet)]]]
  BY EmptySeq DEF Init
<1>2. linkIdx \in [Node -> Nat] /\ \A n \in Node : linkIdx[n] <= Len(OpenLinks[n])
  <2>1. \A n \in Node : Linked(n) # {} => Len(OpenLinks[n]) >= 1
    BY UserRelayAssumption, LenProperties DEF Linked
  <2>2. \A n \in Node : Len(OpenLinks[n]) \in Nat
    BY UserRelayAssumption, LenProperties
  <2> QED
    BY <2>1, <2>2 DEF Init
<1>3. criticalError \in [Node -> BOOLEAN]
  BY DEF Init
<1>4. /\ sent \in [Node -> Seq([kind : Kinds, relay : BOOLEAN, to : SUBSET Node])]
      /\ handed \in [Node -> Seq(Handed)]
  BY EmptySeq DEF Init
<1> QED
  BY <1>1, <1>2, <1>3, <1>4 DEF TypeOK

\* What is added, and to whom, when the game sends.
LEMMA SendAdds ==
    ASSUME TypeOK, NEW n \in Node, SendReliableOrdered(n)
    PROVE  \E to \in SUBSET Linked(n), p \in Packet, c \in Channels,
              m \in [kind : Kinds, relay : BOOLEAN, to : SUBSET Node] :
              /\ queue' = WithAdded(queue, n, to, c, p)
              /\ p.origin = n /\ p.channel = c /\ p.num = Len(sent[n]) + 1
              /\ sent' = [sent EXCEPT ![n] = Append(@, m)]
<1>1. PICK to \in Addressees(n), kind \in Kinds, relay \in BOOLEAN, c \in Channels :
          /\ queue' = WithAdded(queue, n, to, c,
                          [kind |-> kind, relay |-> relay, channel |-> c,
                           origin |-> n, num |-> Len(sent[n]) + 1])
          /\ sent' = [sent EXCEPT ![n] =
                        Append(@, [kind |-> kind, relay |-> relay, to |-> to])]
  BY DEF SendReliableOrdered
<1>2. to \subseteq Linked(n)
  <2>1. PICK group \in {Linked(n), Connected(n)}, specific \in Linked(n) :
            to \in {group, group \cap {specific}, group \ {specific}}
    BY DEF Addressees
  <2>2. group \subseteq Linked(n)
    BY DEF Connected
  <2> QED
    BY <2>1, <2>2
<1>3. Len(sent[n]) + 1 \in Nat
  BY LenProperties DEF TypeOK
<1>4. [kind |-> kind, relay |-> relay, channel |-> c, origin |-> n, num |-> Len(sent[n]) + 1]
          \in Packet
  BY <1>3 DEF Packet
<1>5. [kind |-> kind, relay |-> relay, to |-> to]
          \in [kind : Kinds, relay : BOOLEAN, to : SUBSET Node]
  BY <1>2, LinkedIsOther
<1> QED
  BY <1>1, <1>2, <1>4, <1>5

\* What is polled when a user message is received, and what is handed over.
LEMMA RecvHands ==
    ASSUME TypeOK, NEW n \in Node, NEW from \in Linked(n), NEW c \in Channels,
           RecvUserPacket(n, from, c)
    PROVE  \E p, q \in Packet, h \in Handed, to \in SUBSET Linked(n) :
              /\ queue[from][n][c] # <<>> /\ p = Head(queue[from][n][c])
              /\ q = Relayed(p)
              /\ to = RelayReceivers(n, from, p)
              /\ queue' = WithAdded(Polled(n, from, c), n, to, c, q)
              /\ h = [origin |-> p.origin, num |-> p.num, sentOn |-> p.channel,
                      channel |-> c, from |-> from]
              /\ handed' = [handed EXCEPT ![n] = Append(@, h)]
<1> DEFINE p == Head(queue[from][n][c])
           h == [origin |-> p.origin, num |-> p.num, sentOn |-> p.channel,
                 channel |-> c, from |-> from]
<1>1. from \in Node
  BY LinkedIsOther
<1>2. queue[from][n][c] # <<>> /\ queue[from][n][c] \in Seq(Packet)
  BY <1>1 DEF RecvUserPacket, Arrived, TypeOK
<1>3. p \in Packet
  BY <1>2, HeadTailProperties
<1>4. Relayed(p) \in Packet
  BY <1>3 DEF Relayed, Packet
<1>5. h \in Handed
  BY <1>1, <1>3 DEF Packet, Handed
<1>6. RelayReceivers(n, from, p) \in SUBSET Linked(n)
  BY DEF RelayReceivers
<1>7. /\ queue' = WithAdded(Polled(n, from, c), n, RelayReceivers(n, from, p), c, Relayed(p))
      /\ handed' = [handed EXCEPT ![n] = Append(@, h)]
  BY DEF RecvUserPacket
<1> QED
  BY <1>2, <1>3, <1>4, <1>5, <1>6, <1>7

LEMMA TypeStep == TypeOK /\ [Next]_vars => TypeOK'
<1> SUFFICES ASSUME TypeOK, [Next]_vars PROVE TypeOK'
  OBVIOUS
<1>1. ASSUME NEW n \in Node, SendReliableOrdered(n) PROVE TypeOK'
  <2>1. PICK to \in SUBSET Linked(n), p \in Packet, c \in Channels,
             m \in [kind : Kinds, relay : BOOLEAN, to : SUBSET Node] :
              /\ queue' = WithAdded(queue, n, to, c, p)
              /\ sent' = [sent EXCEPT ![n] = Append(@, m)]
    BY <1>1, SendAdds
  <2>2. queue \in Queues /\ to \in SUBSET Node
    BY LinkedIsOther DEF TypeOK, Queues
  <2>3. queue' \in Queues
    BY <2>1, <2>2, WithAddedAt
  <2>4. Append(sent[n], m) \in Seq([kind : Kinds, relay : BOOLEAN, to : SUBSET Node])
    BY <2>1, AppendProperties DEF TypeOK
  <2>5. sent' \in [Node -> Seq([kind : Kinds, relay : BOOLEAN, to : SUBSET Node])]
    BY <2>1, <2>4 DEF TypeOK
  <2> QED
    BY <1>1, <2>3, <2>5 DEF TypeOK, SendReliableOrdered, Queues
<1>2. ASSUME NEW n \in Node, NextLink(n) PROVE TypeOK'
  <2>1. linkIdx[n] \in 1 .. Len(OpenLinks[n]) /\ Len(OpenLinks[n]) \in Nat
    BY <1>2, UserRelayAssumption, LenProperties DEF NextLink, TypeOK
  <2>2. PICK k \in 0 .. Len(OpenLinks[n]) : linkIdx' = [linkIdx EXCEPT ![n] = k]
    <3>1. (IF linkIdx[n] < Len(OpenLinks[n]) THEN linkIdx[n] + 1
           ELSE IF criticalError[n] THEN 0 ELSE 1) \in 0 .. Len(OpenLinks[n])
      BY <2>1
    <3> QED
      BY <1>2, <3>1 DEF NextLink
  <2>3. linkIdx' \in [Node -> Nat] /\ \A m \in Node : linkIdx'[m] <= Len(OpenLinks[m])
    <3>1. linkIdx \in [Node -> Nat]
      BY DEF TypeOK
    <3>2. k \in Nat /\ k <= Len(OpenLinks[n])
      BY <2>1
    <3>3. linkIdx' \in [Node -> Nat]
      BY <2>2, <3>1, <3>2
    <3>4. linkIdx'[n] = k /\ \A m \in Node \ {n} : linkIdx'[m] = linkIdx[m]
      BY <2>2, <3>1
    <3>5. ASSUME NEW m \in Node PROVE linkIdx'[m] <= Len(OpenLinks[m])
      <4>1. CASE m = n
        BY <3>2, <3>4, <4>1
      <4>2. CASE m # n
        <5>1. linkIdx[m] <= Len(OpenLinks[m])
          BY DEF TypeOK
        <5>2. linkIdx'[m] = linkIdx[m]
          BY <3>4, <4>2, Zenon
        <5> QED
          BY <5>1, <5>2
      <4> QED
        BY <4>1, <4>2
    <3> QED
      BY <3>3, <3>5
  <2> QED
    BY <1>2, <2>3 DEF TypeOK, NextLink
<1>3. ASSUME NEW n \in Node, NEW from \in Linked(n), NEW c \in Channels,
             RecvUserPacket(n, from, c)
      PROVE  TypeOK'
  <2>1. PICK p, q \in Packet, h \in Handed, to \in SUBSET Linked(n) :
              /\ queue[from][n][c] # <<>>
              /\ queue' = WithAdded(Polled(n, from, c), n, to, c, q)
              /\ handed' = [handed EXCEPT ![n] = Append(@, h)]
    BY <1>3, RecvHands
  <2>2. Polled(n, from, c) \in Queues /\ to \in SUBSET Node
    BY <2>1, PolledAt, LinkedIsOther
  <2>3. queue' \in Queues
    BY <2>1, <2>2, WithAddedAt
  <2>4. Append(handed[n], h) \in Seq(Handed)
    BY <2>1, AppendProperties DEF TypeOK
  <2>5. handed' \in [Node -> Seq(Handed)]
    BY <2>1, <2>4 DEF TypeOK
  <2> QED
    BY <1>3, <2>3, <2>5 DEF TypeOK, RecvUserPacket, Queues
<1>4. ASSUME NEW n \in Node, NEW from \in Linked(n), NEW c \in Channels,
             RecvRpcPacket(n, from, c)
      PROVE  TypeOK'
  <2>1. queue' \in Queues
    BY <1>4, PolledAt, LinkedIsOther DEF RecvRpcPacket, Arrived
  <2>2. criticalError' \in [Node -> BOOLEAN]
    BY <1>4 DEF RecvRpcPacket, TypeOK
  <2> QED
    BY <1>4, <2>1, <2>2 DEF TypeOK, RecvRpcPacket, Queues
<1>5. ASSUME NEW n \in Node, NEW from \in Linked(n), NEW c \in Channels,
             RecvRefused(n, from, c)
      PROVE  TypeOK'
  <2>1. queue' \in Queues
    BY <1>5, PolledAt, LinkedIsOther DEF RecvRefused, Arrived
  <2> QED
    BY <1>5, <2>1 DEF TypeOK, RecvRefused, Queues
<1>6. ASSUME UNCHANGED vars PROVE TypeOK'
  BY <1>6 DEF TypeOK, vars
<1> QED
  BY <1>1, <1>2, <1>3, <1>4, <1>5, <1>6 DEF Next

\* Every variable keeps its type, and an update stays within the list of
\* links, for every set of nodes and links.
THEOREM TypeCorrect == Spec => []TypeOK
BY TypeInit, TypeStep, PTL DEF Spec

-----------------------------------------------------------------------------
\* Elements of what was appended to or polled.

\* Appending to one node's sequence leaves all that was there in its place.
LEMMA AppendedAt ==
    ASSUME NEW S, NEW F \in [Node -> Seq(S)], NEW G, NEW n \in Node, NEW e \in S,
           G = [F EXCEPT ![n] = Append(@, e)]
    PROVE  /\ \A m \in Node : /\ Len(F[m]) \in Nat
                              /\ Len(G[m]) = IF m = n THEN Len(F[m]) + 1 ELSE Len(F[m])
           /\ \A m \in Node : \A i \in 1 .. Len(F[m]) : i \in 1 .. Len(G[m]) /\ G[m][i] = F[m][i]
           /\ \A m \in Node : \A i \in 1 .. Len(G[m]) :
                 \/ i \in 1 .. Len(F[m]) /\ G[m][i] = F[m][i]
                 \/ m = n /\ i = Len(F[n]) + 1 /\ G[m][i] = e
           /\ Len(F[n]) + 1 \in 1 .. Len(G[n]) /\ G[n][Len(F[n]) + 1] = e
<1>1. \A m \in Node : F[m] \in Seq(S) /\ Len(F[m]) \in Nat
  BY LenProperties
<1>2. G[n] = Append(F[n], e) /\ \A m \in Node \ {n} : G[m] = F[m]
  OBVIOUS
<1>3. /\ Len(Append(F[n], e)) = Len(F[n]) + 1
      /\ \A i \in 1 .. Len(F[n]) : Append(F[n], e)[i] = F[n][i]
      /\ Append(F[n], e)[Len(F[n]) + 1] = e
  BY <1>1, AppendProperties
<1> QED
  BY <1>1, <1>2, <1>3

\* Packets after p was added to them, or was not.
OneAdded(new, old, p, added) ==
    \A i \in 1 .. Len(new) :
        \/ i \in 1 .. Len(old) /\ new[i] = old[i]
        \/ added /\ i = Len(old) + 1 /\ new[i] = p

\* Packets after the first s were taken.
Shifted(new, old, s) ==
    \A i \in 1 .. Len(new) : i + s \in 1 .. Len(old) /\ new[i] = old[i + s]

\* What is in the queues after something was added.
LEMMA AddedElements ==
    ASSUME NEW queues \in Queues, NEW n \in Node, NEW receivers \in SUBSET Node,
           NEW c \in Channels, NEW p \in Packet,
           NEW f \in Node, NEW r \in Node, NEW d \in Channels
    PROVE  OneAdded(WithAdded(queues, n, receivers, c, p)[f][r][d], queues[f][r][d], p,
                    f = n /\ r \in receivers /\ d = c)
<1> DEFINE old == queues[f][r][d]
           new == WithAdded(queues, n, receivers, c, p)[f][r][d]
           added == f = n /\ r \in receivers /\ d = c
<1>1. old \in Seq(Packet) /\ Len(old) \in Nat
  BY LenProperties DEF Queues
<1>2. /\ Len(Append(old, p)) = Len(old) + 1
      /\ \A j \in 1 .. Len(old) : Append(old, p)[j] = old[j]
      /\ Append(old, p)[Len(old) + 1] = p
  <2> HIDE DEF old
  <2>1. /\ \A j \in 1 .. Len(old) : Append(old, p)[j] = old[j]
        /\ Append(old, p)[Len(old) + 1] = p
    BY <1>1, AppendProperties
  <2> QED
    BY <1>1, <2>1, AppendProperties
<1>3. new = old \/ (added /\ new = Append(old, p))
  <2>1. new = IF f = n /\ r \in receivers /\ <<n, r>> \notin Unconnected /\ d = c
              THEN Append(old, p) ELSE old
    BY WithAddedAt
  <2> HIDE DEF old, new
  <2> QED
    BY <2>1
<1> HIDE DEF old, new, added
<1>4. OneAdded(new, old, p, added)
  <2>1. CASE added /\ new = Append(old, p)
    BY <1>1, <1>2, <2>1 DEF OneAdded
  <2>2. CASE new = old
    BY <2>2 DEF OneAdded
  <2> QED
    BY <1>3, <2>1, <2>2
<1> QED
  BY <1>4 DEF old, new, added

\* What is in the queues after a packet was polled.
LEMMA PolledElements ==
    ASSUME TypeOK, NEW n \in Node, NEW from \in Node, NEW c \in Channels,
           queue[from][n][c] # <<>>,
           NEW f \in Node, NEW r \in Node, NEW d \in Channels
    PROVE  \E s \in {0, 1} :
              /\ s = 1 <=> f = from /\ r = n /\ d = c
              /\ Shifted(Polled(n, from, c)[f][r][d], queue[f][r][d], s)
<1> DEFINE old == queue[f][r][d]
           new == Polled(n, from, c)[f][r][d]
<1>1. old \in Seq(Packet) /\ Len(old) \in Nat
  BY LenProperties DEF TypeOK
<1>2. new = IF f = from /\ r = n /\ d = c THEN Tail(old) ELSE old
  BY PolledAt
<1>3. CASE f = from /\ r = n /\ d = c
  <2>1. old # <<>>
    BY <1>3
  <2>2. /\ Len(Tail(old)) = Len(old) - 1
        /\ \A i \in 1 .. Len(Tail(old)) : Tail(old)[i] = old[i + 1]
    BY <1>1, <2>1, HeadTailProperties
  <2> HIDE DEF old, new
  <2>3. Shifted(new, old, 1)
    BY <1>1, <1>2, <1>3, <2>2 DEF Shifted
  <2> QED
    BY <1>3, <2>3 DEF old, new
<1>4. CASE ~(f = from /\ r = n /\ d = c)
  <2>1. Shifted(new, old, 0)
    BY <1>1, <1>2, <1>4 DEF Shifted
  <2> QED
    BY <1>4, <2>1
<1> QED
  BY <1>3, <1>4

-----------------------------------------------------------------------------
\* The steps.

\* What was handed stays handed.
LEMMA HandedStays ==
    ASSUME TypeOK, NEW n \in Node, NEW h \in Handed,
           handed' = [handed EXCEPT ![n] = Append(@, h)],
           NEW m \in Node, NEW o, NEW c, NEW k, HandedDirectly(handed[m], o, c, k)
    PROVE  HandedDirectly(handed'[m], o, c, k)
<1>1. PICK i \in 1 .. Len(handed[m]) :
          /\ handed[m][i].from = o /\ handed[m][i].origin = o
          /\ handed[m][i].channel = c /\ handed[m][i].num = k
  BY DEF HandedDirectly
<1>2. handed \in [Node -> Seq(Handed)]
  BY DEF TypeOK
<1>3. i \in 1 .. Len(handed'[m]) /\ handed'[m][i] = handed[m][i]
  BY <1>2, AppendedAt
<1> QED
  BY <1>1, <1>3 DEF HandedDirectly

\* The game sends: a new number is above all others of that node.
LEMMA SendStep ==
    ASSUME IInv, NEW n \in Node, SendReliableOrdered(n)
    PROVE  AllMayTravel' /\ AllMayBeHanded' /\ QueueInOrder' /\ QueueIsNewer' /\ InOrder'
<1> USE DEF IInv
<1>1. PICK to \in SUBSET Linked(n), p \in Packet, c \in Channels,
           m \in [kind : Kinds, relay : BOOLEAN, to : SUBSET Node] :
            /\ queue' = WithAdded(queue, n, to, c, p)
            /\ p.origin = n /\ p.channel = c /\ p.num = Len(sent[n]) + 1
            /\ sent' = [sent EXCEPT ![n] = Append(@, m)]
  BY SendAdds
<1>2. handed' = handed
  BY DEF SendReliableOrdered
<1>3. queue \in Queues /\ to \in SUBSET Node
  BY LinkedIsOther DEF TypeOK, Queues
<1>4. \A o \in Node : /\ Len(sent[o]) \in Nat
                      /\ Len(sent'[o]) = IF o = n THEN Len(sent[o]) + 1 ELSE Len(sent[o])
  BY <1>1, AppendedAt DEF TypeOK
<1>5. \A o \in Node, num \in Nat : num <= Len(sent[o]) => num <= Len(sent'[o])
  BY <1>4
<1>6. \A f, r \in Node, d \in Channels :
         OneAdded(queue'[f][r][d], queue[f][r][d], p, f = n /\ r \in to /\ d = c)
  <2> TAKE f, r \in Node, d \in Channels
  <2>1. OneAdded(WithAdded(queue, n, to, c, p)[f][r][d], queue[f][r][d], p,
                 f = n /\ r \in to /\ d = c)
    BY <1>3, AddedElements
  <2> QED
    BY <1>1, <2>1
<1>7. \A f, r \in Node, d \in Channels :
         /\ Len(queue[f][r][d]) \in Nat
         /\ \A i \in 1 .. Len(queue[f][r][d]) : queue[f][r][d][i] \in Packet
  <2>1. \A f, r \in Node, d \in Channels : queue[f][r][d] \in Seq(Packet)
    BY DEF TypeOK
  <2>2. \A f, r \in Node, d \in Channels : Len(queue[f][r][d]) \in Nat
    BY <2>1, LenProperties
  <2>3. \A f, r \in Node, d \in Channels :
           \A i \in 1 .. Len(queue[f][r][d]) : queue[f][r][d][i] \in Packet
    BY <2>1, ElementOfSeq
  <2> QED
    BY <2>2, <2>3
<1>8. \A o \in Node : \A i \in 1 .. Len(handed[o]) : handed[o][i] \in Handed
  BY ElementOfSeq DEF TypeOK
<1>9. AllMayTravel'
  <2> SUFFICES ASSUME NEW f \in Node, NEW r \in Node, NEW d \in Channels,
                      NEW i \in 1 .. Len(queue'[f][r][d])
               PROVE  MayTravel(f, r, d, queue[f][r][d][i])'
    BY Zenon DEF AllMayTravel
  <2>1. CASE i \in 1 .. Len(queue[f][r][d]) /\ queue'[f][r][d][i] = queue[f][r][d][i]
    <3>1. MayTravel(f, r, d, queue[f][r][d][i])
      BY <2>1 DEF AllMayTravel
    <3>2. queue[f][r][d][i].origin \in Node /\ queue[f][r][d][i].num \in Nat
      BY <1>7, <2>1 DEF Packet
    <3>3. queue[f][r][d][i].num <= Len(sent'[queue[f][r][d][i].origin])
      <4>1. queue[f][r][d][i].num <= Len(sent[queue[f][r][d][i].origin])
        BY <3>1 DEF MayTravel
      <4> QED
        BY <1>5, <3>2, <4>1
    <3> QED
      BY <1>2, <2>1, <3>1, <3>3 DEF MayTravel, HandedDirectly
  <2>2. CASE f = n /\ r \in to /\ d = c /\ queue'[f][r][d][i] = p
    <3>1. p.num <= Len(sent'[p.origin])
      BY <1>1, <1>4
    <3>2. r \in Linked(n) /\ r # n
      BY <2>2, LinkedIsOther
    <3> QED
      BY <1>1, <2>2, <3>1, <3>2 DEF MayTravel
  <2>3. OneAdded(queue'[f][r][d], queue[f][r][d], p, f = n /\ r \in to /\ d = c)
    BY <1>6, Zenon
  <2>4. \/ i \in 1 .. Len(queue[f][r][d]) /\ queue'[f][r][d][i] = queue[f][r][d][i]
        \/ f = n /\ r \in to /\ d = c /\ queue'[f][r][d][i] = p
    BY <2>3, Zenon DEF OneAdded
  <2> QED
    BY <2>1, <2>2, <2>4, Zenon
<1>10. AllMayBeHanded'
  <2> SUFFICES ASSUME NEW o \in Node, NEW i \in 1 .. Len(handed'[o])
               PROVE  MayBeHanded(o, handed[o][i])'
    BY DEF AllMayBeHanded
  <2>1. MayBeHanded(o, handed[o][i])
    BY <1>2 DEF AllMayBeHanded
  <2>2. handed[o][i].origin \in Node /\ handed[o][i].num \in Nat
    BY <1>2, <1>8 DEF Handed
  <2>3. handed[o][i].num <= Len(sent'[handed[o][i].origin])
    <3>1. handed[o][i].num <= Len(sent[handed[o][i].origin])
      BY <2>1 DEF MayBeHanded
    <3> QED
      BY <1>5, <2>2, <3>1
  <2> QED
    BY <1>2, <2>1, <2>3 DEF MayBeHanded
<1>11. QueueInOrder'
  <2> SUFFICES ASSUME NEW f \in Node, NEW r \in Node, NEW d \in Channels
               PROVE  Ascending(queue'[f][r][d])
    BY DEF QueueInOrder
  <2> SUFFICES ASSUME NEW i \in 1 .. Len(queue'[f][r][d]), NEW j \in 1 .. Len(queue'[f][r][d]),
                      i < j, queue'[f][r][d][i].origin = queue'[f][r][d][j].origin
               PROVE  queue'[f][r][d][i].num < queue'[f][r][d][j].num
    BY DEF Ascending
  <2>added. OneAdded(queue'[f][r][d], queue[f][r][d], p, f = n /\ r \in to /\ d = c)
    BY <1>6, Zenon
  <2>1. i \in 1 .. Len(queue[f][r][d]) /\ queue'[f][r][d][i] = queue[f][r][d][i]
    <3>1. j \in 1 .. Len(queue[f][r][d]) \/ j = Len(queue[f][r][d]) + 1
      BY <2>added, Zenon DEF OneAdded
    <3>2. \/ i \in 1 .. Len(queue[f][r][d]) /\ queue'[f][r][d][i] = queue[f][r][d][i]
          \/ i = Len(queue[f][r][d]) + 1
      BY <2>added, Zenon DEF OneAdded
    <3>3. Len(queue[f][r][d]) \in Nat
      BY <1>7
    <3> QED
      BY <3>1, <3>2, <3>3
  <2>2. CASE j \in 1 .. Len(queue[f][r][d]) /\ queue'[f][r][d][j] = queue[f][r][d][j]
    BY <2>1, <2>2 DEF QueueInOrder, Ascending
  <2>3. CASE queue'[f][r][d][j] = p
    <3>1. MayTravel(f, r, d, queue[f][r][d][i])
      BY <2>1 DEF AllMayTravel
    <3>2. queue[f][r][d][i].origin = n
      BY <1>1, <2>1, <2>3
    <3>3. queue[f][r][d][i].num <= Len(sent[n])
      BY <3>1, <3>2 DEF MayTravel
    <3>4. queue[f][r][d][i].num \in Nat
      BY <1>7, <2>1 DEF Packet
    <3>5. Len(sent[n]) \in Nat
      BY <1>4, Zenon
    <3>6. queue[f][r][d][i].num < Len(sent[n]) + 1
      BY <3>3, <3>4, <3>5
    <3> QED
      BY <1>1, <2>1, <2>3, <3>6, Zenon
  <2> QED
    BY <2>added, <2>2, <2>3, Zenon DEF OneAdded
<1>12. QueueIsNewer'
  <2> SUFFICES ASSUME NEW f \in Node, NEW r \in Node, NEW d \in Channels,
                      NEW i \in 1 .. Len(queue'[f][r][d]), NEW k \in 1 .. Len(handed'[r]),
                      handed'[r][k].from = f, handed'[r][k].channel = d,
                      handed'[r][k].origin = queue'[f][r][d][i].origin
               PROVE  handed'[r][k].num < queue'[f][r][d][i].num
    BY DEF QueueIsNewer
  <2>same. /\ k \in 1 .. Len(handed[r]) /\ handed'[r][k] = handed[r][k]
           /\ handed[r][k].from = f /\ handed[r][k].channel = d
           /\ handed[r][k].origin = queue'[f][r][d][i].origin
    BY <1>2
  <2>1. CASE i \in 1 .. Len(queue[f][r][d]) /\ queue'[f][r][d][i] = queue[f][r][d][i]
    BY <2>same, <2>1 DEF QueueIsNewer
  <2>2. CASE queue'[f][r][d][i] = p
    <3>1. MayBeHanded(r, handed[r][k])
      BY <2>same DEF AllMayBeHanded
    <3>2. handed[r][k].origin = n
      BY <1>1, <2>same, <2>2
    <3>3. handed[r][k].num <= Len(sent[n])
      BY <3>1, <3>2 DEF MayBeHanded
    <3>4. handed[r][k].num \in Nat
      BY <1>8, <2>same DEF Handed
    <3>5. Len(sent[n]) \in Nat
      BY <1>4, Zenon
    <3>6. handed[r][k].num < Len(sent[n]) + 1
      BY <3>3, <3>4, <3>5
    <3> QED
      BY <1>1, <2>same, <2>2, <3>6, Zenon
  <2>3. OneAdded(queue'[f][r][d], queue[f][r][d], p, f = n /\ r \in to /\ d = c)
    BY <1>6, Zenon
  <2> QED
    BY <2>1, <2>2, <2>3, Zenon DEF OneAdded
<1>13. InOrder'
  BY <1>2 DEF InOrder
<1> QED
  BY <1>9, <1>10, <1>11, <1>12, <1>13

\* Polling alone, as for a remote procedure call or a refusal: what is left is
\* as it was.
LEMMA PollStep ==
    ASSUME IInv, NEW n \in Node, NEW from \in Linked(n), NEW c \in Channels,
           RecvRpcPacket(n, from, c) \/ RecvRefused(n, from, c)
    PROVE  AllMayTravel' /\ AllMayBeHanded' /\ QueueInOrder' /\ QueueIsNewer' /\ InOrder'
<1> USE DEF IInv
<1>1. queue' = Polled(n, from, c) /\ queue[from][n][c] # <<>> /\ from \in Node
  BY LinkedIsOther DEF RecvRpcPacket, RecvRefused, Arrived
<1>2. handed' = handed
  BY DEF RecvRpcPacket, RecvRefused
<1>3. sent' = sent
  BY DEF RecvRpcPacket, RecvRefused
<1>4. ASSUME NEW f \in Node, NEW r \in Node, NEW d \in Channels
      PROVE  \E s \in {0, 1} : \A i \in 1 .. Len(queue'[f][r][d]) :
                /\ i + s \in 1 .. Len(queue[f][r][d])
                /\ queue'[f][r][d][i] = queue[f][r][d][i + s]
  <2>1. PICK s \in {0, 1} :
           /\ s = 1 <=> f = from /\ r = n /\ d = c
           /\ Shifted(Polled(n, from, c)[f][r][d], queue[f][r][d], s)
    BY <1>1, PolledElements
  <2>2. queue'[f][r][d] = Polled(n, from, c)[f][r][d]
    BY <1>1
  <2> QED
    BY <2>1, <2>2 DEF Shifted
<1>5. AllMayTravel'
  <2> SUFFICES ASSUME NEW f \in Node, NEW r \in Node, NEW d \in Channels,
                      NEW i \in 1 .. Len(queue'[f][r][d])
               PROVE  MayTravel(f, r, d, queue[f][r][d][i])'
    BY DEF AllMayTravel
  <2>1. PICK k \in 1 .. Len(queue[f][r][d]) : queue'[f][r][d][i] = queue[f][r][d][k]
    BY <1>4
  <2>2. MayTravel(f, r, d, queue[f][r][d][k])
    BY DEF AllMayTravel
  <2> QED
    BY <1>2, <1>3, <2>1, <2>2 DEF MayTravel, HandedDirectly
<1>6. AllMayBeHanded'
  <2> SUFFICES ASSUME NEW o \in Node, NEW i \in 1 .. Len(handed'[o])
               PROVE  MayBeHanded(o, handed[o][i])'
    BY DEF AllMayBeHanded
  <2>1. MayBeHanded(o, handed[o][i])
    BY <1>2 DEF AllMayBeHanded
  <2> QED
    BY <1>2, <1>3, <2>1 DEF MayBeHanded
<1>7. InOrder'
  BY <1>2 DEF InOrder
<1>8. QueueInOrder'
  <2> SUFFICES ASSUME NEW f \in Node, NEW r \in Node, NEW d \in Channels
               PROVE  Ascending(queue'[f][r][d])
    BY DEF QueueInOrder
  <2> SUFFICES ASSUME NEW i \in 1 .. Len(queue'[f][r][d]), NEW j \in 1 .. Len(queue'[f][r][d]),
                      i < j, queue'[f][r][d][i].origin = queue'[f][r][d][j].origin
               PROVE  queue'[f][r][d][i].num < queue'[f][r][d][j].num
    BY DEF Ascending
  <2>1. PICK s \in {0, 1} : \A k \in 1 .. Len(queue'[f][r][d]) :
           /\ k + s \in 1 .. Len(queue[f][r][d])
           /\ queue'[f][r][d][k] = queue[f][r][d][k + s]
    BY <1>4
  <2>2. i + s < j + s
    <3>1. i \in Int /\ j \in Int /\ s \in Int
      OBVIOUS
    <3> QED
      BY <3>1
  <2>3. /\ i + s \in 1 .. Len(queue[f][r][d]) /\ j + s \in 1 .. Len(queue[f][r][d])
        /\ queue'[f][r][d][i] = queue[f][r][d][i + s]
        /\ queue'[f][r][d][j] = queue[f][r][d][j + s]
    BY <2>1
  <2>4. queue[f][r][d][i + s].origin = queue[f][r][d][j + s].origin
    BY <2>3
  <2>5. queue[f][r][d][i + s].num < queue[f][r][d][j + s].num
    <3>1. PICK a, b \in 1 .. Len(queue[f][r][d]) : a = i + s /\ b = j + s
      BY <2>3
    <3>2. a < b /\ queue[f][r][d][a].origin = queue[f][r][d][b].origin
      BY <2>2, <2>4, <3>1
    <3>3. queue[f][r][d][a].num < queue[f][r][d][b].num
      BY <3>2 DEF QueueInOrder, Ascending
    <3> QED
      BY <3>1, <3>3
  <2> QED
    BY <2>3, <2>5
<1>9. QueueIsNewer'
  <2> SUFFICES ASSUME NEW f \in Node, NEW r \in Node, NEW d \in Channels,
                      NEW i \in 1 .. Len(queue'[f][r][d]), NEW k \in 1 .. Len(handed'[r]),
                      handed'[r][k].from = f, handed'[r][k].channel = d,
                      handed'[r][k].origin = queue'[f][r][d][i].origin
               PROVE  handed'[r][k].num < queue'[f][r][d][i].num
    BY DEF QueueIsNewer
  <2>same. /\ k \in 1 .. Len(handed[r]) /\ handed'[r][k] = handed[r][k]
           /\ handed[r][k].from = f /\ handed[r][k].channel = d
           /\ handed[r][k].origin = queue'[f][r][d][i].origin
    BY <1>2
  <2>1. PICK s \in {0, 1} : /\ i + s \in 1 .. Len(queue[f][r][d])
                            /\ queue'[f][r][d][i] = queue[f][r][d][i + s]
    BY <1>4
  <2>2. PICK j \in 1 .. Len(queue[f][r][d]) : queue'[f][r][d][i] = queue[f][r][d][j]
    BY <2>1
  <2>3. handed[r][k].num < queue[f][r][d][j].num
    BY <2>same, <2>2 DEF QueueIsNewer
  <2> QED
    BY <2>same, <2>2, <2>3
<1> QED
  BY <1>5, <1>6, <1>8, <1>9, <1>7

\* A relayed message is newer than all of that origin that node n relayed the
\* same way before: those it was handed directly, and in order.
LEMMA RelayedIsNewer ==
    ASSUME IInv, NEW n \in Node, NEW from \in Linked(n), NEW c \in Channels,
           NEW p \in Packet, 1 \in 1 .. Len(queue[from][n][c]),
           p = queue[from][n][c][1], p.origin = from,
           NEW k \in Nat, HandedDirectly(handed[n], from, c, k)
    PROVE  k < p.num
<1>1. from \in Node
  BY LinkedIsOther
<1>2. PICK i \in 1 .. Len(handed[n]) :
          /\ handed[n][i].from = from /\ handed[n][i].origin = from
          /\ handed[n][i].channel = c /\ handed[n][i].num = k
  BY DEF HandedDirectly
<1> QED
  BY <1>1, <1>2 DEF IInv, QueueIsNewer

\* A user message is handed over and may be relayed.
LEMMA UserStep ==
    ASSUME IInv, NEW n \in Node, NEW from \in Linked(n), NEW c \in Channels,
           RecvUserPacket(n, from, c)
    PROVE  AllMayTravel' /\ AllMayBeHanded' /\ QueueInOrder' /\ QueueIsNewer' /\ InOrder'
<1> USE DEF IInv
<1>1. PICK p, q \in Packet, h \in Handed, to \in SUBSET Linked(n) :
            /\ queue[from][n][c] # <<>> /\ p = Head(queue[from][n][c])
            /\ q = Relayed(p)
            /\ to = RelayReceivers(n, from, p)
            /\ queue' = WithAdded(Polled(n, from, c), n, to, c, q)
            /\ h = [origin |-> p.origin, num |-> p.num, sentOn |-> p.channel,
                    channel |-> c, from |-> from]
            /\ handed' = [handed EXCEPT ![n] = Append(@, h)]
  BY RecvHands
<1>2. sent' = sent
  BY DEF RecvUserPacket
<1>3. from \in Node \ {n} /\ to \in SUBSET (Node \ {n})
  BY LinkedIsOther, Zenon
<1>4. Polled(n, from, c) \in Queues
  BY <1>1, <1>3, PolledAt, Zenon
<1>5. /\ queue[from][n][c] \in Seq(Packet)
      /\ 1 \in 1 .. Len(queue[from][n][c]) /\ p = queue[from][n][c][1]
  <2>1. queue[from][n][c] \in Seq(Packet) /\ queue[from][n][c] # <<>>
    BY <1>1, <1>3 DEF TypeOK
  <2>2. Len(queue[from][n][c]) \in Nat /\ Len(queue[from][n][c]) # 0
    BY <2>1, LenProperties, EmptySeq
  <2>3. Head(queue[from][n][c]) = queue[from][n][c][1]
    BY <2>1, HeadTailProperties
  <2>4. 1 \in 1 .. Len(queue[from][n][c])
    BY <2>2
  <2> QED
    BY <1>1, <2>1, <2>3, <2>4, Zenon
<1>6. MayTravel(from, n, c, p)
  BY <1>3, <1>5 DEF AllMayTravel
<1>7. \* What is relayed comes from its origin.
      to # {} => p.origin = from /\ n \in Listening /\ from \notin to
  <2>1. p.origin # from => ~p.relay
    BY <1>6, Zenon DEF MayTravel
  <2>2. to = IF p.relay /\ n \in Listening THEN Linked(n) \ {from} ELSE {}
    BY <1>1, Zenon DEF RelayReceivers
  <2> QED
    BY <2>1, <2>2
<1>8. q.origin = p.origin /\ q.num = p.num /\ q.channel = p.channel /\ q.relay = FALSE
  <2>1. q = [p EXCEPT !.relay = FALSE]
    BY <1>1, Zenon DEF Relayed
  <2> QED
    BY <2>1 DEF Packet
<1>9. h.origin = p.origin /\ h.num = p.num /\ h.sentOn = p.channel /\ h.channel = c
      /\ h.from = from
  BY <1>1
<1>10. \A f, r \in Node, d \in Channels :
         /\ Len(queue[f][r][d]) \in Nat
         /\ \A i \in 1 .. Len(queue[f][r][d]) : queue[f][r][d][i] \in Packet
  <2> TAKE f, r \in Node, d \in Channels
  <2>1. queue[f][r][d] \in Seq(Packet)
    BY DEF TypeOK
  <2> QED
    BY <2>1, ElementOfSeq, LenProperties, Zenon
<1>11. \A o \in Node : \A i \in 1 .. Len(handed[o]) : handed[o][i] \in Handed
  BY ElementOfSeq DEF TypeOK
<1>12. ASSUME NEW f \in Node, NEW r \in Node, NEW d \in Channels
       PROVE  \E s \in {0, 1} :
                /\ s = 1 <=> f = from /\ r = n /\ d = c
                /\ \A i \in 1 .. Len(queue'[f][r][d]) :
                      \/ /\ i + s \in 1 .. Len(queue[f][r][d])
                         /\ queue'[f][r][d][i] = queue[f][r][d][i + s]
                      \/ /\ f = n /\ r \in to /\ d = c /\ queue'[f][r][d][i] = q
                         /\ \A k \in 1 .. Len(queue'[f][r][d]) : k <= i
  <2> DEFINE P == Polled(n, from, c)
  <2>1. PICK s \in {0, 1} :
           /\ s = 1 <=> f = from /\ r = n /\ d = c
           /\ Shifted(P[f][r][d], queue[f][r][d], s)
    BY <1>1, <1>3, PolledElements
  <2>2. to \in SUBSET Node /\ P \in Queues /\ queue' = WithAdded(P, n, to, c, q)
    <3>1. to \in SUBSET Node
      BY <1>3
    <3> QED
      BY <1>1, <1>4, <3>1, Zenon
  <2> HIDE DEF P
  <2>3. Len(P[f][r][d]) \in Nat
    <3>1. P[f][r][d] \in Seq(Packet)
      BY <2>2 DEF Queues
    <3> QED
      BY <3>1, LenProperties
  <2>4. \A i \in 1 .. Len(queue'[f][r][d]) :
           \/ i \in 1 .. Len(P[f][r][d]) /\ queue'[f][r][d][i] = P[f][r][d][i]
           \/ /\ f = n /\ r \in to /\ d = c
              /\ i = Len(P[f][r][d]) + 1 /\ queue'[f][r][d][i] = q
    <3>1. OneAdded(WithAdded(P, n, to, c, q)[f][r][d], P[f][r][d], q,
                   f = n /\ r \in to /\ d = c)
      BY <2>2, AddedElements
    <3>2. OneAdded(queue'[f][r][d], P[f][r][d], q, f = n /\ r \in to /\ d = c)
      BY <2>2, <3>1
    <3> QED
      BY <3>2 DEF OneAdded
  <2>5. \A k \in 1 .. Len(queue'[f][r][d]) : k <= Len(P[f][r][d]) + 1
    BY <2>4, <2>3
  <2>6. \A i \in 1 .. Len(queue'[f][r][d]) : i = Len(P[f][r][d]) + 1 =>
           \A k \in 1 .. Len(queue'[f][r][d]) : k <= i
    BY <2>5
  <2>7. \A i \in 1 .. Len(queue'[f][r][d]) :
           \/ /\ i + s \in 1 .. Len(queue[f][r][d])
              /\ queue'[f][r][d][i] = queue[f][r][d][i + s]
           \/ /\ f = n /\ r \in to /\ d = c /\ queue'[f][r][d][i] = q
              /\ \A k \in 1 .. Len(queue'[f][r][d]) : k <= i
    <3> TAKE i \in 1 .. Len(queue'[f][r][d])
    <3>1. CASE i \in 1 .. Len(P[f][r][d]) /\ queue'[f][r][d][i] = P[f][r][d][i]
      BY <2>1, <3>1, Zenon DEF Shifted
    <3>2. CASE /\ f = n /\ r \in to /\ d = c
               /\ i = Len(P[f][r][d]) + 1 /\ queue'[f][r][d][i] = q
      BY <2>6, <3>2, Zenon
    <3> QED
      BY <2>4, <3>1, <3>2, Zenon
  <2> QED
    BY <2>1, <2>7, Zenon
<1>13. handed \in [Node -> Seq(Handed)] /\ handed' = [handed EXCEPT ![n] = Append(@, h)]
  BY <1>1 DEF TypeOK
<1>14. \A o \in Node :
          /\ Len(handed[o]) \in Nat
          /\ \A i \in 1 .. Len(handed'[o]) :
                \/ i \in 1 .. Len(handed[o]) /\ handed'[o][i] = handed[o][i]
                \/ o = n /\ i = Len(handed[n]) + 1 /\ handed'[o][i] = h
  BY <1>13, AppendedAt
<1>15. \A o \in Node : \A i \in 1 .. Len(handed[o]) : handed'[o][i] = handed[o][i]
  BY <1>13, AppendedAt
<1>16. Len(handed[n]) + 1 \in 1 .. Len(handed'[n]) /\ handed'[n][Len(handed[n]) + 1] = h
  BY <1>13, AppendedAt
<1>17. ASSUME NEW o \in Node, NEW a, NEW d, NEW k, HandedDirectly(handed[o], a, d, k)
       PROVE  HandedDirectly(handed'[o], a, d, k)
  BY <1>13, <1>17, HandedStays
<1>18. ASSUME p.origin = from PROVE HandedDirectly(handed'[n], from, c, p.num)
  BY <1>9, <1>16, <1>18 DEF HandedDirectly
<1>19. AllMayTravel'
  <2> SUFFICES ASSUME NEW f \in Node, NEW r \in Node, NEW d \in Channels,
                      NEW i \in 1 .. Len(queue'[f][r][d])
               PROVE  MayTravel(f, r, d, queue[f][r][d][i])'
    BY DEF AllMayTravel
  <2>1. CASE \E k \in 1 .. Len(queue[f][r][d]) : queue'[f][r][d][i] = queue[f][r][d][k]
    <3>1. PICK k \in 1 .. Len(queue[f][r][d]) : queue'[f][r][d][i] = queue[f][r][d][k]
      BY <2>1
    <3>2. MayTravel(f, r, d, queue[f][r][d][k])
      BY DEF AllMayTravel
    <3>3. queue[f][r][d][k].origin # f =>
             HandedDirectly(handed'[f], queue[f][r][d][k].origin, d, queue[f][r][d][k].num)
      BY <1>17, <3>2 DEF MayTravel
    <3> QED
      BY <1>2, <3>1, <3>2, <3>3 DEF MayTravel
  <2>2. CASE f = n /\ r \in to /\ d = c /\ queue'[f][r][d][i] = q
    <3>1. p.origin = from /\ n \in Listening /\ r # from
      BY <1>7, <2>2
    <3>2. HandedDirectly(handed'[n], from, c, p.num)
      BY <1>18, <3>1
    <3>3. p.num <= Len(sent'[from]) /\ p.channel = c
      BY <1>2, <1>6, <3>1 DEF MayTravel
    <3>4. r \in Linked(n)
      BY <2>2
    <3> QED
      BY <1>8, <2>2, <3>1, <3>2, <3>3, <3>4 DEF MayTravel
  <2>3. PICK s \in {0, 1} :
           /\ s = 1 <=> f = from /\ r = n /\ d = c
           /\ \A k \in 1 .. Len(queue'[f][r][d]) :
                 \/ /\ k + s \in 1 .. Len(queue[f][r][d])
                    /\ queue'[f][r][d][k] = queue[f][r][d][k + s]
                 \/ /\ f = n /\ r \in to /\ d = c /\ queue'[f][r][d][k] = q
                    /\ \A l \in 1 .. Len(queue'[f][r][d]) : l <= k
    BY <1>12
  <2> QED
    BY <2>1, <2>2, <2>3
<1>20. AllMayBeHanded'
  <2> SUFFICES ASSUME NEW o \in Node, NEW i \in 1 .. Len(handed'[o])
               PROVE  MayBeHanded(o, handed[o][i])'
    BY DEF AllMayBeHanded
  <2>1. CASE i \in 1 .. Len(handed[o]) /\ handed'[o][i] = handed[o][i]
    <3>1. MayBeHanded(o, handed[o][i]) /\ handed[o][i].from \in Node
      BY <1>11, <2>1 DEF AllMayBeHanded, Handed
    <3>2. handed[o][i].from # handed[o][i].origin =>
             HandedDirectly(handed'[handed[o][i].from], handed[o][i].origin,
                            handed[o][i].channel, handed[o][i].num)
      BY <1>17, <3>1 DEF MayBeHanded
    <3> QED
      BY <1>2, <2>1, <3>1, <3>2 DEF MayBeHanded
  <2>2. CASE o = n /\ handed'[o][i] = h
    <3>1. p.origin # from => HandedDirectly(handed'[from], p.origin, c, p.num)
      BY <1>3, <1>6, <1>17 DEF MayTravel
    <3> QED
      BY <1>2, <1>6, <1>9, <2>2, <3>1 DEF MayTravel, MayBeHanded
  <2> QED
    BY <1>14, <2>1, <2>2
<1>21. QueueInOrder'
  <2> SUFFICES ASSUME NEW f \in Node, NEW r \in Node, NEW d \in Channels
               PROVE  Ascending(queue'[f][r][d])
    BY DEF QueueInOrder
  <2> SUFFICES ASSUME NEW i \in 1 .. Len(queue'[f][r][d]), NEW j \in 1 .. Len(queue'[f][r][d]),
                      i < j, queue'[f][r][d][i].origin = queue'[f][r][d][j].origin
               PROVE  queue'[f][r][d][i].num < queue'[f][r][d][j].num
    BY DEF Ascending
  <2>1. PICK s \in {0, 1} :
           /\ s = 1 <=> f = from /\ r = n /\ d = c
           /\ \A k \in 1 .. Len(queue'[f][r][d]) :
                 \/ /\ k + s \in 1 .. Len(queue[f][r][d])
                    /\ queue'[f][r][d][k] = queue[f][r][d][k + s]
                 \/ /\ f = n /\ r \in to /\ d = c /\ queue'[f][r][d][k] = q
                    /\ \A l \in 1 .. Len(queue'[f][r][d]) : l <= k
    BY <1>12
  <2>2. ~ j <= i
    OBVIOUS
  <2>3. i + s \in 1 .. Len(queue[f][r][d]) /\ queue'[f][r][d][i] = queue[f][r][d][i + s]
    BY <2>1, <2>2
  <2>4. CASE j + s \in 1 .. Len(queue[f][r][d]) /\ queue'[f][r][d][j] = queue[f][r][d][j + s]
    <3>1. i + s < j + s
      OBVIOUS
    <3>2. queue[f][r][d][i + s].origin = queue[f][r][d][j + s].origin
      BY <2>3, <2>4
    <3>3. queue[f][r][d][i + s].num < queue[f][r][d][j + s].num
      BY <2>3, <2>4, <3>1, <3>2 DEF QueueInOrder, Ascending
    <3> QED
      BY <2>3, <2>4, <3>3
  <2>5. CASE f = n /\ r \in to /\ d = c /\ queue'[f][r][d][j] = q
    <3>1. p.origin = from
      BY <1>7, <2>5
    <3>2. MayTravel(n, r, c, queue[n][r][c][i + s]) /\ queue[n][r][c][i + s] \in Packet
      BY <1>10, <2>3, <2>5 DEF AllMayTravel
    <3>3. queue[n][r][c][i + s].origin = from
      BY <1>8, <2>3, <2>5, <3>1
    <3>4. HandedDirectly(handed[n], from, c, queue[n][r][c][i + s].num)
      BY <1>3, <3>2, <3>3, Zenon DEF MayTravel
    <3>5. queue[n][r][c][i + s].num < p.num
      BY <1>5, <3>1, <3>2, <3>4, RelayedIsNewer DEF Packet
    <3> QED
      BY <1>8, <2>3, <2>5, <3>5
  <2> QED
    BY <2>1, <2>4, <2>5
<1>22. QueueIsNewer'
  <2> SUFFICES ASSUME NEW f \in Node, NEW r \in Node, NEW d \in Channels,
                      NEW i \in 1 .. Len(queue'[f][r][d]), NEW k \in 1 .. Len(handed'[r]),
                      handed'[r][k].from = f, handed'[r][k].channel = d,
                      handed'[r][k].origin = queue'[f][r][d][i].origin
               PROVE  handed'[r][k].num < queue'[f][r][d][i].num
    BY DEF QueueIsNewer
  <2>1. PICK s \in {0, 1} :
           /\ s = 1 <=> f = from /\ r = n /\ d = c
           /\ \/ /\ i + s \in 1 .. Len(queue[f][r][d])
                 /\ queue'[f][r][d][i] = queue[f][r][d][i + s]
              \/ f = n /\ r \in to /\ d = c /\ queue'[f][r][d][i] = q
    BY <1>12
  <2>2. CASE /\ i + s \in 1 .. Len(queue[f][r][d])
             /\ queue'[f][r][d][i] = queue[f][r][d][i + s]
    <3>1. CASE k \in 1 .. Len(handed[r]) /\ handed'[r][k] = handed[r][k]
      <4>1. PICK j \in 1 .. Len(queue[f][r][d]) : queue'[f][r][d][i] = queue[f][r][d][j]
        BY <2>2
      <4>2. /\ handed[r][k].from = f /\ handed[r][k].channel = d
            /\ handed[r][k].origin = queue[f][r][d][j].origin
        BY <3>1, <4>1
      <4>3. handed[r][k].num < queue[f][r][d][j].num
        BY <3>1, <4>2 DEF QueueIsNewer
      <4> QED
        BY <3>1, <4>1, <4>3
    <3>2. CASE r = n /\ handed'[r][k] = h
      <4>1. f = from /\ d = c /\ s = 1
        BY <1>9, <2>1, <3>2
      <4>2. i + 1 \in 1 .. Len(queue[from][n][c]) /\ 1 < i + 1
        BY <2>2, <3>2, <4>1
      <4>3. queue[from][n][c][1].origin = queue[from][n][c][i + 1].origin
        BY <1>5, <1>9, <2>2, <3>2, <4>1
      <4>4. queue[from][n][c][1].num < queue[from][n][c][i + 1].num
        BY <1>3, <1>5, <4>2, <4>3 DEF QueueInOrder, Ascending
      <4> QED
        BY <1>5, <1>9, <2>2, <3>2, <4>1, <4>4
    <3> QED
      BY <1>14, <3>1, <3>2
  <2>3. CASE f = n /\ r \in to /\ d = c /\ queue'[f][r][d][i] = q
    <3>1. p.origin = from /\ r # n
      BY <1>3, <1>7, <2>3
    <3>2. k \in 1 .. Len(handed[r]) /\ handed'[r][k] = handed[r][k]
      BY <1>14, <3>1
    <3>3. MayBeHanded(r, handed[r][k]) /\ handed[r][k] \in Handed
      BY <1>11, <3>2 DEF AllMayBeHanded
    <3>4. handed[r][k].origin = from /\ handed[r][k].from = n /\ handed[r][k].channel = c
      BY <1>8, <2>3, <3>1, <3>2
    <3>5. HandedDirectly(handed[n], from, c, handed[r][k].num)
      BY <1>3, <3>3, <3>4 DEF MayBeHanded
    <3>6. handed[r][k].num < p.num
      BY <1>5, <3>1, <3>3, <3>5, RelayedIsNewer DEF Handed
    <3> QED
      BY <1>8, <2>3, <3>2, <3>6
  <2> QED
    BY <2>1, <2>2, <2>3
<1>23. InOrder'
  <2> SUFFICES ASSUME NEW o \in Node, NEW j \in 1 .. Len(handed'[o])
               PROVE  LET h2 == handed'[o][j]
                      IN /\ h2.channel = h2.sentOn
                         /\ \A i \in 1 .. j - 1 :
                               LET g == handed'[o][i]
                               IN g.from = h2.from /\ g.origin = h2.origin
                                  /\ g.channel = h2.channel => g.num < h2.num
    BY DEF InOrder
  <2>1. \A i \in 1 .. j - 1 : i \in 1 .. Len(handed[o]) /\ handed'[o][i] = handed[o][i]
    <3>1. j <= Len(handed[o]) + 1 /\ Len(handed[o]) \in Nat
      <4>1. j \in 1 .. Len(handed[o]) \/ (o = n /\ j = Len(handed[n]) + 1)
        BY <1>14
      <4>2. Len(handed[o]) \in Nat
        BY <1>14
      <4> QED
        BY <4>1, <4>2
    <3>2. \A i \in 1 .. j - 1 : i \in 1 .. Len(handed[o])
      BY <3>1
    <3>3. \A i \in 1 .. Len(handed[o]) : handed'[o][i] = handed[o][i]
      BY <1>15
    <3> QED
      BY <3>2, <3>3
  <2>2. CASE j \in 1 .. Len(handed[o]) /\ handed'[o][j] = handed[o][j]
    BY <2>1, <2>2 DEF InOrder
  <2>3. CASE o = n /\ handed'[o][j] = h
    <3>1. h.channel = h.sentOn
      BY <1>6, <1>9 DEF MayTravel
    <3>2. ASSUME NEW i \in 1 .. j - 1, handed[n][i].from = h.from,
                 handed[n][i].origin = h.origin, handed[n][i].channel = h.channel
          PROVE  handed[n][i].num < h.num
      <4>1. i \in 1 .. Len(handed[n])
        BY <2>1, <2>3
      <4>2. handed[n][i].num < queue[from][n][c][1].num
        BY <1>3, <1>5, <1>9, <3>2, <4>1 DEF QueueIsNewer
      <4> QED
        BY <1>5, <1>9, <4>2
    <3> QED
      BY <2>1, <2>3, <3>1, <3>2
  <2> QED
    BY <1>14, <2>2, <2>3
<1> QED
  BY <1>19, <1>20, <1>21, <1>22, <1>23

-----------------------------------------------------------------------------
\* The invariant, and what follows.

LEMMA InitIInv == Init => IInv
<1> SUFFICES ASSUME Init PROVE IInv
  OBVIOUS
<1>1. \A n \in Node : handed[n] = <<>> /\ Len(handed[n]) = 0
  BY EmptySeq DEF Init
<1>2. \A f, r \in Node, c \in Channels : Len(queue[f][r][c]) = 0
  BY EmptySeq DEF Init
<1>3. AllMayTravel /\ QueueInOrder /\ QueueIsNewer
  BY <1>2 DEF AllMayTravel, QueueInOrder, Ascending, QueueIsNewer
<1>4. AllMayBeHanded /\ InOrder
  BY <1>1 DEF AllMayBeHanded, InOrder
<1> QED
  BY <1>3, <1>4, TypeInit DEF IInv

LEMMA NextIInv == IInv /\ [Next]_vars => IInv'
<1> SUFFICES ASSUME IInv, [Next]_vars PROVE IInv'
  OBVIOUS
<1>1. TypeOK'
  BY TypeStep DEF IInv
<1>2. ASSUME NEW n \in Node, SendReliableOrdered(n) PROVE IInv'
  BY <1>1, <1>2, SendStep, Zenon DEF IInv
<1>3. ASSUME UNCHANGED <<queue, sent, handed>> PROVE IInv'
  BY <1>1, <1>3 DEF IInv, AllMayTravel, MayTravel, AllMayBeHanded, MayBeHanded,
                    QueueInOrder, QueueIsNewer, InOrder
<1>4. ASSUME NEW n \in Node, NEW from \in Linked(n), NEW c \in Channels,
             RecvUserPacket(n, from, c)
      PROVE  IInv'
  BY <1>1, <1>4, UserStep DEF IInv
<1>5. ASSUME NEW n \in Node, NEW from \in Linked(n), NEW c \in Channels,
             RecvRpcPacket(n, from, c) \/ RecvRefused(n, from, c)
      PROVE  IInv'
  BY <1>1, <1>5, PollStep DEF IInv
<1>6. ASSUME NEW n \in Node, NextLink(n) PROVE IInv'
  BY <1>3, <1>6 DEF NextLink
<1>7. ASSUME UNCHANGED vars PROVE IInv'
  BY <1>3, <1>7 DEF vars
<1> QED
  BY <1>2, <1>4, <1>5, <1>6, <1>7 DEF Next

LEMMA AlwaysIInv == Spec => []IInv
BY InitIInv, NextIInv, PTL DEF Spec

\* However the nodes are linked, and however many of them listen, a message is
\* relayed once at most: it comes from its sender or from a listening node
\* with a link to its sender.
THEOREM RelayedOnceHolds == Spec => []RelayedOnce
<1>1. IInv => RelayedOnce
  BY DEF IInv, AllMayBeHanded, MayBeHanded, RelayedOnce
<1> QED
  BY <1>1, AlwaysIInv, PTL

\* No game is ever handed its own message.
THEOREM NoEchoHolds == Spec => []NoEcho
<1>1. IInv => NoEcho
  BY DEF IInv, AllMayBeHanded, MayBeHanded, NoEcho
<1> QED
  BY <1>1, AlwaysIInv, PTL

\* Relaying keeps the order of each sender's messages on each channel, and
\* hands none over twice, over whatever links.
THEOREM InOrderHolds == Spec => []InOrder
<1>1. IInv => InOrder
  BY DEF IInv
<1> QED
  BY <1>1, AlwaysIInv, PTL
=============
