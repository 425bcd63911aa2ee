--------------------- MODULE ConnectionsAgreementProofs ---------------------
(***************************************************************************)
(* The two ends of a connection agree, and both hold a live link: for any  *)
(* nodes of which no two connect to each other, and that send nothing on a *)
(* link without a connection.  The invariant speaks of one pair of nodes   *)
(* at a time, a client and a server, by the four cells of the tables that  *)
(* belong to it: first come facts about the values of those cells, then    *)
(* what each step does to them.                                            *)
(*                                                                         *)
(* The second part is about what a server relays, where there is one that  *)
(* closes nothing itself: what a client heard last of a node, what is      *)
(* under way to it and what the server will tell next are in turn.         *)
(***************************************************************************)
EXTENDS ConnectionsProofs

\* n may connect to p.
MayConnect(n, p) == n \in Clients /\ p \in Listeners /\ n # p

\* No two nodes may connect to each other.
OneWay == \A n, p \in Node : MayConnect(n, p) => ~MayConnect(p, n)

-----------------------------------------------------------------------------
\* What a sequence of messages has in it.

Has(q, types) == \E i \in 1 .. Len(q) : q[i].type \in types
RequestIn(q) == Has(q, {"ConnectRequest"})
RefusalIn(q) == Has(q, RefusalTypes)

LEMMA HasNone == \A types : ~Has(<<>>, types)
  BY DEF Has

LEMMA HasTail ==
    ASSUME NEW q \in Seq(Message), q # <<>>, NEW types
    PROVE  /\ Has(q, types) <=> Head(q).type \in types \/ Has(Tail(q), types)
           /\ Len(q) = 1 => Tail(q) = <<>>
<1>1. /\ Tail(q) \in Seq(Message) /\ Len(q) \in Nat \ {0}
      /\ Len(Tail(q)) = Len(q) - 1
      /\ \A i \in 1 .. Len(Tail(q)) : Tail(q)[i] = q[i + 1]
      /\ Head(q) = q[1]
  <2>1. Len(q) \in Nat \ {0}
    OBVIOUS
  <2> QED
    BY <2>1, HeadTailProperties
<1>2. ASSUME Has(q, types) PROVE Head(q).type \in types \/ Has(Tail(q), types)
  <2>1. PICK i \in 1 .. Len(q) : q[i].type \in types
    BY <1>2 DEF Has
  <2>2. CASE i = 1
    BY <1>1, <2>1, <2>2
  <2>3. CASE i # 1
    <3>1. i - 1 \in 1 .. Len(Tail(q)) /\ Tail(q)[i - 1] = q[i]
      BY <1>1, <2>3
    <3> QED
      BY <2>1, <3>1 DEF Has
  <2> QED
    BY <2>2, <2>3
<1>3. ASSUME Head(q).type \in types PROVE Has(q, types)
  <2>1. 1 \in 1 .. Len(q)
    BY <1>1
  <2> QED
    BY <1>1, <1>3, <2>1 DEF Has
<1>4. ASSUME Has(Tail(q), types) PROVE Has(q, types)
  <2>1. PICK i \in 1 .. Len(Tail(q)) : Tail(q)[i].type \in types
    BY <1>4 DEF Has
  <2>2. i + 1 \in 1 .. Len(q) /\ Tail(q)[i] = q[i + 1]
    BY <1>1
  <2> QED
    BY <2>1, <2>2 DEF Has
<1>5. Len(q) = 1 => Tail(q) = <<>>
  <2>1. Len(q) = 1 => Len(Tail(q)) = 0
    BY <1>1
  <2> QED
    BY <1>1, <2>1, EmptySeq
<1> QED
  BY <1>2, <1>3, <1>4, <1>5

LEMMA HasAppend ==
    ASSUME NEW q \in Seq(Message), NEW msg \in Message, NEW types
    PROVE  Has(Append(q, msg), types) <=> Has(q, types) \/ msg.type \in types
<1>1. /\ Append(q, msg) \in Seq(Message) /\ Len(q) \in Nat
      /\ Len(Append(q, msg)) = Len(q) + 1
      /\ \A i \in 1 .. Len(q) : Append(q, msg)[i] = q[i]
      /\ Append(q, msg)[Len(q) + 1] = msg
  BY AppendProperties
<1>2. ASSUME Has(Append(q, msg), types) PROVE Has(q, types) \/ msg.type \in types
  <2>1. PICK i \in 1 .. Len(q) + 1 : Append(q, msg)[i].type \in types
    BY <1>1, <1>2 DEF Has
  <2>2. i = Len(q) + 1 \/ i \in 1 .. Len(q)
    BY <1>1
  <2> QED
    BY <1>1, <2>1, <2>2 DEF Has
<1>3. ASSUME Has(q, types) PROVE Has(Append(q, msg), types)
  <2>1. PICK i \in 1 .. Len(q) : q[i].type \in types
    BY <1>3 DEF Has
  <2>2. i \in 1 .. Len(Append(q, msg))
    BY <1>1
  <2> QED
    BY <1>1, <2>1, <2>2 DEF Has
<1>4. ASSUME msg.type \in types PROVE Has(Append(q, msg), types)
  <2>1. Len(q) + 1 \in 1 .. Len(Append(q, msg))
    BY <1>1
  <2> QED
    BY <1>1, <1>4, <2>1 DEF Has
<1> QED
  BY <1>2, <1>3, <1>4

LEMMA HasOne ==
    ASSUME NEW msg \in Message, NEW types
    PROVE  /\ Has(<<msg>>, types) <=> msg.type \in types
           /\ <<msg>> # <<>> /\ Len(<<msg>>) = 1
  BY DEF Has

-----------------------------------------------------------------------------
\* The invariant, for the ends x, a of a client and y, b of a server: their
\* connection and their link.

Held == {"Idle", "Connecting", "Refused", "Connected"}
Unanswered(x) == x.state \notin {"Connected", "Refused", "Idle"}

\* A link between client c, which drew k link ids so far, and a server.
LinkOf(c, k, a) ==
    IF a.phase = "none" THEN a.id = <<>> /\ a.out = <<>> /\ a.queue = <<>>
                        ELSE \E i \in 1 .. k : a.id = <<c, i>>

\* A client's link is open as long as a connection holds it, and it is never
\* asked for a connection.
ClientEnd(c, k, x, a) ==
    /\ x.link = IF x.state \in Held THEN "link" ELSE "null"
    /\ x.link = "link" <=> a.phase = "open"
    /\ LinkOf(c, k, a)
    /\ ~RequestIn(a.queue)

\* A server's link is open as long as it is connected, or was asked and has
\* not looked.
ServerEnd(c, k, y, b) ==
    /\ y.state \notin {"Idle", "Connecting", "Refused"}
    /\ y.link = IF y.state = "Connected" THEN "link" ELSE "null"
    /\ y.state = "Connected" => b.phase = "open" /\ ~RequestIn(b.queue)
    /\ b.phase = "open" => y.state = "Connected" \/ RequestIn(b.queue)
    /\ LinkOf(c, k, b)
    /\ ~RequestIn(b.out)
    /\ RequestIn(b.queue) => Len(b.queue) = 1 /\ b.phase = "open" /\ b.out = <<>>
    /\ RefusalIn(b.out) => b.phase # "open"

\* A request is the first message of its link, and the only one until it is
\* answered; a client that was refused, or asked for nothing, has no open end.
Ends(x, a, b) ==
    /\ RequestIn(a.out) =>
          Len(a.out) = 1 /\ a.queue = <<>> /\ a.id # b.id /\ Unanswered(x)
    /\ a.id = b.id /\ RequestIn(b.queue) =>
          a.out = <<>> /\ a.queue = <<>> /\ Unanswered(x)
    /\ a.id = b.id /\ (RefusalIn(a.queue) \/ x.state = "Refused") => b.phase # "open"
    /\ x.state = "Idle" => a.out = <<>> /\ a.id # b.id

PairInv(c, k, x, a, y, b) == ClientEnd(c, k, x, a) /\ ServerEnd(c, k, y, b) /\ Ends(x, a, b)

\* Two nodes of which neither may connect to the other have nothing.
Nothing(x, a) ==
    /\ x.state = "none" /\ x.link = "null"
    /\ a.phase = "none" /\ a.out = <<>> /\ a.queue = <<>>

PairsInv ==
    \A c, s \in Node : MayConnect(c, s) =>
        PairInv(c, dialed[c], conns[c][s], links[c][s], conns[s][c], links[s][c])

OthersInv ==
    \A n, p \in Node : ~MayConnect(n, p) /\ ~MayConnect(p, n) => Nothing(conns[n][p], links[n][p])

\* What update remembers of the connection while it polls a link is stale only
\* when the link has no more messages.
PollInv(n) ==
    game[n].at = "polling" /\ ~game[n].known /\ Known(n, Peer(n)) =>
        links[n][Peer(n)].queue = <<>>

\* A node that is being deleted has no connections and is not in update.
GoneInv(n) ==
    alive[n] # "running" => game[n].at = "api" /\ \A p \in Node : ~Known(n, p)

GamesInv == \A n \in Node : PollInv(n) /\ GoneInv(n)

AgreeInv == PairsInv /\ OthersInv /\ GamesInv

-----------------------------------------------------------------------------
\* What a step may do to one end.

Plain == {msg \in Message : msg.type \notin RefusalTypes \cup {"ConnectRequest"}}

Gone == {"none", "InitiateTimedOut", "ConnectionTimedOut", "Disconnected"}

\* At most the first message is polled, and it is no request.
Polling(q, q2) == q2 = q \/ (q # <<>> /\ q2 = Tail(q) /\ Head(q).type # "ConnectRequest")

\* At most one message is sent, on a connection, that neither asks nor refuses.
Talking(x, out, out2) ==
    \/ out2 = out
    \/ /\ x.state = "Connected"
       /\ \E msg \in Plain : out2 = Append(out, msg)

\* The state and the phase stay, or the link expires ...
Staying(x, a, x2, a2) ==
    /\ x2.state = x.state /\ x2.link = x.link
    /\ a2.phase = a.phase \/ (a.phase = "lingers" /\ a2.phase = "expired")

\* ... or the attempt to connect is answered ...
Answered(x, a, x2, a2) ==
    /\ x.state = "Connecting" /\ a.queue # <<>>
    /\ x2.link = x.link /\ a2.phase = a.phase
    /\ x2.state = "Connected" \/ (x2.state = "Refused" /\ RefusalIn(a.queue))

\* ... or the connection ends and gives its link back.
Ending(x, a, x2, a2) ==
    /\ x2.state \in Gone /\ x2.link = "null"
    /\ x.state = "none" => x2.state = "none"
    /\ a2.phase = IF x.link = "link" /\ a.phase = "open" THEN "lingers" ELSE a.phase

Moves(x, a, x2, a2) ==
    /\ a2.id = a.id
    /\ Polling(a.queue, a2.queue)
    /\ Talking(x, a.out, a2.out)
    /\ Staying(x, a, x2, a2) \/ Answered(x, a, x2, a2) \/ Ending(x, a, x2, a2)

\* A link that no connection holds is deleted.
Removed(x, a, x2, a2) ==
    x.state \notin Held /\ x2.state = x.state /\ x2.link = x.link /\ a2 = NoLink

\* A request is polled, and refused or accepted.
Replies(x, a, x2, a2) ==
    /\ a.queue # <<>> /\ a2.queue = Tail(a.queue) /\ Head(a.queue).type = "ConnectRequest"
    /\ a2.id = a.id
    /\ \/ /\ x2.state = x.state /\ x2.link = x.link
          /\ a.phase = "open" => a2.phase = "lingers"
          /\ a.phase # "open" => a2.phase = a.phase
       \/ /\ x.state = "none" /\ x2.state = "Connected" /\ x2.link = "link"
          /\ a2.phase = a.phase
          /\ \E msg \in Plain : a2.out \in {a.out, Append(a.out, msg)}
    /\ a2.out = a.out \/ \E msg \in Message :
                            msg.type # "ConnectRequest" /\ a2.out = Append(a.out, msg)

EndMoves(x, a, x2, a2) == Moves(x, a, x2, a2) \/ Removed(x, a, x2, a2) \/ Replies(x, a, x2, a2)

\* What a move keeps of the messages.
LEMMA MovesFacts ==
    ASSUME NEW x, NEW a \in LinkType, NEW x2, NEW a2, Moves(x, a, x2, a2)
    PROVE  /\ RequestIn(a2.queue) => RequestIn(a.queue)
           /\ RefusalIn(a2.queue) => RefusalIn(a.queue)
           /\ RequestIn(a2.out) <=> RequestIn(a.out)
           /\ RefusalIn(a2.out) <=> RefusalIn(a.out)
           /\ RequestIn(a.queue) /\ Len(a.queue) = 1 => a2.queue = a.queue
           /\ a.queue = <<>> => a2.queue = <<>>
           /\ a2.out = a.out \/ x.state = "Connected"
<1>1. a.queue \in Seq(Message) /\ a.out \in Seq(Message)
  BY DEF LinkType
<1>2. /\ RequestIn(a2.queue) => RequestIn(a.queue)
      /\ RefusalIn(a2.queue) => RefusalIn(a.queue)
      /\ RequestIn(a.queue) /\ Len(a.queue) = 1 => a2.queue = a.queue
  <2>1. Polling(a.queue, a2.queue)
    BY DEF Moves
  <2> QED
    BY <1>1, <2>1, HasTail, HasNone DEF Polling, RequestIn, RefusalIn
<1>3. /\ RequestIn(a2.out) <=> RequestIn(a.out)
      /\ RefusalIn(a2.out) <=> RefusalIn(a.out)
      /\ a2.out = a.out \/ x.state = "Connected"
  <2>1. CASE a2.out = a.out
    BY <2>1
  <2>2. CASE a2.out # a.out
    <3>1. Talking(x, a.out, a2.out)
      BY DEF Moves
    <3>2. PICK msg \in Message : /\ msg.type \notin RefusalTypes \cup {"ConnectRequest"}
                                 /\ a2.out = Append(a.out, msg)
      BY <2>2, <3>1 DEF Talking, Plain
    <3>3. Has(a2.out, {"ConnectRequest"}) <=> Has(a.out, {"ConnectRequest"})
      BY <1>1, <3>2, HasAppend
    <3>4. Has(a2.out, RefusalTypes) <=> Has(a.out, RefusalTypes)
      BY <1>1, <3>2, HasAppend
    <3> QED
      BY <2>2, <3>1, <3>3, <3>4 DEF Talking, RequestIn, RefusalIn
  <2> QED
    BY <2>1, <2>2
<1>4. a.queue = <<>> => a2.queue = <<>>
  BY DEF Moves, Polling
<1> QED
  BY <1>2, <1>3, <1>4

\* A request in a queue of one is the message that is polled.
LEMMA RepliesFacts ==
    ASSUME NEW x, NEW a \in LinkType, NEW x2, NEW a2, Replies(x, a, x2, a2)
    PROVE  /\ RequestIn(a.queue)
           /\ Len(a.queue) = 1 => a2.queue = <<>>
           /\ RequestIn(a2.out) <=> RequestIn(a.out)
<1>1. a.queue \in Seq(Message) /\ a.out \in Seq(Message)
  BY DEF LinkType
<1>2. RequestIn(a.queue) /\ (Len(a.queue) = 1 => a2.queue = <<>>)
  BY <1>1, HasTail DEF Replies, RequestIn
<1>3. RequestIn(a2.out) <=> RequestIn(a.out)
  <2>1. CASE a2.out = a.out
    BY <2>1
  <2>2. CASE a2.out # a.out
    <3>1. PICK msg \in Message : msg.type # "ConnectRequest" /\ a2.out = Append(a.out, msg)
      BY <2>2 DEF Replies
    <3> QED
      BY <1>1, <3>1, HasAppend DEF RequestIn
  <2> QED
    BY <2>1, <2>2
<1> QED
  BY <1>2, <1>3

\* A client's move keeps the pair.
LEMMA ClientMoves ==
    ASSUME NEW c, NEW k \in Nat, NEW x, NEW a \in LinkType, NEW y, NEW b,
           PairInv(c, k, x, a, y, b), NEW x2, NEW a2, EndMoves(x, a, x2, a2)
    PROVE  PairInv(c, k, x2, a2, y, b)
<1> USE DEF PairInv
<1>1. CASE Moves(x, a, x2, a2)
  <2>1. /\ RequestIn(a2.queue) => RequestIn(a.queue)
        /\ RefusalIn(a2.queue) => RefusalIn(a.queue)
        /\ RequestIn(a2.out) <=> RequestIn(a.out)
        /\ a.queue = <<>> => a2.queue = <<>>
        /\ a2.out = a.out \/ x.state = "Connected"
        /\ a2.id = a.id
    BY <1>1, MovesFacts DEF Moves
  <2>2. Staying(x, a, x2, a2) \/ Answered(x, a, x2, a2) \/ Ending(x, a, x2, a2)
    BY <1>1 DEF Moves
  <2>3. ClientEnd(c, k, x2, a2)
    <3>1. /\ x2.link = IF x2.state \in Held THEN "link" ELSE "null"
          /\ x2.link = "link" <=> a2.phase = "open"
          /\ a2.phase = "none" <=> a.phase = "none"
      BY <2>2 DEF ClientEnd, Staying, Answered, Ending, Held, Gone
    <3>2. LinkOf(c, k, a2)
      BY <2>1, <3>1 DEF ClientEnd, LinkOf, Held
    <3> QED
      BY <2>1, <3>1, <3>2 DEF ClientEnd
  <2>4. /\ Unanswered(x) /\ a.queue = <<>> => Unanswered(x2)
        /\ x2.state = "Idle" => x.state = "Idle"
        /\ x2.state = "Refused" => x.state = "Refused" \/ RefusalIn(a.queue)
    BY <2>2 DEF Staying, Answered, Ending, Gone, Unanswered
  <2>5. x.state = "Connected" => ~Unanswered(x)
    BY DEF Unanswered
  <2>6. Ends(x2, a2, b)
    BY <2>1, <2>4, <2>5 DEF Ends
  <2> QED
    BY <2>3, <2>6
<1>2. CASE Removed(x, a, x2, a2)
  <2>1. a2.phase = "none" /\ a2.id = <<>> /\ a2.out = <<>> /\ a2.queue = <<>>
    BY <1>2 DEF Removed, NoLink
  <2>2. ClientEnd(c, k, x2, a2)
    BY <1>2, <2>1, HasNone DEF Removed, ClientEnd, LinkOf, RequestIn
  <2>3. ~RequestIn(a2.out) /\ ~RefusalIn(a2.queue) /\ Unanswered(x2)
    BY <1>2, <2>1, HasNone DEF Removed, RequestIn, RefusalIn, Unanswered, Held
  <2>4. Ends(x2, a2, b)
    BY <2>1, <2>3 DEF Ends, Unanswered
  <2> QED
    BY <2>2, <2>4
<1>3. CASE Replies(x, a, x2, a2)
  BY <1>3, RepliesFacts DEF ClientEnd
<1> QED
  BY <1>1, <1>2, <1>3 DEF EndMoves

\* A server's move keeps the pair.
LEMMA ServerMoves ==
    ASSUME NEW c, NEW k \in Nat, NEW x, NEW a, NEW y, NEW b \in LinkType,
           PairInv(c, k, x, a, y, b), NEW y2, NEW b2, EndMoves(y, b, y2, b2)
    PROVE  PairInv(c, k, x, a, y2, b2)
<1> USE DEF PairInv
<1>1. CASE Moves(y, b, y2, b2)
  <2>1. /\ RequestIn(b2.queue) => RequestIn(b.queue)
        /\ RequestIn(b.queue) => b2.queue = b.queue
        /\ RequestIn(b2.out) <=> RequestIn(b.out)
        /\ RefusalIn(b2.out) <=> RefusalIn(b.out)
        /\ b2.out = b.out \/ y.state = "Connected"
        /\ b2.id = b.id
    BY <1>1, MovesFacts DEF Moves, ServerEnd
  <2>2. Staying(y, b, y2, b2) \/ Ending(y, b, y2, b2)
    BY <1>1 DEF Moves, ServerEnd, Answered
  <2>3. /\ y2.state \notin {"Idle", "Connecting", "Refused"}
        /\ y2.link = IF y2.state = "Connected" THEN "link" ELSE "null"
        /\ y2.state = "Connected" => y.state = "Connected" /\ b2.phase = "open"
        /\ b2.phase = "none" <=> b.phase = "none"
        /\ b2.phase = "open" => b.phase = "open" /\ (y.state = "Connected" => y2.state = "Connected")
        /\ y.state # "Connected" => b2.phase = b.phase \/ b.phase = "lingers"
    BY <2>2 DEF ServerEnd, Staying, Ending, Gone
  <2>4. LinkOf(c, k, b2)
    <3>1. b.phase = "none" => b2.out = b.out /\ b2.queue = b.queue
      BY <1>1, <2>1 DEF ServerEnd, LinkOf, Moves, Polling
    <3> QED
      BY <2>1, <2>3, <3>1 DEF ServerEnd, LinkOf
  <2>5. ServerEnd(c, k, y2, b2)
    BY <2>1, <2>3, <2>4 DEF ServerEnd
  <2>6. Ends(x, a, b2)
    BY <2>1, <2>3 DEF Ends
  <2> QED
    BY <2>5, <2>6
<1>2. CASE Removed(y, b, y2, b2)
  <2>1. b2.phase = "none" /\ b2.id = <<>> /\ b2.out = <<>> /\ b2.queue = <<>>
    BY <1>2 DEF Removed, NoLink
  <2>2. ~RequestIn(b2.out) /\ ~RequestIn(b2.queue)
    BY <2>1, HasNone DEF RequestIn
  <2>3. ServerEnd(c, k, y2, b2)
    BY <1>2, <2>1, <2>2 DEF Removed, ServerEnd, LinkOf, Held
  <2>4. a.phase # "none" => a.id # b2.id
    <3> SUFFICES ASSUME a.phase # "none" PROVE a.id # b2.id
      OBVIOUS
    <3>1. PICK i \in 1 .. k : a.id = <<c, i>>
      BY DEF ClientEnd, LinkOf
    <3> QED
      BY <2>1, <3>1
  <2>5. RequestIn(a.out) \/ x.state = "Idle" => a.phase # "none"
    <3>1. RequestIn(a.out) => a.phase # "none"
      BY HasNone DEF ClientEnd, LinkOf, RequestIn
    <3>2. x.state = "Idle" => a.phase = "open"
      BY DEF ClientEnd, Held
    <3> QED
      BY <3>1, <3>2
  <2>6. Ends(x, a, b2)
    BY <2>1, <2>2, <2>4, <2>5 DEF Ends
  <2> QED
    BY <2>3, <2>6
<1>3. CASE Replies(y, b, y2, b2)
  <2>1. RequestIn(b.queue) /\ (RequestIn(b2.out) <=> RequestIn(b.out)) /\ b2.id = b.id
    BY <1>3, RepliesFacts DEF Replies
  <2>2. Len(b.queue) = 1 /\ b.phase = "open" /\ b.out = <<>> /\ y.state # "Connected"
    BY <2>1 DEF ServerEnd
  <2>3. b2.queue = <<>> /\ ~RequestIn(b2.queue)
    BY <1>3, <2>2, RepliesFacts, HasNone DEF RequestIn
  <2>4. \/ y2.state = y.state /\ y2.link = y.link /\ b2.phase = "lingers"
        \/ /\ y2.state = "Connected" /\ y2.link = "link" /\ b2.phase = "open"
           /\ ~RefusalIn(b2.out)
    <3>1. b.out \in Seq(Message)
      BY DEF LinkType
    <3>2. ~RefusalIn(b.out)
      BY <2>2, HasNone DEF RefusalIn
    <3> QED
      BY <1>3, <2>2, <3>1, <3>2, HasAppend DEF Replies, RefusalIn, Plain
  <2>5. LinkOf(c, k, b2)
    BY <2>1, <2>2, <2>4 DEF ServerEnd, LinkOf
  <2>6. ServerEnd(c, k, y2, b2)
    BY <2>1, <2>2, <2>3, <2>4, <2>5 DEF ServerEnd
  <2>7. Ends(x, a, b2)
    BY <2>1, <2>2, <2>3, <2>4 DEF Ends
  <2> QED
    BY <2>6, <2>7
<1> QED
  BY <1>1, <1>2, <1>3 DEF EndMoves

\* A move takes messages off a queue and adds none.
LEMMA StaysEmpty ==
    ASSUME NEW x, NEW a, NEW x2, NEW a2, EndMoves(x, a, x2, a2), a.queue = <<>>
    PROVE  a2.queue = <<>>
<1>1. CASE Moves(x, a, x2, a2)
  BY <1>1 DEF Moves, Polling
<1>2. CASE Removed(x, a, x2, a2)
  BY <1>2 DEF Removed, NoLink
<1>3. CASE Replies(x, a, x2, a2)
  BY <1>3 DEF Replies
<1> QED
  BY <1>1, <1>2, <1>3 DEF EndMoves

\* Where there is nothing, there is nothing after a move.
LEMMA NothingMoves ==
    ASSUME NEW x, NEW a \in LinkType, Nothing(x, a), NEW x2, NEW a2, EndMoves(x, a, x2, a2)
    PROVE  Nothing(x2, a2)
<1>1. CASE Moves(x, a, x2, a2)
  BY <1>1 DEF Nothing, Moves, Polling, Talking, Staying, Answered, Ending
<1>2. CASE Removed(x, a, x2, a2)
  BY <1>2 DEF Nothing, Removed, NoLink
<1>3. CASE Replies(x, a, x2, a2)
  BY <1>3 DEF Nothing, Replies
<1> QED
  BY <1>1, <1>2, <1>3 DEF EndMoves

-----------------------------------------------------------------------------
\* The rows of one node move.

RowMoves(n) ==
    /\ dialed' = dialed
    /\ \A m, p \in Node : m # n => conns'[m][p] = conns[m][p] /\ links'[m][p] = links[m][p]
    /\ \A p \in Node : EndMoves(conns[n][p], links[n][p], conns'[n][p], links'[n][p])

LEMMA RowMovesKeep ==
    ASSUME IInv, PairsInv, OthersInv, NEW n \in Node, RowMoves(n)
    PROVE  PairsInv' /\ OthersInv'
<1>1. \A m, p \in Node : links[m][p] \in LinkType
  BY CellFacts
<1>2. PairsInv'
  <2> SUFFICES ASSUME NEW c \in Node, NEW s \in Node, MayConnect(c, s)
               PROVE  PairInv(c, dialed[c], conns'[c][s], links'[c][s],
                              conns'[s][c], links'[s][c])
    BY DEF PairsInv, RowMoves, MayConnect
  <2>1. PairInv(c, dialed[c], conns[c][s], links[c][s], conns[s][c], links[s][c])
    BY DEF PairsInv
  <2>2. c # s /\ dialed[c] \in Nat
    BY DEF MayConnect, IInv, TypeOK
  <2>3. CASE n = c
    <3>1. conns'[s][c] = conns[s][c] /\ links'[s][c] = links[s][c]
      BY <2>2, <2>3 DEF RowMoves
    <3>2. EndMoves(conns[c][s], links[c][s], conns'[c][s], links'[c][s])
      BY <2>3 DEF RowMoves
    <3> QED
      BY <1>1, <2>1, <2>2, <3>1, <3>2, ClientMoves
  <2>4. CASE n = s
    <3>1. conns'[c][s] = conns[c][s] /\ links'[c][s] = links[c][s]
      BY <2>2, <2>4 DEF RowMoves
    <3>2. EndMoves(conns[s][c], links[s][c], conns'[s][c], links'[s][c])
      BY <2>4 DEF RowMoves
    <3> QED
      BY <1>1, <2>1, <2>2, <3>1, <3>2, ServerMoves
  <2>5. CASE n # c /\ n # s
    <3>1. /\ conns'[c][s] = conns[c][s] /\ links'[c][s] = links[c][s]
          /\ conns'[s][c] = conns[s][c] /\ links'[s][c] = links[s][c]
      BY <2>5 DEF RowMoves
    <3> QED
      BY <2>1, <3>1
  <2> QED
    BY <2>3, <2>4, <2>5
<1>3. OthersInv'
  <2> SUFFICES ASSUME NEW m \in Node, NEW p \in Node, ~MayConnect(m, p), ~MayConnect(p, m)
               PROVE  Nothing(conns'[m][p], links'[m][p])
    BY DEF OthersInv, MayConnect
  <2>1. Nothing(conns[m][p], links[m][p])
    BY DEF OthersInv
  <2>2. CASE m = n
    <3>1. EndMoves(conns[m][p], links[m][p], conns'[m][p], links'[m][p])
      BY <2>2 DEF RowMoves
    <3> QED
      BY <1>1, <2>1, <3>1, NothingMoves
  <2>3. CASE m # n
    <3>1. conns'[m][p] = conns[m][p] /\ links'[m][p] = links[m][p]
      BY <2>3 DEF RowMoves
    <3> QED
      BY <2>1, <3>1
  <2> QED
    BY <2>2, <2>3
<1> QED
  BY <1>2, <1>3

\* What does not concern a node keeps what it remembers.
LEMMA OtherGames ==
    ASSUME IInv, GamesInv, NEW m \in Node, game'[m] = game[m], alive'[m] = alive[m],
           \A q \in Node : conns'[m][q] = conns[m][q] /\ links'[m][q] = links[m][q]
    PROVE  PollInv(m)' /\ GoneInv(m)'
<1>1. PollInv(m) /\ GoneInv(m)
  BY DEF GamesInv
<1>2. game[m] \in GameType
  BY CellFacts
<1>3. PollInv(m)'
  <2> SUFFICES ASSUME game[m].at = "polling", ~game[m].known, NEW q, q = Peer(m),
                      conns'[m][q].state # "none"
               PROVE  links'[m][q].queue = <<>>
    BY DEF PollInv, Peer, Known
  <2>1. q \in Node
    BY <1>2 DEF GameType, Peer
  <2> QED
    BY <1>1, <2>1 DEF PollInv, Known
<1>4. GoneInv(m)'
  BY <1>1 DEF GoneInv, Known
<1> QED
  BY <1>3, <1>4

\* No node learns of a connection while it polls, so what it remembers stays true.
LEMMA GamesKept ==
    ASSUME IInv, GamesInv, NEW n \in Node, RowMoves(n), alive' = alive,
           \A m \in Node : m # n => game'[m] = game[m],
           game'[n] = game[n] \/ (alive[n] = "running" /\ game'[n].at # "polling"),
           \A p \in Node : Known(n, p)' => Known(n, p)
    PROVE  GamesInv'
<1> SUFFICES ASSUME NEW m \in Node PROVE PollInv(m)' /\ GoneInv(m)'
  BY DEF GamesInv
<1>1. PollInv(m) /\ GoneInv(m)
  BY DEF GamesInv
<1>2. game[m] \in GameType
  BY CellFacts
<1>3. \A p \in Node : Known(m, p)' => Known(m, p)
  BY DEF RowMoves, Known
<1>4. \A p \in Node : links[m][p].queue = <<>> => links'[m][p].queue = <<>>
  <2> SUFFICES ASSUME NEW p \in Node, links[m][p].queue = <<>>
               PROVE  links'[m][p].queue = <<>>
    OBVIOUS
  <2>1. CASE m # n
    BY <2>1 DEF RowMoves
  <2>2. CASE m = n
    <3>1. EndMoves(conns[n][p], links[n][p], conns'[n][p], links'[n][p])
      BY DEF RowMoves
    <3> QED
      BY <2>2, <3>1, StaysEmpty
  <2> QED
    BY <2>1, <2>2
<1>5. CASE game'[m] = game[m]
  <2>1. PollInv(m)'
    <3> SUFFICES ASSUME game[m].at = "polling", ~game[m].known, NEW p, p = Peer(m),
                        conns'[m][p].state # "none"
                 PROVE  links'[m][p].queue = <<>>
      BY <1>5 DEF PollInv, Peer, Known
    <3>1. p \in Node
      BY <1>2 DEF GameType, Peer
    <3>2. links[m][p].queue = <<>>
      BY <1>1, <1>3, <3>1 DEF PollInv, Known
    <3> QED
      BY <1>4, <3>1, <3>2
  <2>2. GoneInv(m)'
    BY <1>1, <1>3, <1>5 DEF GoneInv
  <2> QED
    BY <2>1, <2>2
<1>6. CASE alive[m] = "running" /\ game'[m].at # "polling"
  BY <1>6 DEF PollInv, GoneInv
<1> QED
  BY <1>5, <1>6

-----------------------------------------------------------------------------
\* What the invariant says of any one end.

EndOk(x, a) ==
    /\ x.link = IF x.state \in Held THEN "link" ELSE "null"
    /\ x.state \in Held => a.phase = "open"
    /\ a.phase = "open" /\ x.state \notin Held => RequestIn(a.queue)
    /\ RequestIn(a.queue) => Len(a.queue) = 1 /\ a.phase = "open" /\ x.state \notin Held
    /\ a.phase = "none" => a.out = <<>> /\ a.queue = <<>>

LEMMA EndsOk ==
    ASSUME AgreeInv, NEW n \in Node, NEW p \in Node
    PROVE  EndOk(conns[n][p], links[n][p])
<1>1. CASE MayConnect(n, p)
  <2>1. ClientEnd(n, dialed[n], conns[n][p], links[n][p])
    BY <1>1 DEF AgreeInv, PairsInv, PairInv
  <2> QED
    BY <2>1 DEF ClientEnd, EndOk, LinkOf
<1>2. CASE MayConnect(p, n)
  <2>1. ServerEnd(p, dialed[p], conns[n][p], links[n][p])
    BY <1>2 DEF AgreeInv, PairsInv, PairInv
  <2> QED
    BY <2>1 DEF ServerEnd, EndOk, LinkOf, Held
<1>3. CASE ~MayConnect(n, p) /\ ~MayConnect(p, n)
  <2>1. Nothing(conns[n][p], links[n][p])
    BY <1>3 DEF AgreeInv, OthersInv
  <2> QED
    BY <2>1, HasNone DEF Nothing, EndOk, Held, RequestIn
<1> QED
  BY <1>1, <1>2, <1>3

-----------------------------------------------------------------------------
\* The cells of a row.

Took(a) == [a EXCEPT !.queue = Tail(@)]
Say(a, msg) == IF a.phase = "open" THEN [a EXCEPT !.out = Append(@, msg)] ELSE a
Mark(a) == IF a.phase = "open" THEN [a EXCEPT !.phase = "lingers"] ELSE a

LEMMA TookFields ==
    ASSUME NEW a \in LinkType, a.queue # <<>>
    PROVE  /\ Took(a) \in LinkType
           /\ Took(a).queue = Tail(a.queue) /\ Took(a).id = a.id
           /\ Took(a).phase = a.phase /\ Took(a).out = a.out
<1>1. a.queue \in Seq(Message)
  BY DEF LinkType
<1>2. Tail(a.queue) \in Seq(Message)
  BY <1>1, HeadTailProperties
<1> QED
  BY <1>2 DEF Took, LinkType

LEMMA SayFields ==
    ASSUME NEW a \in LinkType, NEW msg \in Message
    PROVE  /\ Say(a, msg) \in LinkType
           /\ Say(a, msg).queue = a.queue /\ Say(a, msg).id = a.id
           /\ Say(a, msg).phase = a.phase
           /\ Say(a, msg).out = IF a.phase = "open" THEN Append(a.out, msg) ELSE a.out
<1>1. a.out \in Seq(Message)
  BY DEF LinkType
<1>2. Append(a.out, msg) \in Seq(Message)
  BY <1>1, AppendProperties
<1> QED
  BY <1>2 DEF Say, LinkType

LEMMA MarkFields ==
    ASSUME NEW a \in LinkType
    PROVE  /\ Mark(a).queue = a.queue /\ Mark(a).id = a.id /\ Mark(a).out = a.out
           /\ Mark(a).phase = IF a.phase = "open" THEN "lingers" ELSE a.phase
  BY DEF Mark, LinkType

LEMMA SentCell ==
    ASSUME NEW row \in RowType, NEW p \in Node, NEW msg
    PROVE  \A q \in Node : Sent(row, p, msg)[q] = IF q = p THEN Say(row[q], msg) ELSE row[q]
  BY DEF Sent, Say, RowType

LEMMA MarkedCell ==
    ASSUME NEW row, NEW P
    PROVE  \A q \in Node : Marked(row, P)[q] = IF q \in P THEN Mark(row[q]) ELSE row[q]
  BY DEF Marked, Mark

LEMMA SentByCell ==
    ASSUME NEW n, NEW row \in RowType, NEW p \in Node, NEW msg, NEW q \in Node
    PROVE  SentBy(n, row, p, msg)[q] =
               IF q = p /\ conns[n][p].link = "link" THEN Say(row[q], msg) ELSE row[q]
  BY SentCell DEF SentBy

LEMMA RelayedCell ==
    ASSUME NEW n, NEW row \in RowType, NEW p \in Node, NEW msg
    PROVE  \A q \in Node : Relayed(n, row, p, msg)[q] =
               IF n \in Listeners /\ q # p /\ Connected(n, q) /\ conns[n][q].link = "link"
                  THEN Say(row[q], msg) ELSE row[q]
<1> TAKE q \in Node
<1>1. SentBy(n, row, q, msg)[q] = IF conns[n][q].link = "link" THEN Say(row[q], msg) ELSE row[q]
  BY SentByCell
<1>2. Relayed(n, row, p, msg)[q] = IF n \in Listeners /\ q # p /\ Connected(n, q)
                                      THEN SentBy(n, row, q, msg)[q] ELSE row[q]
  BY DEF Relayed
<1> QED
  BY <1>1, <1>2

LEMMA PoppedCell ==
    ASSUME IInv, NEW n \in Node, Peer(n) \in Node
    PROVE  \A q \in Node : Popped(n)[q] =
               IF q = Peer(n) THEN Took(links[n][q]) ELSE links[n][q]
<1>1. links[n] \in RowType
  BY CellFacts
<1> QED
  BY <1>1 DEF Popped, Took, RowType

LEMMA RowToCells ==
    ASSUME IInv, NEW n \in Node, NEW row, RowTo(n, row)
    PROVE  \A m, q \in Node : links'[m][q] = IF m = n THEN row[q] ELSE links[m][q]
<1>1. links \in LinkTable
  BY CellFacts
<1> QED
  BY <1>1 DEF RowTo, LinkTable

\* The connection of n with p becomes c.
ConnTo(n, p, c) ==
    \A m, q \in Node : conns'[m][q] = IF m = n /\ q = p THEN c ELSE conns[m][q]

LEMMA ConnToCells ==
    ASSUME IInv, NEW n \in Node, NEW p \in Node, NEW c,
           conns' = [conns EXCEPT ![n][p] = c] \/ (conns' = conns /\ c = conns[n][p])
    PROVE  ConnTo(n, p, c)
<1>1. conns \in [Node -> [Node -> ConnType]]
  BY CellFacts DEF ConnTable
<1>2. CASE conns' = [conns EXCEPT ![n][p] = c]
  <2> DEFINE cells == [conns[n] EXCEPT ![p] = c]
  <2>1. conns' = [conns EXCEPT ![n] = cells]
    BY <1>2
  <2>2. \A q \in Node : cells[q] = IF q = p THEN c ELSE conns[n][q]
    BY <1>1
  <2> HIDE DEF cells
  <2>3. \A m \in Node : conns'[m] = IF m = n THEN cells ELSE conns[m]
    BY <1>1, <2>1
  <2> QED
    BY <2>2, <2>3 DEF ConnTo
<1>3. CASE conns' = conns /\ c = conns[n][p]
  BY <1>3 DEF ConnTo
<1> QED
  BY <1>2, <1>3

\* The other links of n carry at most a message that neither asks nor refuses.
Told(n, p, row) ==
    \A q \in Node : q # p =>
        \/ row[q] = links[n][q]
        \/ Connected(n, q) /\ \E msg \in Plain : row[q] = Say(links[n][q], msg)

LEMMA SayMoves ==
    ASSUME NEW x, NEW a \in LinkType, NEW msg \in Plain, x.state = "Connected"
    PROVE  Moves(x, a, x, Say(a, msg))
<1>1. msg \in Message
  BY DEF Plain
<1>2. /\ Say(a, msg).queue = a.queue /\ Say(a, msg).id = a.id
      /\ Say(a, msg).phase = a.phase
      /\ Say(a, msg).out = IF a.phase = "open" THEN Append(a.out, msg) ELSE a.out
  BY <1>1, SayFields
<1> QED
  BY <1>2 DEF Moves, Polling, Talking, Staying

LEMMA CellMoves ==
    ASSUME IInv, NEW n \in Node, NEW p \in Node, NEW c, NEW row,
           dialed' = dialed, ConnTo(n, p, c), RowTo(n, row), Told(n, p, row),
           EndMoves(conns[n][p], links[n][p], c, row[p])
    PROVE  RowMoves(n)
<1>1. \A m, q \in Node : links'[m][q] = IF m = n THEN row[q] ELSE links[m][q]
  BY RowToCells
<1>2. \A m, q \in Node : m # n => conns'[m][q] = conns[m][q] /\ links'[m][q] = links[m][q]
  BY <1>1 DEF ConnTo
<1>3. ASSUME NEW q \in Node
      PROVE  EndMoves(conns[n][q], links[n][q], conns'[n][q], links'[n][q])
  <2>1. CASE q = p
    BY <1>1, <2>1 DEF ConnTo
  <2>2. CASE q # p
    <3>1. conns'[n][q] = conns[n][q] /\ links'[n][q] = row[q]
      BY <1>1, <2>2 DEF ConnTo
    <3>2. CASE row[q] = links[n][q]
      BY <3>1, <3>2 DEF EndMoves, Moves, Polling, Talking, Staying
    <3>3. CASE Connected(n, q) /\ \E msg \in Plain : row[q] = Say(links[n][q], msg)
      <4>1. PICK msg \in Plain : row[q] = Say(links[n][q], msg)
        BY <3>3
      <4>2. links[n][q] \in LinkType
        BY CellFacts
      <4>3. Moves(conns[n][q], links[n][q], conns[n][q], row[q])
        BY <3>3, <4>1, <4>2, SayMoves DEF Connected
      <4> QED
        BY <3>1, <4>3 DEF EndMoves
    <3> QED
      BY <2>2, <3>2, <3>3 DEF Told
  <2> QED
    BY <2>1, <2>2
<1> QED
  BY <1>2, <1>3 DEF RowMoves

\* What a step of n may do to update and to nodes that are being deleted.
GameKept(n) ==
    /\ alive' = alive
    /\ \A m \in Node : m # n => game'[m] = game[m]
    /\ game'[n] = game[n] \/ (alive[n] = "running" /\ game'[n].at # "polling")

LEMMA CellKeeps ==
    ASSUME IInv, AgreeInv, NEW n \in Node, NEW p \in Node, NEW c, NEW row,
           dialed' = dialed, ConnTo(n, p, c), RowTo(n, row), Told(n, p, row), GameKept(n),
           EndMoves(conns[n][p], links[n][p], c, row[p]),
           c.state # "none" => Known(n, p)
    PROVE  AgreeInv'
<1>1. RowMoves(n)
  BY CellMoves
<1>2. PairsInv' /\ OthersInv'
  BY <1>1, RowMovesKeep DEF AgreeInv
<1>3. \A q \in Node : Known(n, q)' => Known(n, q)
  BY DEF Known, ConnTo
<1>4. GamesInv'
  BY <1>1, <1>3, GamesKept DEF AgreeInv, GameKept
<1> QED
  BY <1>2, <1>4 DEF AgreeInv

-----------------------------------------------------------------------------
\* Handlers of messages.

LEMMA PolledCell ==
    ASSUME IInv, NEW n \in Node, NEW types, NEW known, Polls(n, types, known),
           NEW p, p = Peer(n)
    PROVE  /\ p \in Node /\ links[n][p] \in LinkType /\ links[n][p].queue # <<>>
           /\ links[n][p].queue \in Seq(Message)
           /\ Head(links[n][p].queue) = Polled(n) /\ Polled(n).type \in types
           /\ Popped(n) \in RowType
           /\ \A q \in Node : Popped(n)[q] = IF q = p THEN Took(links[n][q]) ELSE links[n][q]
           /\ game[n].at = "polling" /\ game[n].known \in known
           /\ dialed' = dialed /\ GameKept(n)
<1>1. /\ Peer(n) \in Node /\ Popped(n) \in RowType /\ Polled(n).type \in types
  BY PolledFacts
<1>2. links[n][p] \in LinkType
  BY <1>1, CellFacts
<1>3. links[n][p].queue \in Seq(Message)
  BY <1>2 DEF LinkType
<1>4. /\ links[n][p].queue # <<>> /\ Head(links[n][p].queue) = Polled(n)
      /\ game[n].at = "polling" /\ game[n].known \in known
      /\ dialed' = dialed /\ game' = game /\ alive' = alive
  BY DEF Polls, Polled
<1>5. \A q \in Node : Popped(n)[q] = IF q = p THEN Took(links[n][q]) ELSE links[n][q]
  BY <1>1, PoppedCell
<1> QED
  BY <1>1, <1>2, <1>3, <1>4, <1>5 DEF GameKept

\* The first message, which is no request, is taken off, and its handler moves
\* the end it is for.
LEMMA PollKeeps ==
    ASSUME IInv, AgreeInv, NEW n \in Node, NEW types, NEW known, Polls(n, types, known),
           "ConnectRequest" \notin types, NEW p, p = Peer(n), NEW c, NEW row,
           ConnTo(n, p, c), RowTo(n, row), Told(n, p, row),
           row[p].queue = Took(links[n][p]).queue, row[p].id = links[n][p].id,
           Talking(conns[n][p], links[n][p].out, row[p].out),
           \/ Staying(conns[n][p], links[n][p], c, row[p])
           \/ Answered(conns[n][p], links[n][p], c, row[p])
           \/ Ending(conns[n][p], links[n][p], c, row[p])
    PROVE  AgreeInv'
<1>1. /\ p \in Node /\ links[n][p] \in LinkType /\ links[n][p].queue # <<>>
      /\ Head(links[n][p].queue).type # "ConnectRequest"
      /\ dialed' = dialed /\ GameKept(n)
  BY PolledCell
<1>2. row[p].queue = Tail(links[n][p].queue)
  BY <1>1, TookFields
<1>3. Moves(conns[n][p], links[n][p], c, row[p])
  BY <1>1, <1>2 DEF Moves, Polling
<1>4. c.state # "none" => Known(n, p)
  BY DEF Known, Staying, Answered, Ending
<1> QED
  BY <1>1, <1>3, <1>4, CellKeeps DEF EndMoves

\* Nothing but the queue of the polled link changes.
LEMMA PoppedKeeps ==
    ASSUME IInv, AgreeInv, NEW n \in Node, NEW types, NEW known, Polls(n, types, known),
           "ConnectRequest" \notin types, NEW p, p = Peer(n), NEW c,
           ConnTo(n, p, c), RowTo(n, Popped(n)),
           \/ c.state = conns[n][p].state
           \/ /\ Connecting(n, p)
              /\ c.state = "Connected" \/ (c.state = "Refused" /\ RefusalIn(links[n][p].queue)),
           c.link = conns[n][p].link
    PROVE  AgreeInv'
<1>1. /\ p \in Node /\ links[n][p] \in LinkType /\ links[n][p].queue # <<>>
      /\ \A q \in Node : Popped(n)[q] = IF q = p THEN Took(links[n][q]) ELSE links[n][q]
  BY PolledCell
<1>2. Told(n, p, Popped(n))
  BY <1>1 DEF Told
<1> DEFINE b == Popped(n)[p]
<1>3. /\ b = Took(links[n][p]) /\ b.id = links[n][p].id
      /\ b.phase = links[n][p].phase /\ b.out = links[n][p].out
  BY <1>1, TookFields
<1>4. Talking(conns[n][p], links[n][p].out, b.out)
  BY <1>3 DEF Talking
<1>5. \/ Staying(conns[n][p], links[n][p], c, b)
      \/ Answered(conns[n][p], links[n][p], c, b)
  BY <1>1, <1>3 DEF Staying, Answered, Connecting
<1> HIDE DEF b
<1>6. Popped(n)[p] = b
  BY DEF b
<1> QED
  BY <1>2, <1>3, <1>4, <1>5, <1>6, PollKeeps

LEMMA RecvConnectAcceptAgrees ==
    ASSUME IInv, AgreeInv, NEW n \in Node, RecvConnectAccept(n)
    PROVE  AgreeInv'
<1> DEFINE p == Peer(n)
           c == IF Connecting(n, p) THEN [conns[n][p] EXCEPT !.state = "Connected"]
                                    ELSE conns[n][p]
<1>1. Polls(n, {"ConnectAccept"}, {TRUE}) /\ RowTo(n, Popped(n))
  BY DEF RecvConnectAccept
<1>2. conns' = [conns EXCEPT ![n][p] = c] \/ (conns' = conns /\ c = conns[n][p])
  BY DEF RecvConnectAccept
<1> HIDE DEF p
<1>3. p \in Node /\ p = Peer(n)
  BY <1>1, PolledCell DEF p
<1>4. conns[n][p] \in ConnType
  BY <1>3, CellFacts
<1>5. /\ c.link = conns[n][p].link
      /\ c.state = conns[n][p].state \/ (Connecting(n, p) /\ c.state = "Connected")
  BY <1>4 DEF ConnType
<1> HIDE DEF c
<1>6. ConnTo(n, p, c)
  BY <1>2, <1>3, ConnToCells
<1> QED
  BY <1>1, <1>3, <1>5, <1>6, PoppedKeeps

LEMMA RecvRefusalAgrees ==
    ASSUME IInv, AgreeInv, NEW n \in Node, RecvRefusal(n)
    PROVE  AgreeInv'
<1> DEFINE p == Peer(n)
           c == IF Connecting(n, p) THEN [conns[n][p] EXCEPT !.state = "Refused"]
                                    ELSE conns[n][p]
<1>1. Polls(n, RefusalTypes, {TRUE}) /\ RowTo(n, Popped(n))
  BY DEF RecvRefusal
<1>2. conns' = [conns EXCEPT ![n][p] = c] \/ (conns' = conns /\ c = conns[n][p])
  BY DEF RecvRefusal
<1> HIDE DEF p
<1>3. /\ p \in Node /\ p = Peer(n) /\ links[n][p].queue # <<>>
      /\ links[n][p].queue \in Seq(Message)
      /\ Head(links[n][p].queue).type \in RefusalTypes
  BY <1>1, PolledCell DEF p
<1>4. conns[n][p] \in ConnType
  BY <1>3, CellFacts
<1>5. /\ c.link = conns[n][p].link
      /\ c.state = conns[n][p].state \/ (Connecting(n, p) /\ c.state = "Refused")
  BY <1>4 DEF ConnType
<1> HIDE DEF c
<1>6. ConnTo(n, p, c)
  BY <1>2, <1>3, ConnToCells
<1>7. RefusalIn(links[n][p].queue)
  BY <1>3, HasTail DEF RefusalIn
<1>8. "ConnectRequest" \notin RefusalTypes
  BY DEF RefusalTypes
<1> QED
  BY <1>1, <1>3, <1>5, <1>6, <1>7, <1>8, PoppedKeeps

LEMMA RecvOtherAgrees ==
    ASSUME IInv, AgreeInv, NEW n \in Node,
           RecvRemote(n) \/ RecvKeepAliveAnswer(n) \/ RecvOther(n)
    PROVE  AgreeInv'
<1>1. PICK types : /\ Polls(n, types, {TRUE}) /\ "ConnectRequest" \notin types
                   /\ RowTo(n, Popped(n))
  BY DEF RecvRemote, RecvKeepAliveAnswer, RecvOther
<1>2. PICK p : p = Peer(n)
  OBVIOUS
<1>3. p \in Node
  BY <1>1, <1>2, PolledCell
<1> DEFINE c == IF RecvKeepAliveAnswer(n) THEN [conns[n][p] EXCEPT !.waiting = FALSE]
                                          ELSE conns[n][p]
<1>4. conns' = [conns EXCEPT ![n][p] = c] \/ (conns' = conns /\ c = conns[n][p])
  <2>1. CASE RecvKeepAliveAnswer(n)
    <3>1. conns' = [conns EXCEPT ![n][p].waiting = FALSE]
      BY <1>2, <2>1 DEF RecvKeepAliveAnswer
    <3>2. c = [conns[n][p] EXCEPT !.waiting = FALSE]
      BY <2>1
    <3> QED
      BY <3>1, <3>2
  <2>2. CASE ~RecvKeepAliveAnswer(n)
    BY <2>2 DEF RecvRemote, RecvOther, history
  <2> QED
    BY <2>1, <2>2
<1>5. conns[n][p] \in ConnType
  BY <1>3, CellFacts
<1>6. c.link = conns[n][p].link /\ c.state = conns[n][p].state
  BY <1>5 DEF ConnType
<1> HIDE DEF c
<1>7. ConnTo(n, p, c)
  BY <1>3, <1>4, ConnToCells
<1> QED
  BY <1>1, <1>2, <1>6, <1>7, PoppedKeeps

LEMMA PlainTypes ==
    /\ \A t \in {"ConnectAccept", "Disconnect", "KeepAliveRequest", "KeepAliveAnswer"} :
          Msg(t) \in Plain
    /\ \A p \in Node : RemoteConnected(p) \in Plain /\ RemoteDisconnected(p) \in Plain
<1>1. ASSUME NEW t \in {"ConnectAccept", "Disconnect", "KeepAliveRequest", "KeepAliveAnswer"}
      PROVE  Msg(t) \in Plain
  <2>1. Msg(t) \in Message /\ Msg(t).type = t
    BY MessageTypes DEF Msg
  <2> QED
    BY <2>1 DEF Plain, RefusalTypes
<1>2. ASSUME NEW p \in Node
      PROVE  RemoteConnected(p) \in Plain /\ RemoteDisconnected(p) \in Plain
  <2>1. /\ RemoteConnected(p) \in Message /\ RemoteConnected(p).type = "RemoteConnected"
        /\ RemoteDisconnected(p) \in Message
        /\ RemoteDisconnected(p).type = "RemoteDisconnected"
    BY MessageTypes DEF RemoteConnected, RemoteDisconnected
  <2> QED
    BY <2>1 DEF Plain, RefusalTypes
<1> QED
  BY <1>1, <1>2

\* A message to the other clients.
LEMMA RelayedTells ==
    ASSUME NEW n, NEW p \in Node, NEW row \in RowType, NEW msg \in Plain,
           \A q \in Node : q # p => row[q] = links[n][q]
    PROVE  Told(n, p, Relayed(n, row, p, msg)) /\ Relayed(n, row, p, msg)[p] = row[p]
<1>1. \A q \in Node : Relayed(n, row, p, msg)[q] =
               IF n \in Listeners /\ q # p /\ Connected(n, q) /\ conns[n][q].link = "link"
                  THEN Say(row[q], msg) ELSE row[q]
  BY RelayedCell
<1> HIDE DEF Relayed
<1> QED
  BY <1>1 DEF Told

\* cleanLink.
LEMMA GivenBackCell ==
    ASSUME NEW n, NEW p \in Node, NEW row
    PROVE  \A q \in Node : Marked(row, Holding(n, {p}))[q] =
               IF q = p /\ conns[n][q].link = "link" THEN Mark(row[q]) ELSE row[q]
<1>1. \A q : q \in Holding(n, {p}) <=> q = p /\ conns[n][q].link = "link"
  BY DEF Holding
<1> QED
  BY <1>1, MarkedCell

LEMMA RecvDisconnectAgrees ==
    ASSUME IInv, AgreeInv, NEW n \in Node, RecvDisconnect(n)
    PROVE  AgreeInv'
<1>1. Polls(n, {"Disconnect"}, {TRUE})
  BY DEF RecvDisconnect
<1>2. PICK p : p = Peer(n)
  OBVIOUS
<1>3. /\ p \in Node /\ links[n][p] \in LinkType /\ links[n][p].queue # <<>>
      /\ Popped(n) \in RowType
      /\ \A q \in Node : Popped(n)[q] = IF q = p THEN Took(links[n][q]) ELSE links[n][q]
  BY <1>1, <1>2, PolledCell
<1>4. CASE Connected(n, p)
  <2> DEFINE c == Ended("Disconnected")
             given == Marked(Popped(n), Holding(n, {p}))
             msg == RemoteDisconnected(p)
             row == Relayed(n, given, p, msg)
             a2 == row[p]
  <2>1. conns' = [conns EXCEPT ![n][p] = c] /\ RowTo(n, row)
    BY <1>2, <1>4 DEF RecvDisconnect, SetConn
  <2>2. given \in RowType
    BY <1>3, MarkedType
  <2>3. EndOk(conns[n][p], links[n][p])
    BY <1>3, EndsOk
  <2>4. conns[n][p].link = "link" /\ links[n][p].phase = "open"
    BY <1>4, <2>3 DEF EndOk, Held, Connected
  <2>5. \A q \in Node : given[q] =
            IF q = p /\ conns[n][q].link = "link" THEN Mark(Popped(n)[q]) ELSE Popped(n)[q]
    BY <1>3, GivenBackCell
  <2> HIDE DEF given
  <2>6. /\ given[p] = Mark(Took(links[n][p]))
        /\ \A q \in Node : q # p => given[q] = links[n][q]
    BY <1>3, <2>4, <2>5
  <2>7. Told(n, p, row) /\ a2 = Mark(Took(links[n][p]))
    <3>1. msg \in Plain
      BY <1>3, PlainTypes
    <3> HIDE DEF msg
    <3>2. Told(n, p, row) /\ row[p] = given[p]
      BY <1>3, <2>2, <2>6, <3>1, RelayedTells
    <3> QED
      BY <2>6, <3>2
  <2>8. c.state = "Disconnected" /\ c.link = "null"
    BY DEF Ended
  <2>9. ConnTo(n, p, c)
    BY <1>3, <2>1, ConnToCells
  <2> HIDE DEF row, c
  <2>10. /\ a2.queue = Took(links[n][p]).queue /\ a2.id = links[n][p].id
         /\ a2.out = links[n][p].out /\ a2.phase = "lingers"
    BY <1>3, <2>4, <2>7, TookFields, MarkFields
  <2>11. Talking(conns[n][p], links[n][p].out, a2.out)
    BY <2>10 DEF Talking
  <2>12. Ending(conns[n][p], links[n][p], c, a2)
    BY <1>4, <2>4, <2>8, <2>10 DEF Ending, Gone, Connected
  <2> QED
    BY <1>1, <1>2, <2>1, <2>7, <2>9, <2>10, <2>11, <2>12, PollKeeps
<1>5. CASE ~Connected(n, p)
  <2>1. conns' = conns /\ RowTo(n, Popped(n))
    BY <1>2, <1>5 DEF RecvDisconnect
  <2>2. ConnTo(n, p, conns[n][p])
    BY <1>3, <2>1, ConnToCells
  <2> QED
    BY <1>1, <1>2, <2>1, <2>2, PoppedKeeps
<1> QED
  BY <1>4, <1>5

LEMMA RecvKeepAliveRequestAgrees ==
    ASSUME IInv, AgreeInv, NEW n \in Node, RecvKeepAliveRequest(n)
    PROVE  AgreeInv'
<1>1. Polls(n, {"KeepAliveRequest"}, {TRUE}) /\ conns' = conns
  BY DEF RecvKeepAliveRequest
<1>2. PICK p : p = Peer(n)
  OBVIOUS
<1>3. /\ p \in Node /\ links[n][p] \in LinkType /\ links[n][p].queue # <<>>
      /\ Popped(n) \in RowType
      /\ \A q \in Node : Popped(n)[q] = IF q = p THEN Took(links[n][q]) ELSE links[n][q]
  BY <1>1, <1>2, PolledCell
<1>4. ConnTo(n, p, conns[n][p])
  BY <1>1, <1>3, ConnToCells
<1>5. CASE Connected(n, p)
  <2> DEFINE msg == Msg("KeepAliveAnswer")
             row == SentBy(n, Popped(n), p, msg)
             a2 == row[p]
  <2>1. RowTo(n, row)
    BY <1>2, <1>5 DEF RecvKeepAliveRequest
  <2>2. msg \in Plain /\ msg \in Message
    BY PlainTypes DEF Plain
  <2> HIDE DEF msg
  <2>3. \A q \in Node : row[q] =
            IF q = p /\ conns[n][p].link = "link" THEN Say(Popped(n)[q], msg) ELSE Popped(n)[q]
    <3>1. PICK popped \in RowType : popped = Popped(n)
      BY <1>3
    <3>2. PICK m : m = msg
      OBVIOUS
    <3>3. PICK o \in Node : o = p
      BY <1>3
    <3>4. row = SentBy(n, popped, o, m)
      BY <3>1, <3>2, <3>3
    <3> HIDE DEF row
    <3>5. \A q \in Node : SentBy(n, popped, o, m)[q] =
            IF q = o /\ conns[n][o].link = "link" THEN Say(popped[q], m) ELSE popped[q]
      BY <3>1, <3>3, SentCell DEF SentBy
    <3> QED
      BY <3>1, <3>2, <3>3, <3>4, <3>5
  <2> HIDE DEF row
  <2>4. Told(n, p, row)
    BY <1>3, <2>3 DEF Told
  <2>5. a2 = Took(links[n][p]) \/ a2 = Say(Took(links[n][p]), msg)
    BY <1>3, <2>3
  <2> HIDE DEF a2
  <2>6. /\ Took(links[n][p]) \in LinkType
        /\ Took(links[n][p]).id = links[n][p].id
        /\ Took(links[n][p]).phase = links[n][p].phase
        /\ Took(links[n][p]).out = links[n][p].out
    BY <1>3, TookFields
  <2>7. /\ a2.queue = Took(links[n][p]).queue /\ a2.id = links[n][p].id
        /\ a2.phase = links[n][p].phase
        /\ a2.out = links[n][p].out \/ a2.out = Append(links[n][p].out, msg)
    <3>1. PICK took \in LinkType : took = Took(links[n][p])
      BY <2>6
    <3>2. /\ Say(took, msg).queue = took.queue /\ Say(took, msg).id = took.id
          /\ Say(took, msg).phase = took.phase
          /\ Say(took, msg).out = took.out \/ Say(took, msg).out = Append(took.out, msg)
      BY <2>2, SayFields
    <3> QED
      BY <2>5, <2>6, <3>1, <3>2
  <2>8. Talking(conns[n][p], links[n][p].out, a2.out)
    BY <1>5, <2>2, <2>7 DEF Talking, Connected
  <2>9. Staying(conns[n][p], links[n][p], conns[n][p], a2)
    BY <2>7 DEF Staying
  <2>10. row[p] = a2
    BY DEF a2
  <2> QED
    BY <1>1, <1>2, <1>4, <2>1, <2>4, <2>7, <2>8, <2>9, <2>10, PollKeeps
<1>6. CASE ~Connected(n, p)
  <2>1. RowTo(n, Popped(n))
    BY <1>2, <1>6 DEF RecvKeepAliveRequest
  <2> QED
    BY <1>1, <1>2, <1>4, <2>1, PoppedKeeps
<1> QED
  BY <1>5, <1>6

\* handleInvalidConnectAttempt.
LEMMA RefusedCell ==
    ASSUME IInv, NEW n \in Node, NEW types, NEW known, Polls(n, types, known),
           NEW p, p = Peer(n), NEW type
    PROVE  \A q \in Node : Refused(n, type)[q] =
               IF q = p THEN Mark(Say(Took(links[n][q]), Msg(type))) ELSE links[n][q]
<1>1. /\ p \in Node /\ Popped(n) \in RowType
      /\ \A q \in Node : Popped(n)[q] = IF q = p THEN Took(links[n][q]) ELSE links[n][q]
  BY PolledCell
<1>2. PICK popped \in RowType : popped = Popped(n)
  BY <1>1
<1>3. PICK sent : sent = Sent(popped, p, Msg(type))
  OBVIOUS
<1>4. \A q \in Node : sent[q] = IF q = p THEN Say(popped[q], Msg(type)) ELSE popped[q]
  BY <1>1, <1>3, SentCell
<1>5. \A q \in Node : Marked(sent, {p})[q] = IF q \in {p} THEN Mark(sent[q]) ELSE sent[q]
  BY MarkedCell
<1>6. Refused(n, type) = Marked(sent, {p})
  BY <1>2, <1>3 DEF Refused
<1> QED
  BY <1>1, <1>2, <1>4, <1>5, <1>6

\* Without a connection the link is not open: nothing is sent on it.
LEMMA RefuseUnknownAgrees ==
    ASSUME IInv, AgreeInv, NEW n \in Node, RefuseUnknown(n)
    PROVE  AgreeInv'
<1>1. PICK types : Polls(n, types, {FALSE}) /\ "ConnectRequest" \notin types
  BY DEF RefuseUnknown
<1>2. /\ RowTo(n, Refused(n, "InvalidConnectPacket")) /\ conns' = conns
  BY DEF RefuseUnknown
<1>3. PICK p : p = Peer(n)
  OBVIOUS
<1>4. /\ p \in Node /\ links[n][p] \in LinkType /\ links[n][p].queue # <<>>
      /\ links[n][p].queue \in Seq(Message)
      /\ Head(links[n][p].queue).type # "ConnectRequest"
      /\ game[n].at = "polling" /\ ~game[n].known
  <2>1. /\ p \in Node /\ links[n][p] \in LinkType /\ links[n][p].queue # <<>>
        /\ links[n][p].queue \in Seq(Message)
        /\ Head(links[n][p].queue) = Polled(n) /\ Polled(n).type \in types
        /\ game[n].at = "polling" /\ game[n].known \in {FALSE}
    BY <1>1, <1>3, PolledCell
  <2>2. ~game[n].known
    BY <2>1
  <2> QED
    BY <1>1, <2>1, <2>2
<1>5. PICK row : row = Refused(n, "InvalidConnectPacket")
  OBVIOUS
<1>6. \A q \in Node : row[q] =
          IF q = p THEN Mark(Say(Took(links[n][q]), Msg("InvalidConnectPacket")))
                   ELSE links[n][q]
  BY <1>1, <1>3, <1>5, RefusedCell
<1>7. ~Known(n, p)
  BY <1>3, <1>4 DEF AgreeInv, GamesInv, PollInv
<1>8. ~RequestIn(links[n][p].queue) \/ Len(links[n][p].queue) # 1
  BY <1>4, HasTail, HasNone DEF RequestIn
<1>9. links[n][p].phase # "open"
  <2>1. EndOk(conns[n][p], links[n][p])
    BY <1>4, EndsOk
  <2> QED
    BY <1>7, <1>8, <2>1 DEF EndOk, Held, Known
<1>10. row[p] = Took(links[n][p])
  <2>1. Took(links[n][p]).phase # "open"
    BY <1>4, <1>9, TookFields
  <2> QED
    BY <1>4, <1>6, <2>1 DEF Mark, Say
<1>11. /\ row[p].id = links[n][p].id /\ row[p].queue = Took(links[n][p]).queue
       /\ row[p].phase = links[n][p].phase /\ row[p].out = links[n][p].out
  BY <1>4, <1>10, TookFields
<1>12. Told(n, p, row) /\ RowTo(n, row) /\ ConnTo(n, p, conns[n][p])
  BY <1>2, <1>4, <1>5, <1>6, ConnToCells DEF Told
<1>13. Talking(conns[n][p], links[n][p].out, row[p].out)
  BY <1>11 DEF Talking
<1>14. Staying(conns[n][p], links[n][p], conns[n][p], row[p])
  BY <1>11 DEF Staying
<1> QED
  BY <1>1, <1>3, <1>11, <1>12, <1>13, <1>14, PollKeeps

LEMMA RefuseConnectAgrees ==
    ASSUME IInv, AgreeInv, NEW n \in Node, RefuseConnect(n)
    PROVE  AgreeInv'
<1>1. Polls(n, {"ConnectRequest"}, BOOLEAN) /\ conns' = conns
  BY DEF RefuseConnect
<1>2. PICK type \in RefusalTypes : RowTo(n, Refused(n, type))
  BY DEF RefuseConnect, RefusalTypes
<1>3. PICK p : p = Peer(n)
  OBVIOUS
<1>4. /\ p \in Node /\ links[n][p] \in LinkType /\ links[n][p].queue # <<>>
      /\ Head(links[n][p].queue).type = "ConnectRequest"
      /\ dialed' = dialed /\ GameKept(n)
  BY <1>1, <1>3, PolledCell
<1>5. PICK row : row = Refused(n, type)
  OBVIOUS
<1>6. \A q \in Node : row[q] =
          IF q = p THEN Mark(Say(Took(links[n][q]), Msg(type))) ELSE links[n][q]
  BY <1>1, <1>3, <1>5, RefusedCell
<1>7. PICK msg \in Message : msg = Msg(type) /\ msg.type # "ConnectRequest"
  BY MessageTypes DEF Msg, RefusalTypes
<1>8. PICK took \in LinkType : took = Took(links[n][p])
  BY <1>4, TookFields
<1>9. /\ took.queue = Tail(links[n][p].queue) /\ took.id = links[n][p].id
      /\ took.phase = links[n][p].phase /\ took.out = links[n][p].out
  BY <1>4, <1>8, TookFields
<1>10. PICK said \in LinkType : said = Say(took, msg)
  BY SayFields
<1>11. /\ said.queue = took.queue /\ said.id = took.id /\ said.phase = took.phase
       /\ said.out = took.out \/ said.out = Append(took.out, msg)
  BY <1>10, SayFields
<1>12. row[p] = Mark(said)
  BY <1>4, <1>6, <1>7, <1>8, <1>10
<1>13. /\ row[p].queue = said.queue /\ row[p].id = said.id /\ row[p].out = said.out
       /\ row[p].phase = IF said.phase = "open" THEN "lingers" ELSE said.phase
  <2>1. /\ Mark(said).queue = said.queue /\ Mark(said).id = said.id
        /\ Mark(said).out = said.out
        /\ Mark(said).phase = IF said.phase = "open" THEN "lingers" ELSE said.phase
    BY MarkFields, Zenon
  <2> QED
    BY <1>12, <2>1
<1>14. Replies(conns[n][p], links[n][p], conns[n][p], row[p])
  BY <1>4, <1>7, <1>9, <1>11, <1>13 DEF Replies
<1>15. Told(n, p, row) /\ RowTo(n, row) /\ ConnTo(n, p, conns[n][p])
  BY <1>1, <1>2, <1>4, <1>5, <1>6, ConnToCells DEF Told
<1> QED
  BY <1>4, <1>14, <1>15, CellKeeps DEF EndMoves, Known

\* The one step in which a node learns of a connection while it polls: the
\* request was all that the link had.
LEMMA AcceptConnectAgrees ==
    ASSUME IInv, AgreeInv, NEW n \in Node, AcceptConnect(n)
    PROVE  AgreeInv'
<1> DEFINE c == [state |-> "Connected", waiting |-> FALSE, link |-> "link"]
<1>1. Polls(n, {"ConnectRequest"}, BOOLEAN)
  BY DEF AcceptConnect
<1>2. PICK p : p = Peer(n)
  OBVIOUS
<1>3. /\ p \in Node /\ links[n][p] \in LinkType /\ links[n][p].queue # <<>>
      /\ links[n][p].queue \in Seq(Message)
      /\ Head(links[n][p].queue).type = "ConnectRequest"
      /\ Popped(n) \in RowType
      /\ \A q \in Node : Popped(n)[q] = IF q = p THEN Took(links[n][q]) ELSE links[n][q]
      /\ game[n].at = "polling" /\ dialed' = dialed /\ GameKept(n)
  BY <1>1, <1>2, PolledCell
<1>4. PICK msg \in Plain : msg = Msg("ConnectAccept")
  BY PlainTypes
<1>5. PICK sent \in RowType : sent = Sent(Popped(n), p, msg)
  BY <1>3, SentType DEF Plain
<1>6. PICK news \in Plain : news = RemoteConnected(p)
  BY <1>3, PlainTypes
<1>7. PICK row : row = Relayed(n, sent, p, news)
  OBVIOUS
<1>8. ~Known(n, p) /\ RowTo(n, row) /\ conns' = [conns EXCEPT ![n][p] = c]
  BY <1>2, <1>4, <1>5, <1>6, <1>7 DEF AcceptConnect, SetConn
<1>9. /\ \A q \in Node : q # p => sent[q] = links[n][q]
      /\ sent[p] = Say(Took(links[n][p]), msg)
  <2>1. PICK popped \in RowType : popped = Popped(n)
    BY <1>3
  <2>2. \A q \in Node : sent[q] = IF q = p THEN Say(popped[q], msg) ELSE popped[q]
    <3>1. sent = Sent(popped, p, msg)
      BY <1>5, <2>1
    <3> QED
      BY <1>3, <3>1, SentCell
  <2>3. popped[p] = Took(links[n][p]) /\ \A q \in Node : q # p => popped[q] = links[n][q]
    BY <1>3, <2>1
  <2> QED
    BY <1>3, <2>2, <2>3
<1>10. Told(n, p, row) /\ row[p] = Say(Took(links[n][p]), msg)
  <2>1. Told(n, p, Relayed(n, sent, p, news)) /\ Relayed(n, sent, p, news)[p] = sent[p]
    <3>1. \A q \in Node : q # p => sent[q] = links[n][q]
      BY <1>9
    <3>2. p \in Node
      BY <1>3
    <3> QED
      BY <3>1, <3>2, RelayedTells
  <2> QED
    BY <1>7, <1>9, <2>1
<1>11. PICK took \in LinkType : took = Took(links[n][p])
  BY <1>3, TookFields
<1>12. /\ took.queue = Tail(links[n][p].queue) /\ took.id = links[n][p].id
       /\ took.phase = links[n][p].phase /\ took.out = links[n][p].out
  BY <1>3, <1>11, TookFields
<1>13. /\ row[p].queue = took.queue /\ row[p].id = took.id /\ row[p].phase = took.phase
       /\ row[p].out = took.out \/ row[p].out = Append(took.out, msg)
  <2>1. msg \in Message
    BY DEF Plain
  <2>2. /\ Say(took, msg).queue = took.queue /\ Say(took, msg).id = took.id
        /\ Say(took, msg).phase = took.phase
        /\ Say(took, msg).out = took.out \/ Say(took, msg).out = Append(took.out, msg)
    BY <2>1, SayFields
  <2> QED
    BY <1>10, <1>11, <2>2
<1>14. Replies(conns[n][p], links[n][p], c, row[p])
  BY <1>3, <1>8, <1>12, <1>13 DEF Replies, Known, Plain
<1>15. ConnTo(n, p, c)
  BY <1>3, <1>8, ConnToCells
<1> HIDE DEF c
<1>16. RowMoves(n)
  BY <1>3, <1>8, <1>10, <1>14, <1>15, CellMoves DEF EndMoves
<1>17. PairsInv' /\ OthersInv'
  BY <1>16, RowMovesKeep DEF AgreeInv
<1>18. links'[n][p].queue = <<>>
  <2>1. RequestIn(links[n][p].queue)
    BY <1>3, HasTail DEF RequestIn
  <2>2. Len(links[n][p].queue) = 1
    BY <1>3, <2>1, EndsOk DEF EndOk
  <2>3. Tail(links[n][p].queue) = <<>>
    BY <1>3, <2>2, HasTail
  <2>4. links'[n][p] = row[p]
    BY <1>3, <1>8, RowToCells
  <2> QED
    BY <1>12, <1>13, <2>3, <2>4
<1>19. GamesInv'
  <2> SUFFICES ASSUME NEW m \in Node PROVE PollInv(m)' /\ GoneInv(m)'
    BY DEF GamesInv
  <2>1. PollInv(m) /\ GoneInv(m) /\ game'[m] = game[m] /\ alive' = alive
    BY <1>3, <1>1 DEF AgreeInv, GamesInv, GameKept, Polls
  <2>2. CASE m = n
    <3>1. PollInv(m)'
      BY <1>2, <1>18, <2>1, <2>2 DEF PollInv, Peer
    <3>2. GoneInv(m)'
      BY <1>3, <2>1, <2>2 DEF GoneInv
    <3> QED
      BY <3>1, <3>2
  <2>3. CASE m # n
    <3>1. \A q \in Node : conns'[m][q] = conns[m][q] /\ links'[m][q] = links[m][q]
      BY <1>16, <2>3 DEF RowMoves
    <3> QED
      BY <2>1, <3>1, OtherGames DEF AgreeInv
  <2> QED
    BY <2>2, <2>3
<1> QED
  BY <1>17, <1>19 DEF AgreeInv

-----------------------------------------------------------------------------
\* The rest of update.

\* Only game changes.
OnlyGame ==
    /\ conns' = conns /\ links' = links /\ dialed' = dialed /\ alive' = alive

LEMMA OnlyGameMoves ==
    ASSUME NEW n \in Node, OnlyGame
    PROVE  RowMoves(n)
<1>1. \A x, a : EndMoves(x, a, x, a)
  BY DEF EndMoves, Moves, Polling, Talking, Staying
<1> QED
  BY <1>1 DEF OnlyGame, RowMoves

LEMMA OnlyGameKeeps ==
    ASSUME IInv, AgreeInv, NEW n \in Node, OnlyGame, GameKept(n)
    PROVE  AgreeInv'
<1>1. RowMoves(n)
  BY OnlyGameMoves
<1>2. PairsInv' /\ OthersInv'
  BY <1>1, RowMovesKeep DEF AgreeInv
<1>3. \A p \in Node : Known(n, p)' => Known(n, p)
  BY DEF OnlyGame, Known
<1>4. GamesInv'
  BY <1>1, <1>3, GamesKept DEF AgreeInv, GameKept
<1> QED
  BY <1>2, <1>4 DEF AgreeInv

\* A node that is in update is not being deleted.
LEMMA Runs ==
    ASSUME AgreeInv, NEW n \in Node, game[n].at # "api"
    PROVE  alive[n] = "running"
  BY DEF AgreeInv, GamesInv, GoneInv

LEMMA EndProcessAgrees ==
    ASSUME IInv, AgreeInv, NEW n \in Node, EndProcess(n)
    PROVE  AgreeInv'
<1>1. OnlyGame /\ game[n].at = "polling"
  BY DEF EndProcess, OnlyGame
<1>2. alive[n] = "running"
  BY <1>1, Runs
<1>3. game' = [game EXCEPT ![n] = [at |-> "links"]] /\ game \in [Node -> GameType]
  BY CellFacts DEF EndProcess
<1>4. GameKept(n)
  BY <1>1, <1>2, <1>3 DEF GameKept, OnlyGame
<1> QED
  BY <1>1, <1>4, OnlyGameKeeps

LEMMA BeginUpdateAgrees ==
    ASSUME IInv, AgreeInv, NEW n \in Node, NEW due, BeginUpdate(n, due)
    PROVE  AgreeInv'
<1> DEFINE todo == due \cup Dead(n)
           g == IF todo = {} THEN [at |-> "api"] ELSE [at |-> "timers", todo |-> todo]
<1>1. OnlyGame /\ alive[n] = "running" /\ game' = [game EXCEPT ![n] = g]
  BY DEF BeginUpdate, OnlyGame
<1>2. g.at # "polling"
  OBVIOUS
<1> HIDE DEF g
<1>3. game \in [Node -> GameType]
  BY CellFacts
<1>4. GameKept(n)
  BY <1>1, <1>2, <1>3 DEF GameKept, OnlyGame
<1> QED
  BY <1>1, <1>4, OnlyGameKeeps

\* What is remembered is true when it is looked up.
LEMMA BeginProcessAgrees ==
    ASSUME IInv, AgreeInv, NEW n \in Node, NEW p \in Node, BeginProcess(n, p)
    PROVE  AgreeInv'
<1> DEFINE g == [at |-> "polling", peer |-> p, known |-> Known(n, p)]
<1>1. OnlyGame /\ alive[n] = "running" /\ game' = [game EXCEPT ![n] = g]
  BY DEF BeginProcess, OnlyGame
<1>2. g.at = "polling" /\ g.peer = p /\ (g.known <=> Known(n, p))
  OBVIOUS
<1> HIDE DEF g
<1>3. game'[n] = g /\ \A m \in Node : m # n => game'[m] = game[m]
  BY <1>1, CellFacts
<1>4. PairsInv' /\ OthersInv'
  BY <1>1, OnlyGameMoves, RowMovesKeep DEF AgreeInv
<1>5. GamesInv'
  <2> SUFFICES ASSUME NEW m \in Node PROVE PollInv(m)' /\ GoneInv(m)'
    BY DEF GamesInv
  <2>1. PollInv(m) /\ GoneInv(m)
    BY DEF AgreeInv, GamesInv
  <2>2. CASE m = n
    <3>1. PollInv(n)'
      BY <1>1, <1>2, <1>3 DEF PollInv, OnlyGame, Known, Peer
    <3>2. GoneInv(n)'
      BY <1>1 DEF GoneInv, OnlyGame
    <3> QED
      BY <2>2, <3>1, <3>2
  <2>3. CASE m # n
    <3>1. game'[m] = game[m]
      BY <1>3, <2>3
    <3>2. PollInv(m)'
      BY <1>1, <2>1, <3>1 DEF PollInv, OnlyGame, Known, Peer
    <3>3. GoneInv(m)'
      BY <1>1, <2>1, <3>1 DEF GoneInv, OnlyGame, Known
    <3> QED
      BY <3>2, <3>3
  <2> QED
    BY <2>2, <2>3
<1> QED
  BY <1>4, <1>5 DEF AgreeInv

\* One of the connections of the walk.
LEMMA UpdatesKept ==
    ASSUME IInv, AgreeInv, NEW n \in Node, NEW p \in Node, Updates(n, p)
    PROVE  GameKept(n) /\ dialed' = dialed /\ links[n] \in RowType
<1>1. game \in [Node -> GameType] /\ links[n] \in RowType
  BY CellFacts
<1> DEFINE todo == game[n].todo \ {p}
           g == IF todo = {} THEN [at |-> "api"] ELSE [game[n] EXCEPT !.todo = todo]
<1>2. game[n].at = "timers" /\ game' = [game EXCEPT ![n] = g]
  BY DEF Updates
<1>3. alive[n] = "running"
  BY <1>2, Runs
<1>4. game[n] \in [at : {"timers"}, todo : SUBSET Node]
  BY <1>1, <1>2 DEF GameType
<1> HIDE DEF todo
<1>5. g.at # "polling"
  BY <1>4
<1> HIDE DEF g
<1> QED
  BY <1>1, <1>2, <1>3, <1>5 DEF GameKept, Updates

\* A connection that ends gives its link back.
LEMMA EndingMoves ==
    ASSUME NEW x, NEW a \in LinkType, NEW c, NEW b,
           c.state \in Gone, c.link = "null", x.state = "none" => c.state = "none",
           b = IF x.link = "link" THEN Mark(a) ELSE a
    PROVE  Moves(x, a, c, b)
<1>1. /\ Mark(a).queue = a.queue /\ Mark(a).id = a.id /\ Mark(a).out = a.out
      /\ Mark(a).phase = IF a.phase = "open" THEN "lingers" ELSE a.phase
  BY MarkFields
<1>2. b.queue = a.queue /\ b.id = a.id /\ b.out = a.out
  BY <1>1
<1>3. Ending(x, a, c, b)
  BY <1>1 DEF Ending
<1> QED
  BY <1>2, <1>3 DEF Moves, Polling, Talking

LEMMA EndedKeeps ==
    ASSUME IInv, AgreeInv, NEW n \in Node, NEW p \in Node, Updates(n, p),
           NEW c, c.state \in Gone, c.link = "null", c.state # "none" => Known(n, p),
           conns' = [conns EXCEPT ![n][p] = c], NEW given, NEW row, RowTo(n, row),
           given = Marked(links[n], Holding(n, {p})),
           row = given \/ \E msg \in Plain : row = Relayed(n, given, p, msg)
    PROVE  AgreeInv'
<1>1. GameKept(n) /\ dialed' = dialed /\ links[n] \in RowType /\ links[n][p] \in LinkType
  BY UpdatesKept, CellFacts
<1>2. \A q \in Node : given[q] = IF q = p /\ conns[n][q].link = "link"
                                     THEN Mark(links[n][q]) ELSE links[n][q]
  BY GivenBackCell
<1>3. given \in RowType
  BY <1>1, MarkedType
<1>4. Told(n, p, row) /\ row[p] = given[p]
  <2>1. CASE row = given
    BY <1>2, <2>1 DEF Told
  <2>2. CASE \E msg \in Plain : row = Relayed(n, given, p, msg)
    <3>1. PICK msg \in Plain : row = Relayed(n, given, p, msg)
      BY <2>2
    <3>2. \A q \in Node : q # p => given[q] = links[n][q]
      BY <1>2
    <3> QED
      BY <1>3, <3>1, <3>2, RelayedTells
  <2> QED
    BY <2>1, <2>2
<1>5. row[p] = IF conns[n][p].link = "link" THEN Mark(links[n][p]) ELSE links[n][p]
  BY <1>2, <1>4
<1>6. conns[n][p].state = "none" => c.state = "none"
  BY DEF Known
<1>7. Moves(conns[n][p], links[n][p], c, row[p])
  BY <1>1, <1>5, <1>6, EndingMoves
<1>8. ConnTo(n, p, c)
  BY ConnToCells
<1> QED
  BY <1>1, <1>4, <1>7, <1>8, CellKeeps DEF EndMoves

LEMMA UpdateEndsAgrees ==
    ASSUME IInv, AgreeInv, NEW n \in Node, NEW p \in Node,
           UpdateDead(n, p) \/ UpdateConnecting(n, p) \/ UpdateKeepAliveLost(n, p)
    PROVE  AgreeInv'
<1>1. Updates(n, p)
  BY DEF UpdateDead, UpdateConnecting, UpdateKeepAliveLost
<1>2. PICK given : given = Marked(links[n], Holding(n, {p}))
  OBVIOUS
<1>3. CASE UpdateDead(n, p)
  <2>1. conns' = [conns EXCEPT ![n][p] = NoConn] /\ RowTo(n, given)
    BY <1>2, <1>3 DEF UpdateDead, SetConn
  <2>2. NoConn.state \in Gone /\ NoConn.link = "null" /\ NoConn.state = "none"
    BY DEF NoConn, Gone
  <2> QED
    BY <1>1, <1>2, <2>1, <2>2, EndedKeeps
<1>4. CASE UpdateConnecting(n, p)
  <2>1. PICK c : c = Ended("InitiateTimedOut")
    OBVIOUS
  <2>2. conns' = [conns EXCEPT ![n][p] = c] /\ RowTo(n, given) /\ Known(n, p)
    BY <1>2, <1>4, <2>1 DEF UpdateConnecting, SetConn, Connecting, Known
  <2>3. c.state \in Gone /\ c.link = "null"
    BY <2>1 DEF Ended, Gone
  <2> QED
    BY <1>1, <1>2, <2>2, <2>3, EndedKeeps
<1>5. CASE UpdateKeepAliveLost(n, p)
  <2>1. PICK c : c = Ended("ConnectionTimedOut")
    OBVIOUS
  <2>2. PICK msg \in Plain : msg = RemoteDisconnected(p)
    BY PlainTypes
  <2>3. PICK row : row = Relayed(n, given, p, msg)
    OBVIOUS
  <2>4. conns' = [conns EXCEPT ![n][p] = c] /\ RowTo(n, row) /\ Known(n, p)
    BY <1>2, <1>5, <2>1, <2>2, <2>3 DEF UpdateKeepAliveLost, SetConn, Connected, Known
  <2>5. c.state \in Gone /\ c.link = "null"
    BY <2>1 DEF Ended, Gone
  <2> QED
    BY <1>1, <1>2, <2>3, <2>4, <2>5, EndedKeeps
<1> QED
  BY <1>3, <1>4, <1>5

LEMMA UpdateKeepAliveRequestAgrees ==
    ASSUME IInv, AgreeInv, NEW n \in Node, NEW p \in Node, UpdateKeepAliveRequest(n, p)
    PROVE  AgreeInv'
<1> DEFINE c == [conns[n][p] EXCEPT !.waiting = TRUE]
<1>1. /\ Updates(n, p) /\ Connected(n, p)
      /\ conns' = [conns EXCEPT ![n][p] = c]
      /\ RowTo(n, SentBy(n, links[n], p, Msg("KeepAliveRequest")))
  BY DEF UpdateKeepAliveRequest
<1>2. /\ GameKept(n) /\ dialed' = dialed /\ links[n] \in RowType
      /\ links[n][p] \in LinkType /\ conns[n][p] \in ConnType
  BY <1>1, UpdatesKept, CellFacts
<1>3. c.state = conns[n][p].state /\ c.link = conns[n][p].link
  BY <1>2 DEF ConnType
<1> HIDE DEF c
<1>4. PICK msg \in Plain : msg = Msg("KeepAliveRequest")
  BY PlainTypes
<1>5. PICK row : row = SentBy(n, links[n], p, msg)
  OBVIOUS
<1>6. \A q \in Node : SentBy(n, links[n], p, msg)[q] =
          IF q = p /\ conns[n][p].link = "link" THEN Say(links[n][q], msg) ELSE links[n][q]
  BY <1>2, SentByCell
<1>7. Told(n, p, row) /\ (row[p] = Say(links[n][p], msg) \/ row[p] = links[n][p])
  BY <1>5, <1>6 DEF Told
<1>8. Moves(conns[n][p], links[n][p], c, row[p])
  <2>1. Moves(conns[n][p], links[n][p], conns[n][p], row[p])
    <3>1. Moves(conns[n][p], links[n][p], conns[n][p], Say(links[n][p], msg))
      BY <1>1, <1>2, SayMoves DEF Connected
    <3>2. Moves(conns[n][p], links[n][p], conns[n][p], links[n][p])
      BY DEF Moves, Polling, Talking, Staying
    <3> QED
      BY <1>7, <3>1, <3>2
  <2> QED
    BY <1>3, <2>1 DEF Moves, Staying, Answered, Ending
<1>9. ConnTo(n, p, c) /\ RowTo(n, row) /\ Known(n, p)
  BY <1>1, <1>4, <1>5, ConnToCells DEF Connected, Known
<1> QED
  BY <1>2, <1>7, <1>8, <1>9, CellKeeps DEF EndMoves

-----------------------------------------------------------------------------
\* Calls of the application that end connections.

LEMMA DisconnectedCell ==
    ASSUME NEW x, NEW a \in LinkType, NEW said, NEW b,
           said = a \/ (x.state = "Connected" /\ said = Say(a, Msg("Disconnect"))),
           b = IF x.link = "link" THEN Mark(said) ELSE said
    PROVE  Moves(x, a, NoConn, b)
<1>1. PICK msg \in Plain : msg = Msg("Disconnect")
  BY PlainTypes
<1>2. msg \in Message
  BY DEF Plain
<1>3. /\ said \in LinkType /\ said.queue = a.queue /\ said.id = a.id
      /\ said.phase = a.phase
      /\ \/ said.out = a.out
         \/ x.state = "Connected" /\ said.out = Append(a.out, msg)
  <2>1. /\ Say(a, msg) \in LinkType
        /\ Say(a, msg).queue = a.queue /\ Say(a, msg).id = a.id
        /\ Say(a, msg).phase = a.phase
        /\ Say(a, msg).out = a.out \/ Say(a, msg).out = Append(a.out, msg)
    BY <1>2, SayFields
  <2>2. said = a \/ (x.state = "Connected" /\ said = Say(a, msg))
    BY <1>1
  <2> QED
    BY <2>1, <2>2
<1>4. /\ Mark(said).queue = said.queue /\ Mark(said).id = said.id
      /\ Mark(said).out = said.out
      /\ Mark(said).phase = IF said.phase = "open" THEN "lingers" ELSE said.phase
  BY <1>3, MarkFields
<1>5. b.queue = a.queue /\ b.id = a.id /\ b.out = said.out
  BY <1>3, <1>4
<1>6. Talking(x, a.out, b.out)
  BY <1>3, <1>5 DEF Talking
<1>7. Ending(x, a, NoConn, b)
  BY <1>3, <1>4 DEF Ending, NoConn, Gone
<1> QED
  BY <1>5, <1>6, <1>7 DEF Moves, Polling

LEMMA DisconnectMoves ==
    ASSUME IInv, NEW n \in Node, NEW P \in SUBSET Node, Disconnect(n, P), dialed' = dialed
    PROVE  /\ RowMoves(n)
           /\ \A q \in Node : conns'[n][q] = IF q \in P THEN NoConn ELSE conns[n][q]
           /\ \A q \in Node : \E said :
                 /\ said = links[n][q] \/ said = Say(links[n][q], Msg("Disconnect"))
                 /\ links'[n][q] = said \/ links'[n][q] = Mark(said)
<1> DEFINE row == [q \in Node |-> IF q \in P /\ Connected(n, q)
                                     THEN SentBy(n, links[n], q, Msg("Disconnect"))[q]
                                     ELSE links[n][q]]
           kept == [q \in Node |-> IF q \in P THEN NoConn ELSE conns[n][q]]
           given == Marked(row, Holding(n, P))
<1>1. conns \in ConnTable /\ links[n] \in RowType
  BY CellFacts
<1>2. RowTo(n, given) /\ conns' = [conns EXCEPT ![n] = kept]
  <2>1. row = [q \in Node |-> IF q \in {p \in P : Connected(n, p)}
                                 THEN SentBy(n, links[n], q, Msg("Disconnect"))[q]
                                 ELSE links[n][q]]
    OBVIOUS
  <2> HIDE DEF row
  <2> QED
    BY <2>1 DEF Disconnect, RowTo
<1>3. /\ \A q \in Node : conns'[n][q] = IF q \in P THEN NoConn ELSE conns[n][q]
      /\ \A m, q \in Node : m # n => conns'[m][q] = conns[m][q]
  <2>1. \A q \in Node : kept[q] = IF q \in P THEN NoConn ELSE conns[n][q]
    OBVIOUS
  <2> HIDE DEF kept
  <2>2. conns'[n] = kept /\ \A m \in Node : m # n => conns'[m] = conns[m]
    BY <1>1, <1>2 DEF ConnTable
  <2> QED
    BY <2>1, <2>2
<1>4. \A q \in Node :
          row[q] = links[n][q] \/
          (q \in P /\ Connected(n, q) /\ row[q] = Say(links[n][q], Msg("Disconnect")))
  <2> TAKE q \in Node
  <2>1. row[q] = IF q \in P /\ Connected(n, q)
                    THEN SentBy(n, links[n], q, Msg("Disconnect"))[q] ELSE links[n][q]
    OBVIOUS
  <2>2. SentBy(n, links[n], q, Msg("Disconnect"))[q] =
            IF conns[n][q].link = "link" THEN Say(links[n][q], Msg("Disconnect"))
                                         ELSE links[n][q]
    <3>1. PICK now \in RowType : now = links[n]
      BY <1>1
    <3>2. PICK msg : msg = Msg("Disconnect")
      OBVIOUS
    <3>3. SentBy(n, now, q, msg)[q] = IF conns[n][q].link = "link" THEN Say(now[q], msg)
                                                                   ELSE now[q]
      BY SentByCell
    <3> QED
      BY <3>1, <3>2, <3>3
  <2> HIDE DEF row
  <2> QED
    BY <2>1, <2>2
<1> HIDE DEF row
<1>5. \A q \in Node : given[q] = IF q \in P /\ conns[n][q].link = "link"
                                     THEN Mark(row[q]) ELSE row[q]
  <2>1. \A q \in Node : given[q] = IF q \in Holding(n, P) THEN Mark(row[q]) ELSE row[q]
    BY MarkedCell
  <2> QED
    BY <2>1 DEF Holding
<1> HIDE DEF given
<1>6. \A m, q \in Node : links'[m][q] = IF m = n THEN given[q] ELSE links[m][q]
  BY <1>2, RowToCells
<1>7. ASSUME NEW q \in Node
      PROVE  EndMoves(conns[n][q], links[n][q], conns'[n][q], links'[n][q])
  <2>1. links[n][q] \in LinkType /\ links'[n][q] = given[q]
    BY <1>6, CellFacts
  <2>2. CASE q \in P
    <3>1. given[q] = IF conns[n][q].link = "link" THEN Mark(row[q]) ELSE row[q]
      BY <1>5, <2>2
    <3>2. \/ row[q] = links[n][q]
          \/ /\ conns[n][q].state = "Connected"
             /\ row[q] = Say(links[n][q], Msg("Disconnect"))
      BY <1>4 DEF Connected
    <3>3. Moves(conns[n][q], links[n][q], NoConn, given[q])
      BY <2>1, <3>1, <3>2, DisconnectedCell
    <3> QED
      BY <1>3, <2>1, <2>2, <3>3 DEF EndMoves
  <2>3. CASE q \notin P
    <3>1. conns'[n][q] = conns[n][q] /\ links'[n][q] = links[n][q]
      BY <1>3, <1>4, <1>5, <2>1, <2>3
    <3> QED
      BY <3>1 DEF EndMoves, Moves, Polling, Talking, Staying
  <2> QED
    BY <2>2, <2>3
<1>8. ASSUME NEW q \in Node
      PROVE  \E said : /\ said = links[n][q] \/ said = Say(links[n][q], Msg("Disconnect"))
                       /\ links'[n][q] = said \/ links'[n][q] = Mark(said)
  <2>1. PICK said : said = row[q]
    OBVIOUS
  <2>2. said = links[n][q] \/ said = Say(links[n][q], Msg("Disconnect"))
    BY <1>4, <2>1
  <2>3. links'[n][q] = said \/ links'[n][q] = Mark(said)
    BY <1>5, <1>6, <2>1
  <2> QED
    BY <2>2, <2>3
<1> QED
  BY <1>3, <1>6, <1>7, <1>8 DEF RowMoves

LEMMA CloseAgrees ==
    ASSUME IInv, AgreeInv, NEW n \in Node, NEW p \in Node, Close(n, p)
    PROVE  AgreeInv'
<1>1. /\ Disconnect(n, {p}) /\ dialed' = dialed /\ game' = game /\ alive' = alive
  BY DEF Close
<1>2. /\ RowMoves(n)
      /\ \A q \in Node : conns'[n][q] = IF q \in {p} THEN NoConn ELSE conns[n][q]
  BY <1>1, DisconnectMoves
<1>3. PairsInv' /\ OthersInv'
  BY <1>2, RowMovesKeep DEF AgreeInv
<1>4. \A q \in Node : Known(n, q)' => Known(n, q)
  BY <1>2 DEF Known, NoConn
<1>5. GamesInv'
  BY <1>1, <1>2, <1>4, GamesKept DEF AgreeInv
<1> QED
  BY <1>3, <1>5 DEF AgreeInv

\* Only the row of n changes, and n is not in update.
LEMMA GamesKeptAtApi ==
    ASSUME IInv, GamesInv, NEW n \in Node, RowMoves(n), game' = game, game[n].at = "api",
           \A m \in Node : m # n => alive'[m] = alive[m],
           \A q \in Node : ~Known(n, q)'
    PROVE  GamesInv'
<1> SUFFICES ASSUME NEW m \in Node PROVE PollInv(m)' /\ GoneInv(m)'
  BY DEF GamesInv
<1>1. CASE m = n
  BY <1>1 DEF PollInv, GoneInv
<1>2. CASE m # n
  <2>1. \A q \in Node : conns'[m][q] = conns[m][q] /\ links'[m][q] = links[m][q]
    BY <1>2 DEF RowMoves
  <2> QED
    BY <1>2, <2>1, OtherGames
<1> QED
  BY <1>1, <1>2

LEMMA QuitAgrees ==
    ASSUME IInv, AgreeInv, NEW n \in Node, Quit(n)
    PROVE  AgreeInv'
<1> DEFINE P == {p \in Node : Known(n, p)}
<1>1. /\ Disconnect(n, P) /\ dialed' = dialed /\ game' = game /\ game[n].at = "api"
      /\ alive' = [alive EXCEPT ![n] = "closing"]
  BY DEF Quit, Calling
<1>2. P \in SUBSET Node /\ \A q \in Node : q \notin P => ~Known(n, q)
  OBVIOUS
<1> HIDE DEF P
<1>3. /\ RowMoves(n)
      /\ \A q \in Node : conns'[n][q] = IF q \in P THEN NoConn ELSE conns[n][q]
  BY <1>1, <1>2, DisconnectMoves
<1>4. PairsInv' /\ OthersInv'
  BY <1>3, RowMovesKeep DEF AgreeInv
<1>5. \A q \in Node : ~Known(n, q)'
  BY <1>2, <1>3 DEF Known, NoConn
<1>6. \A m \in Node : m # n => alive'[m] = alive[m]
  BY <1>1, CellFacts DEF Counters
<1>7. GamesInv'
  BY <1>1, <1>3, <1>5, <1>6, GamesKeptAtApi DEF AgreeInv
<1> QED
  BY <1>4, <1>7 DEF AgreeInv

LEMMA ResetAgrees ==
    ASSUME IInv, AgreeInv, NEW n \in Node, Reset(n)
    PROVE  AgreeInv'
<1>1. /\ alive[n] = "closing" /\ alive' = [alive EXCEPT ![n] = "closed"]
      /\ conns' = conns /\ dialed' = dialed /\ game' = game
  BY DEF Reset
<1>2. RowTo(n, [p \in Node |-> NoLink])
  BY DEF Reset, RowTo
<1>3. game[n].at = "api" /\ \A p \in Node : ~Known(n, p)
  BY <1>1 DEF AgreeInv, GamesInv, GoneInv
<1>4. \A m, q \in Node : links'[m][q] = IF m = n THEN NoLink ELSE links[m][q]
  <2>1. PICK row : row = [p \in Node |-> NoLink]
    OBVIOUS
  <2>2. \A q \in Node : row[q] = NoLink
    BY <2>1
  <2>3. \A m, q \in Node : links'[m][q] = IF m = n THEN row[q] ELSE links[m][q]
    BY <1>2, <2>1, RowToCells
  <2> QED
    BY <2>2, <2>3
<1>5. RowMoves(n)
  <2>1. ASSUME NEW q \in Node
        PROVE  Removed(conns[n][q], links[n][q], conns'[n][q], links'[n][q])
    BY <1>1, <1>3, <1>4 DEF Removed, Known, Held
  <2> QED
    BY <1>1, <1>4, <2>1 DEF RowMoves, EndMoves
<1>6. PairsInv' /\ OthersInv'
  BY <1>5, RowMovesKeep DEF AgreeInv
<1>7. \A m \in Node : m # n => alive'[m] = alive[m]
  BY <1>1, CellFacts DEF Counters
<1>8. \A q \in Node : ~Known(n, q)'
  BY <1>1, <1>3 DEF Known
<1>9. GamesInv'
  BY <1>1, <1>3, <1>5, <1>7, <1>8, GamesKeptAtApi DEF AgreeInv
<1> QED
  BY <1>6, <1>9 DEF AgreeInv

-----------------------------------------------------------------------------
\* The receive thread's timers.

\* One cell of links changes, and its connection at most in name.
LEMMA LinkCellKeeps ==
    ASSUME IInv, AgreeInv, NEW n \in Node, NEW p \in Node, NEW l, NEW c,
           links' = [links EXCEPT ![n][p] = l],
           conns' = [conns EXCEPT ![n][p] = c] \/ (conns' = conns /\ c = conns[n][p]),
           game' = game, dialed' = dialed, alive' = alive, c.state = conns[n][p].state,
           EndMoves(conns[n][p], links[n][p], c, l)
    PROVE  AgreeInv'
<1> DEFINE row == [links[n] EXCEPT ![p] = l]
<1>1. links[n] \in RowType
  BY CellFacts
<1>2. RowTo(n, row)
  BY DEF RowTo
<1>3. \A q \in Node : row[q] = IF q = p THEN l ELSE links[n][q]
  BY <1>1 DEF RowType
<1> HIDE DEF row
<1>4. Told(n, p, row)
  BY <1>3 DEF Told
<1>5. ConnTo(n, p, c) /\ GameKept(n)
  BY ConnToCells DEF GameKept
<1>6. EndMoves(conns[n][p], links[n][p], c, row[p])
  BY <1>3
<1> QED
  BY <1>2, <1>4, <1>5, <1>6, CellKeeps DEF Known

LEMMA LingerAgrees ==
    ASSUME IInv, AgreeInv, NEW n \in Node, NEW p \in Node, Linger(n, p)
    PROVE  AgreeInv'
<1> DEFINE l == [links[n][p] EXCEPT !.phase = "expired"]
<1>1. /\ links[n][p].phase = "lingers" /\ links' = [links EXCEPT ![n][p] = l]
      /\ conns' = conns /\ game' = game /\ dialed' = dialed /\ alive' = alive
  BY DEF Linger
<1>2. links[n][p] \in LinkType
  BY CellFacts
<1>3. /\ l.phase = "expired" /\ l.id = links[n][p].id /\ l.queue = links[n][p].queue
      /\ l.out = links[n][p].out
  BY <1>2 DEF LinkType
<1> HIDE DEF l
<1>4. Moves(conns[n][p], links[n][p], conns[n][p], l)
  BY <1>1, <1>3 DEF Moves, Polling, Talking, Staying
<1> QED
  BY <1>1, <1>4, LinkCellKeeps DEF EndMoves

\* No connection holds the link that is deleted.
LEMMA UpdatePendingDeletesAgrees ==
    ASSUME IInv, AgreeInv, NEW n \in Node, NEW p \in Node, UpdatePendingDeletes(n, p)
    PROVE  AgreeInv'
<1> DEFINE held == IF conns[n][p].link = "link" THEN "deleted" ELSE conns[n][p].link
           c == [conns[n][p] EXCEPT !.link = held]
<1>1. /\ links[n][p].phase = "expired" /\ links' = [links EXCEPT ![n][p] = NoLink]
      /\ conns' = [conns EXCEPT ![n][p] = c]
      /\ game' = game /\ dialed' = dialed /\ alive' = alive
  BY DEF UpdatePendingDeletes
<1>2. conns[n][p] \in ConnType
  BY CellFacts
<1>3. conns[n][p].state \notin Held /\ conns[n][p].link = "null"
  BY <1>1, EndsOk DEF EndOk
<1>4. held = "null"
  BY <1>3
<1> HIDE DEF held
<1>5. c.state = conns[n][p].state /\ c.link = conns[n][p].link
  BY <1>2, <1>3, <1>4 DEF ConnType
<1> HIDE DEF c
<1>6. Removed(conns[n][p], links[n][p], c, NoLink)
  BY <1>3, <1>5 DEF Removed
<1> QED
  BY <1>1, <1>5, <1>6, LinkCellKeeps DEF EndMoves

-----------------------------------------------------------------------------
\* Connecting.

LEMMA Dialed ==
    ASSUME NEW c, NEW k \in Nat, NEW x, NEW a, NEW y, NEW b, PairInv(c, k, x, a, y, b)
    PROVE  PairInv(c, k + 1, x, a, y, b)
<1>1. \A i \in 1 .. k : i \in 1 .. k + 1
  OBVIOUS
<1>2. ASSUME NEW l, LinkOf(c, k, l) PROVE LinkOf(c, k + 1, l)
  BY <1>1, <1>2 DEF LinkOf
<1> QED
  BY <1>2 DEF PairInv, ClientEnd, ServerEnd

\* An id that was drawn last is of no link that the server knows.
LEMMA NewId ==
    ASSUME NEW c, NEW k \in Nat, NEW y, NEW b, ServerEnd(c, k, y, b), NEW id, id = <<c, k + 1>>
    PROVE  id # b.id
<1>1. CASE b.phase = "none"
  <2>1. b.id = <<>>
    BY <1>1 DEF ServerEnd, LinkOf
  <2>2. PICK i : i = k + 1
    OBVIOUS
  <2>3. <<c, i>> # <<>>
    OBVIOUS
  <2> QED
    BY <2>1, <2>2, <2>3
<1>2. CASE b.phase # "none"
  <2>1. PICK i \in 1 .. k : b.id = <<c, i>>
    BY <1>2 DEF ServerEnd, LinkOf
  <2> QED
    BY <2>1
<1> QED
  BY <1>1, <1>2

\* A client without a connection opens a link, with an id of its own, and asks
\* or does not ask.
LEMMA ConnectPair ==
    ASSUME NEW c, NEW k \in Nat, NEW x, NEW a, NEW y, NEW b, PairInv(c, k, x, a, y, b),
           NEW x2, NEW a2, x2.link = "link",
           a2.phase = "open", a2.id = <<c, k + 1>>, a2.queue = <<>>,
           \/ x2.state = "Idle" /\ a2.out = <<>>
           \/ x2.state = "Connecting" /\ \E msg \in Message : a2.out = <<msg>>
    PROVE  PairInv(c, k + 1, x2, a2, y, b)
<1>1. a2.id # b.id
  BY NewId DEF PairInv
<1>2. ServerEnd(c, k + 1, y, b)
  BY Dialed DEF PairInv
<1>3. ClientEnd(c, k + 1, x2, a2)
  <2>1. k + 1 \in 1 .. k + 1
    OBVIOUS
  <2>2. LinkOf(c, k + 1, a2)
    BY <2>1 DEF LinkOf
  <2> QED
    BY <2>2, HasNone DEF ClientEnd, Held, RequestIn
<1>4. Ends(x2, a2, b)
  <2>1. CASE x2.state = "Idle" /\ a2.out = <<>>
    BY <1>1, <2>1, HasNone DEF Ends, RequestIn
  <2>2. CASE x2.state = "Connecting" /\ \E msg \in Message : a2.out = <<msg>>
    BY <1>1, <2>2, HasOne DEF Ends, Unanswered
  <2> QED
    BY <2>1, <2>2
<1> QED
  BY <1>2, <1>3, <1>4 DEF PairInv

\* The new ends of the client, x2 and a2.
NewEnds(n, p, x2, a2) ==
    /\ x2.link = "link" /\ a2.phase = "open" /\ a2.id = <<n, dialed[n] + 1>> /\ a2.queue = <<>>
    /\ \/ x2.state = "Idle" /\ a2.out = <<>>
       \/ x2.state = "Connecting" /\ \E msg \in Message : a2.out = <<msg>>
    /\ \A m, q \in Node :
          /\ conns'[m][q] = IF m = n /\ q = p THEN x2 ELSE conns[m][q]
          /\ links'[m][q] = IF m = n /\ q = p THEN a2 ELSE links[m][q]

LEMMA ConnectCells ==
    ASSUME IInv, NEW n \in Clients, NEW p \in Listeners, NEW request \in Requests,
           Connect(n, p, request)
    PROVE  /\ n \in Node /\ p \in Node /\ n # p /\ MayConnect(n, p)
           /\ \E x2, a2 : NewEnds(n, p, x2, a2)
<1>1. /\ n \in Node /\ p \in Node /\ n # p /\ MayConnect(n, p)
  BY ConnectionsAssumption DEF Connect, MayConnect
<1>2. /\ conns \in ConnTable /\ links \in LinkTable /\ dialed \in [Node -> Nat]
  BY <1>1, CellFacts DEF Counters
<1> DEFINE id == <<n, dialed[n] + 1>>
           link == NewLink(id)
           asking == [link EXCEPT !.out = <<ConnectRequest(request)>>]
           x2 == IF request = "none"
                    THEN [state |-> "Idle", waiting |-> FALSE, link |-> "link"]
                    ELSE [state |-> "Connecting", waiting |-> FALSE, link |-> "link"]
           a2 == IF request = "none" THEN link ELSE asking
<1>3. conns' = [conns EXCEPT ![n][p] = x2] /\ links' = [links EXCEPT ![n][p] = a2]
  <2>1. CASE request = "none"
    <3>1. /\ conns' = [conns EXCEPT ![n][p] = [state |-> "Idle", waiting |-> FALSE, link |-> "link"]]
          /\ links' = [links EXCEPT ![n][p] = link]
      BY <2>1 DEF Connect, SetConn
    <3> HIDE DEF link, asking
    <3> QED
      BY <2>1, <3>1
  <2>2. CASE request # "none"
    <3>1. /\ conns' = [conns EXCEPT ![n][p] = [state |-> "Connecting", waiting |-> FALSE, link |-> "link"]]
          /\ links' = [links EXCEPT ![n][p] = asking]
      BY <2>2 DEF Connect, SetConn
    <3> HIDE DEF link, asking
    <3> QED
      BY <2>2, <3>1
  <2> QED
    BY <2>1, <2>2
<1>4. link.phase = "open" /\ link.id = id /\ link.queue = <<>> /\ link.out = <<>>
  BY DEF NewLink, NoLink
<1>5. /\ asking.phase = "open" /\ asking.id = id /\ asking.queue = <<>>
      /\ asking.out = <<ConnectRequest(request)>>
  <2>1. link \in LinkType
    <3>1. id \in Node \X Nat
      BY <1>1, <1>2
    <3> HIDE DEF id
    <3> QED
      BY <3>1, NewLinkType
  <2> HIDE DEF link, id
  <2> QED
    BY <1>4, <2>1 DEF LinkType
<1> HIDE DEF link, asking
<1>6. /\ x2.link = "link" /\ a2.phase = "open" /\ a2.id = <<n, dialed[n] + 1>> /\ a2.queue = <<>>
      /\ \/ x2.state = "Idle" /\ a2.out = <<>>
         \/ x2.state = "Connecting" /\ \E msg \in Message : a2.out = <<msg>>
  <2>1. ConnectRequest(request) \in Message
    BY MessageTypes
  <2>2. CASE request = "none"
    BY <1>4, <2>2
  <2>3. CASE request # "none"
    <3>1. x2.link = "link" /\ x2.state = "Connecting" /\ a2 = asking
      BY <2>3
    <3> HIDE DEF x2, a2
    <3> QED
      BY <1>5, <2>1, <3>1
  <2> QED
    BY <2>2, <2>3
<1> HIDE DEF id, x2, a2
<1>7. \A m, q \in Node :
          /\ conns'[m][q] = IF m = n /\ q = p THEN x2 ELSE conns[m][q]
          /\ links'[m][q] = IF m = n /\ q = p THEN a2 ELSE links[m][q]
  <2>1. ConnTo(n, p, x2)
    BY <1>1, <1>3, ConnToCells
  <2> DEFINE row == [links[n] EXCEPT ![p] = a2]
  <2>2. RowTo(n, row)
    BY <1>3 DEF RowTo
  <2>3. \A q \in Node : row[q] = IF q = p THEN a2 ELSE links[n][q]
    BY <1>1, <1>2 DEF LinkTable, RowType
  <2> HIDE DEF row
  <2>4. \A m, q \in Node : links'[m][q] = IF m = n THEN row[q] ELSE links[m][q]
    BY <1>1, <2>2, RowToCells
  <2> QED
    BY <2>1, <2>3, <2>4 DEF ConnTo
<1>8. NewEnds(n, p, x2, a2)
  BY <1>6, <1>7 DEF NewEnds
<1> QED
  BY <1>1, <1>8

LEMMA ConnectAgrees ==
    ASSUME OneWay, IInv, AgreeInv, NEW n \in Clients, NEW p \in Listeners, NEW request \in Requests,
           Connect(n, p, request)
    PROVE  AgreeInv'
<1>1. n \in Node /\ p \in Node /\ n # p /\ MayConnect(n, p) /\ ~MayConnect(p, n)
  BY ConnectCells DEF OneWay
<1>2. dialed \in [Node -> Nat]
  BY <1>1, CellFacts DEF Counters
<1>3. /\ alive[n] = "running" /\ game[n].at = "api"
      /\ dialed' = [dialed EXCEPT ![n] = @ + 1] /\ game' = game /\ alive' = alive
  BY DEF Connect, Calling
<1>4. PICK x2, a2 : NewEnds(n, p, x2, a2)
  BY ConnectCells
<1>5. /\ x2.link = "link" /\ a2.phase = "open" /\ a2.id = <<n, dialed[n] + 1>> /\ a2.queue = <<>>
      /\ \/ x2.state = "Idle" /\ a2.out = <<>>
         \/ x2.state = "Connecting" /\ \E msg \in Message : a2.out = <<msg>>
  BY <1>4 DEF NewEnds
<1>6. \A m, q \in Node :
          /\ conns'[m][q] = IF m = n /\ q = p THEN x2 ELSE conns[m][q]
          /\ links'[m][q] = IF m = n /\ q = p THEN a2 ELSE links[m][q]
  BY <1>4 DEF NewEnds
<1>7. \A c \in Node : dialed'[c] = IF c = n THEN dialed[c] + 1 ELSE dialed[c]
  BY <1>2, <1>3
<1>8. PairsInv'
  <2> SUFFICES ASSUME NEW c \in Node, NEW s \in Node, MayConnect(c, s)
               PROVE  PairInv(c, dialed'[c], conns'[c][s], links'[c][s],
                              conns'[s][c], links'[s][c])
    BY DEF PairsInv, MayConnect
  <2>1. PairInv(c, dialed[c], conns[c][s], links[c][s], conns[s][c], links[s][c])
    BY DEF AgreeInv, PairsInv
  <2>2. conns'[s][c] = conns[s][c] /\ links'[s][c] = links[s][c] /\ dialed[c] \in Nat
    BY <1>1, <1>2, <1>6
  <2>3. CASE c = n /\ s = p
    <3>1. conns'[c][s] = x2 /\ links'[c][s] = a2 /\ dialed'[c] = dialed[c] + 1
      BY <1>6, <1>7, <2>3
    <3>2. PairInv(c, dialed[c] + 1, x2, a2, conns[s][c], links[s][c])
      BY <1>5, <2>1, <2>2, <2>3, ConnectPair
    <3> QED
      BY <2>2, <3>1, <3>2
  <2>4. CASE ~(c = n /\ s = p)
    <3>1. conns'[c][s] = conns[c][s] /\ links'[c][s] = links[c][s]
      BY <1>6, <2>4
    <3>2. PairInv(c, dialed[c] + 1, conns[c][s], links[c][s], conns[s][c], links[s][c])
      BY <2>1, <2>2, Dialed
    <3>3. dialed'[c] = dialed[c] \/ dialed'[c] = dialed[c] + 1
      BY <1>7
    <3> QED
      BY <2>1, <2>2, <3>1, <3>2, <3>3
  <2> QED
    BY <2>3, <2>4
<1>9. OthersInv'
  <2> SUFFICES ASSUME NEW m \in Node, NEW q \in Node, ~MayConnect(m, q), ~MayConnect(q, m)
               PROVE  Nothing(conns'[m][q], links'[m][q])
    BY DEF OthersInv, MayConnect
  <2>1. conns'[m][q] = conns[m][q] /\ links'[m][q] = links[m][q]
    BY <1>1, <1>6
  <2> QED
    BY <2>1 DEF AgreeInv, OthersInv
<1>10. GamesInv'
  <2> SUFFICES ASSUME NEW m \in Node PROVE PollInv(m)' /\ GoneInv(m)'
    BY DEF GamesInv
  <2>1. CASE m = n
    BY <1>3, <2>1 DEF PollInv, GoneInv
  <2>2. CASE m # n
    BY <1>3, <1>6, <2>2, OtherGames DEF AgreeInv
  <2> QED
    BY <2>1, <2>2
<1> QED
  BY <1>8, <1>9, <1>10 DEF AgreeInv

-----------------------------------------------------------------------------
\* A message moves from one end to the other.

\* The end a gives its first message ...
Gives(a, a2) ==
    /\ a.out # <<>> /\ a2.out = Tail(a.out)
    /\ a2.id = a.id /\ a2.phase = a.phase /\ a2.queue = a.queue

\* ... and the other end b opens with it, or takes it.
Opens(a, b, b2) ==
    /\ b.phase = "none" /\ Head(a.out).type = "ConnectRequest"
    /\ b2.phase = "open" /\ b2.id = a.id /\ b2.out = <<>> /\ b2.queue = <<Head(a.out)>>

Takes(a, b, b2) ==
    /\ b.phase # "none" /\ SameId(b.id, a.id)
    /\ b2.phase = b.phase /\ b2.id = b.id /\ b2.out = b.out
    /\ b2.queue = Append(b.queue, Head(a.out))

\* The ids of a pair are the client's, so a number tells them apart.
LEMMA SameIds ==
    ASSUME NEW c, NEW k \in Nat, NEW x, NEW a, NEW y, NEW b, PairInv(c, k, x, a, y, b),
           a.phase # "none", b.phase # "none", SameId(a.id, b.id) \/ SameId(b.id, a.id)
    PROVE  a.id = b.id
<1>1. PICK i \in 1 .. k : a.id = <<c, i>>
  BY DEF PairInv, ClientEnd, LinkOf
<1>2. PICK j \in 1 .. k : b.id = <<c, j>>
  BY DEF PairInv, ServerEnd, LinkOf
<1>3. CASE SameSeed
  BY <1>1, <1>2, <1>3 DEF SameId
<1>4. CASE ~SameSeed
  BY <1>1, <1>2, <1>4 DEF SameId
<1> QED
  BY <1>3, <1>4

LEMMA ServerGets ==
    ASSUME NEW c, NEW k \in Nat, NEW x, NEW a \in LinkType, NEW y, NEW b \in LinkType,
           PairInv(c, k, x, a, y, b), NEW a2, NEW b2, Gives(a, a2),
           Opens(a, b, b2) \/ Takes(a, b, b2)
    PROVE  PairInv(c, k, x, a2, y, b2)
<1> DEFINE msg == Head(a.out)
<1>1. /\ a.out \in Seq(Message) /\ b.queue \in Seq(Message)
      /\ a.out # <<>> /\ a2.out = Tail(a.out)
      /\ a2.id = a.id /\ a2.phase = a.phase /\ a2.queue = a.queue
  BY DEF LinkType, Gives
<1>2. msg \in Message
  BY <1>1, HeadTailProperties
<1>3. /\ RequestIn(a.out) <=> msg.type = "ConnectRequest" \/ RequestIn(a2.out)
      /\ Len(a.out) = 1 => a2.out = <<>>
  BY <1>1, HasTail DEF RequestIn
<1> HIDE DEF msg
<1>4. a.phase # "none" /\ ClientEnd(c, k, x, a2)
  <2>1. ClientEnd(c, k, x, a)
    BY DEF PairInv
  <2>2. a.phase # "none"
    BY <1>1, <2>1 DEF ClientEnd, LinkOf
  <2> QED
    BY <1>1, <2>1, <2>2 DEF ClientEnd, LinkOf
<1>5. CASE Opens(a, b, b2)
  <2>1. /\ b.phase = "none" /\ b2.phase = "open" /\ b2.id = a.id /\ b2.out = <<>>
        /\ b2.queue = <<msg>> /\ msg.type = "ConnectRequest"
    BY <1>5 DEF Opens, msg
  <2>2. a2.out = <<>> /\ a.queue = <<>> /\ Unanswered(x)
    BY <1>3, <2>1 DEF PairInv, Ends
  <2>3. ~RequestIn(b2.out) /\ ~RefusalIn(b2.out) /\ ~RequestIn(a2.out) /\ ~RefusalIn(a2.queue)
    BY <1>1, <2>1, <2>2, HasNone DEF RequestIn, RefusalIn
  <2>4. RequestIn(b2.queue) /\ Len(b2.queue) = 1
    BY <1>2, <2>1, HasOne DEF RequestIn
  <2>5. LinkOf(c, k, b2)
    BY <1>4, <2>1 DEF PairInv, ClientEnd, LinkOf
  <2>6. ServerEnd(c, k, y, b2)
    BY <2>1, <2>3, <2>4, <2>5 DEF PairInv, ServerEnd
  <2>7. Ends(x, a2, b2)
    BY <1>1, <2>2, <2>3 DEF Ends, Unanswered
  <2> QED
    BY <1>4, <2>6, <2>7 DEF PairInv
<1>6. CASE Takes(a, b, b2)
  <2>1. /\ b.phase # "none" /\ b2.phase = b.phase /\ b2.id = b.id /\ b2.out = b.out
        /\ b2.queue = Append(b.queue, msg) /\ SameId(b.id, a.id)
    BY <1>6 DEF Takes, msg
  <2>2. a.id = b.id
    BY <1>4, <2>1, SameIds
  <2>3. ~RequestIn(a.out) /\ ~RequestIn(a2.out) /\ msg.type # "ConnectRequest"
    BY <1>3, <2>2 DEF PairInv, Ends
  <2>4. ~RequestIn(b.queue) /\ x.state # "Idle"
    BY <1>1, <2>2 DEF PairInv, Ends
  <2>5. ~RequestIn(b2.queue)
    BY <1>1, <1>2, <2>1, <2>3, <2>4, HasAppend DEF RequestIn
  <2>6. ServerEnd(c, k, y, b2)
    BY <2>1, <2>4, <2>5 DEF PairInv, ServerEnd, LinkOf
  <2>7. Ends(x, a2, b2)
    BY <1>1, <2>1, <2>3, <2>4, <2>5 DEF PairInv, Ends
  <2> QED
    BY <1>4, <2>6, <2>7 DEF PairInv
<1> QED
  BY <1>5, <1>6

\* A server sends no request, so the client has the link already.
LEMMA ClientGets ==
    ASSUME NEW c, NEW k \in Nat, NEW x, NEW a \in LinkType, NEW y, NEW b \in LinkType,
           PairInv(c, k, x, a, y, b), NEW a2, NEW b2, Gives(b, b2),
           Opens(b, a, a2) \/ Takes(b, a, a2)
    PROVE  PairInv(c, k, x, a2, y, b2)
<1> DEFINE msg == Head(b.out)
<1>1. /\ b.out \in Seq(Message) /\ a.queue \in Seq(Message)
      /\ b.out # <<>> /\ b2.out = Tail(b.out)
      /\ b2.id = b.id /\ b2.phase = b.phase /\ b2.queue = b.queue
  BY DEF LinkType, Gives
<1>2. msg \in Message
  BY <1>1, HeadTailProperties
<1>3. /\ RequestIn(b.out) <=> msg.type = "ConnectRequest" \/ RequestIn(b2.out)
      /\ RefusalIn(b.out) <=> msg.type \in RefusalTypes \/ RefusalIn(b2.out)
  BY <1>1, HasTail DEF RequestIn, RefusalIn
<1>4. ~RequestIn(b.out) /\ ~RequestIn(b2.out) /\ msg.type # "ConnectRequest"
  BY <1>3 DEF PairInv, ServerEnd
<1>5. /\ a.phase # "none" /\ a2.phase = a.phase /\ a2.id = a.id /\ a2.out = a.out
      /\ a2.queue = Append(a.queue, msg) /\ SameId(a.id, b.id)
  BY <1>4 DEF Opens, Takes
<1> HIDE DEF msg
<1>6. b.phase # "none" /\ ~RequestIn(b.queue)
  BY <1>1 DEF PairInv, ServerEnd, LinkOf
<1>7. a.id = b.id
  BY <1>5, <1>6, SameIds
<1>8. ~RequestIn(a.out) /\ x.state # "Idle"
  BY <1>7 DEF PairInv, Ends
<1>9. /\ RequestIn(a2.queue) => RequestIn(a.queue)
      /\ RefusalIn(a2.queue) => RefusalIn(a.queue) \/ RefusalIn(b.out)
  BY <1>1, <1>2, <1>3, <1>4, <1>5, HasAppend DEF RequestIn, RefusalIn
<1>10. ClientEnd(c, k, x, a2)
  BY <1>5, <1>9 DEF PairInv, ClientEnd, LinkOf
<1>11. ServerEnd(c, k, y, b2)
  BY <1>1, <1>3, <1>4, <1>6 DEF PairInv, ServerEnd, LinkOf
<1>12. Ends(x, a2, b2)
  <2>1. RefusalIn(b.out) => b.phase # "open"
    BY DEF PairInv, ServerEnd
  <2> QED
    BY <1>1, <1>5, <1>6, <1>7, <1>8, <1>9, <2>1 DEF PairInv, Ends
<1> QED
  BY <1>10, <1>11, <1>12 DEF PairInv

\* The two cells of links that Deliver changes.
LEMMA DeliverCells ==
    ASSUME IInv, NEW n \in Node, NEW p \in Node, Deliver(n, p)
    PROVE  /\ n # p /\ Gives(links[n][p], links'[n][p])
           /\ \/ Opens(links[n][p], links[p][n], links'[p][n])
              \/ Takes(links[n][p], links[p][n], links'[p][n])
           /\ \A m, q \in Node : ~(m = n /\ q = p) /\ ~(m = p /\ q = n) =>
                                   links'[m][q] = links[m][q]
<1> DEFINE there == links[n][p]
           here == links[p][n]
           taken == [there EXCEPT !.out = Tail(@), !.acked = TRUE]
           new == [NewLink(there.id) EXCEPT !.queue = <<Head(there.out)>>, !.heard = TRUE]
           old == [here EXCEPT !.queue = Append(@, Head(there.out)), !.heard = TRUE]
<1>1. links \in LinkTable /\ there \in LinkType /\ here \in LinkType
  BY CellFacts
<1>2. /\ n # p /\ there.out # <<>>
      /\ \/ /\ here.phase = "none" /\ Head(there.out).type = "ConnectRequest"
            /\ links' = [links EXCEPT ![n][p] = taken, ![p][n] = new]
         \/ /\ here.phase \in {"open", "lingers"} /\ SameId(here.id, there.id)
            /\ links' = [links EXCEPT ![n][p] = taken, ![p][n] = old]
  BY DEF Deliver
<1>3. /\ taken.out = Tail(there.out) /\ taken.id = there.id /\ taken.phase = there.phase
      /\ taken.queue = there.queue
  BY <1>1 DEF LinkType
<1>4. /\ new.phase = "open" /\ new.id = there.id /\ new.out = <<>>
      /\ new.queue = <<Head(there.out)>>
  BY DEF NewLink, NoLink
<1>5. /\ old.phase = here.phase /\ old.id = here.id /\ old.out = here.out
      /\ old.queue = Append(here.queue, Head(there.out))
  BY <1>1 DEF LinkType
<1> HIDE DEF taken, new, old
<1>6. ASSUME NEW l, links' = [links EXCEPT ![n][p] = taken, ![p][n] = l]
      PROVE  /\ links'[n][p] = taken /\ links'[p][n] = l
             /\ \A m, q \in Node : ~(m = n /\ q = p) /\ ~(m = p /\ q = n) =>
                                     links'[m][q] = links[m][q]
  BY <1>1, <1>2, <1>6 DEF LinkTable, RowType
<1>7. Gives(there, taken)
  BY <1>2, <1>3 DEF Gives
<1>8. CASE /\ here.phase = "none" /\ Head(there.out).type = "ConnectRequest"
           /\ links' = [links EXCEPT ![n][p] = taken, ![p][n] = new]
  <2>1. Opens(there, here, new)
    BY <1>4, <1>8 DEF Opens
  <2> QED
    BY <1>2, <1>6, <1>7, <1>8, <2>1
<1>9. CASE /\ here.phase \in {"open", "lingers"} /\ SameId(here.id, there.id)
           /\ links' = [links EXCEPT ![n][p] = taken, ![p][n] = old]
  <2>1. Takes(there, here, old)
    BY <1>5, <1>9 DEF Takes
  <2> QED
    BY <1>2, <1>6, <1>7, <1>9, <2>1
<1> QED
  BY <1>2, <1>8, <1>9

LEMMA DeliverAgrees ==
    ASSUME IInv, AgreeInv, NEW n \in Node, NEW p \in Node, Deliver(n, p)
    PROVE  AgreeInv'
<1>1. /\ n # p /\ Gives(links[n][p], links'[n][p])
      /\ \/ Opens(links[n][p], links[p][n], links'[p][n])
         \/ Takes(links[n][p], links[p][n], links'[p][n])
      /\ \A m, q \in Node : ~(m = n /\ q = p) /\ ~(m = p /\ q = n) =>
                              links'[m][q] = links[m][q]
  BY DeliverCells
<1>2. /\ conns' = conns /\ game' = game /\ dialed' = dialed /\ alive' = alive
      /\ ~(game[p].at = "polling" /\ game[p].peer = n)
  BY DEF Deliver
<1>3. links[n][p] \in LinkType /\ links[p][n] \in LinkType
  BY CellFacts
<1>4. PairsInv'
  <2> SUFFICES ASSUME NEW c \in Node, NEW s \in Node, MayConnect(c, s)
               PROVE  PairInv(c, dialed[c], conns[c][s], links'[c][s],
                              conns[s][c], links'[s][c])
    BY <1>2 DEF PairsInv, MayConnect
  <2>1. /\ PairInv(c, dialed[c], conns[c][s], links[c][s], conns[s][c], links[s][c])
        /\ dialed[c] \in Nat
    BY CellFacts DEF AgreeInv, PairsInv, Counters
  <2>2. CASE c = n /\ s = p
    BY <1>1, <1>3, <2>1, <2>2, ServerGets
  <2>3. CASE c = p /\ s = n
    BY <1>1, <1>3, <2>1, <2>3, ClientGets
  <2>4. CASE ~(c = n /\ s = p) /\ ~(c = p /\ s = n)
    <3>1. links'[c][s] = links[c][s] /\ links'[s][c] = links[s][c]
      BY <1>1, <2>4
    <3> QED
      BY <2>1, <3>1
  <2> QED
    BY <2>2, <2>3, <2>4
<1>5. OthersInv'
  <2> SUFFICES ASSUME NEW m \in Node, NEW q \in Node, ~MayConnect(m, q), ~MayConnect(q, m)
               PROVE  Nothing(conns[m][q], links'[m][q])
    BY <1>2 DEF OthersInv, MayConnect
  <2>1. Nothing(conns[m][q], links[m][q]) /\ Nothing(conns[q][m], links[q][m])
    BY DEF AgreeInv, OthersInv
  <2>2. ~(m = n /\ q = p) /\ ~(m = p /\ q = n)
    BY <1>1, <2>1 DEF Nothing, Gives
  <2> QED
    BY <1>1, <2>1, <2>2
<1>6. GamesInv'
  <2> SUFFICES ASSUME NEW m \in Node PROVE PollInv(m)' /\ GoneInv(m)'
    BY DEF GamesInv
  <2>1. PollInv(m) /\ GoneInv(m)
    BY DEF AgreeInv, GamesInv
  <2>2. game[m] \in GameType
    BY CellFacts
  <2>3. PollInv(m)'
    <3> SUFFICES ASSUME game[m].at = "polling", ~game[m].known, NEW q, q = Peer(m),
                        conns[m][q].state # "none"
                 PROVE  links'[m][q].queue = <<>>
      BY <1>2 DEF PollInv, Peer, Known
    <3>1. q \in Node
      BY <2>2 DEF GameType, Peer
    <3>2. links[m][q].queue = <<>>
      BY <2>1 DEF PollInv, Known
    <3>3. ~(m = p /\ q = n)
      BY <1>2 DEF Peer
    <3>4. CASE m = n /\ q = p
      BY <1>1, <3>2, <3>4 DEF Gives
    <3>5. CASE ~(m = n /\ q = p)
      BY <1>1, <3>1, <3>2, <3>3, <3>5
    <3> QED
      BY <3>4, <3>5
  <2>4. GoneInv(m)'
    BY <1>2, <2>1 DEF GoneInv, Known
  <2> QED
    BY <2>3, <2>4
<1> QED
  BY <1>4, <1>5, <1>6 DEF AgreeInv

-----------------------------------------------------------------------------
\* All steps.

LEMMA InitAgrees ==
    ASSUME Init
    PROVE  AgreeInv
<1>1. \A n, p \in Node : conns[n][p] = NoConn /\ links[n][p] = NoLink
  BY DEF Init
<1>2. \A n \in Node : dialed[n] = 0 /\ alive[n] = "running" /\ game[n].at = "api"
  BY DEF Init
<1>3. /\ NoConn.state = "none" /\ NoConn.link = "null"
      /\ NoLink.phase = "none" /\ NoLink.id = <<>> /\ NoLink.out = <<>> /\ NoLink.queue = <<>>
  BY DEF NoConn, NoLink
<1>4. \A c : PairInv(c, 0, NoConn, NoLink, NoConn, NoLink)
  BY <1>3, HasNone
     DEF PairInv, ClientEnd, ServerEnd, Ends, LinkOf, Held, RequestIn, RefusalIn
<1>5. PairsInv
  BY <1>1, <1>2, <1>4 DEF PairsInv
<1>6. OthersInv
  BY <1>1, <1>3 DEF OthersInv, Nothing
<1>7. GamesInv
  BY <1>2 DEF GamesInv, PollInv, GoneInv
<1> QED
  BY <1>5, <1>6, <1>7 DEF AgreeInv

LEMMA StutterAgrees ==
    ASSUME AgreeInv, UNCHANGED vars
    PROVE  AgreeInv'
<1>1. /\ conns' = conns /\ links' = links /\ game' = game /\ dialed' = dialed
      /\ alive' = alive
  BY DEF vars
<1>2. PairsInv' /\ OthersInv'
  BY <1>1 DEF AgreeInv, PairsInv, OthersInv, MayConnect
<1>3. GamesInv'
  BY <1>1 DEF AgreeInv, GamesInv, PollInv, GoneInv, Known, Peer
<1> QED
  BY <1>2, <1>3 DEF AgreeInv

LEMMA NextAgrees ==
    ASSUME OneWay, RawSenders = {}, IInv, AgreeInv, Next
    PROVE  AgreeInv'
<1>1. PICK n \in Node : Application(n) \/ ReceiveThread(n) \/ Update(n)
  BY DEF Next
<1>2. CASE Application(n)
  <2>1. CASE \E p \in Listeners, request \in Requests : n \in Clients /\ Connect(n, p, request)
    BY <2>1, ConnectAgrees
  <2>2. CASE \E p \in Node : n \in Closers /\ Close(n, p)
    BY <2>2, CloseAgrees
  <2>3. CASE n \in Quitters /\ (Quit(n) \/ Reset(n))
    BY <2>3, QuitAgrees, ResetAgrees
  <2> QED
    BY <1>2, <2>1, <2>2, <2>3 DEF Application
<1>3. CASE ReceiveThread(n)
  BY <1>3, DeliverAgrees, LingerAgrees, UpdatePendingDeletesAgrees DEF ReceiveThread
<1>4. CASE Update(n)
  <2>1. CASE \E p \in Node : BeginProcess(n, p)
    BY <2>1, BeginProcessAgrees
  <2>2. CASE Handle(n)
    BY <2>2, RefuseUnknownAgrees, RefuseConnectAgrees, AcceptConnectAgrees,
       RecvConnectAcceptAgrees, RecvRefusalAgrees, RecvDisconnectAgrees,
       RecvKeepAliveRequestAgrees, RecvOtherAgrees, EndProcessAgrees DEF Handle
  <2>3. CASE \E due \in SUBSET Node : BeginUpdate(n, due)
    BY <2>3, BeginUpdateAgrees
  <2>4. CASE \E p \in Node : UpdateConnection(n, p)
    BY <2>4, UpdateEndsAgrees, UpdateKeepAliveRequestAgrees DEF UpdateConnection
  <2> QED
    BY <1>4, <2>1, <2>2, <2>3, <2>4 DEF Update
<1> QED
  BY <1>1, <1>2, <1>3, <1>4

\* AgreeInv is an invariant, inductive with IInv.
THEOREM Agreement == OneWay /\ RawSenders = {} /\ Spec => []AgreeInv
<1> SUFFICES ASSUME OneWay, RawSenders = {}
             PROVE  Spec => []AgreeInv
  OBVIOUS
<1>1. Init => AgreeInv
  BY InitAgrees
<1>2. IInv /\ AgreeInv /\ [Next]_vars => AgreeInv'
  BY NextAgrees, StutterAgrees
<1> QED
  BY <1>1, <1>2, Invariance, PTL DEF Spec

-----------------------------------------------------------------------------
\* What follows from it.

LEMMA AgreeLinkHeld ==
    ASSUME AgreeInv
    PROVE  LinkHeld
<1>1. \A n, p \in Node : EndOk(conns[n][p], links[n][p])
  BY EndsOk
<1> QED
  BY <1>1 DEF LinkHeld, EndOk, Held, Connected, Connecting

LEMMA AgreePeerAgrees ==
    ASSUME IInv, AgreeInv
    PROVE  PeerAgrees
<1> SUFFICES ASSUME NEW n \in Node, NEW p \in Node, Connected(n, p),
                    links[p][n].phase = "open", SameId(links[p][n].id, links[n][p].id)
             PROVE  Connected(p, n) \/ Connecting(p, n)
  BY DEF PeerAgrees
<1>1. links[n][p].phase = "open"
  BY EndsOk DEF EndOk, Held, Connected
<1>2. dialed[n] \in Nat /\ dialed[p] \in Nat
  BY CellFacts DEF Counters
<1>3. CASE MayConnect(n, p)
  <2>1. PairInv(n, dialed[n], conns[n][p], links[n][p], conns[p][n], links[p][n])
    BY <1>3 DEF AgreeInv, PairsInv
  <2>2. links[n][p].id = links[p][n].id
    BY <1>1, <1>2, <2>1, SameIds
  <2> QED
    BY <2>1, <2>2 DEF PairInv, ServerEnd, Ends, Unanswered, Connected
<1>4. CASE MayConnect(p, n)
  <2>1. PairInv(p, dialed[p], conns[p][n], links[p][n], conns[n][p], links[n][p])
    BY <1>4 DEF AgreeInv, PairsInv
  <2>2. links[p][n].id = links[n][p].id
    BY <1>1, <1>2, <2>1, SameIds
  <2>3. conns[p][n].state \in Held
    BY <2>1 DEF PairInv, ClientEnd
  <2>4. conns[p][n].state \notin {"Idle", "Refused"}
    BY <1>1, <2>1, <2>2 DEF PairInv, Ends
  <2> QED
    BY <2>3, <2>4 DEF Held, Connected, Connecting
<1>5. CASE ~MayConnect(n, p) /\ ~MayConnect(p, n)
  BY <1>5 DEF AgreeInv, OthersInv, Nothing, Connected
<1> QED
  BY <1>3, <1>4, <1>5

\* What is sent on a connection that is being made or is made reaches a link:
\* the link it points to is there and takes messages, whatever times out, ends
\* or is deleted meanwhile, on whichever side.
THEOREM LinkHeldHolds == OneWay /\ RawSenders = {} /\ Spec => []LinkHeld
  BY Agreement, AgreeLinkHeld, PTL

\* A node is connected over a link that is open on the other side only if the
\* other side is connected over it too, or is about to be.
THEOREM PeerAgreesHolds == OneWay /\ RawSenders = {} /\ Spec => []PeerAgrees
  BY Agreement, Invariance, AgreePeerAgrees, PTL

-----------------------------------------------------------------------------
\* News of one node e, in the order in which a client hears it: what it heard
\* last, v, then what is under way to it, S, and what it will hear next, the
\* opposite of what the server has, w.  Zero is no news.

Sign(e, msg) ==
    IF msg = RemoteConnected(e) THEN 1 ELSE IF msg = RemoteDisconnected(e) THEN -1 ELSE 0

Heard(e, v, S, w, i) ==
    IF i = 0 THEN v ELSE IF i = Len(S) + 1 THEN -w ELSE Sign(e, S[i])

\* Between two equal ones there is the opposite one.
InTurn(e, v, S, w) ==
    /\ v \in -1 .. 1
    /\ \A i, j \in 0 .. Len(S) + 1 :
          /\ i < j /\ Heard(e, v, S, w, i) # 0
          /\ Heard(e, v, S, w, i) = Heard(e, v, S, w, j)
          => \E l \in 1 .. Len(S) : i < l /\ l < j /\ Sign(e, S[l]) = -Heard(e, v, S, w, i)

NewsTypes == {"RemoteConnected", "RemoteDisconnected"}

LEMMA SignFacts ==
    /\ \A e, msg : Sign(e, msg) \in -1 .. 1
    /\ \A e, msg : msg.type \notin NewsTypes => Sign(e, msg) = 0
    /\ \A e, p : /\ Sign(e, RemoteConnected(p)) = IF e = p THEN 1 ELSE 0
                 /\ Sign(e, RemoteDisconnected(p)) = IF e = p THEN -1 ELSE 0
<1>1. ASSUME NEW e
      PROVE  /\ RemoteConnected(e).type = "RemoteConnected" /\ RemoteConnected(e).peer = e
             /\ RemoteDisconnected(e).type = "RemoteDisconnected"
             /\ RemoteDisconnected(e).peer = e
  BY DEF RemoteConnected, RemoteDisconnected
<1> QED
  BY <1>1 DEF Sign, NewsTypes

\* Nothing is under way.
LEMMA TurnEmpty ==
    ASSUME NEW e, NEW w
    PROVE  InTurn(e, 0, <<>>, w)
  BY DEF InTurn, Heard

\* The end of a connection, on either side, ends what is heard.
LEMMA TurnWeaken ==
    ASSUME NEW e, NEW v, NEW S \in Seq(Message), NEW w \in -1 .. 1, InTurn(e, v, S, w),
           NEW v2 \in {0, v}, NEW w2 \in {0, w}
    PROVE  InTurn(e, v2, S, w2)
<1>1. Len(S) \in Nat
  OBVIOUS
<1>2. \A i \in 0 .. Len(S) + 1 :
          Heard(e, v2, S, w2, i) = Heard(e, v, S, w, i) \/ Heard(e, v2, S, w2, i) = 0
  BY <1>1 DEF Heard
<1> QED
  BY <1>1, <1>2 DEF InTurn

\* What is under way ends earlier.
LEMMA TurnPrefix ==
    ASSUME NEW e, NEW v, NEW S \in Seq(Message), NEW w \in -1 .. 1, InTurn(e, v, S, w),
           NEW T \in Seq(Message), Len(T) <= Len(S), \A i \in 1 .. Len(T) : T[i] = S[i]
    PROVE  InTurn(e, v, T, 0)
<1>1. Len(S) \in Nat /\ Len(T) \in Nat
  OBVIOUS
<1>2. \A i \in 0 .. Len(T) : Heard(e, v, T, 0, i) = Heard(e, v, S, w, i)
  BY <1>1 DEF Heard
<1>3. Heard(e, v, T, 0, Len(T) + 1) = 0
  <2>1. PICK z \in Int : z = 0
    OBVIOUS
  <2>2. Heard(e, v, T, z, Len(T) + 1) = -z
    BY <1>1 DEF Heard
  <2> QED
    BY <2>1, <2>2
<1> SUFFICES ASSUME NEW i \in 0 .. Len(T) + 1, NEW j \in 0 .. Len(T) + 1, i < j,
                    Heard(e, v, T, 0, i) # 0, Heard(e, v, T, 0, i) = Heard(e, v, T, 0, j)
             PROVE  \E l \in 1 .. Len(T) :
                        i < l /\ l < j /\ Sign(e, T[l]) = -Heard(e, v, T, 0, i)
  BY DEF InTurn
<1>4. i \in 0 .. Len(T) /\ j \in 0 .. Len(T)
  BY <1>1, <1>3
<1>5. PICK l \in 1 .. Len(S) : i < l /\ l < j /\ Sign(e, S[l]) = -Heard(e, v, S, w, i)
  BY <1>1, <1>2, <1>4 DEF InTurn
<1>6. l \in 1 .. Len(T) /\ Sign(e, T[l]) = -Heard(e, v, T, 0, i)
  BY <1>1, <1>2, <1>4, <1>5
<1> QED
  BY <1>5, <1>6

\* A message that is no news of e is under way too.
LEMMA TurnAppend ==
    ASSUME NEW e, NEW v, NEW S \in Seq(Message), NEW w \in -1 .. 1, InTurn(e, v, S, w),
           NEW msg \in Message, Sign(e, msg) = 0
    PROVE  InTurn(e, v, Append(S, msg), w)
<1> DEFINE T == Append(S, msg)
           n == Len(S) + 1
<1>1. /\ Len(S) \in Nat /\ T \in Seq(Message) /\ Len(T) = n
      /\ T[n] = msg /\ \A i \in 1 .. Len(S) : T[i] = S[i]
  BY AppendProperties
<1> HIDE DEF T
<1>2. \A i \in 0 .. Len(S) : Heard(e, v, T, w, i) = Heard(e, v, S, w, i)
  BY <1>1 DEF Heard
<1>3. /\ Heard(e, v, T, w, n) = 0 /\ Heard(e, v, T, w, n + 1) = -w
      /\ Heard(e, v, S, w, n) = -w
  BY <1>1 DEF Heard
<1> SUFFICES ASSUME NEW i \in 0 .. n + 1, NEW j \in 0 .. n + 1, i < j,
                    Heard(e, v, T, w, i) # 0, Heard(e, v, T, w, i) = Heard(e, v, T, w, j)
             PROVE  \E l \in 1 .. n : i < l /\ l < j /\ Sign(e, T[l]) = -Heard(e, v, T, w, i)
  BY <1>1 DEF InTurn, T
<1> DEFINE m == IF j = n + 1 THEN n ELSE j
<1>4. /\ i \in 0 .. Len(S) /\ m \in 0 .. n /\ i < m /\ m <= j
      /\ Heard(e, v, S, w, m) = Heard(e, v, T, w, j)
  <2>1. i # n /\ j # n
    BY <1>3
  <2>2. i \in 0 .. Len(S) /\ j \in (0 .. Len(S)) \cup {n + 1}
    BY <1>1, <2>1
  <2> QED
    BY <1>1, <1>2, <1>3, <2>2
<1> HIDE DEF m
<1>5. PICK l \in 1 .. Len(S) : i < l /\ l < m /\ Sign(e, S[l]) = -Heard(e, v, S, w, i)
  BY <1>1, <1>2, <1>4 DEF InTurn, n
<1>6. l \in 1 .. n /\ l < j /\ Sign(e, T[l]) = -Heard(e, v, T, w, i)
  BY <1>1, <1>2, <1>4, <1>5
<1> QED
  BY <1>5, <1>6

\* The server's change is told.
LEMMA TurnTold ==
    ASSUME NEW e, NEW v, NEW S \in Seq(Message), NEW w \in {-1, 1}, InTurn(e, v, S, w),
           NEW msg \in Message, Sign(e, msg) = -w
    PROVE  InTurn(e, v, Append(S, msg), -w)
<1> DEFINE T == Append(S, msg)
           n == Len(S) + 1
<1>1. /\ Len(S) \in Nat /\ T \in Seq(Message) /\ Len(T) = n
      /\ T[n] = msg /\ \A i \in 1 .. Len(S) : T[i] = S[i]
  BY AppendProperties
<1> HIDE DEF T
<1>2. \A i \in 0 .. n : Heard(e, v, T, -w, i) = Heard(e, v, S, w, i)
  BY <1>1 DEF Heard
<1>3. /\ Heard(e, v, T, -w, n) = -w /\ Heard(e, v, T, -w, n + 1) = w
      /\ Heard(e, v, S, w, n) = -w
  BY <1>1 DEF Heard
<1> SUFFICES ASSUME NEW i \in 0 .. n + 1, NEW j \in 0 .. n + 1, i < j,
                    Heard(e, v, T, -w, i) # 0,
                    Heard(e, v, T, -w, i) = Heard(e, v, T, -w, j)
             PROVE  \E l \in 1 .. n :
                        i < l /\ l < j /\ Sign(e, T[l]) = -Heard(e, v, T, -w, i)
  BY <1>1 DEF InTurn, T
<1>4. CASE j = n + 1
  <2>1. i # n
    BY <1>3, <1>4
  <2>2. n \in 1 .. n /\ i < n /\ n < j /\ Sign(e, T[n]) = -Heard(e, v, T, -w, i)
    BY <1>1, <1>3, <1>4, <2>1
  <2> QED
    BY <2>2
<1>5. CASE j # n + 1
  <2>1. i \in 0 .. n /\ j \in 0 .. n
    BY <1>1, <1>5
  <2>2. PICK l \in 1 .. Len(S) : i < l /\ l < j /\ Sign(e, S[l]) = -Heard(e, v, S, w, i)
    BY <1>1, <1>2, <2>1 DEF InTurn, n
  <2>3. l \in 1 .. n /\ Sign(e, T[l]) = -Heard(e, v, T, -w, i)
    BY <1>1, <1>2, <2>1, <2>2
  <2> QED
    BY <2>2, <2>3
<1> QED
  BY <1>4, <1>5

\* The next message is heard, be it news of e or not.
LEMMA TurnHeard ==
    ASSUME NEW e, NEW v, NEW S \in Seq(Message), NEW w \in -1 .. 1, InTurn(e, v, S, w),
           S # <<>>
    PROVE  InTurn(e, v + Sign(e, Head(S)), Tail(S), w)
<1> DEFINE T == Tail(S)
           k == Sign(e, Head(S))
           n == Len(T)
<1>1. /\ Len(S) \in Nat /\ T \in Seq(Message) /\ n \in Nat /\ Len(S) = n + 1
      /\ Head(S) = S[1] /\ \A i \in 1 .. n : T[i] = S[i + 1]
  <2>1. Len(S) # 0
    BY EmptySeq
  <2> QED
    BY <2>1, HeadTailProperties
<1>2. v \in -1 .. 1 /\ k \in -1 .. 1
  BY SignFacts DEF InTurn
<1>3. Heard(e, v, S, w, 0) = v /\ Heard(e, v, S, w, 1) = k
  BY <1>1 DEF Heard
<1> HIDE DEF T, k
<1>4. k # 0 => v # k
  BY <1>1, <1>2, <1>3 DEF InTurn
<1> DEFINE u == v + k
<1>5. u \in -1 .. 1 /\ (k # 0 => u = 0 \/ u = k)
  BY <1>2, <1>4
<1>6. \A i \in 1 .. n + 1 : Heard(e, u, T, w, i) = Heard(e, v, S, w, i + 1)
  BY <1>1, SignFacts DEF Heard
<1>7. Heard(e, u, T, w, 0) = u
  BY DEF Heard
<1> HIDE DEF n, u
<1> SUFFICES ASSUME NEW i \in 0 .. n + 1, NEW j \in 0 .. n + 1, i < j,
                    Heard(e, u, T, w, i) # 0, Heard(e, u, T, w, i) = Heard(e, u, T, w, j)
             PROVE  \E l \in 1 .. n : i < l /\ l < j /\ Sign(e, T[l]) = -Heard(e, u, T, w, i)
  BY <1>5 DEF InTurn, u, k, T, n
\* In S the two stand one later, unless the first one stays.
<1> DEFINE m == IF i = 0 /\ k = 0 THEN 0 ELSE i + 1
<1>8. /\ m \in 0 .. n + 2 /\ j + 1 \in 0 .. n + 2 /\ m < j + 1 /\ i <= m
      /\ Heard(e, v, S, w, m) = Heard(e, u, T, w, i)
      /\ Heard(e, v, S, w, j + 1) = Heard(e, u, T, w, j)
  <2>1. Heard(e, v, S, w, m) = Heard(e, u, T, w, i)
    <3>1. CASE i = 0 /\ k = 0
      BY <1>2, <1>3, <1>7, <3>1 DEF u
    <3>2. CASE i = 0 /\ k # 0
      <4>1. u = k
        BY <1>5, <1>7, <3>2
      <4> QED
        BY <1>3, <1>7, <3>2, <4>1
    <3>3. CASE i # 0
      BY <1>1, <1>6, <3>3
    <3> QED
      BY <3>1, <3>2, <3>3
  <2> QED
    BY <1>1, <1>6, <2>1
<1>9. PICK l \in 1 .. n + 1 : m < l /\ l < j + 1 /\ Sign(e, S[l]) = -Heard(e, v, S, w, m)
  BY <1>1, <1>8 DEF InTurn, n
<1>10. l # 1
  <2> SUFFICES ASSUME l = 1 PROVE FALSE
    OBVIOUS
  <2>1. i = 0 /\ k = 0
    BY <1>1, <1>9
  <2>2. Sign(e, S[1]) = 0
    BY <1>1, <2>1 DEF k
  <2>3. Heard(e, v, S, w, m) # 0 /\ Heard(e, v, S, w, m) = v
    BY <1>3, <1>8, <2>1
  <2> QED
    BY <1>2, <1>9, <2>2, <2>3
<1> DEFINE o == l - 1
<1>11. /\ o \in 1 .. n /\ o < j /\ T[o] = S[l] /\ i < o
  <2>1. o \in 1 .. n /\ o < j
    BY <1>1, <1>9, <1>10
  <2>2. T[o] = S[l]
    BY <1>1, <1>9, <2>1
  <2>3. i < o
    BY <1>1, <1>9, <1>10
  <2> QED
    BY <2>1, <2>2, <2>3
<1> QED
  BY <1>8, <1>9, <1>11

-----------------------------------------------------------------------------
\* What is under way from one end b of a link to the other end a.

LEMMA ConcatTail ==
    ASSUME NEW q \in Seq(Message), NEW o \in Seq(Message), q # <<>>
    PROVE  q \o o # <<>> /\ Head(q \o o) = Head(q) /\ Tail(q \o o) = Tail(q) \o o
<1>1. Len(q) \in Nat \ {0} /\ Len(o) \in Nat
  BY EmptySeq
<1>2. /\ Tail(q) \in Seq(Message) /\ Len(Tail(q)) = Len(q) - 1
      /\ \A i \in 1 .. Len(Tail(q)) : Tail(q)[i] = q[i + 1]
  BY HeadTailProperties
<1>3. PICK s \in Seq(Message) : s = q \o o
  BY ConcatProperties
<1>4. /\ Len(s) = Len(q) + Len(o)
      /\ \A i \in 1 .. Len(q) + Len(o) : s[i] = IF i <= Len(q) THEN q[i] ELSE o[i - Len(q)]
  BY <1>3, ConcatProperties
<1>5. s # <<>> /\ Head(s) = Head(q)
  BY <1>1, <1>4
<1>6. /\ Tail(s) \in Seq(Message) /\ Len(Tail(s)) = Len(s) - 1
      /\ \A i \in 1 .. Len(Tail(s)) : Tail(s)[i] = s[i + 1]
  BY <1>5, HeadTailProperties
<1>7. PICK t \in Seq(Message) : t = Tail(q) \o o
  BY <1>2, ConcatProperties
<1>8. /\ Len(t) = Len(Tail(q)) + Len(o)
      /\ \A i \in 1 .. Len(Tail(q)) + Len(o) :
            t[i] = IF i <= Len(Tail(q)) THEN Tail(q)[i] ELSE o[i - Len(Tail(q))]
  BY <1>2, <1>7, ConcatProperties
<1>9. Len(Tail(s)) = Len(t)
  BY <1>1, <1>2, <1>4, <1>6, <1>8
<1>10. ASSUME NEW i \in 1 .. Len(Tail(s)) PROVE Tail(s)[i] = t[i]
  <2>1. Tail(s)[i] = s[i + 1] /\ i + 1 \in 1 .. Len(q) + Len(o)
    BY <1>1, <1>4, <1>6
  <2>2. CASE i <= Len(q) - 1
    <3>1. s[i + 1] = q[i + 1]
      BY <1>1, <1>4, <2>1, <2>2
    <3>2. i <= Len(Tail(q)) /\ i \in 1 .. Len(Tail(q)) + Len(o) /\ i \in 1 .. Len(Tail(q))
      BY <1>1, <1>2, <1>4, <1>6, <2>2
    <3>3. t[i] = Tail(q)[i]
      BY <1>8, <3>2
    <3> QED
      BY <1>2, <2>1, <3>1, <3>2, <3>3
  <2>3. CASE ~(i <= Len(q) - 1)
    <3>1. s[i + 1] = o[(i + 1) - Len(q)]
      BY <1>1, <1>4, <2>1, <2>3
    <3>2. /\ ~(i <= Len(Tail(q))) /\ i \in 1 .. Len(Tail(q)) + Len(o)
          /\ i - Len(Tail(q)) = (i + 1) - Len(q)
      BY <1>1, <1>2, <1>4, <1>6, <2>3
    <3>3. t[i] = o[i - Len(Tail(q))]
      BY <1>8, <3>2
    <3> QED
      BY <2>1, <3>1, <3>2, <3>3
  <2> QED
    BY <2>2, <2>3
<1>11. Tail(s) = t
  BY <1>6, <1>9, <1>10, SeqEqual
<1> QED
  BY <1>3, <1>5, <1>7, <1>11

LEMMA ConcatPrefix ==
    ASSUME NEW q \in Seq(Message), NEW o \in Seq(Message)
    PROVE  Len(q) <= Len(q \o o) /\ \A i \in 1 .. Len(q) : (q \o o)[i] = q[i]
<1>1. PICK m \in Nat : m = Len(q)
  BY LenProperties
<1>2. PICK n \in Nat : n = Len(o)
  BY LenProperties
<1>3. /\ Len(q \o o) = m + n
      /\ \A i \in 1 .. m + n : (q \o o)[i] = IF i <= m THEN q[i] ELSE o[i - m]
  BY <1>1, <1>2, ConcatProperties
<1>4. \A i \in 1 .. m : i \in 1 .. m + n /\ i <= m
  BY <1>1, <1>2
<1> QED
  BY <1>1, <1>2, <1>3, <1>4

LEMMA ConcatAppend ==
    ASSUME NEW q \in Seq(Message), NEW o \in Seq(Message), NEW msg \in Message
    PROVE  q \o Append(o, msg) = Append(q \o o, msg)
<1>1. <<msg>> \in Seq(Message) /\ q \o o \in Seq(Message)
  OBVIOUS
<1>2. Append(o, msg) = o \o <<msg>> /\ Append(q \o o, msg) = (q \o o) \o <<msg>>
  BY <1>1, AppendIsConcat
<1>3. (q \o o) \o <<msg>> = q \o (o \o <<msg>>)
  BY <1>1, ConcatAssociative
<1> QED
  BY <1>2, <1>3

LEMMA ConcatMoved ==
    ASSUME NEW q \in Seq(Message), NEW o \in Seq(Message), o # <<>>
    PROVE  Append(q, Head(o)) \o Tail(o) = q \o o
<1>1. PICK msg \in Message : msg = Head(o)
  BY HeadTailProperties
<1>2. PICK t \in Seq(Message) : t = Tail(o)
  BY HeadTailProperties
<1>3. <<msg>> \in Seq(Message)
  OBVIOUS
<1>4. Append(q, msg) = q \o <<msg>>
  BY AppendIsConcat
<1>5. (q \o <<msg>>) \o t = q \o (<<msg>> \o t)
  BY <1>3, ConcatAssociative
<1>6. <<msg>> \o t = o
  BY <1>1, <1>2
<1> QED
  BY <1>1, <1>2, <1>4, <1>5, <1>6

Stream(a, b) == IF a.id = b.id THEN a.queue \o b.out ELSE a.queue

LEMMA StreamType ==
    ASSUME NEW a \in LinkType, NEW b \in LinkType
    PROVE  /\ Stream(a, b) \in Seq(Message)
           /\ a.queue \in Seq(Message) /\ a.out \in Seq(Message)
           /\ b.queue \in Seq(Message) /\ b.out \in Seq(Message)
  BY DEF Stream, LinkType

LEMMA StreamPolled ==
    ASSUME NEW a \in LinkType, NEW b \in LinkType, NEW a2, a2.id = a.id,
           a.queue # <<>>, a2.queue = Tail(a.queue)
    PROVE  /\ Stream(a, b) # <<>> /\ Head(Stream(a, b)) = Head(a.queue)
           /\ Tail(Stream(a, b)) = Stream(a2, b)
<1>1. a.queue \in Seq(Message) /\ b.out \in Seq(Message)
  BY StreamType
<1> QED
  BY <1>1, ConcatTail DEF Stream

LEMMA StreamSent ==
    ASSUME NEW a \in LinkType, NEW b \in LinkType, NEW b2, b2.id = b.id,
           NEW msg \in Message, b2.out = Append(b.out, msg)
    PROVE  Stream(a, b2) = IF a.id = b.id THEN Append(Stream(a, b), msg) ELSE Stream(a, b)
<1>1. a.queue \in Seq(Message) /\ b.out \in Seq(Message)
  BY StreamType
<1> QED
  BY <1>1, ConcatAppend DEF Stream

-----------------------------------------------------------------------------
\* The ends x, a of a client, which heard v, and y, b of a server, which has e
\* (z is 1) or not (z is -1).  On either side it counts only while connected.

Turn(e, x, a, v, y, b, z) ==
    InTurn(e, IF x.state = "Connected" THEN v ELSE 0, Stream(a, b),
              IF y.state = "Connected" /\ a.id = b.id THEN z ELSE 0)

\* The client polls at most a message that is no news of e or is not for a
\* connection, and does not become connected with something heard before.
LEMMA ClientQuiet ==
    ASSUME NEW e, NEW x, NEW a \in LinkType, NEW v, NEW y, NEW b \in LinkType,
           NEW z \in {-1, 1}, Turn(e, x, a, v, y, b, z), NEW x2, NEW a2, NEW v2,
           a2.id = a.id,
           \/ a2.queue = a.queue
           \/ /\ a.queue # <<>> /\ a2.queue = Tail(a.queue)
              /\ Sign(e, Head(a.queue)) = 0 \/ x2.state # "Connected",
           x2.state = "Connected" => v2 = 0 \/ (x.state = "Connected" /\ v2 = v)
    PROVE  Turn(e, x2, a2, v2, y, b, z)
<1>1. PICK h : h = IF x.state = "Connected" THEN v ELSE 0
  OBVIOUS
<1>2. PICK h2 : h2 = IF x2.state = "Connected" THEN v2 ELSE 0
  OBVIOUS
<1>3. PICK w \in -1 .. 1 : w = IF y.state = "Connected" /\ a.id = b.id THEN z ELSE 0
  OBVIOUS
<1>4. h2 \in {0, h} /\ InTurn(e, h, Stream(a, b), w)
  BY <1>1, <1>2, <1>3 DEF Turn
<1>5. Stream(a, b) \in Seq(Message) /\ a.queue \in Seq(Message) /\ b.out \in Seq(Message)
  BY StreamType
<1>6. InTurn(e, h2, Stream(a2, b), w)
  <2>1. CASE a2.queue = a.queue
    <3>1. Stream(a2, b) = Stream(a, b)
      BY <2>1 DEF Stream
    <3> QED
      BY <1>4, <1>5, <3>1, TurnWeaken
  <2>2. CASE /\ a.queue # <<>> /\ a2.queue = Tail(a.queue)
             /\ Sign(e, Head(a.queue)) = 0 \/ x2.state # "Connected"
    <3>1. /\ Stream(a, b) # <<>> /\ Head(Stream(a, b)) = Head(a.queue)
          /\ Tail(Stream(a, b)) = Stream(a2, b)
      BY <2>2, StreamPolled
    <3>2. InTurn(e, h + Sign(e, Head(a.queue)), Stream(a2, b), w)
      BY <1>4, <1>5, <3>1, TurnHeard
    <3>3. Stream(a2, b) \in Seq(Message)
      BY <1>5, <3>1, HeadTailProperties
    <3>4. h2 \in {0, h + Sign(e, Head(a.queue))}
      <4>1. CASE Sign(e, Head(a.queue)) = 0
        <5>1. h \in -1 .. 1
          BY <1>4 DEF InTurn
        <5> QED
          BY <1>4, <4>1, <5>1
      <4>2. CASE x2.state # "Connected"
        BY <1>2, <4>2
      <4> QED
        BY <2>2, <4>1, <4>2
    <3> QED
      BY <3>2, <3>3, <3>4, TurnWeaken
  <2> QED
    BY <2>1, <2>2
<1> QED
  BY <1>2, <1>3, <1>6 DEF Turn

\* The client polls news of e.
LEMMA ClientHears ==
    ASSUME NEW e, NEW x, NEW a \in LinkType, NEW v, NEW y, NEW b \in LinkType,
           NEW z \in {-1, 1}, Turn(e, x, a, v, y, b, z), NEW x2, NEW a2,
           a2.id = a.id, a.queue # <<>>, a2.queue = Tail(a.queue),
           x.state = "Connected", x2.state = "Connected"
    PROVE  Turn(e, x2, a2, v + Sign(e, Head(a.queue)), y, b, z)
<1>1. PICK w \in -1 .. 1 : w = IF y.state = "Connected" /\ a.id = b.id THEN z ELSE 0
  OBVIOUS
<1>2. InTurn(e, v, Stream(a, b), w) /\ Stream(a, b) \in Seq(Message)
  BY <1>1, StreamType DEF Turn
<1>3. /\ Stream(a, b) # <<>> /\ Head(Stream(a, b)) = Head(a.queue)
      /\ Tail(Stream(a, b)) = Stream(a2, b)
  BY StreamPolled
<1>4. InTurn(e, v + Sign(e, Head(a.queue)), Stream(a2, b), w)
  BY <1>2, <1>3, TurnHeard
<1> QED
  BY <1>1, <1>4 DEF Turn

\* The server says at most what is no news of e, and does not change whether it
\* has e, unless its connection is over.
TellsNone(e, y, b, z, y2, b2, z2) ==
    /\ b2.id = b.id
    /\ b2.out = b.out \/ \E msg \in Message :
                            Sign(e, msg) = 0 /\ b2.out = Append(b.out, msg)
    /\ y2.state = "Connected" => y.state = "Connected" /\ z2 = z

LEMMA ServerQuiet ==
    ASSUME NEW e, NEW x, NEW a \in LinkType, NEW v, NEW y, NEW b \in LinkType,
           NEW z \in {-1, 1}, Turn(e, x, a, v, y, b, z), NEW y2, NEW b2, NEW z2,
           TellsNone(e, y, b, z, y2, b2, z2)
    PROVE  Turn(e, x, a, v, y2, b2, z2)
<1>1. PICK h : h = IF x.state = "Connected" THEN v ELSE 0
  OBVIOUS
<1>2. PICK w \in -1 .. 1 : w = IF y.state = "Connected" /\ a.id = b.id THEN z ELSE 0
  OBVIOUS
<1>3. PICK w2 : w2 = IF y2.state = "Connected" /\ a.id = b2.id THEN z2 ELSE 0
  OBVIOUS
<1>4. w2 \in {0, w} /\ InTurn(e, h, Stream(a, b), w) /\ h \in -1 .. 1 /\ b2.id = b.id
  BY <1>1, <1>2, <1>3 DEF Turn, InTurn, TellsNone
<1>5. Stream(a, b) \in Seq(Message)
  BY StreamType
<1>6. InTurn(e, h, Stream(a, b2), w2)
  <2>1. CASE Stream(a, b2) = Stream(a, b)
    BY <1>4, <1>5, <2>1, TurnWeaken
  <2>2. CASE Stream(a, b2) # Stream(a, b)
    <3>1. PICK msg \in Message : Sign(e, msg) = 0 /\ b2.out = Append(b.out, msg)
      BY <1>4, <2>2 DEF Stream, TellsNone
    <3>2. Stream(a, b2) = Append(Stream(a, b), msg)
      BY <1>4, <2>2, <3>1, StreamSent
    <3>3. InTurn(e, h, Stream(a, b2), w)
      BY <1>4, <1>5, <3>1, <3>2, TurnAppend
    <3>4. Stream(a, b2) \in Seq(Message)
      BY <1>5, <3>2, AppendProperties
    <3> QED
      BY <1>4, <3>3, <3>4, TurnWeaken
  <2> QED
    BY <2>1, <2>2
<1> QED
  BY <1>1, <1>3, <1>6 DEF Turn

\* One more message, with news of e that has sign k, or none if k is 0.
Says(e, b, b2, k) ==
    b2.id = b.id /\ \E msg \in Message : Sign(e, msg) = k /\ b2.out = Append(b.out, msg)

SaysOther(e, b, b2) == Says(e, b, b2, 0)

\* The server gets or loses e, and says so on a connection that stays.
LEMMA ServerTells ==
    ASSUME NEW e, NEW x, NEW a \in LinkType, NEW v, NEW y, NEW b \in LinkType,
           NEW z \in {-1, 1}, Turn(e, x, a, v, y, b, z), NEW y2, NEW b2,
           y.state = "Connected", Says(e, b, b2, -z)
    PROVE  Turn(e, x, a, v, y2, b2, -z)
<1>1. PICK msg \in Message : Sign(e, msg) = -z /\ b2.out = Append(b.out, msg) /\ b2.id = b.id
  BY DEF Says
<1>2. PICK h : h = IF x.state = "Connected" THEN v ELSE 0
  OBVIOUS
<1>3. Stream(a, b) \in Seq(Message)
  BY StreamType
<1>4. CASE a.id = b.id
  <2>1. InTurn(e, h, Stream(a, b), z)
    BY <1>2, <1>4 DEF Turn
  <2>2. Stream(a, b2) = Append(Stream(a, b), msg)
    BY <1>1, <1>4, StreamSent
  <2>3. InTurn(e, h, Stream(a, b2), -z)
    BY <1>1, <1>3, <2>1, <2>2, TurnTold
  <2>4. Stream(a, b2) \in Seq(Message)
    BY <1>1, <1>3, <2>2, AppendProperties
  <2>5. PICK w2 : w2 = IF y2.state = "Connected" /\ a.id = b2.id THEN -z ELSE 0
    OBVIOUS
  <2>6. h \in -1 .. 1 /\ -z \in -1 .. 1 /\ w2 \in {0, -z}
    BY <2>1, <2>5 DEF InTurn
  <2>7. InTurn(e, h, Stream(a, b2), w2)
    BY <2>3, <2>4, <2>6, TurnWeaken
  <2> QED
    BY <1>1, <1>2, <2>5, <2>7 DEF Turn
<1>5. CASE a.id # b.id
  <2>1. Stream(a, b2) = Stream(a, b) /\ InTurn(e, h, Stream(a, b), 0)
    BY <1>1, <1>2, <1>5 DEF Turn, Stream
  <2> QED
    BY <1>1, <1>2, <1>5, <2>1 DEF Turn
<1> QED
  BY <1>4, <1>5

\* The server has no connection and sends nothing.
LEMMA ServerSilent ==
    ASSUME NEW e, NEW x, NEW a \in LinkType, NEW v, NEW y, NEW b \in LinkType,
           NEW z \in {-1, 1}, Turn(e, x, a, v, y, b, z), NEW y2, NEW b2, NEW z2,
           b2.out = <<>>, y2.state # "Connected"
    PROVE  Turn(e, x, a, v, y2, b2, z2)
<1>1. PICK h : h = IF x.state = "Connected" THEN v ELSE 0
  OBVIOUS
<1>2. PICK w \in -1 .. 1 : w = IF y.state = "Connected" /\ a.id = b.id THEN z ELSE 0
  OBVIOUS
<1>3. /\ Stream(a, b) \in Seq(Message) /\ a.queue \in Seq(Message) /\ b.out \in Seq(Message)
      /\ InTurn(e, h, Stream(a, b), w)
  BY <1>1, <1>2, StreamType DEF Turn
<1>4. Stream(a, b2) = a.queue
  BY <1>3, ConcatEmptySeq DEF Stream
<1>5. Len(a.queue) <= Len(Stream(a, b)) /\ \A i \in 1 .. Len(a.queue) : a.queue[i] = Stream(a, b)[i]
  <2>1. CASE a.id = b.id
    BY <1>3, <2>1, ConcatPrefix DEF Stream
  <2>2. CASE a.id # b.id
    BY <1>3, <2>2 DEF Stream
  <2> QED
    BY <2>1, <2>2
<1>6. InTurn(e, h, a.queue, 0)
  BY <1>3, <1>5, TurnPrefix
<1> QED
  BY <1>1, <1>4, <1>6 DEF Turn

\* The client has no connection and nothing is under way to it.
LEMMA ClientSilent ==
    ASSUME NEW e, NEW x2, NEW a2, NEW v2, NEW y, NEW b, NEW z,
           x2.state # "Connected", a2.queue = <<>>, a2.id = b.id => b.out = <<>>
    PROVE  Turn(e, x2, a2, v2, y, b, z)
<1>1. Stream(a2, b) = <<>>
  <2>1. <<>> \o <<>> = <<>>
    BY EmptySeq, ConcatEmptySeq
  <2> QED
    BY <2>1 DEF Stream
<1> QED
  BY <1>1, TurnEmpty DEF Turn

\* The server accepts a request that came over the client's link, or over an
\* older one: the client has nothing to hear yet.
NotHearing(x, a, b) ==
    a.id = b.id => a.queue = <<>> /\ x.state # "Connected" /\ b.out = <<>>

LEMMA AcceptTurn ==
    ASSUME NEW e, NEW x, NEW a \in LinkType, NEW v, NEW y, NEW b \in LinkType, NEW z,
           Turn(e, x, a, v, y, b, z), NotHearing(x, a, b), NEW b2, SaysOther(e, b, b2)
    PROVE  \A y2 : \A z2 \in {-1, 1} : Turn(e, x, a, v, y2, b2, z2)
<1> SUFFICES ASSUME NEW y2, NEW z2 \in {-1, 1}
             PROVE  Turn(e, x, a, v, y2, b2, z2)
  OBVIOUS
<1>1. PICK msg \in Message : Sign(e, msg) = 0 /\ b2.out = Append(b.out, msg) /\ b2.id = b.id
  BY DEF SaysOther, Says
<1>2. CASE a.id = b.id
  <2>1. a.queue = <<>> /\ x.state # "Connected" /\ b.out = <<>>
    BY <1>2 DEF NotHearing
  <2>2. <<>> \in Seq(Message) /\ Append(<<>>, msg) \in Seq(Message)
    OBVIOUS
  <2>3. Stream(a, b2) = Append(<<>>, msg)
    BY <1>1, <1>2, <2>1, <2>2, ConcatEmptySeq DEF Stream
  <2>4. PICK w2 \in -1 .. 1 : w2 = IF y2.state = "Connected" /\ a.id = b2.id THEN z2 ELSE 0
    OBVIOUS
  <2>5. InTurn(e, 0, Append(<<>>, msg), w2)
    BY <1>1, <2>2, TurnEmpty, TurnAppend
  <2> QED
    BY <2>1, <2>3, <2>4, <2>5 DEF Turn
<1>3. CASE a.id # b.id
  BY <1>1, <1>3 DEF Turn, Stream
<1> QED
  BY <1>2, <1>3

\* A message of the client's reaches the server.
LEMMA ServerGetsTurn ==
    ASSUME NEW c, NEW k, NEW x, NEW a \in LinkType, NEW y, NEW b \in LinkType,
           PairInv(c, k, x, a, y, b), NEW a2, NEW b2, Gives(a, a2),
           Opens(a, b, b2) \/ Takes(a, b, b2),
           NEW e, NEW v, NEW z \in {-1, 1}, Turn(e, x, a, v, y, b, z)
    PROVE  Turn(e, x, a2, v, y, b2, z)
<1>1. a2.id = a.id /\ a2.queue = a.queue
  BY DEF Gives
<1>2. CASE Opens(a, b, b2)
  <2>1. b2.out = <<>> /\ y.state # "Connected"
    BY <1>2 DEF Opens, PairInv, ServerEnd
  <2>2. Turn(e, x, a, v, y, b2, z)
    BY <2>1, ServerSilent
  <2> QED
    BY <1>1, <2>2 DEF Turn, Stream
<1>3. CASE Takes(a, b, b2)
  BY <1>1, <1>3 DEF Takes, Turn, Stream
<1> QED
  BY <1>2, <1>3

\* A message of the server's reaches the client: it is still under way, in the
\* client's queue.
LEMMA ClientGetsTurn ==
    ASSUME NEW c, NEW k \in Nat, NEW x, NEW a \in LinkType, NEW y, NEW b \in LinkType,
           PairInv(c, k, x, a, y, b), NEW a2, NEW b2, Gives(b, b2),
           Opens(b, a, a2) \/ Takes(b, a, a2),
           NEW e, NEW v, NEW z \in {-1, 1}, Turn(e, x, a, v, y, b, z)
    PROVE  Turn(e, x, a2, v, y, b2, z)
<1>1. a.queue \in Seq(Message) /\ b.out \in Seq(Message)
  BY StreamType
<1>2. b.out # <<>> /\ b2.out = Tail(b.out) /\ b2.id = b.id
  BY DEF Gives
<1>3. ~RequestIn(b.out)
  BY DEF PairInv, ServerEnd
<1>4. Head(b.out).type # "ConnectRequest"
  BY <1>1, <1>2, <1>3, HasTail DEF RequestIn
<1>5. /\ a.phase # "none" /\ SameId(a.id, b.id) /\ a2.id = a.id
      /\ a2.queue = Append(a.queue, Head(b.out))
  BY <1>4 DEF Opens, Takes
<1>6. b.phase # "none"
  BY <1>2 DEF PairInv, ServerEnd, LinkOf
<1>7. a.id = b.id
  BY <1>5, <1>6, SameIds
<1>8. Stream(a2, b2) = Stream(a, b)
  BY <1>1, <1>2, <1>5, <1>7, ConcatMoved DEF Stream
<1> QED
  BY <1>2, <1>5, <1>7, <1>8 DEF Turn

\* The client has no link any more, or one that the server knows nothing of.
LEMMA NoLinkTurn ==
    ASSUME NEW c, NEW k, NEW y, NEW b, ServerEnd(c, k, y, b),
           NEW e, NEW x2, NEW v2, NEW z, x2.state # "Connected"
    PROVE  Turn(e, x2, NoLink, v2, y, b, z)
<1>1. NoLink.id = <<>> /\ NoLink.queue = <<>>
  BY DEF NoLink
<1>2. b.id = <<>> => b.out = <<>>
  <2>1. CASE b.phase = "none"
    BY <2>1 DEF ServerEnd, LinkOf
  <2>2. CASE b.phase # "none"
    <3>1. PICK i \in 1 .. k : b.id = <<c, i>>
      BY <2>2 DEF ServerEnd, LinkOf
    <3> QED
      BY <3>1
  <2> QED
    BY <2>1, <2>2
<1> QED
  BY <1>1, <1>2, ClientSilent

-----------------------------------------------------------------------------
\* The invariant: what each client hears of each node is in turn.

\* No two nodes listen.
OneServer == \A s, t \in Listeners : s = t

\* Whether s has e, as it tells n.
News(n, s, e) == IF e # n /\ Connected(s, e) THEN 1 ELSE -1

Turns(n, s, e) ==
    Turn(e, conns[n][s], links[n][s], remoteUp[n][e], conns[s][n], links[s][n], News(n, s, e))

TurnsInv == \A n, s, e \in Node : MayConnect(n, s) => Turns(n, s, e)

LEMMA OneServerFacts ==
    ASSUME OneServer, NEW n \in Node, NEW s \in Node, MayConnect(n, s)
    PROVE  n \notin Listeners /\ n # s
  BY DEF OneServer, MayConnect

LEMMA OneServerOneWay ==
    ASSUME OneServer
    PROVE  OneWay
  BY OneServerFacts DEF OneWay, MayConnect

\* A link is polled and sent on, but no news is heard over a connection, or told.
Quietly(a, x2, a2) ==
    /\ a2.id = a.id
    /\ \/ a2.queue = a.queue
       \/ /\ a.queue # <<>> /\ a2.queue = Tail(a.queue)
          /\ Head(a.queue).type \notin NewsTypes \/ x2.state # "Connected"
    /\ a2.out = a.out \/ \E msg \in Message :
                            msg.type \notin NewsTypes /\ a2.out = Append(a.out, msg)

\* A client that is connected afterwards was before, or starts anew.
Hearing(x, v, x2, v2) ==
    x2.state = "Connected" => v2 = 0 \/ (x.state = "Connected" /\ v2 = v)

LEMMA ClientQuietly ==
    ASSUME NEW e, NEW x, NEW a \in LinkType, NEW v, NEW y, NEW b \in LinkType,
           NEW z \in {-1, 1}, Turn(e, x, a, v, y, b, z), NEW x2, NEW a2, NEW v2,
           Quietly(a, x2, a2), Hearing(x, v, x2, v2)
    PROVE  Turn(e, x2, a2, v2, y, b, z)
<1>1. /\ a2.id = a.id
      /\ \/ a2.queue = a.queue
         \/ /\ a.queue # <<>> /\ a2.queue = Tail(a.queue)
            /\ Sign(e, Head(a.queue)) = 0 \/ x2.state # "Connected"
  BY SignFacts DEF Quietly
<1>2. x2.state = "Connected" => v2 = 0 \/ (x.state = "Connected" /\ v2 = v)
  BY DEF Hearing
<1> QED
  BY <1>1, <1>2, ClientQuiet

\* Only node m does something.
OnlyOf(m) ==
    \A o, q \in Node : o # m =>
        /\ conns'[o][q] = conns[o][q] /\ links'[o][q] = links[o][q]
        /\ remoteUp'[o][q] = remoteUp[o][q]

\* A client that is connected afterwards was before, or starts anew; a server
\* that is connected afterwards is so with the same nodes as before.
QuietStep(m) ==
    /\ OnlyOf(m)
    /\ \A q \in Node : \/ Quietly(links[m][q], conns'[m][q], links'[m][q])
                       \/ links'[m][q] = NoLink /\ conns'[m][q].state # "Connected"
    /\ \A q \in Node : conns'[m][q].state = "Connected" =>
          /\ m \notin Listeners =>
                \A e \in Node : \/ remoteUp'[m][e] = 0
                                \/ Connected(m, q) /\ remoteUp'[m][e] = remoteUp[m][e]
          /\ m \in Listeners =>
                \A e \in Node : conns'[m][e].state = "Connected" <=> Connected(m, e)

LEMMA QuietKeeps ==
    ASSUME OneServer, IInv, AgreeInv, TurnsInv, NEW m \in Node, QuietStep(m)
    PROVE  TurnsInv'
<1> SUFFICES ASSUME NEW n \in Node, NEW s \in Node, NEW e \in Node, MayConnect(n, s)
             PROVE  Turns(n, s, e)'
  BY DEF TurnsInv, MayConnect
<1>1. Turns(n, s, e) /\ n \notin Listeners /\ n # s /\ s \in Listeners
  BY OneServerFacts DEF TurnsInv, MayConnect
<1>2. links[n][s] \in LinkType /\ links[s][n] \in LinkType
  BY CellFacts
<1>3. PICK z \in {-1, 1} : z = News(n, s, e)
  BY DEF News
<1>4. PICK z2 \in {-1, 1} : z2 = News(n, s, e)'
  BY DEF News
<1>5. z2 = IF e # n /\ conns'[s][e].state = "Connected" THEN 1 ELSE -1
  BY <1>4 DEF News, Connected
<1>6. SUFFICES Turn(e, conns'[n][s], links'[n][s], remoteUp'[n][e], conns'[s][n],
                    links'[s][n], z2)
  BY <1>4 DEF Turns
<1>7. Turn(e, conns[n][s], links[n][s], remoteUp[n][e], conns[s][n], links[s][n], z)
  BY <1>1, <1>3 DEF Turns
<1>8. m # s => z2 = z
  BY <1>3, <1>5 DEF QuietStep, OnlyOf, News, Connected
<1>9. CASE m = n /\ Quietly(links[n][s], conns'[n][s], links'[n][s])
  <2>1. conns'[s][n] = conns[s][n] /\ links'[s][n] = links[s][n] /\ z2 = z
    BY <1>1, <1>8, <1>9 DEF QuietStep, OnlyOf
  <2>4. conns'[n][s].state = "Connected" =>
            \/ remoteUp'[n][e] = 0
            \/ conns[n][s].state = "Connected" /\ remoteUp'[n][e] = remoteUp[n][e]
    BY <1>1, <1>9 DEF QuietStep, Connected
  <2>5. PICK a \in LinkType, b \in LinkType : a = links[n][s] /\ b = links[s][n]
    BY <1>2
  <2>6. PICK x, v : x = conns[n][s] /\ v = remoteUp[n][e]
    OBVIOUS
  <2>7. PICK x2, a2, v2 : x2 = conns'[n][s] /\ a2 = links'[n][s] /\ v2 = remoteUp'[n][e]
    OBVIOUS
  <2>8. PICK y : y = conns[s][n]
    OBVIOUS
  <2>9. Turn(e, x, a, v, y, b, z)
    BY <1>7, <2>5, <2>6, <2>8
  <2>10. Quietly(a, x2, a2) /\ Hearing(x, v, x2, v2)
    BY <1>9, <2>4, <2>5, <2>6, <2>7 DEF Hearing
  <2>11. Turn(e, x2, a2, v2, y, b, z)
    BY <2>9, <2>10, ClientQuietly
  <2> QED
    BY <2>1, <2>5, <2>7, <2>8, <2>11
<1>10. CASE m = s /\ Quietly(links[s][n], conns'[s][n], links'[s][n])
  <2>1. OnlyOf(s) /\ n # s
    BY <1>1, <1>10 DEF QuietStep
  <2>2. /\ conns'[n][s] = conns[n][s] /\ links'[n][s] = links[n][s]
        /\ remoteUp'[n][e] = remoteUp[n][e]
    BY <2>1 DEF OnlyOf
  <2>3. conns'[s][n].state = "Connected" => conns[s][n].state = "Connected" /\ z2 = z
    BY <1>1, <1>3, <1>5, <1>10 DEF QuietStep, Connected, News
  <2>4. PICK a \in LinkType, b \in LinkType : a = links[n][s] /\ b = links[s][n]
    BY <1>2
  <2>5. PICK x, v, y : x = conns[n][s] /\ v = remoteUp[n][e] /\ y = conns[s][n]
    OBVIOUS
  <2>6. PICK y2, b2 : y2 = conns'[s][n] /\ b2 = links'[s][n]
    OBVIOUS
  <2>7. /\ Turn(e, x, a, v, y, b, z) /\ Quietly(b, y2, b2)
        /\ y2.state = "Connected" => y.state = "Connected" /\ z2 = z
    BY <1>7, <1>10, <2>3, <2>4, <2>5, <2>6
  <2>8. TellsNone(e, y, b, z, y2, b2, z2)
    BY <2>7, SignFacts DEF Quietly, TellsNone
  <2>9. Turn(e, x, a, v, y2, b2, z2)
    BY <1>3, <2>4, <2>7, <2>8, ServerQuiet
  <2> QED
    BY <2>2, <2>4, <2>5, <2>6, <2>9
<1>11. CASE m # n /\ m # s
  <2>1. /\ conns'[n][s] = conns[n][s] /\ links'[n][s] = links[n][s]
        /\ remoteUp'[n][e] = remoteUp[n][e]
        /\ conns'[s][n] = conns[s][n] /\ links'[s][n] = links[s][n]
    BY <1>11 DEF QuietStep, OnlyOf
  <2> QED
    BY <1>7, <1>8, <1>11, <2>1
\* A link is deleted.
<1>12. PairInv(n, dialed[n], conns[n][s], links[n][s], conns[s][n], links[s][n])
  BY DEF AgreeInv, PairsInv
<1>13. CASE m = n /\ ~Quietly(links[n][s], conns'[n][s], links'[n][s])
  <2>1. conns'[s][n] = conns[s][n] /\ links'[s][n] = links[s][n]
    BY <1>1, <1>13 DEF QuietStep, OnlyOf
  <2>2. links'[n][s] = NoLink /\ conns'[n][s].state # "Connected"
    BY <1>13 DEF QuietStep
  <2>3. ServerEnd(n, dialed[n], conns[s][n], links[s][n])
    BY <1>12 DEF PairInv
  <2>4. Turn(e, conns'[n][s], NoLink, remoteUp'[n][e], conns[s][n], links[s][n], z2)
    BY <2>2, <2>3, NoLinkTurn
  <2> QED
    BY <2>1, <2>2, <2>4
<1>14. CASE m = s /\ ~Quietly(links[s][n], conns'[s][n], links'[s][n])
  <2>1. /\ conns'[n][s] = conns[n][s] /\ links'[n][s] = links[n][s]
        /\ remoteUp'[n][e] = remoteUp[n][e]
    BY <1>1, <1>14 DEF QuietStep, OnlyOf
  <2>2. links'[s][n] = NoLink /\ conns'[s][n].state # "Connected"
    BY <1>14 DEF QuietStep
  <2>3. NoLink.out = <<>>
    BY DEF NoLink
  <2>4. Turn(e, conns[n][s], links[n][s], remoteUp[n][e], conns'[s][n], links'[s][n], z2)
    BY <1>2, <1>7, <2>2, <2>3, ServerSilent
  <2> QED
    BY <2>1, <2>4
<1> QED
  BY <1>9, <1>10, <1>11, <1>13, <1>14

\* The server m gets or loses p, and tells the other clients.
LEMMA RelayKeeps ==
    ASSUME OneServer, IInv, AgreeInv, TurnsInv, NEW m \in Node, m \in Listeners, OnlyOf(m),
           NEW p \in Node, NEW k \in {-1, 1}, NEW msg \in Message,
           \A e \in Node : Sign(e, msg) = IF e = p THEN k ELSE 0,
           \A q \in Node : q # p =>
               /\ conns'[m][q] = conns[m][q]
               /\ links'[m][q] = IF Connected(m, q) THEN Say(links[m][q], msg) ELSE links[m][q],
           Connected(m, p) <=> k = -1, conns'[m][p].state = "Connected" <=> k = 1,
           MayConnect(p, m) => \A e \in Node :
               Turn(e, conns[p][m], links[p][m], remoteUp[p][e],
                    conns'[m][p], links'[m][p], News(p, m, e)')
    PROVE  TurnsInv'
<1> SUFFICES ASSUME NEW n \in Node, NEW s \in Node, NEW e \in Node, MayConnect(n, s)
             PROVE  Turns(n, s, e)'
  BY DEF TurnsInv, MayConnect
<1>1. Turns(n, s, e) /\ n \notin Listeners /\ n # s /\ n # m
  BY OneServerFacts DEF TurnsInv, MayConnect
<1>2. links[n][s] \in LinkType /\ links[s][n] \in LinkType
  BY CellFacts
<1>3. PICK z \in {-1, 1} : z = News(n, s, e)
  BY DEF News
<1>4. PICK z2 \in {-1, 1} : z2 = News(n, s, e)'
  BY DEF News
<1>5. z2 = IF e # n /\ conns'[s][e].state = "Connected" THEN 1 ELSE -1
  BY <1>4 DEF News, Connected
<1>6. SUFFICES Turn(e, conns'[n][s], links'[n][s], remoteUp'[n][e], conns'[s][n],
                    links'[s][n], z2)
  BY <1>4 DEF Turns
<1>7. Turn(e, conns[n][s], links[n][s], remoteUp[n][e], conns[s][n], links[s][n], z)
  BY <1>1, <1>3 DEF Turns
<1>8. /\ conns'[n][s] = conns[n][s] /\ links'[n][s] = links[n][s]
      /\ remoteUp'[n][e] = remoteUp[n][e]
  BY <1>1 DEF OnlyOf
<1>9. CASE s # m
  <2>1. conns'[s][n] = conns[s][n] /\ links'[s][n] = links[s][n] /\ z2 = z
    BY <1>3, <1>5, <1>9 DEF OnlyOf, News, Connected
  <2> QED
    BY <1>7, <1>8, <2>1
<1>10. CASE s = m /\ n = p
  BY <1>4, <1>8, <1>10
<1>11. CASE s = m /\ n # p
  <2>1. /\ conns'[s][n] = conns[s][n]
        /\ links'[s][n] = IF Connected(s, n) THEN Say(links[s][n], msg) ELSE links[s][n]
    BY <1>11
  <2>10. PICK a \in LinkType, b \in LinkType : a = links[n][s] /\ b = links[s][n]
    BY <1>2
  <2>11. PICK x, v, y, b2 : /\ x = conns[n][s] /\ v = remoteUp[n][e]
                           /\ y = conns[s][n] /\ b2 = links'[s][n]
    OBVIOUS
  <2>2. CASE Connected(s, n)
    <3>1. links[s][n].phase = "open"
      BY <2>2, EndsOk DEF EndOk, Held, Connected
    <3>2. /\ Say(links[s][n], msg).id = links[s][n].id
          /\ Say(links[s][n], msg).out = Append(links[s][n].out, msg)
      BY <1>2, <3>1, SayFields
    <3>3. /\ b2.id = b.id /\ b2.out = Append(b.out, msg) /\ y.state = "Connected"
          /\ Says(e, b, b2, Sign(e, msg))
      BY <2>1, <2>2, <2>10, <2>11, <3>2 DEF Connected, Says
    <3>4. /\ Turn(e, x, a, v, y, b, z)
          /\ conns'[n][s] = x /\ links'[n][s] = a /\ remoteUp'[n][e] = v
          /\ conns'[s][n] = y
      BY <1>7, <1>8, <2>1, <2>10, <2>11
    <3>5. CASE e = p
      <4>1. z = -k /\ z2 = -z /\ Sign(e, msg) = -z
        BY <1>3, <1>5, <1>11, <3>5 DEF News
      <4>2. Turn(e, x, a, v, y, b, z) /\ y.state = "Connected" /\ Says(e, b, b2, -z)
        BY <3>3, <3>4, <4>1
      <4>3. Turn(e, x, a, v, y, b2, -z)
        BY <1>3, <2>10, <4>2, ServerTells
      <4> QED
        BY <2>11, <3>4, <4>1, <4>3
    <3>6. CASE e # p
      <4>1. z2 = z /\ Sign(e, msg) = 0
        BY <1>3, <1>5, <1>11, <3>6 DEF News, Connected
      <4>2. TellsNone(e, y, b, z, y, b2, z2)
        BY <3>3, <4>1 DEF TellsNone
      <4>3. Turn(e, x, a, v, y, b2, z2)
        BY <1>3, <2>10, <3>4, <4>2, ServerQuiet
      <4> QED
        BY <2>11, <3>4, <4>3
    <3> QED
      BY <3>5, <3>6
  <2>3. CASE ~Connected(s, n)
    <3>1. b2 = b /\ y.state # "Connected"
      BY <2>1, <2>3, <2>10, <2>11 DEF Connected
    <3>2. Turn(e, x, a, v, y, b, z)
      BY <1>7, <2>10, <2>11
    <3>3. TellsNone(e, y, b, z, y, b2, z2)
      BY <3>1 DEF TellsNone
    <3>4. Turn(e, x, a, v, y, b2, z2)
      BY <1>3, <2>10, <3>2, <3>3, ServerQuiet
    <3>5. /\ conns'[n][s] = x /\ links'[n][s] = a /\ remoteUp'[n][e] = v
          /\ conns'[s][n] = y
      BY <1>8, <2>1, <2>10, <2>11
    <3> QED
      BY <2>11, <3>4, <3>5
  <2> QED
    BY <2>2, <2>3
<1> QED
  BY <1>9, <1>10, <1>11

-----------------------------------------------------------------------------
\* Quiet steps.

\* A cell is polled, sent on and marked.
LEMMA QuietCell ==
    ASSUME NEW x2, NEW a \in LinkType, NEW took, NEW said, NEW a2,
           \/ took = a
           \/ /\ took = Took(a) /\ a.queue # <<>>
              /\ Head(a.queue).type \notin NewsTypes \/ x2.state # "Connected",
           \/ said = took
           \/ \E msg \in Message : msg.type \notin NewsTypes /\ said = Say(took, msg),
           a2 = said \/ a2 = Mark(said)
    PROVE  Quietly(a, x2, a2)
<1>1. /\ took \in LinkType /\ took.id = a.id /\ took.out = a.out
      /\ \/ took.queue = a.queue
         \/ /\ a.queue # <<>> /\ took.queue = Tail(a.queue)
            /\ Head(a.queue).type \notin NewsTypes \/ x2.state # "Connected"
  BY TookFields
<1>2. /\ said \in LinkType /\ said.id = took.id /\ said.queue = took.queue
      /\ \/ said.out = took.out
         \/ \E msg \in Message : msg.type \notin NewsTypes /\ said.out = Append(took.out, msg)
  <2>1. CASE said = took
    BY <1>1, <2>1
  <2>2. CASE \E msg \in Message : msg.type \notin NewsTypes /\ said = Say(took, msg)
    <3>1. PICK msg \in Message : msg.type \notin NewsTypes /\ said = Say(took, msg)
      BY <2>2
    <3>2. /\ Say(took, msg) \in LinkType
          /\ Say(took, msg).queue = took.queue /\ Say(took, msg).id = took.id
          /\ Say(took, msg).out = took.out \/ Say(took, msg).out = Append(took.out, msg)
      BY <1>1, SayFields
    <3> QED
      BY <3>1, <3>2
  <2> QED
    BY <2>1, <2>2
<1>3. a2.id = said.id /\ a2.queue = said.queue /\ a2.out = said.out
  BY <1>2, MarkFields
<1> QED
  BY <1>1, <1>2, <1>3 DEF Quietly

LEMMA QuietSame ==
    ASSUME NEW x2, NEW a
    PROVE  Quietly(a, x2, a)
  BY DEF Quietly

LEMMA QuietTypes ==
    \A t \in {"ConnectAccept", "Disconnect", "KeepAliveRequest", "KeepAliveAnswer",
              "InvalidConnectPacket", "IncorrectPassword", "MaxConnectionsReached",
              "AlreadyConnected"} :
        Msg(t) \in Message /\ Msg(t).type \notin NewsTypes
  BY MessageTypes DEF Msg, NewsTypes

\* What was heard stays, or is forgotten.
RemoteKept(n) ==
    /\ \A m, q \in Node : m # n => remoteUp'[m][q] = remoteUp[m][q]
    /\ \A q \in Node : remoteUp'[n][q] = 0 \/ remoteUp'[n][q] = remoteUp[n][q]

LEMMA RemoteCells ==
    ASSUME IInv, NEW n \in Node, remoteUp' = remoteUp \/ remoteUp' = Forgotten(n)
    PROVE  RemoteKept(n) /\ (remoteUp' = Forgotten(n) => \A q \in Node : remoteUp'[n][q] = 0)
<1>1. remoteUp \in IntTable
  BY CellFacts
<1> QED
  BY <1>1, ForgottenType DEF RemoteKept

LEMMA NeverConnecting ==
    ASSUME OneServer, AgreeInv, NEW n \in Node, n \in Listeners, NEW p \in Node
    PROVE  ~Connecting(n, p)
<1>1. ~MayConnect(n, p)
  BY OneServerFacts
<1>2. CASE MayConnect(p, n)
  BY <1>2 DEF AgreeInv, PairsInv, PairInv, ServerEnd, Connecting
<1>3. CASE ~MayConnect(p, n)
  BY <1>1, <1>3 DEF AgreeInv, OthersInv, Nothing, Connecting
<1> QED
  BY <1>2, <1>3

\* One end is moved, quietly: the connection stays, ends, or is a client's and
\* begins.
LEMMA QuietEnd ==
    ASSUME OneServer, IInv, AgreeInv, TurnsInv, NEW n \in Node, NEW p \in Node, NEW c, NEW row,
           ConnTo(n, p, c), RowTo(n, row), \A q \in Node : q # p => row[q] = links[n][q],
           Quietly(links[n][p], c, row[p]) \/ (row[p] = NoLink /\ c.state # "Connected"),
           RemoteKept(n),
           c.state = "Connected" /\ ~Connected(n, p) =>
               n \notin Listeners /\ \A q \in Node : remoteUp'[n][q] = 0,
           Connected(n, p) /\ c.state # "Connected" => n \notin Listeners
    PROVE  TurnsInv'
<1>1. \A m, q \in Node : /\ links'[m][q] = IF m = n THEN row[q] ELSE links[m][q]
                         /\ conns'[m][q] = IF m = n /\ q = p THEN c ELSE conns[m][q]
  BY RowToCells DEF ConnTo
<1>2. OnlyOf(n)
  BY <1>1 DEF OnlyOf, RemoteKept
<1>3. ASSUME NEW q \in Node
      PROVE  \/ Quietly(links[n][q], conns'[n][q], links'[n][q])
             \/ links'[n][q] = NoLink /\ conns'[n][q].state # "Connected"
  <2>1. CASE q = p
    BY <1>1, <2>1
  <2>2. CASE q # p
    <3>1. links'[n][q] = links[n][q]
      BY <1>1, <2>2
    <3> QED
      BY <3>1, QuietSame
  <2> QED
    BY <2>1, <2>2
<1>4. \A q \in Node : conns'[n][q].state = "Connected" /\ ~Connected(n, q) =>
          n \notin Listeners /\ \A e \in Node : remoteUp'[n][e] = 0
  BY <1>1 DEF Connected
<1>5. n \in Listeners => \A q \in Node : conns'[n][q].state = "Connected" <=> Connected(n, q)
  BY <1>1 DEF Connected
<1>6. QuietStep(n)
  BY <1>2, <1>3, <1>4, <1>5 DEF QuietStep, RemoteKept
<1> QED
  BY <1>6, QuietKeeps

\* A message that is no news is polled, and the state changes as above.
LEMMA QuietPoll ==
    ASSUME OneServer, IInv, AgreeInv, TurnsInv, NEW n \in Node, NEW types, NEW known,
           Polls(n, types, known), \A t \in types : t \notin NewsTypes,
           NEW p, p = Peer(n), NEW c, ConnTo(n, p, c), RowTo(n, Popped(n)), RemoteKept(n),
           c.state = "Connected" /\ ~Connected(n, p) =>
               n \notin Listeners /\ \A q \in Node : remoteUp'[n][q] = 0,
           Connected(n, p) => c.state = "Connected"
    PROVE  TurnsInv'
<1>1. /\ p \in Node /\ links[n][p] \in LinkType /\ links[n][p].queue # <<>>
      /\ Head(links[n][p].queue) = Polled(n) /\ Polled(n).type \in types
      /\ \A q \in Node : Popped(n)[q] = IF q = p THEN Took(links[n][q]) ELSE links[n][q]
  BY PolledCell
<1>2. PICK row : row = Popped(n)
  OBVIOUS
<1>3. Head(links[n][p].queue).type \notin NewsTypes
  BY <1>1
<1>4. Quietly(links[n][p], c, Took(links[n][p]))
  BY <1>1, <1>3, QuietCell
<1>5. /\ RowTo(n, row) /\ Quietly(links[n][p], c, row[p])
      /\ \A q \in Node : q # p => row[q] = links[n][q]
  BY <1>1, <1>2, <1>4
<1>6. Connected(n, p) /\ c.state # "Connected" => n \notin Listeners
  OBVIOUS
<1> QED
  BY <1>1, <1>5, <1>6, QuietEnd

LEMMA QuietPolls ==
    ASSUME OneServer, IInv, AgreeInv, TurnsInv, NEW n \in Node,
           RecvRefusal(n) \/ RecvKeepAliveAnswer(n) \/ RecvOther(n)
    PROVE  TurnsInv'
<1>1. PICK types : /\ Polls(n, types, {TRUE}) /\ \A t \in types : t \notin NewsTypes
                   /\ RowTo(n, Popped(n)) /\ remoteUp' = remoteUp
  BY DEF RecvRefusal, RecvKeepAliveAnswer, RecvOther, RefusalTypes, NewsTypes, history
<1>2. PICK p : p = Peer(n)
  OBVIOUS
<1>3. p \in Node
  BY <1>1, <1>2, PolledCell
<1>4. conns[n][p] \in ConnType
  BY <1>3, CellFacts
<1>5. PICK c : /\ conns' = [conns EXCEPT ![n][p] = c] \/ (conns' = conns /\ c = conns[n][p])
               /\ c.state = conns[n][p].state \/ (Connecting(n, p) /\ c.state = "Refused")
  <2>1. CASE RecvRefusal(n) /\ Connecting(n, p)
    <3> DEFINE c == [conns[n][p] EXCEPT !.state = "Refused"]
    <3>1. conns' = [conns EXCEPT ![n][p] = c]
      BY <1>2, <2>1 DEF RecvRefusal
    <3>2. c.state = "Refused"
      BY <1>4 DEF ConnType
    <3> HIDE DEF c
    <3> QED
      BY <2>1, <3>1, <3>2
  <2>2. CASE RecvKeepAliveAnswer(n)
    <3> DEFINE c == [conns[n][p] EXCEPT !.waiting = FALSE]
    <3>1. conns' = [conns EXCEPT ![n][p] = c]
      BY <1>2, <2>2 DEF RecvKeepAliveAnswer
    <3>2. c.state = conns[n][p].state
      BY <1>4 DEF ConnType
    <3> HIDE DEF c
    <3> QED
      BY <3>1, <3>2
  <2>3. CASE ~(RecvRefusal(n) /\ Connecting(n, p)) /\ ~RecvKeepAliveAnswer(n)
    <3>1. conns' = conns
      BY <1>2, <2>3 DEF RecvRefusal, RecvOther
    <3> QED
      BY <3>1
  <2> QED
    BY <2>1, <2>2, <2>3
<1>6. ConnTo(n, p, c) /\ RemoteKept(n)
  BY <1>1, <1>3, <1>5, ConnToCells, RemoteCells
<1>7. Connected(n, p) <=> c.state = "Connected"
  BY <1>5 DEF Connected, Connecting
<1> QED
  BY <1>1, <1>2, <1>6, <1>7, QuietPoll

\* A client that gets connected has nothing to its account.
LEMMA RecvConnectAcceptTurns ==
    ASSUME OneServer, IInv, AgreeInv, TurnsInv, NEW n \in Node, RecvConnectAccept(n)
    PROVE  TurnsInv'
<1> DEFINE p == Peer(n)
           c == IF Connecting(n, p) THEN [conns[n][p] EXCEPT !.state = "Connected"]
                                    ELSE conns[n][p]
<1>1. Polls(n, {"ConnectAccept"}, {TRUE}) /\ RowTo(n, Popped(n))
  BY DEF RecvConnectAccept
<1>2. conns' = [conns EXCEPT ![n][p] = c] \/ (conns' = conns /\ c = conns[n][p])
  BY DEF RecvConnectAccept
<1>3. remoteUp' = IF Connecting(n, p) THEN Forgotten(n) ELSE remoteUp
  BY DEF RecvConnectAccept, history
<1> HIDE DEF p
<1>4. p \in Node /\ p = Peer(n)
  BY <1>1, PolledCell DEF p
<1>5. c.state = IF Connecting(n, p) THEN "Connected" ELSE conns[n][p].state
  BY <1>4, CellFacts DEF ConnType
<1> HIDE DEF c
<1>6. ConnTo(n, p, c)
  BY <1>2, <1>4, ConnToCells
<1>7. RemoteKept(n) /\ (Connecting(n, p) => \A q \in Node : remoteUp'[n][q] = 0)
  BY <1>3, RemoteCells
<1>8. Connecting(n, p) => n \notin Listeners
  BY <1>4, NeverConnecting
<1>9. /\ c.state = "Connected" /\ ~Connected(n, p) =>
             n \notin Listeners /\ \A q \in Node : remoteUp'[n][q] = 0
      /\ Connected(n, p) => c.state = "Connected"
  BY <1>5, <1>7, <1>8 DEF Connected, Connecting
<1>10. \A t \in {"ConnectAccept"} : t \notin NewsTypes
  BY DEF NewsTypes
<1> QED
  BY <1>1, <1>4, <1>6, <1>7, <1>9, <1>10, QuietPoll

LEMMA RecvKeepAliveRequestTurns ==
    ASSUME OneServer, IInv, AgreeInv, TurnsInv, NEW n \in Node, RecvKeepAliveRequest(n)
    PROVE  TurnsInv'
<1>1. Polls(n, {"KeepAliveRequest"}, {TRUE}) /\ conns' = conns /\ remoteUp' = remoteUp
  BY DEF RecvKeepAliveRequest, history
<1>2. PICK p : p = Peer(n)
  OBVIOUS
<1>3. /\ p \in Node /\ links[n][p] \in LinkType /\ links[n][p].queue # <<>>
      /\ Head(links[n][p].queue) = Polled(n) /\ Polled(n).type = "KeepAliveRequest"
      /\ Popped(n) \in RowType
      /\ \A q \in Node : Popped(n)[q] = IF q = p THEN Took(links[n][q]) ELSE links[n][q]
  <2>1. Polled(n).type \in {"KeepAliveRequest"}
    BY <1>1, PolledCell
  <2> QED
    BY <1>1, <1>2, <2>1, PolledCell
<1>4. ConnTo(n, p, conns[n][p]) /\ RemoteKept(n)
  BY <1>1, <1>3, ConnToCells, RemoteCells
<1>5. PICK msg \in Message : msg = Msg("KeepAliveAnswer") /\ msg.type \notin NewsTypes
  BY QuietTypes
<1>6. PICK popped \in RowType : popped = Popped(n)
  BY <1>3
<1>7. PICK row : row = IF Connected(n, p) THEN SentBy(n, popped, p, msg) ELSE popped
  OBVIOUS
<1>8. RowTo(n, row)
  BY <1>2, <1>5, <1>6, <1>7 DEF RecvKeepAliveRequest
<1>9. \A q \in Node : SentBy(n, popped, p, msg)[q] =
          IF q = p /\ conns[n][p].link = "link" THEN Say(popped[q], msg) ELSE popped[q]
  BY <1>3, SentCell DEF SentBy
<1>10. /\ \A q \in Node : q # p => row[q] = links[n][q]
       /\ row[p] = Took(links[n][p]) \/ row[p] = Say(Took(links[n][p]), msg)
  BY <1>3, <1>6, <1>7, <1>9
<1>11. Quietly(links[n][p], conns[n][p], row[p])
  <2>1. Head(links[n][p].queue).type \notin NewsTypes
    BY <1>3 DEF NewsTypes
  <2> QED
    BY <1>3, <1>5, <1>10, <2>1, QuietCell
<1>12. Connected(n, p) <=> conns[n][p].state = "Connected"
  BY DEF Connected
<1> QED
  BY <1>3, <1>4, <1>8, <1>10, <1>11, <1>12, QuietEnd

\* Without a connection, nothing is heard.
LEMMA RefuseTurns ==
    ASSUME OneServer, IInv, AgreeInv, TurnsInv, NEW n \in Node, RefuseUnknown(n) \/ RefuseConnect(n)
    PROVE  TurnsInv'
<1>1. conns' = conns /\ remoteUp' = remoteUp
  BY DEF RefuseUnknown, RefuseConnect, history
<1>2. PICK types, known :
          /\ Polls(n, types, known)
          /\ (\A t \in types : t \notin NewsTypes) \/ known = {FALSE}
  <2>1. CASE RefuseUnknown(n)
    <3>1. PICK types : Polls(n, types, {FALSE})
      BY <2>1 DEF RefuseUnknown
    <3> QED
      BY <3>1
  <2>2. CASE RefuseConnect(n)
    <3>1. PICK types : types = {"ConnectRequest"}
      OBVIOUS
    <3>2. Polls(n, types, BOOLEAN) /\ \A t \in types : t \notin NewsTypes
      BY <2>2, <3>1 DEF RefuseConnect, NewsTypes
    <3> QED
      BY <3>2
  <2> QED
    BY <2>1, <2>2
<1>3. PICK type : /\ RowTo(n, Refused(n, type))
                  /\ type \in {"InvalidConnectPacket", "IncorrectPassword",
                               "MaxConnectionsReached", "AlreadyConnected"}
  BY DEF RefuseUnknown, RefuseConnect
<1>4. PICK p : p = Peer(n)
  OBVIOUS
<1>5. /\ p \in Node /\ links[n][p] \in LinkType /\ links[n][p].queue # <<>>
      /\ Head(links[n][p].queue).type \in types
      /\ game[n].at = "polling" /\ game[n].known \in known
  BY <1>2, <1>4, PolledCell
<1>6. PICK row : row = Refused(n, type)
  OBVIOUS
<1>7. \A q \in Node : row[q] =
          IF q = p THEN Mark(Say(Took(links[n][q]), Msg(type))) ELSE links[n][q]
  BY <1>2, <1>4, <1>6, RefusedCell
<1>8. PICK msg \in Message : msg = Msg(type) /\ msg.type \notin NewsTypes
  BY <1>3, QuietTypes
<1>9. Head(links[n][p].queue).type \notin NewsTypes \/ conns[n][p].state # "Connected"
  <2>1. CASE known = {FALSE}
    <3>1. ~game[n].known
      BY <1>5, <2>1
    <3>2. ~Known(n, p)
      BY <1>4, <1>5, <3>1 DEF AgreeInv, GamesInv, PollInv
    <3> QED
      BY <3>2 DEF Known
  <2> QED
    BY <1>2, <1>5, <2>1
<1>10. Quietly(links[n][p], conns[n][p], row[p])
  <2>1. PICK took : took = Took(links[n][p])
    OBVIOUS
  <2>2. PICK said : said = Say(took, msg)
    OBVIOUS
  <2>3. row[p] = Mark(said)
    BY <1>5, <1>7, <1>8, <2>1, <2>2
  <2> QED
    BY <1>5, <1>8, <1>9, <2>1, <2>2, <2>3, QuietCell
<1>11. ConnTo(n, p, conns[n][p]) /\ RemoteKept(n) /\ RowTo(n, row)
  BY <1>1, <1>3, <1>5, <1>6, ConnToCells, RemoteCells
<1>12. Connected(n, p) <=> conns[n][p].state = "Connected"
  BY DEF Connected
<1> QED
  BY <1>5, <1>7, <1>10, <1>11, <1>12, QuietEnd

LEMMA UpdateEndsTurns ==
    ASSUME OneServer, IInv, AgreeInv, TurnsInv, NEW n \in Node, NEW p \in Node,
           UpdateDead(n, p) \/ UpdateConnecting(n, p)
    PROVE  TurnsInv'
<1>1. PICK given : given = Marked(links[n], Holding(n, {p}))
  OBVIOUS
<1>2. PICK c : /\ conns' = [conns EXCEPT ![n][p] = c] /\ c.state # "Connected"
               /\ RowTo(n, given) /\ ~Connected(n, p) /\ remoteUp' = remoteUp
  <2>1. CASE UpdateDead(n, p)
    <3>1. NoConn.state # "Connected"
      BY DEF NoConn
    <3> QED
      BY <1>1, <2>1, <3>1 DEF UpdateDead, SetConn, history
  <2>2. CASE UpdateConnecting(n, p)
    <3>1. Ended("InitiateTimedOut").state # "Connected"
      BY DEF Ended
    <3> QED
      BY <1>1, <2>2, <3>1 DEF UpdateConnecting, SetConn, Connecting, Connected
  <2> QED
    BY <2>1, <2>2
<1>3. \A q \in Node : given[q] = IF q = p /\ conns[n][q].link = "link"
                                     THEN Mark(links[n][q]) ELSE links[n][q]
  BY <1>1, GivenBackCell
<1>4. links[n][p] \in LinkType
  BY CellFacts
<1>5. Quietly(links[n][p], c, given[p]) /\ \A q \in Node : q # p => given[q] = links[n][q]
  BY <1>3, <1>4, QuietCell
<1>6. ConnTo(n, p, c) /\ RemoteKept(n)
  BY <1>2, ConnToCells, RemoteCells
<1> QED
  BY <1>2, <1>5, <1>6, QuietEnd

LEMMA UpdateKeepAliveRequestTurns ==
    ASSUME OneServer, IInv, AgreeInv, TurnsInv, NEW n \in Node, NEW p \in Node,
           UpdateKeepAliveRequest(n, p)
    PROVE  TurnsInv'
<1> DEFINE c == [conns[n][p] EXCEPT !.waiting = TRUE]
<1>1. /\ Connected(n, p) /\ conns' = [conns EXCEPT ![n][p] = c] /\ remoteUp' = remoteUp
      /\ RowTo(n, SentBy(n, links[n], p, Msg("KeepAliveRequest")))
  BY DEF UpdateKeepAliveRequest, history
<1>2. links[n] \in RowType /\ links[n][p] \in LinkType
  BY CellFacts
<1>3. c.state = conns[n][p].state
  BY CellFacts DEF ConnType
<1> HIDE DEF c
<1>4. PICK msg \in Message : msg = Msg("KeepAliveRequest") /\ msg.type \notin NewsTypes
  BY QuietTypes
<1>5. PICK now \in RowType : now = links[n]
  BY <1>2
<1>6. PICK row : row = SentBy(n, now, p, msg)
  OBVIOUS
<1>7. \A q \in Node : SentBy(n, now, p, msg)[q] =
          IF q = p /\ conns[n][p].link = "link" THEN Say(now[q], msg) ELSE now[q]
  BY SentCell DEF SentBy
<1>8. /\ \A q \in Node : q # p => row[q] = links[n][q]
      /\ row[p] = Say(links[n][p], msg) \/ row[p] = links[n][p]
  BY <1>6, <1>7, <1>5
<1>9. Quietly(links[n][p], c, row[p])
  BY <1>2, <1>4, <1>8, QuietCell
<1>10. ConnTo(n, p, c) /\ RemoteKept(n) /\ RowTo(n, row)
  BY <1>1, <1>4, <1>6, <1>5, ConnToCells, RemoteCells
<1>11. Connected(n, p) <=> c.state = "Connected"
  BY <1>3 DEF Connected
<1> QED
  BY <1>8, <1>9, <1>10, <1>11, QuietEnd

\* One cell of links changes, and its connection at most in name.
LEMMA LinkCellTurns ==
    ASSUME OneServer, IInv, AgreeInv, TurnsInv, NEW n \in Node, NEW p \in Node, NEW l, NEW c,
           links' = [links EXCEPT ![n][p] = l],
           conns' = [conns EXCEPT ![n][p] = c] \/ (conns' = conns /\ c = conns[n][p]),
           remoteUp' = remoteUp, c.state = conns[n][p].state,
           Quietly(links[n][p], c, l) \/ (l = NoLink /\ c.state # "Connected")
    PROVE  TurnsInv'
<1> DEFINE row == [links[n] EXCEPT ![p] = l]
<1>1. links[n] \in RowType
  BY CellFacts
<1>2. RowTo(n, row)
  BY DEF RowTo
<1>3. \A q \in Node : row[q] = IF q = p THEN l ELSE links[n][q]
  BY <1>1 DEF RowType
<1> HIDE DEF row
<1>4. ConnTo(n, p, c) /\ RemoteKept(n)
  BY ConnToCells, RemoteCells
<1>5. /\ Quietly(links[n][p], c, row[p]) \/ (row[p] = NoLink /\ c.state # "Connected")
      /\ \A q \in Node : q # p => row[q] = links[n][q]
  BY <1>3
<1>6. Connected(n, p) <=> c.state = "Connected"
  BY DEF Connected
<1> QED
  BY <1>2, <1>4, <1>5, <1>6, QuietEnd

LEMMA LingerTurns ==
    ASSUME OneServer, IInv, AgreeInv, TurnsInv, NEW n \in Node, NEW p \in Node, Linger(n, p)
    PROVE  TurnsInv'
<1> DEFINE l == [links[n][p] EXCEPT !.phase = "expired"]
<1>1. links' = [links EXCEPT ![n][p] = l] /\ conns' = conns /\ remoteUp' = remoteUp
  BY DEF Linger, history
<1>2. l.id = links[n][p].id /\ l.queue = links[n][p].queue /\ l.out = links[n][p].out
  BY CellFacts DEF LinkType
<1> HIDE DEF l
<1>3. Quietly(links[n][p], conns[n][p], l)
  BY <1>2 DEF Quietly
<1> QED
  BY <1>1, <1>3, LinkCellTurns

LEMMA UpdatePendingDeletesTurns ==
    ASSUME OneServer, IInv, AgreeInv, TurnsInv, NEW n \in Node, NEW p \in Node,
           UpdatePendingDeletes(n, p)
    PROVE  TurnsInv'
<1> DEFINE held == IF conns[n][p].link = "link" THEN "deleted" ELSE conns[n][p].link
           c == [conns[n][p] EXCEPT !.link = held]
<1>1. /\ links[n][p].phase = "expired" /\ links' = [links EXCEPT ![n][p] = NoLink]
      /\ conns' = [conns EXCEPT ![n][p] = c] /\ remoteUp' = remoteUp
  BY DEF UpdatePendingDeletes, history
<1>2. conns[n][p] \in ConnType
  BY CellFacts
<1>3. conns[n][p].state # "Connected"
  BY <1>1, EndsOk DEF EndOk, Held
<1> HIDE DEF held
<1>4. c.state = conns[n][p].state
  BY <1>2 DEF ConnType
<1> HIDE DEF c
<1>5. PICK l : l = NoLink
  OBVIOUS
<1>6. /\ links' = [links EXCEPT ![n][p] = l]
      /\ conns' = [conns EXCEPT ![n][p] = c] \/ (conns' = conns /\ c = conns[n][p])
      /\ Quietly(links[n][p], c, l) \/ (l = NoLink /\ c.state # "Connected")
      /\ remoteUp' = remoteUp /\ c.state = conns[n][p].state
  BY <1>1, <1>3, <1>4, <1>5
<1> QED
  BY <1>6, LinkCellTurns

\* Nothing that counts changes.
LEMMA SameTurns ==
    ASSUME TurnsInv, conns' = conns, links' = links, remoteUp' = remoteUp
    PROVE  TurnsInv'
  BY DEF TurnsInv, Turns, News, Connected, MayConnect

\* A client ends some connections, or any node ends all it has.
LEMMA DisconnectTurns ==
    ASSUME OneServer, IInv, AgreeInv, TurnsInv, NEW n \in Node, NEW P \in SUBSET Node,
           Disconnect(n, P), dialed' = dialed,
           n \notin Listeners \/ \A q \in Node : q \notin P => ~Known(n, q)
    PROVE  TurnsInv'
<1>1. /\ RowMoves(n)
      /\ \A q \in Node : conns'[n][q] = IF q \in P THEN NoConn ELSE conns[n][q]
      /\ \A q \in Node : \E said :
            /\ said = links[n][q] \/ said = Say(links[n][q], Msg("Disconnect"))
            /\ links'[n][q] = said \/ links'[n][q] = Mark(said)
  BY DisconnectMoves
<1>2. remoteUp' = remoteUp \/ remoteUp' = Forgotten(n)
  BY DEF Disconnect, DisconnectedCallback
<1>3. RemoteKept(n)
  BY <1>2, RemoteCells
<1>4. OnlyOf(n)
  BY <1>1, <1>3 DEF OnlyOf, RowMoves, RemoteKept
<1>5. ASSUME NEW q \in Node
      PROVE  Quietly(links[n][q], conns'[n][q], links'[n][q])
  <2>1. PICK said : /\ said = links[n][q] \/ said = Say(links[n][q], Msg("Disconnect"))
                    /\ links'[n][q] = said \/ links'[n][q] = Mark(said)
    BY <1>1
  <2>2. PICK msg \in Message : msg = Msg("Disconnect") /\ msg.type \notin NewsTypes
    BY QuietTypes
  <2>3. PICK a \in LinkType : a = links[n][q]
    BY CellFacts
  <2>4. PICK x2, a2 : x2 = conns'[n][q] /\ a2 = links'[n][q]
    OBVIOUS
  <2>5. /\ said = a \/ \E w \in Message : w.type \notin NewsTypes /\ said = Say(a, w)
        /\ a2 = said \/ a2 = Mark(said)
    BY <2>1, <2>2, <2>3, <2>4
  <2>6. Quietly(a, x2, a2)
    BY <2>3, <2>5, QuietCell
  <2> QED
    BY <2>3, <2>4, <2>6
<1>6. NoConn.state # "Connected"
  BY DEF NoConn
<1>7. \A q \in Node : conns'[n][q].state = "Connected" => Connected(n, q) /\ n \notin Listeners
  BY <1>1, <1>6 DEF Connected, Known
<1>8. QuietStep(n)
  BY <1>3, <1>4, <1>5, <1>7 DEF QuietStep, RemoteKept
<1> QED
  BY <1>8, QuietKeeps

LEMMA CloseTurns ==
    ASSUME OneServer, IInv, AgreeInv, TurnsInv, NEW n \in Node, n \notin Listeners,
           NEW p \in Node, Close(n, p)
    PROVE  TurnsInv'
  BY DisconnectTurns DEF Close

LEMMA QuitTurns ==
    ASSUME OneServer, IInv, AgreeInv, TurnsInv, NEW n \in Node, Quit(n)
    PROVE  TurnsInv'
<1> DEFINE P == {p \in Node : Known(n, p)}
<1>1. /\ Disconnect(n, P) /\ dialed' = dialed
      /\ P \in SUBSET Node /\ \A q \in Node : q \notin P => ~Known(n, q)
  BY DEF Quit
<1> HIDE DEF P
<1> QED
  BY <1>1, DisconnectTurns

LEMMA ResetTurns ==
    ASSUME OneServer, IInv, AgreeInv, TurnsInv, NEW n \in Node, Reset(n)
    PROVE  TurnsInv'
<1>1. alive[n] = "closing" /\ conns' = conns /\ remoteUp' = remoteUp
  BY DEF Reset, history
<1>2. \A p \in Node : ~Known(n, p)
  BY <1>1 DEF AgreeInv, GamesInv, GoneInv
<1>3. PICK row : row = [p \in Node |-> NoLink]
  OBVIOUS
<1>4. RowTo(n, row) /\ \A q \in Node : row[q] = NoLink
  BY <1>3 DEF Reset, RowTo
<1>5. \A m, q \in Node : links'[m][q] = IF m = n THEN NoLink ELSE links[m][q]
  BY <1>4, RowToCells
<1>6. OnlyOf(n)
  BY <1>1, <1>5 DEF OnlyOf
<1>7. \A q \in Node : conns'[n][q].state # "Connected" /\ links'[n][q] = NoLink
  BY <1>1, <1>2, <1>5 DEF Known
<1>8. QuietStep(n)
  BY <1>6, <1>7 DEF QuietStep
<1> QED
  BY <1>8, QuietKeeps

-----------------------------------------------------------------------------
\* Steps of the server that are told.

LEMMA ServerQuietly ==
    ASSUME NEW e, NEW x, NEW a \in LinkType, NEW v, NEW y, NEW b \in LinkType,
           NEW z \in {-1, 1}, Turn(e, x, a, v, y, b, z), NEW y2, NEW b2, NEW z2,
           Quietly(b, y2, b2), y2.state # "Connected"
    PROVE  Turn(e, x, a, v, y2, b2, z2)
<1>1. TellsNone(e, y, b, z, y2, b2, z2)
  BY SignFacts DEF Quietly, TellsNone
<1> QED
  BY <1>1, ServerQuiet

\* A node loses the connection with p, by a message or a timer.
LEMMA LostTurns ==
    ASSUME OneServer, IInv, AgreeInv, TurnsInv, NEW n \in Node, NEW p \in Node,
           Connected(n, p), NEW c, c.state # "Connected", ConnTo(n, p, c),
           NEW took \in RowType, \A q \in Node : q # p => took[q] = links[n][q],
           \/ took[p] = links[n][p]
           \/ took[p] = Took(links[n][p]) /\ links[n][p].queue # <<>>,
           NEW given, given = Marked(took, Holding(n, {p})),
           RowTo(n, Relayed(n, given, p, RemoteDisconnected(p))), RemoteKept(n)
    PROVE  TurnsInv'
<1>1. PICK msg \in Message : msg = RemoteDisconnected(p)
  BY MessageTypes
<1>2. PICK row : row = Relayed(n, given, p, msg)
  OBVIOUS
<1>3. given \in RowType
  BY MarkedType
<1>4. \A q \in Node : given[q] = IF q = p /\ conns[n][q].link = "link"
                                     THEN Mark(took[q]) ELSE took[q]
  BY GivenBackCell
<1>5. \A q \in Node : row[q] =
           IF n \in Listeners /\ q # p /\ Connected(n, q) /\ conns[n][q].link = "link"
              THEN Say(given[q], msg) ELSE given[q]
  BY <1>2, <1>3, RelayedCell
<1>6. RowTo(n, row)
  BY <1>1, <1>2
<1>7. \A q \in Node : Connected(n, q) => conns[n][q].link = "link"
  BY EndsOk DEF EndOk, Held, Connected
<1>8. /\ row[p] = Mark(took[p])
      /\ \A q \in Node : q # p =>
            row[q] = IF n \in Listeners /\ Connected(n, q) THEN Say(links[n][q], msg)
                                                           ELSE links[n][q]
  <2>1. row[p] = Mark(took[p])
    BY <1>4, <1>5, <1>7
  <2>2. ASSUME NEW q \in Node, q # p
        PROVE  row[q] = IF n \in Listeners /\ Connected(n, q) THEN Say(links[n][q], msg)
                                                             ELSE links[n][q]
    <3>1. given[q] = links[n][q]
      BY <1>4, <2>2
    <3> QED
      BY <1>5, <1>7, <2>2, <3>1
  <2> QED
    BY <2>1, <2>2
<1>9. links[n][p] \in LinkType
  BY CellFacts
<1>10. Quietly(links[n][p], c, row[p])
  BY <1>8, <1>9, QuietCell
<1>11. CASE n \notin Listeners
  <2>1. \A q \in Node : q # p => row[q] = links[n][q]
    BY <1>8, <1>11
  <2> QED
    BY <1>6, <1>10, <1>11, <2>1, QuietEnd
<1>12. CASE n \in Listeners
  <2>1. \A m, q \in Node : /\ links'[m][q] = IF m = n THEN row[q] ELSE links[m][q]
                           /\ conns'[m][q] = IF m = n /\ q = p THEN c ELSE conns[m][q]
    BY <1>6, RowToCells DEF ConnTo
  <2>2. OnlyOf(n)
    BY <2>1 DEF OnlyOf, RemoteKept
  <2>3. PICK k \in {-1, 1} : k = -1
    OBVIOUS
  <2>4. \A e \in Node : Sign(e, msg) = IF e = p THEN k ELSE 0
    BY <1>1, <2>3, SignFacts
  <2>5. \A q \in Node : q # p =>
            /\ conns'[n][q] = conns[n][q]
            /\ links'[n][q] = IF Connected(n, q) THEN Say(links[n][q], msg) ELSE links[n][q]
    BY <1>8, <1>12, <2>1
  <2>6. /\ Connected(n, p) <=> k = -1
        /\ conns'[n][p].state = "Connected" <=> k = 1
    BY <2>1, <2>3
  <2>7. ASSUME MayConnect(p, n), NEW e \in Node
        PROVE  Turn(e, conns[p][n], links[p][n], remoteUp[p][e],
                    conns'[n][p], links'[n][p], News(p, n, e)')
    <3>1. Turns(p, n, e) /\ links[p][n] \in LinkType
      BY <2>7, CellFacts DEF TurnsInv
    <3>2. PICK z \in {-1, 1} : z = News(p, n, e)
      BY DEF News
    <3>3. Turn(e, conns[p][n], links[p][n], remoteUp[p][e], conns[n][p], links[n][p], z)
      BY <3>1, <3>2 DEF Turns
    <3>4. PICK z2 : z2 = News(p, n, e)'
      OBVIOUS
    <3>5. PICK x, v, y, b2 : /\ x = conns[p][n] /\ v = remoteUp[p][e]
                             /\ y = conns[n][p] /\ b2 = row[p]
      OBVIOUS
    <3>6. PICK a \in LinkType, b \in LinkType : a = links[p][n] /\ b = links[n][p]
      BY <1>9, <3>1
    <3>7. Turn(e, x, a, v, y, b, z) /\ Quietly(b, c, b2)
      BY <1>10, <3>3, <3>5, <3>6
    <3>8. Turn(e, x, a, v, c, b2, z2)
      BY <3>7, ServerQuietly
    <3>9. conns'[n][p] = c /\ links'[n][p] = row[p]
      BY <2>1
    <3> QED
      BY <3>4, <3>5, <3>6, <3>8, <3>9
  <2> QED
    BY <1>12, <2>2, <2>4, <2>5, <2>6, <2>7, RelayKeeps
<1> QED
  BY <1>11, <1>12

LEMMA RecvDisconnectTurns ==
    ASSUME OneServer, IInv, AgreeInv, TurnsInv, NEW n \in Node, RecvDisconnect(n)
    PROVE  TurnsInv'
<1>1. Polls(n, {"Disconnect"}, {TRUE})
  BY DEF RecvDisconnect
<1>2. PICK p : p = Peer(n)
  OBVIOUS
<1>3. /\ p \in Node /\ links[n][p].queue # <<>> /\ Popped(n) \in RowType
      /\ \A q \in Node : Popped(n)[q] = IF q = p THEN Took(links[n][q]) ELSE links[n][q]
  BY <1>1, <1>2, PolledCell
<1>4. CASE Connected(n, p)
  <2>1. PICK c : c = Ended("Disconnected") /\ c.state # "Connected"
    <3>1. Ended("Disconnected").state # "Connected"
      BY DEF Ended
    <3> QED
      BY <3>1
  <2>2. PICK took \in RowType : took = Popped(n)
    BY <1>3
  <2>3. PICK given : given = Marked(took, Holding(n, {p}))
    OBVIOUS
  <2>4. /\ conns' = [conns EXCEPT ![n][p] = c]
        /\ RowTo(n, Relayed(n, given, p, RemoteDisconnected(p)))
        /\ remoteUp' = remoteUp \/ remoteUp' = Forgotten(n)
    BY <1>2, <1>4, <2>1, <2>2, <2>3 DEF RecvDisconnect, SetConn, DisconnectedCallback
  <2>5. ConnTo(n, p, c) /\ RemoteKept(n)
    BY <1>3, <2>4, ConnToCells, RemoteCells
  <2>6. /\ \A q \in Node : q # p => took[q] = links[n][q]
        /\ took[p] = Took(links[n][p])
    BY <1>3, <2>2
  <2> QED
    BY <1>3, <1>4, <2>1, <2>3, <2>4, <2>5, <2>6, LostTurns
<1>5. CASE ~Connected(n, p)
  <2>1. conns' = conns /\ RowTo(n, Popped(n)) /\ remoteUp' = remoteUp
    BY <1>2, <1>5 DEF RecvDisconnect
  <2>2. ConnTo(n, p, conns[n][p]) /\ RemoteKept(n)
    BY <1>3, <2>1, ConnToCells, RemoteCells
  <2>3. \A t \in {"Disconnect"} : t \notin NewsTypes
    BY DEF NewsTypes
  <2>4. Connected(n, p) <=> conns[n][p].state = "Connected"
    BY DEF Connected
  <2> QED
    BY <1>1, <1>2, <2>1, <2>2, <2>3, <2>4, QuietPoll
<1> QED
  BY <1>4, <1>5

LEMMA UpdateKeepAliveLostTurns ==
    ASSUME OneServer, IInv, AgreeInv, TurnsInv, NEW n \in Node, NEW p \in Node,
           UpdateKeepAliveLost(n, p)
    PROVE  TurnsInv'
<1>1. PICK c : c = Ended("ConnectionTimedOut") /\ c.state # "Connected"
  <2>1. Ended("ConnectionTimedOut").state # "Connected"
    BY DEF Ended
  <2> QED
    BY <2>1
<1>2. PICK took \in RowType : took = links[n]
  BY CellFacts
<1>3. PICK given : given = Marked(took, Holding(n, {p}))
  OBVIOUS
<1>4. /\ Connected(n, p) /\ conns' = [conns EXCEPT ![n][p] = c]
      /\ RowTo(n, Relayed(n, given, p, RemoteDisconnected(p)))
      /\ remoteUp' = remoteUp \/ remoteUp' = Forgotten(n)
  BY <1>1, <1>2, <1>3 DEF UpdateKeepAliveLost, SetConn, DisconnectedCallback
<1>5. ConnTo(n, p, c) /\ RemoteKept(n)
  BY <1>4, ConnToCells, RemoteCells
<1>6. took[p] = links[n][p] /\ \A q \in Node : q # p => took[q] = links[n][q]
  BY <1>2
<1> QED
  BY <1>1, <1>3, <1>4, <1>5, <1>6, LostTurns

LEMMA AcceptConnectTurns ==
    ASSUME OneServer, IInv, AgreeInv, TurnsInv, NEW n \in Node, AcceptConnect(n)
    PROVE  TurnsInv'
<1>1. Polls(n, {"ConnectRequest"}, BOOLEAN)
  BY DEF AcceptConnect
<1>2. PICK p : p = Peer(n)
  OBVIOUS
<1>3. /\ p \in Node /\ links[n][p] \in LinkType /\ links[n][p].queue # <<>>
      /\ links[n][p].queue \in Seq(Message)
      /\ Head(links[n][p].queue).type = "ConnectRequest"
      /\ Popped(n) \in RowType
      /\ \A q \in Node : Popped(n)[q] = IF q = p THEN Took(links[n][q]) ELSE links[n][q]
  BY <1>1, <1>2, PolledCell
<1>4. PICK msg \in Message : msg = Msg("ConnectAccept") /\ msg.type \notin NewsTypes
  BY QuietTypes
<1>5. PICK news \in Message : news = RemoteConnected(p)
  BY <1>3, MessageTypes
<1>6. PICK popped \in RowType : popped = Popped(n)
  BY <1>3
<1>7. PICK sent \in RowType : sent = Sent(popped, p, msg)
  BY <1>3, SentType
<1>8. PICK row : row = Relayed(n, sent, p, news)
  OBVIOUS
<1>9. PICK c : /\ c = [state |-> "Connected", waiting |-> FALSE, link |-> "link"]
               /\ c.state = "Connected"
  <2> DEFINE d == [state |-> "Connected", waiting |-> FALSE, link |-> "link"]
  <2>1. d.state = "Connected"
    OBVIOUS
  <2> QED
    BY <2>1
<1>10. /\ ~Connected(n, p) /\ RowTo(n, row) /\ conns' = [conns EXCEPT ![n][p] = c]
       /\ remoteUp' = remoteUp
  BY <1>2, <1>4, <1>5, <1>6, <1>7, <1>8, <1>9 DEF AcceptConnect, SetConn, Known, Connected
<1>11. \A q \in Node : sent[q] = IF q = p THEN Say(popped[q], msg) ELSE popped[q]
  BY <1>3, <1>7, SentCell
<1>12. /\ sent[p] = Say(Took(links[n][p]), msg)
       /\ \A q \in Node : q # p => sent[q] = links[n][q]
  BY <1>3, <1>6, <1>11
<1>13. \A q \in Node : row[q] =
           IF n \in Listeners /\ q # p /\ Connected(n, q) /\ conns[n][q].link = "link"
              THEN Say(sent[q], news) ELSE sent[q]
  BY <1>3, <1>5, <1>7, <1>8, RelayedCell
\* Only a server is asked.
<1>14. RequestIn(links[n][p].queue)
  BY <1>3, HasTail DEF RequestIn
<1>15. MayConnect(p, n) /\ n \in Listeners
  <2>1. ~MayConnect(n, p)
    BY <1>3, <1>14 DEF AgreeInv, PairsInv, PairInv, ClientEnd
  <2>2. MayConnect(p, n)
    BY <1>3, <2>1 DEF AgreeInv, OthersInv, Nothing
  <2> QED
    BY <2>2 DEF MayConnect
<1>16. \A m, q \in Node : /\ links'[m][q] = IF m = n THEN row[q] ELSE links[m][q]
                          /\ conns'[m][q] = IF m = n /\ q = p THEN c ELSE conns[m][q]
  <2>1. ConnTo(n, p, c)
    BY <1>3, <1>10, ConnToCells
  <2> QED
    BY <1>10, <2>1, RowToCells DEF ConnTo
<1>17. OnlyOf(n)
  BY <1>10, <1>16 DEF OnlyOf
<1>18. PICK k \in {-1, 1} : k = 1
  OBVIOUS
<1>19. \A e \in Node : Sign(e, news) = IF e = p THEN k ELSE 0
  BY <1>5, <1>18, SignFacts
<1>20. ASSUME NEW q \in Node, q # p
       PROVE  /\ conns'[n][q] = conns[n][q]
              /\ links'[n][q] = IF Connected(n, q) THEN Say(links[n][q], news) ELSE links[n][q]
  <2>1. Connected(n, q) => conns[n][q].link = "link"
    BY EndsOk DEF EndOk, Held, Connected
  <2>2. sent[q] = links[n][q]
    BY <1>12, <1>20
  <2> QED
    BY <1>13, <1>15, <1>16, <1>20, <2>1, <2>2
<1>21. /\ Connected(n, p) <=> k = -1
       /\ conns'[n][p].state = "Connected" <=> k = 1
  BY <1>3, <1>9, <1>10, <1>16, <1>18
<1>22. PICK took \in LinkType : took = Took(links[n][p])
  BY <1>3, TookFields
<1>23. row[p].id = links[n][p].id /\ row[p].out = Append(links[n][p].out, msg)
  <2>1. links[n][p].phase = "open"
    BY <1>3, <1>14, EndsOk DEF EndOk
  <2>2. took.id = links[n][p].id /\ took.phase = "open" /\ took.out = links[n][p].out
    BY <1>3, <1>22, <2>1, TookFields
  <2>3. Say(took, msg).id = took.id /\ Say(took, msg).out = Append(took.out, msg)
    BY <2>2, SayFields
  <2>4. row[p] = Say(took, msg)
    BY <1>3, <1>12, <1>13, <1>22
  <2> QED
    BY <2>2, <2>3, <2>4
<1>24. ASSUME NEW e \in Node
       PROVE  Turn(e, conns[p][n], links[p][n], remoteUp[p][e],
                   conns'[n][p], links'[n][p], News(p, n, e)')
  <2>1. PICK x, v, y, b2 : /\ x = conns[p][n] /\ v = remoteUp[p][e]
                           /\ y = conns[n][p] /\ b2 = row[p]
    OBVIOUS
  <2>2. PICK a \in LinkType, b \in LinkType : a = links[p][n] /\ b = links[n][p]
    BY <1>3, CellFacts
  <2>3. PICK i \in Nat : i = dialed[p]
    BY <1>3, CellFacts DEF Counters
  <2>4. PICK z2 \in {-1, 1} : z2 = News(p, n, e)'
    BY DEF News
  <2>5. PICK z : z = News(p, n, e)
    OBVIOUS
  <2>6. PairInv(p, i, x, a, y, b)
    BY <1>3, <1>15, <2>1, <2>2, <2>3 DEF AgreeInv, PairsInv
  <2>7. Turn(e, x, a, v, y, b, z)
    BY <1>3, <1>15, <2>1, <2>2, <2>5 DEF TurnsInv, Turns
  <2>8. NotHearing(x, a, b)
    BY <1>14, <2>2, <2>6 DEF PairInv, Ends, Unanswered, ServerEnd, NotHearing
  <2>9. SaysOther(e, b, b2)
    BY <1>4, <1>23, <2>1, <2>2, SignFacts DEF SaysOther, Says
  <2>10. \A y2 : \A w2 \in {-1, 1} : Turn(e, x, a, v, y2, b2, w2)
    BY <2>2, <2>7, <2>8, <2>9, AcceptTurn
  <2>11. Turn(e, x, a, v, c, b2, z2)
    BY <2>4, <2>10
  <2>12. conns'[n][p] = c /\ links'[n][p] = row[p]
    BY <1>3, <1>16
  <2> QED
    BY <2>1, <2>2, <2>4, <2>11, <2>12
<1> QED
  BY <1>3, <1>15, <1>17, <1>19, <1>20, <1>21, <1>24, RelayKeeps

\* News is taken for what it says, whatever became of the connection.
LEMMA SignOfNews ==
    ASSUME NEW msg \in Message, msg.type \in NewsTypes
    PROVE  /\ msg.peer \in Node
           /\ \A e : Sign(e, msg) =
                 IF e # msg.peer THEN 0 ELSE IF msg.type = "RemoteConnected" THEN 1 ELSE -1
<1>1. msg \in [type : NewsTypes, peer : Node]
  BY DEF Message, NewsTypes, RefusalTypes
<1>2. PICK q \in Node : q = msg.peer
  BY <1>1
<1>3. CASE msg.type = "RemoteConnected"
  <2>1. msg = RemoteConnected(q)
    BY <1>1, <1>2, <1>3 DEF RemoteConnected
  <2> QED
    BY <1>2, <1>3, <2>1, SignFacts
<1>4. CASE msg.type = "RemoteDisconnected"
  <2>1. msg = RemoteDisconnected(q)
    BY <1>1, <1>2, <1>4 DEF RemoteDisconnected
  <2> QED
    BY <1>2, <1>4, <2>1, SignFacts
<1> QED
  BY <1>3, <1>4 DEF NewsTypes

LEMMA RecvRemoteTurns ==
    ASSUME OneServer, IInv, AgreeInv, TurnsInv, NEW m \in Node, RecvRemote(m)
    PROVE  TurnsInv'
<1>1. /\ Polls(m, NewsTypes, {TRUE}) /\ RowTo(m, Popped(m)) /\ conns' = conns
      /\ remoteUp' = [remoteUp EXCEPT ![m][Polled(m).peer] =
                         IF Polled(m).type = "RemoteConnected" THEN @ + 1 ELSE @ - 1]
  BY DEF RecvRemote, NewsTypes
<1>2. PICK p : p = Peer(m)
  OBVIOUS
<1>3. /\ p \in Node /\ links[m][p] \in LinkType /\ links[m][p].queue # <<>>
      /\ links[m][p].queue \in Seq(Message)
      /\ Head(links[m][p].queue) = Polled(m) /\ Polled(m).type \in NewsTypes
      /\ \A q \in Node : Popped(m)[q] = IF q = p THEN Took(links[m][q]) ELSE links[m][q]
  BY <1>1, <1>2, PolledCell
<1>4. PICK msg \in Message : msg = Polled(m)
  BY <1>3, HeadTailProperties
<1>5. \A n, q \in Node : links'[n][q] = IF n = m /\ q = p THEN Took(links[n][q]) ELSE links[n][q]
  <2>1. PICK row : row = Popped(m)
    OBVIOUS
  <2>2. \A n, q \in Node : links'[n][q] = IF n = m THEN row[q] ELSE links[n][q]
    BY <1>1, <2>1, RowToCells
  <2> QED
    BY <1>3, <2>1, <2>2
<1>6. \A n, e \in Node : remoteUp'[n][e] =
          IF n = m THEN remoteUp[n][e] + Sign(e, msg) ELSE remoteUp[n][e]
  <2>1. PICK q \in Node, k \in {-1, 1} :
            /\ remoteUp' = [remoteUp EXCEPT ![m][q] = @ + k]
            /\ \A e \in Node : Sign(e, msg) = IF e = q THEN k ELSE 0
    <3>1. PICK q \in Node : q = msg.peer
      BY <1>3, <1>4, SignOfNews
    <3>2. PICK k \in {-1, 1} : k = IF msg.type = "RemoteConnected" THEN 1 ELSE -1
      OBVIOUS
    <3>3. \A e \in Node : Sign(e, msg) = IF e = q THEN k ELSE 0
      BY <1>3, <1>4, <3>1, <3>2, SignOfNews
    <3>4. remoteUp[m][q] \in Int
      BY CellFacts DEF IntTable
    <3>5. remoteUp' = [remoteUp EXCEPT ![m][q] = @ + k]
      BY <1>1, <1>4, <3>1, <3>2, <3>4
    <3> QED
      BY <3>3, <3>5
  <2>2. remoteUp \in [Node -> [Node -> Int]]
    BY CellFacts DEF IntTable
  <2> QED
    BY <2>1, <2>2
<1> SUFFICES ASSUME NEW n \in Node, NEW s \in Node, NEW e \in Node, MayConnect(n, s)
             PROVE  Turn(e, conns[n][s], links'[n][s], remoteUp'[n][e],
                         conns[s][n], links'[s][n], News(n, s, e))
  BY <1>1 DEF TurnsInv, Turns, MayConnect, News, Connected
<1>7. PICK a \in LinkType, b \in LinkType : a = links[n][s] /\ b = links[s][n]
  BY CellFacts
<1>8. PICK z \in {-1, 1} : z = News(n, s, e)
  BY DEF News
<1>9. PICK x, y, v : x = conns[n][s] /\ y = conns[s][n] /\ v = remoteUp[n][e]
  OBVIOUS
<1>10. Turn(e, x, a, v, y, b, z)
  BY <1>7, <1>8, <1>9 DEF TurnsInv, Turns
<1>11. n \notin Listeners /\ n # s /\ s \in Listeners
  BY OneServerFacts DEF MayConnect
<1>12. CASE n = m
  <2>1. s = p
    <3>1. ~Nothing(conns[m][p], links[m][p])
      BY <1>3 DEF Nothing
    <3>2. MayConnect(m, p) \/ MayConnect(p, m)
      BY <1>3, <3>1 DEF AgreeInv, OthersInv
    <3> QED
      BY <1>11, <1>12, <3>2 DEF MayConnect, OneServer
  <2>2. PICK a2 : a2 = Took(a)
    OBVIOUS
  <2>3. /\ a2.id = a.id /\ a2.queue = Tail(a.queue) /\ a.queue # <<>> /\ Head(a.queue) = msg
    BY <1>3, <1>4, <1>7, <1>12, <2>1, <2>2, TookFields
  <2>4. links'[n][s] = a2 /\ links'[s][n] = b /\ remoteUp'[n][e] = v + Sign(e, msg)
    BY <1>5, <1>6, <1>7, <1>9, <1>11, <1>12, <2>1, <2>2
  <2>5. Turn(e, x, a2, v + Sign(e, msg), y, b, z)
    <3>1. CASE x.state = "Connected"
      BY <1>10, <2>3, <3>1, ClientHears
    <3>2. CASE x.state # "Connected"
      <4>1. PICK v2 : v2 = v + Sign(e, msg)
        OBVIOUS
      <4>2. Quietly(a, x, a2)
        BY <2>2, <2>3, <3>2, TookFields DEF Quietly
      <4>3. Hearing(x, v, x, v2)
        BY <3>2 DEF Hearing
      <4>4. Turn(e, x, a2, v2, y, b, z)
        BY <1>10, <4>2, <4>3, ClientQuietly
      <4> QED
        BY <4>1, <4>4
    <3> QED
      BY <3>1, <3>2
  <2> QED
    BY <1>8, <1>9, <2>4, <2>5
<1>13. CASE n # m
  <2>1. links'[n][s] = a /\ remoteUp'[n][e] = v
    BY <1>5, <1>6, <1>7, <1>9, <1>13
  <2>2. PICK b2 : b2 = links'[s][n]
    OBVIOUS
  <2>3. b2 = b \/ (b2 = Took(b) /\ b.queue # <<>>)
    BY <1>3, <1>5, <1>7, <2>2
  <2>4. b2.id = b.id /\ b2.out = b.out
    BY <2>3, TookFields
  <2>5. TellsNone(e, y, b, z, y, b2, z)
    BY <2>4 DEF TellsNone
  <2>6. Turn(e, x, a, v, y, b2, z)
    BY <1>10, <2>5, ServerQuiet
  <2> QED
    BY <1>8, <1>9, <2>1, <2>2, <2>6
<1> QED
  BY <1>12, <1>13

\* A new link: nothing is under way over it.
LEMMA ConnectTurns ==
    ASSUME OneServer, IInv, AgreeInv, TurnsInv, NEW m \in Clients, NEW p \in Listeners,
           NEW request \in Requests, Connect(m, p, request)
    PROVE  TurnsInv'
<1>1. m \in Node /\ p \in Node /\ m # p /\ MayConnect(m, p)
  BY ConnectCells
<1>2. PICK x2, a2 : NewEnds(m, p, x2, a2)
  BY ConnectCells
<1>3. /\ a2.id = <<m, dialed[m] + 1>> /\ a2.queue = <<>> /\ x2.state # "Connected"
      /\ \A o, q \in Node :
            /\ conns'[o][q] = IF o = m /\ q = p THEN x2 ELSE conns[o][q]
            /\ links'[o][q] = IF o = m /\ q = p THEN a2 ELSE links[o][q]
  BY <1>2 DEF NewEnds
<1>4. remoteUp' = remoteUp /\ m \notin Listeners
  BY <1>1, OneServerFacts DEF Connect
<1> SUFFICES ASSUME NEW n \in Node, NEW s \in Node, NEW e \in Node, MayConnect(n, s)
             PROVE  Turn(e, conns'[n][s], links'[n][s], remoteUp[n][e],
                         conns'[s][n], links'[s][n], News(n, s, e)')
  BY <1>4 DEF TurnsInv, Turns, MayConnect
<1>5. s # m
  BY <1>4 DEF MayConnect
<1>6. /\ conns'[s][n] = conns[s][n] /\ links'[s][n] = links[s][n]
      /\ News(n, s, e)' = News(n, s, e)
  BY <1>3, <1>5 DEF News, Connected
<1>7. CASE n = m /\ s = p
  <2>1. PICK b, y, z, v : /\ b = links[s][n] /\ y = conns[s][n]
                          /\ z = News(n, s, e) /\ v = remoteUp[n][e]
    OBVIOUS
  <2>2. PICK k \in Nat : k = dialed[n]
    BY CellFacts DEF Counters
  <2>3. ServerEnd(n, k, y, b)
    BY <2>1, <2>2 DEF AgreeInv, PairsInv, PairInv
  <2>4. a2.id # b.id
    <3>1. PICK id : id = a2.id
      OBVIOUS
    <3>2. id = <<n, k + 1>>
      BY <1>3, <1>7, <2>2, <3>1
    <3>3. id # b.id
      BY <2>3, <3>2, NewId
    <3> QED
      BY <3>1, <3>3
  <2>5. Turn(e, x2, a2, v, y, b, z)
    BY <1>3, <2>4, ClientSilent
  <2>6. conns'[n][s] = x2 /\ links'[n][s] = a2
    BY <1>3, <1>7
  <2> QED
    BY <1>6, <2>1, <2>5, <2>6
<1>8. CASE ~(n = m /\ s = p)
  <2>1. conns'[n][s] = conns[n][s] /\ links'[n][s] = links[n][s]
    BY <1>3, <1>8
  <2> QED
    BY <1>6, <2>1 DEF TurnsInv, Turns
<1> QED
  BY <1>7, <1>8

\* What is delivered is under way no more or no less than before.
LEMMA DeliverTurns ==
    ASSUME OneServer, IInv, AgreeInv, TurnsInv, NEW m \in Node, NEW p \in Node, Deliver(m, p)
    PROVE  TurnsInv'
<1>1. /\ m # p /\ Gives(links[m][p], links'[m][p])
      /\ \/ Opens(links[m][p], links[p][m], links'[p][m])
         \/ Takes(links[m][p], links[p][m], links'[p][m])
      /\ \A o, q \in Node : ~(o = m /\ q = p) /\ ~(o = p /\ q = m) =>
                              links'[o][q] = links[o][q]
  BY DeliverCells
<1>2. conns' = conns /\ remoteUp' = remoteUp
  BY DEF Deliver, history
<1> SUFFICES ASSUME NEW n \in Node, NEW s \in Node, NEW e \in Node, MayConnect(n, s)
             PROVE  Turn(e, conns[n][s], links'[n][s], remoteUp[n][e],
                         conns[s][n], links'[s][n], News(n, s, e))
  BY <1>2 DEF TurnsInv, Turns, News, Connected, MayConnect
<1>3. PICK a \in LinkType, b \in LinkType : a = links[n][s] /\ b = links[s][n]
  BY CellFacts
<1>4. PICK z \in {-1, 1} : z = News(n, s, e)
  BY DEF News
<1>5. PICK x, y, v, a2, b2 : /\ x = conns[n][s] /\ y = conns[s][n] /\ v = remoteUp[n][e]
                             /\ a2 = links'[n][s] /\ b2 = links'[s][n]
  OBVIOUS
<1>6. PICK k \in Nat : k = dialed[n]
  BY CellFacts DEF Counters
<1>7. Turn(e, x, a, v, y, b, z) /\ PairInv(n, k, x, a, y, b)
  BY <1>3, <1>4, <1>5, <1>6 DEF TurnsInv, Turns, AgreeInv, PairsInv
<1>8. Turn(e, x, a2, v, y, b2, z)
  <2>1. CASE n = m /\ s = p
    <3>1. Gives(a, a2) /\ (Opens(a, b, b2) \/ Takes(a, b, b2))
      BY <1>1, <1>3, <1>5, <2>1
    <3> QED
      BY <1>7, <3>1, ServerGetsTurn
  <2>2. CASE n = p /\ s = m
    <3>1. Gives(b, b2) /\ (Opens(b, a, a2) \/ Takes(b, a, a2))
      BY <1>1, <1>3, <1>5, <2>2
    <3> QED
      BY <1>7, <3>1, ClientGetsTurn
  <2>3. CASE ~(n = m /\ s = p) /\ ~(n = p /\ s = m)
    <3>1. a2 = a /\ b2 = b
      BY <1>1, <1>3, <1>5, <2>3
    <3> QED
      BY <1>7, <3>1
  <2> QED
    BY <2>1, <2>2, <2>3
<1> QED
  BY <1>4, <1>5, <1>8

-----------------------------------------------------------------------------
\* All steps.

LEMMA InitTurns ==
    ASSUME Init
    PROVE  TurnsInv
<1>1. \A n, p \in Node : conns[n][p] = NoConn /\ links[n][p] = NoLink
  BY DEF Init
<1>2. NoConn.state # "Connected" /\ NoLink.queue = <<>> /\ NoLink.out = <<>>
  BY DEF NoConn, NoLink
<1>3. \A e, v, z : Turn(e, NoConn, NoLink, v, NoConn, NoLink, z)
  BY <1>2, ClientSilent
<1> QED
  BY <1>1, <1>3 DEF TurnsInv, Turns

LEMMA NextTurns ==
    ASSUME OneServer, Listeners \cap Closers = {}, RawSenders = {},
           IInv, AgreeInv, TurnsInv, Next
    PROVE  TurnsInv'
<1>1. PICK n \in Node : Application(n) \/ ReceiveThread(n) \/ Update(n)
  BY DEF Next
<1>2. CASE Application(n)
  <2>1. CASE \E p \in Listeners, request \in Requests : n \in Clients /\ Connect(n, p, request)
    BY <2>1, ConnectTurns
  <2>2. CASE \E p \in Node : n \in Closers /\ Close(n, p)
    <3>1. n \notin Listeners
      BY <2>2
    <3> QED
      BY <2>2, <3>1, CloseTurns
  <2>3. CASE n \in Quitters /\ (Quit(n) \/ Reset(n))
    BY <2>3, QuitTurns, ResetTurns
  <2> QED
    BY <1>2, <2>1, <2>2, <2>3 DEF Application
<1>3. CASE ReceiveThread(n)
  BY <1>3, DeliverTurns, LingerTurns, UpdatePendingDeletesTurns DEF ReceiveThread
<1>4. CASE Update(n)
  <2>1. CASE \/ \E p \in Node : BeginProcess(n, p)
             \/ \E due \in SUBSET Node : BeginUpdate(n, due)
             \/ EndProcess(n)
    <3>1. conns' = conns /\ links' = links /\ remoteUp' = remoteUp
      BY <2>1 DEF BeginProcess, BeginUpdate, EndProcess, history
    <3> QED
      BY <3>1, SameTurns
  <2>2. CASE Handle(n) /\ ~EndProcess(n)
    BY <2>2, RefuseTurns, AcceptConnectTurns, RecvConnectAcceptTurns, QuietPolls,
       RecvDisconnectTurns, RecvRemoteTurns, RecvKeepAliveRequestTurns DEF Handle
  <2>3. CASE \E p \in Node : UpdateConnection(n, p)
    BY <2>3, UpdateEndsTurns, UpdateKeepAliveRequestTurns, UpdateKeepAliveLostTurns
       DEF UpdateConnection
  <2> QED
    BY <1>4, <2>1, <2>2, <2>3 DEF Update
<1> QED
  BY <1>1, <1>2, <1>3, <1>4

\* TurnsInv is an invariant, inductive with IInv and AgreeInv.
THEOREM Relaying ==
    OneServer /\ Listeners \cap Closers = {} /\ RawSenders = {} /\ Spec => []TurnsInv
<1> SUFFICES ASSUME OneServer, Listeners \cap Closers = {}, RawSenders = {}
             PROVE  Spec => []TurnsInv
  OBVIOUS
<1>1. Init => TurnsInv
  BY InitTurns
<1>2. IInv /\ AgreeInv /\ TurnsInv /\ [Next]_vars => TurnsInv'
  <2>1. ASSUME TurnsInv, UNCHANGED vars
        PROVE  TurnsInv'
    BY <2>1, SameTurns DEF vars
  <2> QED
    BY <2>1, NextTurns
<1>3. Spec => []AgreeInv
  BY OneServerOneWay, Agreement
<1> QED
  BY <1>1, <1>2, <1>3, Invariance, PTL DEF Spec

-----------------------------------------------------------------------------
\* What follows from it.

LEMMA ConnectedTurns ==
    ASSUME OneServer, AgreeInv, TurnsInv, NEW n \in Node, n \notin Listeners, NEW p \in Node,
           Connected(n, p)
    PROVE  MayConnect(n, p) /\ \A e \in Node : Turns(n, p, e)
<1>1. MayConnect(n, p) \/ MayConnect(p, n)
  BY DEF AgreeInv, OthersInv, Nothing, Connected
<1>2. MayConnect(n, p)
  BY <1>1 DEF MayConnect
<1> QED
  BY <1>2 DEF TurnsInv

LEMMA TurnsAlternate ==
    ASSUME OneServer, AgreeInv, TurnsInv
    PROVE  RemoteAlternates
<1> SUFFICES ASSUME NEW n \in Clients \ Listeners, NEW e \in Node, NEW p \in Node, Connected(n, p)
             PROVE  remoteUp[n][e] \in -1 .. 1
  BY DEF RemoteAlternates
<1>1. n \in Node
  BY ConnectionsAssumption
<1>2. Turns(n, p, e)
  BY <1>1, ConnectedTurns
<1> QED
  BY <1>2 DEF Turns, Turn, InTurn, Connected

\* What was heard last is the opposite of the opposite of what the server has.
LEMMA TurnsTrue ==
    ASSUME OneServer, IInv, AgreeInv, TurnsInv
    PROVE  RelaysAreTrue
<1> SUFFICES ASSUME NEW n \in Clients \ Listeners, NEW p \in Node, NEW e \in Node, e # n,
                    Connected(n, p), Matched(n, p),
                    links[n][p].queue = <<>>, links[p][n].out = <<>>
             PROVE  /\ remoteUp[n][e] = 1 => Connected(p, e)
                    /\ remoteUp[n][e] = -1 => ~Connected(p, e)
  BY DEF RelaysAreTrue
<1>1. n \in Node
  BY ConnectionsAssumption
<1>2. MayConnect(n, p) /\ Turns(n, p, e)
  BY <1>1, ConnectedTurns
<1>3. PICK k \in Nat : k = dialed[n]
  BY <1>1, CellFacts DEF Counters
<1>4. PairInv(n, k, conns[n][p], links[n][p], conns[p][n], links[p][n])
  BY <1>1, <1>2, <1>3 DEF AgreeInv, PairsInv
<1>5. links[n][p].id = links[p][n].id
  BY <1>3, <1>4, SameIds DEF Matched
<1>6. Stream(links[n][p], links[p][n]) = <<>>
  <2>1. <<>> \o <<>> = <<>>
    BY EmptySeq, ConcatEmptySeq
  <2> QED
    BY <2>1 DEF Stream
<1>7. PICK v, z : v = remoteUp[n][e] /\ z = News(n, p, e)
  OBVIOUS
<1>8. InTurn(e, v, <<>>, z)
  BY <1>2, <1>5, <1>6, <1>7 DEF Turns, Turn, Connected, Matched
<1>9. v # 0 => v # -z
  <2>1. Len(<<>>) = 0
    OBVIOUS
  <2>2. Heard(e, v, <<>>, z, 0) = v /\ Heard(e, v, <<>>, z, 1) = -z
    BY <2>1 DEF Heard
  <2> QED
    BY <1>8, <2>1, <2>2 DEF InTurn
<1> QED
  BY <1>7, <1>9 DEF News

\* A client hears of the coming and going of each other one in turn, whatever
\* was relayed to it over connections that it lost, and on each new one afresh.
THEOREM RemoteAlternatesHolds ==
    OneServer /\ Listeners \cap Closers = {} /\ RawSenders = {} /\ Spec => []RemoteAlternates
<1> SUFFICES ASSUME OneServer, Listeners \cap Closers = {}, RawSenders = {}
             PROVE  Spec => []RemoteAlternates
  OBVIOUS
<1>1. Spec => []AgreeInv
  BY OneServerOneWay, Agreement
<1>2. Spec => []TurnsInv
  BY Relaying
<1> QED
  BY <1>1, <1>2, TurnsAlternate, PTL

\* A client that has heard all that the server sent knows which of the other
\* ones it heard of the server has.
THEOREM RelaysAreTrueHolds ==
    OneServer /\ Listeners \cap Closers = {} /\ RawSenders = {} /\ Spec => []RelaysAreTrue
<1> SUFFICES ASSUME OneServer, Listeners \cap Closers = {}, RawSenders = {}
             PROVE  Spec => []RelaysAreTrue
  OBVIOUS
<1>1. Spec => []AgreeInv
  BY OneServerOneWay, Agreement
<1>2. Spec => []TurnsInv
  BY Relaying
<1> QED
  BY <1>1, <1>2, Invariance, TurnsTrue, PTL
=============================================================================
