------------------------- MODULE ConnectionsProofs -------------------------
(***************************************************************************)
(* Callbacks pair up for any nodes, whatever they do; and no listener takes*)
(* more connections than it may, for any finite number of nodes.  IInv is  *)
(* inductive: the callbacks agree with the state of their own connection   *)
(* alone, so each step is a lemma about the one cell of conns it changes.  *)
(***************************************************************************)
EXTENDS Connections, FiniteSetTheorems, SequenceTheorems, TLAPS

IInv == TypeOK /\ CallbacksMatch

-----------------------------------------------------------------------------
\* The types of the variables, by name.

ConnTable == [Node -> [Node -> ConnType]]
RowType == [Node -> LinkType]
LinkTable == [Node -> RowType]
IntTable == [Node -> [Node -> Int]]
GameType == [at : {"api", "links"}] \cup [at : {"polling"}, peer : Node, known : BOOLEAN]
            \cup [at : {"timers"}, todo : SUBSET Node]

Counters ==
    /\ limit \in [Node -> Nat]
    /\ dialed \in [Node -> Nat] /\ \A n \in Node : dialed[n] <= Dials[n]
    /\ alive \in [Node -> {"running", "closing", "closed"}]

History == up \in IntTable /\ owed \in IntTable /\ remoteUp \in IntTable

LEMMA TypeParts ==
    TypeOK <=> /\ conns \in ConnTable /\ links \in LinkTable /\ game \in [Node -> GameType]
               /\ Counters /\ History
  BY DEF TypeOK, ConnTable, LinkTable, RowType, GameType, Counters, History, IntTable

-----------------------------------------------------------------------------
\* One cell of a table changes.

LEMMA TableUpdate ==
    ASSUME NEW S, NEW f \in [Node -> [Node -> S]], NEW n \in Node, NEW p \in Node, NEW v \in S,
           NEW g, g = [f EXCEPT ![n][p] = v]
    PROVE  /\ g \in [Node -> [Node -> S]] /\ g[n][p] = v
           /\ \A m, q \in Node : m # n \/ q # p => g[m][q] = f[m][q]
<1> DEFINE row == [f[n] EXCEPT ![p] = v]
<1>1. g = [f EXCEPT ![n] = row]
  OBVIOUS
<1>2. row \in [Node -> S] /\ row[p] = v /\ \A q \in Node : q # p => row[q] = f[n][q]
  OBVIOUS
<1> HIDE DEF row
<1> QED
  BY <1>1, <1>2

LEMMA RowUpdate ==
    ASSUME links \in LinkTable, NEW n \in Node, NEW row \in RowType, RowTo(n, row)
    PROVE  links' \in LinkTable
  BY DEF RowTo, LinkTable

LEMMA ConnectedFacts ==
    ASSUME up \in IntTable, NEW n \in Node, NEW p \in Node, ConnectedCallback(n, p)
    PROVE  /\ up' \in IntTable /\ up'[n][p] = up[n][p] + 1
           /\ \A m, q \in Node : m # n \/ q # p => up'[m][q] = up[m][q]
<1>1. up' = [up EXCEPT ![n][p] = up[n][p] + 1] /\ up[n][p] + 1 \in Int
  BY DEF ConnectedCallback, IntTable
<1> QED
  BY <1>1, TableUpdate DEF IntTable

LEMMA ResultFacts ==
    ASSUME owed \in IntTable, NEW n \in Node, NEW p \in Node, ResultCallback(n, p)
    PROVE  /\ owed' \in IntTable /\ owed'[n][p] = owed[n][p] - 1
           /\ \A m, q \in Node : m # n \/ q # p => owed'[m][q] = owed[m][q]
<1>1. owed' = [owed EXCEPT ![n][p] = owed[n][p] - 1] /\ owed[n][p] - 1 \in Int
  BY DEF ResultCallback, IntTable
<1> QED
  BY <1>1, TableUpdate DEF IntTable

LEMMA ForgottenType ==
    ASSUME remoteUp \in IntTable, NEW n \in Node
    PROVE  /\ Forgotten(n) \in IntTable /\ \A p \in Node : Forgotten(n)[n][p] = 0
           /\ \A m \in Node : m # n => Forgotten(n)[m] = remoteUp[m]
  BY DEF Forgotten, IntTable

LEMMA DisconnectedFacts ==
    ASSUME up \in IntTable, remoteUp \in IntTable, NEW n \in Node, NEW P,
           DisconnectedCallback(n, P)
    PROVE  /\ up' \in IntTable /\ remoteUp' \in IntTable
           /\ \A m, q \in Node :
                 up'[m][q] = IF m = n /\ q \in P THEN up[m][q] - 1 ELSE up[m][q]
<1>1. up' = [up EXCEPT ![n] = [p \in Node |-> IF p \in P THEN up[n][p] - 1 ELSE up[n][p]]]
  BY DEF DisconnectedCallback
<1>2. up' \in IntTable
  BY <1>1 DEF IntTable
<1>3. remoteUp' = remoteUp \/ remoteUp' = Forgotten(n)
  BY DEF DisconnectedCallback
<1>4. remoteUp' \in IntTable
  BY <1>3, ForgottenType
<1>5. \A m, q \in Node : up'[m][q] = IF m = n /\ q \in P THEN up[m][q] - 1 ELSE up[m][q]
  BY <1>1 DEF IntTable
<1> QED
  BY <1>2, <1>4, <1>5

-----------------------------------------------------------------------------
\* Rows of links.

LEMMA MessageTypes ==
    /\ \A t \in {"ConnectAccept", "Disconnect", "KeepAliveRequest", "KeepAliveAnswer",
                 "InvalidConnectPacket", "User", "IncorrectPassword",
                 "MaxConnectionsReached", "AlreadyConnected"} : Msg(t) \in Message
    /\ \A p \in Node : RemoteConnected(p) \in Message /\ RemoteDisconnected(p) \in Message
    /\ \A r \in Requests : ConnectRequest(r) \in Message
  BY DEF Msg, RemoteConnected, RemoteDisconnected, ConnectRequest, Message, RefusalTypes

LEMMA SentType ==
    ASSUME NEW row \in RowType, NEW p \in Node, NEW msg \in Message
    PROVE  Sent(row, p, msg) \in RowType
<1> DEFINE out == Append(row[p].out, msg)
           new == [row[p] EXCEPT !.out = out]
<1>1. out \in Seq(Message)
  BY AppendProperties DEF RowType, LinkType
<1> HIDE DEF out
<1>2. new \in LinkType
  BY <1>1 DEF RowType, LinkType
<1> HIDE DEF new
<1>3. Sent(row, p, msg) = [row EXCEPT ![p] = new] \/ Sent(row, p, msg) = row
  BY DEF Sent, new, out
<1> QED
  BY <1>2, <1>3 DEF RowType

LEMMA MarkedType ==
    ASSUME NEW row \in RowType, NEW P
    PROVE  Marked(row, P) \in RowType
<1>1. ASSUME NEW p \in Node
      PROVE  [row[p] EXCEPT !.phase = "lingers"] \in LinkType /\ row[p] \in LinkType
  BY DEF RowType, LinkType
<1> QED
  BY <1>1 DEF Marked, RowType

LEMMA SentByType ==
    ASSUME NEW n \in Node, NEW row \in RowType, NEW p \in Node, NEW msg \in Message
    PROVE  SentBy(n, row, p, msg) \in RowType
  BY SentType DEF SentBy

LEMMA RelayedType ==
    ASSUME NEW n \in Node, NEW row \in RowType, NEW p \in Node, NEW msg \in Message
    PROVE  Relayed(n, row, p, msg) \in RowType
<1>1. ASSUME NEW q \in Node PROVE SentBy(n, row, q, msg)[q] \in LinkType /\ row[q] \in LinkType
  BY SentByType DEF RowType
<1> QED
  BY <1>1 DEF Relayed, RowType

-----------------------------------------------------------------------------
\* What every step shows: the invariant, and who is known afterwards.

NoneNew == limit' = limit /\ \A m, q \in Node : Known(m, q)' => Known(m, q)

Step == IInv' /\ NoneNew

\* A step that touches neither connections nor history.
LEMMA LinksStep ==
    ASSUME IInv, conns' = conns, up' = up, owed' = owed, remoteUp' = remoteUp,
           links' \in LinkTable, game' \in [Node -> GameType], Counters', limit' = limit
    PROVE  Step
<1>1. TypeOK'
  <2>1. /\ (conns \in ConnTable)' /\ (links \in LinkTable)' /\ (game \in [Node -> GameType])'
        /\ History'
    BY TypeParts DEF IInv, History
  <2> QED
    BY <2>1, TypeParts DEF TypeOK, ConnTable, LinkTable, RowType, GameType, Counters,
                           History, IntTable
<1>2. CallbacksMatch'
  BY DEF IInv, CallbacksMatch, Connected, Connecting
<1>3. NoneNew
  BY DEF NoneNew, Known
<1> QED
  BY <1>1, <1>2, <1>3 DEF Step, IInv

\* The connection of n with p becomes c, and the callbacks are made.
CellChanged(n, p, c) ==
    /\ conns' = [conns EXCEPT ![n][p] = c] /\ c \in ConnType
    /\ up' \in IntTable /\ owed' \in IntTable /\ remoteUp' \in IntTable
    /\ up'[n][p] = IF c.state = "Connected" THEN 1 ELSE 0
    /\ owed'[n][p] = IF c.state = "Connecting" THEN 1 ELSE 0
    /\ \A m, q \in Node : m # n \/ q # p => up'[m][q] = up[m][q] /\ owed'[m][q] = owed[m][q]

LEMMA CellStep ==
    ASSUME IInv, NEW n \in Node, NEW p \in Node, NEW c, CellChanged(n, p, c),
           links' \in LinkTable, game' \in [Node -> GameType], Counters'
    PROVE  /\ IInv'
           /\ \A m, q \in Node : (m # n \/ q # p) => (Known(m, q)' <=> Known(m, q))
           /\ Known(n, p)' <=> c.state # "none"
<1>1. conns \in ConnTable
  BY TypeParts DEF IInv
<1>2. /\ conns' \in ConnTable /\ conns'[n][p] = c
      /\ \A m, q \in Node : m # n \/ q # p => conns'[m][q] = conns[m][q]
  BY <1>1, TableUpdate DEF CellChanged, ConnTable
<1>3. TypeOK'
  BY <1>2 DEF TypeOK, ConnTable, LinkTable, RowType, GameType, Counters, IntTable, CellChanged
<1>4. CallbacksMatch'
  <2> SUFFICES ASSUME NEW m \in Node, NEW q \in Node
               PROVE  /\ up'[m][q] = IF conns'[m][q].state = "Connected" THEN 1 ELSE 0
                      /\ owed'[m][q] = IF conns'[m][q].state = "Connecting" THEN 1 ELSE 0
    BY DEF CallbacksMatch, Connected, Connecting
  <2>1. CASE m = n /\ q = p
    BY <1>2, <2>1 DEF CellChanged
  <2>2. CASE m # n \/ q # p
    BY <1>2, <2>2 DEF CellChanged, IInv, CallbacksMatch, Connected, Connecting
  <2> QED
    BY <2>1, <2>2
<1> QED
  BY <1>2, <1>3, <1>4 DEF IInv, Known

\* The same for a connection that is known already.
LEMMA KnownCellStep ==
    ASSUME IInv, NEW n \in Node, NEW p \in Node, NEW c, CellChanged(n, p, c),
           links' \in LinkTable, game' \in [Node -> GameType], Counters', limit' = limit,
           c.state # "none" => Known(n, p)
    PROVE  Step
<1>1. /\ IInv'
      /\ \A m, q \in Node : (m # n \/ q # p) => (Known(m, q)' <=> Known(m, q))
      /\ Known(n, p)' <=> c.state # "none"
  BY CellStep
<1>2. NoneNew
  BY <1>1 DEF NoneNew
<1> QED
  BY <1>1, <1>2 DEF Step

-----------------------------------------------------------------------------
\* Handlers of messages.

LEMMA PolledFacts ==
    ASSUME IInv, NEW n \in Node, NEW types, NEW known, Polls(n, types, known)
    PROVE  /\ Peer(n) \in Node /\ Popped(n) \in RowType
           /\ Polled(n) \in Message /\ Polled(n).type \in types
           /\ game' \in [Node -> GameType] /\ Counters' /\ limit' = limit
<1>1. /\ conns \in ConnTable /\ links \in LinkTable /\ game \in [Node -> GameType]
      /\ Counters /\ History
  BY TypeParts DEF IInv
<1>2. game[n].at = "polling" /\ game[n] \in GameType
  BY <1>1 DEF Polls
<1>3. Peer(n) \in Node
  BY <1>2 DEF Peer, GameType
<1>4. links[n] \in RowType /\ links[n][Peer(n)] \in LinkType
  BY <1>1, <1>3 DEF LinkTable, RowType
<1>5. links[n][Peer(n)].queue \in Seq(Message) /\ links[n][Peer(n)].queue # <<>>
  BY <1>4 DEF LinkType, Polls
<1> DEFINE tail == Tail(links[n][Peer(n)].queue)
           new == [links[n][Peer(n)] EXCEPT !.queue = tail]
<1>6. tail \in Seq(Message) /\ Polled(n) \in Message
  BY <1>5, HeadTailProperties DEF Polled
<1> HIDE DEF tail
<1>7. new \in LinkType
  BY <1>4, <1>6 DEF LinkType
<1>8. Popped(n) = [links[n] EXCEPT ![Peer(n)] = new]
  BY DEF Popped, tail
<1> HIDE DEF new
<1>9. Popped(n) \in RowType
  BY <1>3, <1>4, <1>7, <1>8 DEF RowType
<1>10. Polled(n).type \in types /\ game' = game /\ Counters' /\ limit' = limit
  BY <1>1 DEF Polls, Counters
<1> QED
  BY <1>1, <1>3, <1>6, <1>9, <1>10

LEMMA RefusedType ==
    ASSUME NEW n \in Node, Peer(n) \in Node, Popped(n) \in RowType, NEW type,
           Msg(type) \in Message
    PROVE  Refused(n, type) \in RowType
  BY SentType, MarkedType DEF Refused

LEMMA RefusalsKeep ==
    ASSUME IInv, NEW n \in Node, RefuseUnknown(n) \/ RefuseConnect(n) \/ RecvOther(n)
    PROVE  Step
<1>1. PICK types, known : Polls(n, types, known)
  BY DEF RefuseUnknown, RefuseConnect, RecvOther
<1>2. /\ Peer(n) \in Node /\ Popped(n) \in RowType
      /\ game' \in [Node -> GameType] /\ Counters' /\ limit' = limit
  BY <1>1, PolledFacts
<1>3. conns' = conns /\ up' = up /\ owed' = owed /\ remoteUp' = remoteUp
  BY DEF RefuseUnknown, RefuseConnect, RecvOther, history
<1>4. PICK type \in {"InvalidConnectPacket", "AlreadyConnected", "IncorrectPassword",
                     "MaxConnectionsReached"} :
         RowTo(n, Refused(n, type)) \/ RowTo(n, Popped(n))
  BY DEF RefuseUnknown, RefuseConnect, RecvOther
<1>5. Refused(n, type) \in RowType
  BY <1>2, RefusedType, MessageTypes
<1>6. links' \in LinkTable
  BY <1>2, <1>4, <1>5, RowUpdate, TypeParts DEF IInv
<1> QED
  BY <1>2, <1>3, <1>6, LinksStep

\* One connection, before a step.
LEMMA CellFacts ==
    ASSUME IInv, NEW n \in Node, NEW p \in Node
    PROVE  /\ conns[n][p] \in ConnType /\ conns \in ConnTable
           /\ up \in IntTable /\ owed \in IntTable /\ remoteUp \in IntTable
           /\ links \in LinkTable /\ links[n] \in RowType /\ links[n][p] \in LinkType
           /\ game \in [Node -> GameType] /\ Counters
           /\ up[n][p] = IF conns[n][p].state = "Connected" THEN 1 ELSE 0
           /\ owed[n][p] = IF conns[n][p].state = "Connecting" THEN 1 ELSE 0
<1>1. /\ conns \in ConnTable /\ links \in LinkTable /\ game \in [Node -> GameType]
      /\ Counters /\ History
  BY TypeParts DEF IInv
<1>2. /\ up[n][p] = IF Connected(n, p) THEN 1 ELSE 0
      /\ owed[n][p] = IF Connecting(n, p) THEN 1 ELSE 0
  BY DEF IInv, CallbacksMatch
<1> QED
  BY <1>1, <1>2 DEF ConnTable, History, LinkTable, RowType, Connected, Connecting

\* One field of a connection changes: its state.
LEMMA NewState ==
    ASSUME NEW c \in ConnType, NEW s \in {"Connected", "Refused"}
    PROVE  [c EXCEPT !.state = s] \in ConnType /\ [c EXCEPT !.state = s].state = s
  BY DEF ConnType

LEMMA EndedType ==
    ASSUME NEW s \in {"InitiateTimedOut", "ConnectionTimedOut", "Disconnected"}
    PROVE  Ended(s) \in ConnType /\ Ended(s).state = s
  BY DEF Ended, ConnType

\* A connection that is accepted was not known, and the limit not reached.
LEMMA AcceptConnectKeeps ==
    ASSUME IInv, NEW n \in Node, AcceptConnect(n)
    PROVE  /\ IInv' /\ limit' = limit /\ Peer(n) \in Node
           /\ NumConnections(n) < limit[n]
           /\ \A m, q \in Node : m # n \/ q # Peer(n) => (Known(m, q)' <=> Known(m, q))
<1> DEFINE p == Peer(n)
           c == [state |-> "Connected", waiting |-> FALSE, link |-> "link"]
<1>1. /\ p \in Node /\ Popped(n) \in RowType
      /\ game' \in [Node -> GameType] /\ Counters' /\ limit' = limit
  BY PolledFacts DEF AcceptConnect
<1>2. /\ ~Known(n, p) /\ NumConnections(n) < limit[n]
      /\ conns' = [conns EXCEPT ![n][p] = c]
      /\ RowTo(n, Relayed(n, Sent(Popped(n), p, Msg("ConnectAccept")), p, RemoteConnected(p)))
      /\ ConnectedCallback(n, p) /\ owed' = owed /\ remoteUp' = remoteUp
  BY DEF AcceptConnect, SetConn
<1> HIDE DEF p
<1>3. links' \in LinkTable
  <2>1. Sent(Popped(n), p, Msg("ConnectAccept")) \in RowType
    BY <1>1, SentType, MessageTypes
  <2>2. Relayed(n, Sent(Popped(n), p, Msg("ConnectAccept")), p, RemoteConnected(p)) \in RowType
    BY <1>1, <2>1, RelayedType, MessageTypes
  <2>3. links \in LinkTable
    BY <1>1, CellFacts
  <2> QED
    BY <1>2, <2>2, <2>3, RowUpdate
<1>4. up[n][p] = 0 /\ owed[n][p] = 0 /\ up \in IntTable /\ owed \in IntTable /\ remoteUp \in IntTable
  BY <1>1, <1>2, CellFacts DEF Known
<1>5. /\ up' \in IntTable /\ up'[n][p] = 1
      /\ \A m, q \in Node : m # n \/ q # p => up'[m][q] = up[m][q]
  BY <1>1, <1>2, <1>4, ConnectedFacts
<1>6. CellChanged(n, p, c)
  <2>1. c \in ConnType /\ c.state = "Connected"
    BY DEF ConnType
  <2> HIDE DEF c
  <2> QED
    BY <1>2, <1>4, <1>5, <2>1 DEF CellChanged
<1> HIDE DEF c
<1>7. IInv' /\ \A m, q \in Node : m # n \/ q # p => (Known(m, q)' <=> Known(m, q))
  BY <1>1, <1>3, <1>6, CellStep
<1> QED
  BY <1>1, <1>2, <1>7 DEF p

LEMMA RecvConnectAcceptKeeps ==
    ASSUME IInv, NEW n \in Node, RecvConnectAccept(n)
    PROVE  Step
<1> DEFINE p == Peer(n)
           c == [conns[n][p] EXCEPT !.state = "Connected"]
<1>1. /\ p \in Node /\ Popped(n) \in RowType
      /\ game' \in [Node -> GameType] /\ Counters' /\ limit' = limit
  BY PolledFacts DEF RecvConnectAccept
<1>2. /\ conns[n][p] \in ConnType /\ up \in IntTable /\ owed \in IntTable
      /\ remoteUp \in IntTable /\ links \in LinkTable
      /\ up[n][p] = IF conns[n][p].state = "Connected" THEN 1 ELSE 0
      /\ owed[n][p] = IF conns[n][p].state = "Connecting" THEN 1 ELSE 0
  BY <1>1, CellFacts
<1>3. links' \in LinkTable
  BY <1>1, <1>2, RowUpdate DEF RecvConnectAccept
<1>4. CASE Connecting(n, p)
  <2>1. /\ conns' = [conns EXCEPT ![n][p] = c]
        /\ ConnectedCallback(n, p) /\ ResultCallback(n, p)
        /\ remoteUp' = Forgotten(n)
    BY <1>4 DEF RecvConnectAccept
  <2> HIDE DEF p
  <2>2. c \in ConnType /\ c.state = "Connected"
    BY <1>2, NewState
  <2>3. /\ up' \in IntTable /\ up'[n][p] = 1
        /\ \A m, q \in Node : m # n \/ q # p => up'[m][q] = up[m][q]
    BY <1>1, <1>2, <1>4, <2>1, ConnectedFacts DEF Connecting
  <2>4. /\ owed' \in IntTable /\ owed'[n][p] = 0
        /\ \A m, q \in Node : m # n \/ q # p => owed'[m][q] = owed[m][q]
    BY <1>1, <1>2, <1>4, <2>1, ResultFacts DEF Connecting
  <2>5. remoteUp' \in IntTable
    BY <1>2, <2>1, ForgottenType
  <2> HIDE DEF c
  <2>6. CellChanged(n, p, c)
    BY <1>2, <2>1, <2>2, <2>3, <2>4, <2>5 DEF CellChanged
  <2>7. Known(n, p)
    BY <1>4 DEF Known, Connecting
  <2> QED
    BY <1>1, <1>3, <2>6, <2>7, KnownCellStep
<1>5. CASE ~Connecting(n, p)
  <2>1. conns' = conns /\ up' = up /\ owed' = owed /\ remoteUp' = remoteUp
    BY <1>5 DEF RecvConnectAccept, history
  <2> QED
    BY <1>1, <1>3, <2>1, LinksStep
<1> QED
  BY <1>4, <1>5

LEMMA RecvRefusalKeeps ==
    ASSUME IInv, NEW n \in Node, RecvRefusal(n)
    PROVE  Step
<1> DEFINE p == Peer(n)
           c == [conns[n][p] EXCEPT !.state = "Refused"]
<1>1. /\ p \in Node /\ Popped(n) \in RowType
      /\ game' \in [Node -> GameType] /\ Counters' /\ limit' = limit
  BY PolledFacts DEF RecvRefusal
<1>2. /\ conns[n][p] \in ConnType /\ up \in IntTable /\ owed \in IntTable
      /\ remoteUp \in IntTable /\ links \in LinkTable
      /\ up[n][p] = IF conns[n][p].state = "Connected" THEN 1 ELSE 0
      /\ owed[n][p] = IF conns[n][p].state = "Connecting" THEN 1 ELSE 0
  BY <1>1, CellFacts
<1>3. links' \in LinkTable /\ remoteUp' = remoteUp /\ up' = up
  BY <1>1, <1>2, RowUpdate DEF RecvRefusal
<1>4. CASE Connecting(n, p)
  <2>1. conns' = [conns EXCEPT ![n][p] = c] /\ ResultCallback(n, p)
    BY <1>4 DEF RecvRefusal
  <2> HIDE DEF p
  <2>2. c \in ConnType /\ c.state = "Refused"
    BY <1>2, NewState
  <2>3. /\ owed' \in IntTable /\ owed'[n][p] = 0 /\ up[n][p] = 0
        /\ \A m, q \in Node : m # n \/ q # p => owed'[m][q] = owed[m][q]
    BY <1>1, <1>2, <1>4, <2>1, ResultFacts DEF Connecting
  <2> HIDE DEF c
  <2>4. CellChanged(n, p, c)
    BY <1>2, <1>3, <2>1, <2>2, <2>3 DEF CellChanged
  <2>5. Known(n, p)
    BY <1>4 DEF Known, Connecting
  <2> QED
    BY <1>1, <1>3, <2>4, <2>5, KnownCellStep
<1>5. CASE ~Connecting(n, p)
  <2>1. conns' = conns /\ owed' = owed
    BY <1>5 DEF RecvRefusal
  <2> QED
    BY <1>1, <1>3, <2>1, LinksStep
<1> QED
  BY <1>4, <1>5

\* A connection that was connected ends, and is reported.
LEMMA EndsConnected ==
    ASSUME IInv, NEW n \in Node, NEW p \in Node, Connected(n, p),
           NEW s \in {"InitiateTimedOut", "ConnectionTimedOut", "Disconnected"},
           SetConn(n, p, Ended(s)), DisconnectedCallback(n, {p}), owed' = owed
    PROVE  CellChanged(n, p, Ended(s)) /\ Known(n, p)
<1>1. /\ up \in IntTable /\ owed \in IntTable /\ remoteUp \in IntTable
      /\ up[n][p] = IF conns[n][p].state = "Connected" THEN 1 ELSE 0
      /\ owed[n][p] = IF conns[n][p].state = "Connecting" THEN 1 ELSE 0
  BY CellFacts
<1>2. up[n][p] = 1 /\ owed[n][p] = 0 /\ Known(n, p)
  BY <1>1 DEF Connected, Known
<1>3. /\ up' \in IntTable /\ remoteUp' \in IntTable
      /\ \A m, q \in Node : up'[m][q] = IF m = n /\ q \in {p} THEN up[m][q] - 1 ELSE up[m][q]
  BY <1>1, DisconnectedFacts
<1>4. up'[n][p] = 0 /\ \A m, q \in Node : m # n \/ q # p => up'[m][q] = up[m][q]
  BY <1>2, <1>3
<1>5. Ended(s) \in ConnType /\ Ended(s).state = s
  BY EndedType
<1> QED
  BY <1>1, <1>2, <1>3, <1>4, <1>5 DEF CellChanged, SetConn

LEMMA RecvDisconnectKeeps ==
    ASSUME IInv, NEW n \in Node, RecvDisconnect(n)
    PROVE  Step
<1> DEFINE p == Peer(n)
           row == Marked(Popped(n), Holding(n, {p}))
<1>1. /\ p \in Node /\ Popped(n) \in RowType
      /\ game' \in [Node -> GameType] /\ Counters' /\ limit' = limit
  BY PolledFacts DEF RecvDisconnect
<1>2. links \in LinkTable /\ owed' = owed
  BY <1>1, CellFacts DEF RecvDisconnect
<1>3. CASE Connected(n, p)
  <2>1. /\ SetConn(n, p, Ended("Disconnected")) /\ DisconnectedCallback(n, {p})
        /\ RowTo(n, Relayed(n, row, p, RemoteDisconnected(p)))
    BY <1>3 DEF RecvDisconnect
  <2>2. Relayed(n, row, p, RemoteDisconnected(p)) \in RowType
    BY <1>1, MarkedType, RelayedType, MessageTypes
  <2> HIDE DEF row, p
  <2>3. links' \in LinkTable
    BY <1>2, <2>1, <2>2, RowUpdate
  <2>4. CellChanged(n, p, Ended("Disconnected")) /\ Known(n, p)
    BY <1>1, <1>2, <1>3, <2>1, EndsConnected
  <2> QED
    BY <1>1, <2>3, <2>4, KnownCellStep
<1>4. CASE ~Connected(n, p)
  <2>1. conns' = conns /\ up' = up /\ remoteUp' = remoteUp /\ RowTo(n, Popped(n))
    BY <1>4 DEF RecvDisconnect
  <2>2. links' \in LinkTable
    BY <1>1, <1>2, <2>1, RowUpdate
  <2> QED
    BY <1>1, <1>2, <2>1, <2>2, LinksStep
<1> QED
  BY <1>3, <1>4

\* Only the count of relayed callbacks changes.
LEMMA RecvRemoteKeeps ==
    ASSUME IInv, NEW n \in Node, RecvRemote(n)
    PROVE  Step
<1>1. /\ Peer(n) \in Node /\ Popped(n) \in RowType /\ Polled(n) \in Message
      /\ Polled(n).type \in {"RemoteConnected", "RemoteDisconnected"}
      /\ game' \in [Node -> GameType] /\ Counters' /\ limit' = limit
  BY PolledFacts DEF RecvRemote
<1> DEFINE e == Polled(n).peer
           v == IF Polled(n).type = "RemoteConnected" THEN remoteUp[n][e] + 1
                ELSE remoteUp[n][e] - 1
<1>2. e \in Node
  BY <1>1 DEF Message, RefusalTypes
<1>3. /\ links \in LinkTable /\ remoteUp \in IntTable /\ conns \in ConnTable
      /\ up \in IntTable /\ owed \in IntTable
  BY <1>1, CellFacts
<1>4. links' \in LinkTable
  BY <1>1, <1>3, RowUpdate DEF RecvRemote
<1>5. remoteUp' \in IntTable
  <2>1. remoteUp' = [remoteUp EXCEPT ![n][e] = v]
    BY DEF RecvRemote
  <2>2. v \in Int
    BY <1>2, <1>3 DEF IntTable
  <2> HIDE DEF v, e
  <2> QED
    BY <1>2, <1>3, <2>1, <2>2, TableUpdate DEF IntTable
<1>6. conns' = conns /\ up' = up /\ owed' = owed
  BY DEF RecvRemote
<1>7. TypeOK'
  BY <1>1, <1>3, <1>4, <1>5, <1>6
     DEF TypeOK, ConnTable, LinkTable, RowType, GameType, Counters, IntTable
<1>8. CallbacksMatch' /\ NoneNew
  BY <1>1, <1>6 DEF IInv, CallbacksMatch, NoneNew, Known, Connected, Connecting
<1> QED
  BY <1>7, <1>8 DEF Step, IInv

\* Only the waiting flag of a connection changes, and links.
LEMMA WaitingStep ==
    ASSUME IInv, NEW n \in Node, NEW p \in Node, NEW b \in BOOLEAN,
           conns' = [conns EXCEPT ![n][p].waiting = b],
           up' = up, owed' = owed, remoteUp' = remoteUp,
           links' \in LinkTable, game' \in [Node -> GameType], Counters', limit' = limit
    PROVE  Step
<1> DEFINE c == [conns[n][p] EXCEPT !.waiting = b]
<1>1. /\ conns[n][p] \in ConnType /\ up \in IntTable /\ owed \in IntTable
      /\ remoteUp \in IntTable
      /\ up[n][p] = IF conns[n][p].state = "Connected" THEN 1 ELSE 0
      /\ owed[n][p] = IF conns[n][p].state = "Connecting" THEN 1 ELSE 0
  BY CellFacts
<1>2. c \in ConnType /\ c.state = conns[n][p].state
  BY <1>1 DEF ConnType
<1>3. conns' = [conns EXCEPT ![n][p] = c]
  OBVIOUS
<1> HIDE DEF c
<1>4. CellChanged(n, p, c) /\ (c.state # "none" => Known(n, p))
  BY <1>1, <1>2, <1>3 DEF CellChanged, Known
<1> QED
  BY <1>4, KnownCellStep

LEMMA KeepAlivesKeep ==
    ASSUME IInv, NEW n \in Node, RecvKeepAliveRequest(n) \/ RecvKeepAliveAnswer(n)
    PROVE  Step
<1>1. PICK types, known : Polls(n, types, known)
  BY DEF RecvKeepAliveRequest, RecvKeepAliveAnswer
<1>2. /\ Peer(n) \in Node /\ Popped(n) \in RowType
      /\ game' \in [Node -> GameType] /\ Counters' /\ limit' = limit
  BY <1>1, PolledFacts
<1>3. up' = up /\ owed' = owed /\ remoteUp' = remoteUp
  BY DEF RecvKeepAliveRequest, RecvKeepAliveAnswer, history
<1>4. links' \in LinkTable
  <2>1. SentBy(n, Popped(n), Peer(n), Msg("KeepAliveAnswer")) \in RowType
    BY <1>2, SentByType, MessageTypes
  <2>2. \/ RowTo(n, Popped(n))
        \/ RowTo(n, SentBy(n, Popped(n), Peer(n), Msg("KeepAliveAnswer")))
    BY DEF RecvKeepAliveRequest, RecvKeepAliveAnswer
  <2> QED
    BY <1>2, <2>1, <2>2, RowUpdate, CellFacts
<1>5. conns' = conns \/ conns' = [conns EXCEPT ![n][Peer(n)].waiting = FALSE]
  BY DEF RecvKeepAliveRequest, RecvKeepAliveAnswer
<1> QED
  BY <1>2, <1>3, <1>4, <1>5, LinksStep, WaitingStep

-----------------------------------------------------------------------------
\* The rest of update.

LEMMA ProcessKeeps ==
    ASSUME IInv, NEW n \in Node, NEW p \in Node, BeginProcess(n, p) \/ EndProcess(n)
    PROVE  Step
<1>1. /\ game \in [Node -> GameType] /\ Counters /\ links \in LinkTable
  BY CellFacts
<1>2. /\ conns' = conns /\ up' = up /\ owed' = owed /\ remoteUp' = remoteUp
      /\ links' = links /\ limit' = limit /\ dialed' = dialed /\ alive' = alive
  BY DEF BeginProcess, EndProcess, history
<1>3. PICK g \in GameType : game' = [game EXCEPT ![n] = g]
  <2>1. Known(n, p) \in BOOLEAN
    BY DEF Known
  <2>2. CASE BeginProcess(n, p)
    BY <2>1, <2>2 DEF BeginProcess, GameType
  <2>3. CASE EndProcess(n)
    BY <2>3 DEF EndProcess, GameType
  <2> QED
    BY <2>2, <2>3
<1>4. game' \in [Node -> GameType] /\ Counters'
  BY <1>1, <1>2, <1>3 DEF Counters
<1> QED
  BY <1>1, <1>2, <1>4, LinksStep

LEMMA BeginUpdateKeeps ==
    ASSUME IInv, NEW n \in Node, NEW due \in SUBSET Node, BeginUpdate(n, due)
    PROVE  Step
<1>1. /\ game \in [Node -> GameType] /\ Counters /\ links \in LinkTable
  BY CellFacts
<1>2. /\ conns' = conns /\ up' = up /\ owed' = owed /\ remoteUp' = remoteUp
      /\ links' = links /\ limit' = limit /\ dialed' = dialed /\ alive' = alive
  BY DEF BeginUpdate, history
<1> DEFINE todo == due \cup Dead(n)
           g == IF todo = {} THEN [at |-> "api"] ELSE [at |-> "timers", todo |-> todo]
<1>3. game' = [game EXCEPT ![n] = g]
  BY DEF BeginUpdate
<1>4. todo \in SUBSET Node
  BY DEF Dead
<1> HIDE DEF todo
<1>5. g \in GameType
  BY <1>4 DEF GameType
<1> HIDE DEF g
<1>6. game' \in [Node -> GameType] /\ Counters'
  BY <1>1, <1>2, <1>3, <1>5 DEF Counters
<1> QED
  BY <1>1, <1>2, <1>6, LinksStep

LEMMA UpdatesFacts ==
    ASSUME IInv, NEW n \in Node, NEW p \in Node, Updates(n, p)
    PROVE  game' \in [Node -> GameType] /\ Counters' /\ limit' = limit
<1>1. game \in [Node -> GameType] /\ Counters
  BY CellFacts
<1> DEFINE todo == game[n].todo \ {p}
           g == IF todo = {} THEN [at |-> "api"] ELSE [game[n] EXCEPT !.todo = todo]
<1>2. game[n].at = "timers" /\ game[n] \in GameType /\ game' = [game EXCEPT ![n] = g]
  BY <1>1 DEF Updates
<1>3. game[n] \in [at : {"timers"}, todo : SUBSET Node]
  BY <1>2 DEF GameType
<1>4. todo \in SUBSET Node
  BY <1>3
<1> HIDE DEF todo
<1>5. g \in GameType
  BY <1>3, <1>4 DEF GameType
<1> HIDE DEF g
<1>6. game' \in [Node -> GameType]
  BY <1>1, <1>2, <1>5
<1> QED
  BY <1>1, <1>6 DEF Updates, Counters

LEMMA UpdateDeadKeeps ==
    ASSUME IInv, NEW n \in Node, NEW p \in Node, UpdateDead(n, p)
    PROVE  Step
<1>1. game' \in [Node -> GameType] /\ Counters' /\ limit' = limit
  BY UpdatesFacts DEF UpdateDead
<1>2. /\ links \in LinkTable /\ links[n] \in RowType /\ up \in IntTable /\ owed \in IntTable
      /\ remoteUp \in IntTable
      /\ up[n][p] = IF conns[n][p].state = "Connected" THEN 1 ELSE 0
      /\ owed[n][p] = IF conns[n][p].state = "Connecting" THEN 1 ELSE 0
  BY CellFacts
<1>3. /\ SetConn(n, p, NoConn) /\ RowTo(n, Marked(links[n], Holding(n, {p})))
      /\ up' = up /\ owed' = owed /\ remoteUp' = remoteUp
      /\ ~Connected(n, p) /\ ~Connecting(n, p)
  BY DEF UpdateDead, history
<1>4. links' \in LinkTable
  BY <1>2, <1>3, MarkedType, RowUpdate
<1>5. NoConn \in ConnType /\ NoConn.state = "none"
  BY DEF NoConn, ConnType
<1>6. up[n][p] = 0 /\ owed[n][p] = 0
  BY <1>2, <1>3 DEF Connected, Connecting
<1>7. CellChanged(n, p, NoConn)
  BY <1>2, <1>3, <1>5, <1>6 DEF CellChanged, SetConn
<1> QED
  BY <1>1, <1>4, <1>5, <1>7, KnownCellStep

LEMMA UpdateConnectingKeeps ==
    ASSUME IInv, NEW n \in Node, NEW p \in Node, UpdateConnecting(n, p)
    PROVE  Step
<1>1. game' \in [Node -> GameType] /\ Counters' /\ limit' = limit
  BY UpdatesFacts DEF UpdateConnecting
<1>2. /\ links \in LinkTable /\ links[n] \in RowType /\ up \in IntTable /\ owed \in IntTable
      /\ remoteUp \in IntTable
      /\ up[n][p] = IF conns[n][p].state = "Connected" THEN 1 ELSE 0
      /\ owed[n][p] = IF conns[n][p].state = "Connecting" THEN 1 ELSE 0
  BY CellFacts
<1>3. /\ SetConn(n, p, Ended("InitiateTimedOut")) /\ ResultCallback(n, p)
      /\ RowTo(n, Marked(links[n], Holding(n, {p})))
      /\ up' = up /\ remoteUp' = remoteUp /\ Connecting(n, p)
  BY DEF UpdateConnecting
<1>4. links' \in LinkTable
  BY <1>2, <1>3, MarkedType, RowUpdate
<1>5. /\ Ended("InitiateTimedOut") \in ConnType
      /\ Ended("InitiateTimedOut").state = "InitiateTimedOut"
  BY EndedType
<1>6. up[n][p] = 0 /\ owed[n][p] = 1 /\ Known(n, p)
  BY <1>2, <1>3 DEF Connecting, Known
<1>7. /\ owed' \in IntTable /\ owed'[n][p] = 0
      /\ \A m, q \in Node : m # n \/ q # p => owed'[m][q] = owed[m][q]
  BY <1>2, <1>3, <1>6, ResultFacts
<1>8. CellChanged(n, p, Ended("InitiateTimedOut"))
  BY <1>2, <1>3, <1>5, <1>6, <1>7 DEF CellChanged, SetConn
<1> QED
  BY <1>1, <1>4, <1>6, <1>8, KnownCellStep

LEMMA UpdateKeepAliveKeeps ==
    ASSUME IInv, NEW n \in Node, NEW p \in Node,
           UpdateKeepAliveRequest(n, p) \/ UpdateKeepAliveLost(n, p)
    PROVE  Step
<1>1. game' \in [Node -> GameType] /\ Counters' /\ limit' = limit
  BY UpdatesFacts DEF UpdateKeepAliveRequest, UpdateKeepAliveLost
<1>2. links \in LinkTable /\ links[n] \in RowType
  BY CellFacts
<1>3. CASE UpdateKeepAliveRequest(n, p)
  <2>1. /\ conns' = [conns EXCEPT ![n][p].waiting = TRUE]
        /\ RowTo(n, SentBy(n, links[n], p, Msg("KeepAliveRequest")))
        /\ up' = up /\ owed' = owed /\ remoteUp' = remoteUp
    BY <1>3 DEF UpdateKeepAliveRequest, history
  <2>2. SentBy(n, links[n], p, Msg("KeepAliveRequest")) \in RowType
    BY <1>2, SentByType, MessageTypes
  <2>3. links' \in LinkTable
    BY <1>2, <2>1, <2>2, RowUpdate
  <2> QED
    BY <1>1, <2>1, <2>3, WaitingStep
<1>4. CASE UpdateKeepAliveLost(n, p)
  <2> DEFINE row == Marked(links[n], Holding(n, {p}))
  <2>1. /\ Connected(n, p) /\ SetConn(n, p, Ended("ConnectionTimedOut"))
        /\ DisconnectedCallback(n, {p}) /\ owed' = owed
        /\ RowTo(n, Relayed(n, row, p, RemoteDisconnected(p)))
    BY <1>4 DEF UpdateKeepAliveLost
  <2>2. Relayed(n, row, p, RemoteDisconnected(p)) \in RowType
    BY <1>2, MarkedType, RelayedType, MessageTypes
  <2> HIDE DEF row
  <2>3. links' \in LinkTable
    BY <1>2, <2>1, <2>2, RowUpdate
  <2>4. CellChanged(n, p, Ended("ConnectionTimedOut")) /\ Known(n, p)
    BY <2>1, EndsConnected
  <2> QED
    BY <1>1, <2>3, <2>4, KnownCellStep
<1> QED
  BY <1>3, <1>4

-----------------------------------------------------------------------------
\* Calls of the application.

LEMMA NewLinkType ==
    ASSUME NEW id \in Node \X Nat
    PROVE  NewLink(id) \in LinkType
<1>1. NoLink \in LinkType
  <2>1. <<>> \in Seq(Message)
    OBVIOUS
  <2> QED
    BY <2>1 DEF NoLink, LinkType
<1>2. [NoLink EXCEPT !.phase = "open"] \in LinkType
  BY <1>1 DEF LinkType
<1> DEFINE l == [NoLink EXCEPT !.phase = "open"]
<1>3. [l EXCEPT !.id = id] \in LinkType
  <2> HIDE DEF l
  <2> QED
    BY <1>2 DEF LinkType, l
<1>4. NewLink(id) = [l EXCEPT !.id = id]
  BY DEF NewLink
<1> QED
  BY <1>3, <1>4

\* A new connection, in state Idle or Connecting.
LEMMA ConnectKeeps ==
    ASSUME IInv, NEW n \in Node, NEW p \in Node, NEW request \in Requests,
           Connect(n, p, request)
    PROVE  /\ IInv' /\ limit' = limit
           /\ \A m, q \in Node : m # n \/ q # p => (Known(m, q)' <=> Known(m, q))
<1>1. /\ links \in LinkTable /\ game \in [Node -> GameType] /\ Counters
      /\ up \in IntTable /\ owed \in IntTable /\ remoteUp \in IntTable
      /\ up[n][p] = IF conns[n][p].state = "Connected" THEN 1 ELSE 0
      /\ owed[n][p] = IF conns[n][p].state = "Connecting" THEN 1 ELSE 0
  BY CellFacts
<1>2. /\ dialed[n] < Dials[n] /\ ~Known(n, p) /\ dialed' = [dialed EXCEPT ![n] = @ + 1]
      /\ game' = game /\ limit' = limit /\ alive' = alive /\ up' = up /\ remoteUp' = remoteUp
  BY DEF Connect
<1>3. up[n][p] = 0 /\ owed[n][p] = 0
  BY <1>1, <1>2 DEF Known
<1>4. Counters'
  <2>1. dialed \in [Node -> Nat] /\ Dials \in [Node -> Nat]
    BY <1>1, ConnectionsAssumption DEF Counters
  <2>2. dialed' \in [Node -> Nat] /\ \A m \in Node : dialed'[m] <= Dials[m]
    BY <1>1, <1>2, <2>1 DEF Counters
  <2> QED
    BY <1>1, <1>2, <2>2 DEF Counters
<1> DEFINE id == <<n, dialed[n] + 1>>
           link == NewLink(id)
           out == <<ConnectRequest(request)>>
<1>5. link \in LinkType
  <2>1. id \in Node \X Nat
    BY <1>1 DEF Counters
  <2> HIDE DEF id
  <2> QED
    BY <2>1, NewLinkType
<1>6. [link EXCEPT !.out = out] \in LinkType
  <2>1. out \in Seq(Message)
    BY MessageTypes
  <2> HIDE DEF out, link
  <2> QED
    BY <1>5, <2>1 DEF LinkType
<1>7. PICK l \in LinkType, c \in ConnType :
         /\ links' = [links EXCEPT ![n][p] = l] /\ conns' = [conns EXCEPT ![n][p] = c]
         /\ \/ c.state = "Idle" /\ owed' = owed
            \/ c.state = "Connecting" /\ owed' = [owed EXCEPT ![n][p] = owed[n][p] + 1]
  <2>1. CASE request = "none"
    <3> DEFINE c == [state |-> "Idle", waiting |-> FALSE, link |-> "link"]
    <3>1. /\ links' = [links EXCEPT ![n][p] = link] /\ conns' = [conns EXCEPT ![n][p] = c]
          /\ owed' = owed
      BY <2>1 DEF Connect, SetConn
    <3>2. c \in ConnType /\ c.state = "Idle"
      BY DEF ConnType
    <3> HIDE DEF link, c
    <3> QED
      BY <1>5, <3>1, <3>2
  <2>2. CASE request # "none"
    <3> DEFINE c == [state |-> "Connecting", waiting |-> FALSE, link |-> "link"]
               l == [link EXCEPT !.out = out]
    <3>1. /\ links' = [links EXCEPT ![n][p] = l] /\ conns' = [conns EXCEPT ![n][p] = c]
          /\ owed' = [owed EXCEPT ![n][p] = owed[n][p] + 1]
      BY <2>2 DEF Connect, SetConn
    <3>2. c \in ConnType /\ c.state = "Connecting"
      BY DEF ConnType
    <3> HIDE DEF l, c
    <3>3. l \in LinkType
      BY <1>6 DEF l
    <3> QED
      BY <3>1, <3>2, <3>3
  <2> QED
    BY <2>1, <2>2
<1>8. links' \in LinkTable
  BY <1>1, <1>7, TableUpdate DEF LinkTable, RowType
<1>9. /\ owed' \in IntTable /\ owed'[n][p] = IF c.state = "Connecting" THEN 1 ELSE 0
      /\ \A m, q \in Node : m # n \/ q # p => owed'[m][q] = owed[m][q]
  <2>1. CASE c.state = "Idle" /\ owed' = owed
    BY <1>1, <1>3, <2>1
  <2>2. CASE c.state = "Connecting" /\ owed' = [owed EXCEPT ![n][p] = owed[n][p] + 1]
    <3> DEFINE v == owed[n][p] + 1
    <3>1. v = 1 /\ v \in Int /\ owed' = [owed EXCEPT ![n][p] = v]
      BY <1>3, <2>2
    <3>2. owed \in [Node -> [Node -> Int]]
      BY <1>1 DEF IntTable
    <3> HIDE DEF v
    <3>3. /\ owed' \in [Node -> [Node -> Int]] /\ owed'[n][p] = v
          /\ \A m, q \in Node : m # n \/ q # p => owed'[m][q] = owed[m][q]
      BY <3>1, <3>2, TableUpdate
    <3> QED
      BY <2>2, <3>1, <3>3 DEF IntTable
  <2> QED
    BY <1>7, <2>1, <2>2
<1>10. CellChanged(n, p, c)
  <2>1. up'[n][p] = IF c.state = "Connected" THEN 1 ELSE 0
    BY <1>2, <1>3, <1>7
  <2> QED
    BY <1>1, <1>2, <1>7, <1>9, <2>1 DEF CellChanged
<1>11. game' \in [Node -> GameType]
  BY <1>1, <1>2
<1>12. /\ IInv'
       /\ \A m, q \in Node : m # n \/ q # p => (Known(m, q)' <=> Known(m, q))
  BY <1>4, <1>8, <1>10, <1>11, CellStep
<1> QED
  BY <1>2, <1>12

\* Disconnecting from all of P, each with its callbacks.
LEMMA DisconnectKeeps ==
    ASSUME IInv, NEW n \in Node, NEW P \in SUBSET Node, Disconnect(n, P),
           game' = game, Counters', limit' = limit
    PROVE  Step
<1> DEFINE connected == {p \in P : Connected(n, p)}
           row == [p \in Node |-> IF p \in connected
                                     THEN SentBy(n, links[n], p, Msg("Disconnect"))[p]
                                     ELSE links[n][p]]
           kept == [p \in Node |-> IF p \in P THEN NoConn ELSE conns[n][p]]
           results == [p \in Node |-> IF p \in P /\ Connecting(n, p)
                                         THEN owed[n][p] - 1 ELSE owed[n][p]]
<1>1. /\ conns \in ConnTable /\ links \in LinkTable /\ game \in [Node -> GameType]
      /\ up \in IntTable /\ owed \in IntTable /\ remoteUp \in IntTable /\ links[n] \in RowType
  BY CellFacts
<1>2. /\ RowTo(n, Marked(row, Holding(n, P))) /\ conns' = [conns EXCEPT ![n] = kept]
      /\ DisconnectedCallback(n, connected) /\ owed' = [owed EXCEPT ![n] = results]
  BY DEF Disconnect, RowTo
<1>3. row \in RowType
  <2>1. ASSUME NEW p \in Node
        PROVE  /\ SentBy(n, links[n], p, Msg("Disconnect"))[p] \in LinkType
               /\ links[n][p] \in LinkType
    BY <1>1, SentByType, MessageTypes DEF RowType
  <2> QED
    BY <2>1 DEF RowType
<1> HIDE DEF row
<1>4. links' \in LinkTable
  BY <1>1, <1>2, <1>3, MarkedType, RowUpdate
<1>5. NoConn \in ConnType /\ NoConn.state = "none"
  BY DEF NoConn, ConnType
<1>6. kept \in [Node -> ConnType]
  BY <1>1, <1>5 DEF ConnTable
<1>7. /\ conns' \in ConnTable
      /\ \A m, q \in Node : conns'[m][q] = IF m = n /\ q \in P THEN NoConn ELSE conns[m][q]
  <2>1. conns'[n] = kept /\ \A m \in Node : m # n => conns'[m] = conns[m]
    BY <1>1, <1>2 DEF ConnTable
  <2>2. \A q \in Node : kept[q] = IF q \in P THEN NoConn ELSE conns[n][q]
    OBVIOUS
  <2> HIDE DEF kept
  <2> QED
    BY <1>1, <1>2, <1>6, <2>1, <2>2 DEF ConnTable
<1>8. /\ up' \in IntTable /\ remoteUp' \in IntTable
      /\ \A m, q \in Node : up'[m][q] = IF m = n /\ q \in connected THEN up[m][q] - 1 ELSE up[m][q]
  BY <1>1, <1>2, DisconnectedFacts
<1>9. /\ owed' \in IntTable
      /\ \A m, q \in Node : owed'[m][q] = IF m = n /\ q \in P /\ Connecting(n, q)
                                             THEN owed[m][q] - 1 ELSE owed[m][q]
  <2>1. results \in [Node -> Int]
    BY <1>1 DEF IntTable
  <2>2. \A q \in Node : results[q] = IF q \in P /\ Connecting(n, q)
                                        THEN owed[n][q] - 1 ELSE owed[n][q]
    OBVIOUS
  <2> HIDE DEF results
  <2> QED
    BY <1>1, <1>2, <2>1, <2>2 DEF IntTable
<1>10. CallbacksMatch'
  <2> SUFFICES ASSUME NEW m \in Node, NEW q \in Node
               PROVE  /\ up'[m][q] = IF conns'[m][q].state = "Connected" THEN 1 ELSE 0
                      /\ owed'[m][q] = IF conns'[m][q].state = "Connecting" THEN 1 ELSE 0
    BY DEF CallbacksMatch, Connected, Connecting
  <2>1. /\ up[m][q] = IF conns[m][q].state = "Connected" THEN 1 ELSE 0
        /\ owed[m][q] = IF conns[m][q].state = "Connecting" THEN 1 ELSE 0
    BY CellFacts
  <2>2. CASE m = n /\ q \in P
    <3>1. conns'[m][q].state = "none"
      BY <1>5, <1>7, <2>2
    <3>2. up'[m][q] = 0
      BY <1>8, <2>1, <2>2 DEF Connected
    <3>3. owed'[m][q] = 0
      BY <1>9, <2>1, <2>2 DEF Connecting
    <3> QED
      BY <3>1, <3>2, <3>3
  <2>3. CASE ~(m = n /\ q \in P)
    <3>1. conns'[m][q] = conns[m][q]
      BY <1>7, <2>3
    <3>2. up'[m][q] = up[m][q] /\ owed'[m][q] = owed[m][q]
      BY <1>8, <1>9, <2>3
    <3> QED
      BY <2>1, <3>1, <3>2
  <2> QED
    BY <2>2, <2>3
<1>11. NoneNew
  BY <1>5, <1>7 DEF NoneNew, Known
<1>12. TypeOK'
  BY <1>1, <1>4, <1>7, <1>8, <1>9
     DEF TypeOK, ConnTable, LinkTable, RowType, GameType, Counters, IntTable
<1> QED
  BY <1>10, <1>11, <1>12 DEF Step, IInv

LEMMA CloseKeeps ==
    ASSUME IInv, NEW n \in Node, NEW p \in Node, Close(n, p)
    PROVE  Step
<1>1. Counters /\ Disconnect(n, {p}) /\ game' = game /\ limit' = limit
  BY CellFacts DEF Close
<1>2. Counters'
  BY <1>1 DEF Close, Counters
<1> QED
  BY <1>1, <1>2, DisconnectKeeps

LEMMA QuitKeeps ==
    ASSUME IInv, NEW n \in Node, Quit(n)
    PROVE  Step
<1> DEFINE P == {p \in Node : Known(n, p)}
<1>1. Counters /\ Disconnect(n, P) /\ game' = game /\ limit' = limit
  BY CellFacts DEF Quit
<1>2. Counters'
  BY <1>1 DEF Quit, Counters
<1>3. P \in SUBSET Node
  OBVIOUS
<1> HIDE DEF P
<1> QED
  BY <1>1, <1>2, <1>3, DisconnectKeeps

LEMMA NoLinkType == NoLink \in LinkType
<1>1. <<>> \in Seq(Message)
  OBVIOUS
<1> QED
  BY <1>1 DEF NoLink, LinkType

LEMMA ResetKeeps ==
    ASSUME IInv, NEW n \in Node, Reset(n)
    PROVE  Step
<1>1. links \in LinkTable /\ game \in [Node -> GameType] /\ Counters
  BY CellFacts
<1>2. /\ conns' = conns /\ up' = up /\ owed' = owed /\ remoteUp' = remoteUp
      /\ game' = game /\ limit' = limit /\ dialed' = dialed
      /\ RowTo(n, [p \in Node |-> NoLink])
  BY DEF Reset, history, RowTo
<1>3. [p \in Node |-> NoLink] \in RowType
  BY NoLinkType DEF RowType
<1>4. links' \in LinkTable
  BY <1>1, <1>2, <1>3, RowUpdate
<1>5. Counters'
  BY <1>1 DEF Reset, Counters
<1> QED
  BY <1>1, <1>2, <1>4, <1>5, LinksStep

\* What a step leaves alone that changes links only.
OnlyLinks ==
    /\ conns' = conns /\ game' = game /\ limit' = limit /\ dialed' = dialed
    /\ alive' = alive /\ up' = up /\ owed' = owed /\ remoteUp' = remoteUp

LEMMA OnlyLinksStep ==
    ASSUME IInv, NEW n \in Node, OnlyLinks, links' \in LinkTable
    PROVE  Step
<1>1. game \in [Node -> GameType] /\ Counters
  BY CellFacts
<1>2. game' \in [Node -> GameType] /\ Counters'
  BY <1>1 DEF OnlyLinks, Counters
<1> QED
  BY <1>2, LinksStep DEF OnlyLinks

LEMMA SendRawKeeps ==
    ASSUME IInv, NEW n \in Node, NEW p \in Node, SendRaw(n, p)
    PROVE  Step
<1>1. links \in LinkTable /\ links[n] \in RowType
  BY CellFacts
<1>2. OnlyLinks /\ RowTo(n, Sent(links[n], p, Msg("User")))
  BY DEF SendRaw, OnlyLinks, history, RowTo
<1>3. Sent(links[n], p, Msg("User")) \in RowType
  BY <1>1, SentType, MessageTypes
<1> QED
  BY <1>1, <1>2, <1>3, RowUpdate, OnlyLinksStep

-----------------------------------------------------------------------------
\* The receive thread.

\* A message moves from one end of a link to the other.
LEMMA DeliverKeeps ==
    ASSUME IInv, NEW n \in Node, NEW p \in Node, Deliver(n, p)
    PROVE  Step
<1> DEFINE there == links[n][p]
           here == links[p][n]
           rest == Tail(there.out)
           first == Head(there.out)
           taken == [there EXCEPT !.out = rest, !.acked = TRUE]
           one == <<first>>
           more == Append(here.queue, first)
           new == [NewLink(there.id) EXCEPT !.queue = one, !.heard = TRUE]
           old == [here EXCEPT !.queue = more, !.heard = TRUE]
<1>1. links \in LinkTable /\ there \in LinkType /\ here \in LinkType
  BY CellFacts
<1>2. /\ OnlyLinks /\ there.out # <<>>
      /\ \/ links' = [links EXCEPT ![n][p] = taken, ![p][n] = new]
         \/ links' = [links EXCEPT ![n][p] = taken, ![p][n] = old]
  BY DEF Deliver, OnlyLinks, history
<1>3. there.out \in Seq(Message) /\ here.queue \in Seq(Message)
  BY <1>1 DEF LinkType
<1>4. rest \in Seq(Message) /\ first \in Message
  BY <1>2, <1>3, HeadTailProperties
<1>5. one \in Seq(Message) /\ more \in Seq(Message)
  BY <1>3, <1>4, AppendProperties
<1> HIDE DEF rest, first, one, more
<1>6. taken \in LinkType /\ old \in LinkType
  BY <1>1, <1>4, <1>5 DEF LinkType
<1>7. new \in LinkType
  <2>1. NewLink(there.id) = [NoLink EXCEPT !.phase = "open", !.id = there.id]
    BY DEF NewLink
  <2> DEFINE l == NewLink(there.id)
  <2>2. there.id \in (Node \X Nat) \cup {<<>>}
    BY <1>1 DEF LinkType
  <2>3. l \in LinkType
    BY <2>1, <2>2, NoLinkType DEF LinkType
  <2> HIDE DEF l
  <2>4. [l EXCEPT !.queue = one, !.heard = TRUE] \in LinkType
    BY <1>5, <2>3 DEF LinkType
  <2> QED
    BY <2>4 DEF l
<1> HIDE DEF taken, new, old
<1>8. PICK l \in LinkType : links' = [links EXCEPT ![n][p] = taken, ![p][n] = l]
  BY <1>2, <1>6, <1>7
<1> DEFINE mid == [links EXCEPT ![n][p] = taken]
<1>9. mid \in [Node -> [Node -> LinkType]]
  BY <1>1, <1>6, TableUpdate DEF LinkTable, RowType
<1>10. links' = [mid EXCEPT ![p][n] = l]
  BY <1>8
<1> HIDE DEF mid
<1>11. links' \in LinkTable
  BY <1>9, <1>10, TableUpdate DEF LinkTable, RowType
<1> QED
  BY <1>2, <1>11, OnlyLinksStep

LEMMA LingerKeeps ==
    ASSUME IInv, NEW n \in Node, NEW p \in Node, Linger(n, p)
    PROVE  Step
<1> DEFINE l == [links[n][p] EXCEPT !.phase = "expired"]
<1>1. links \in LinkTable /\ links[n][p] \in LinkType
  BY CellFacts
<1>2. OnlyLinks /\ links' = [links EXCEPT ![n][p] = l]
  BY DEF Linger, OnlyLinks, history
<1>3. l \in LinkType
  BY <1>1 DEF LinkType
<1> HIDE DEF l
<1>4. links' \in LinkTable
  BY <1>1, <1>2, <1>3, TableUpdate DEF LinkTable, RowType
<1> QED
  BY <1>2, <1>4, OnlyLinksStep

\* A link is deleted, and its connection's m_Link dangles if it was not given back.
LEMMA UpdatePendingDeletesKeeps ==
    ASSUME IInv, NEW n \in Node, NEW p \in Node, UpdatePendingDeletes(n, p)
    PROVE  Step
<1> DEFINE held == IF conns[n][p].link = "link" THEN "deleted" ELSE conns[n][p].link
           c == [conns[n][p] EXCEPT !.link = held]
<1>1. /\ conns[n][p] \in ConnType /\ up \in IntTable /\ owed \in IntTable
      /\ remoteUp \in IntTable /\ links \in LinkTable /\ game \in [Node -> GameType]
      /\ Counters
      /\ up[n][p] = IF conns[n][p].state = "Connected" THEN 1 ELSE 0
      /\ owed[n][p] = IF conns[n][p].state = "Connecting" THEN 1 ELSE 0
  BY CellFacts
<1>2. /\ links' = [links EXCEPT ![n][p] = NoLink] /\ conns' = [conns EXCEPT ![n][p] = c]
      /\ game' = game /\ limit' = limit /\ dialed' = dialed /\ alive' = alive
      /\ up' = up /\ owed' = owed /\ remoteUp' = remoteUp
  BY DEF UpdatePendingDeletes, history
<1>3. held \in {"null", "link", "deleted"}
  BY <1>1 DEF ConnType
<1> HIDE DEF held
<1>4. c \in ConnType /\ c.state = conns[n][p].state
  BY <1>1, <1>3 DEF ConnType
<1> HIDE DEF c
<1>5. CellChanged(n, p, c)
  BY <1>1, <1>2, <1>4 DEF CellChanged
<1>6. links' \in LinkTable
  BY <1>1, <1>2, NoLinkType, TableUpdate DEF LinkTable, RowType
<1>7. game' \in [Node -> GameType] /\ Counters'
  BY <1>1, <1>2 DEF Counters
<1>8. c.state # "none" => Known(n, p)
  BY <1>4 DEF Known
<1> QED
  BY <1>2, <1>5, <1>6, <1>7, <1>8, KnownCellStep

-----------------------------------------------------------------------------
\* All steps: nobody becomes known but the one who is accepted or connected to.

LEMMA NextCases ==
    ASSUME IInv, Next
    PROVE  \/ Step
           \/ \E n \in Node : AcceptConnect(n)
           \/ \E n \in Clients, p \in Node, request \in Requests : Connect(n, p, request)
<1>1. PICK n \in Node : Application(n) \/ ReceiveThread(n) \/ Update(n)
  BY DEF Next
<1>2. CASE Application(n)
  <2>1. \/ \E p \in Listeners, request \in Requests : n \in Clients /\ Connect(n, p, request)
        \/ \E p \in Node : Close(n, p) \/ SendRaw(n, p)
        \/ Quit(n) \/ Reset(n)
    BY <1>2 DEF Application
  <2>2. Listeners \subseteq Node
    BY ConnectionsAssumption
  <2> QED
    BY <2>1, <2>2, CloseKeeps, SendRawKeeps, QuitKeeps, ResetKeeps
<1>3. CASE ReceiveThread(n)
  BY <1>3, DeliverKeeps, LingerKeeps, UpdatePendingDeletesKeeps DEF ReceiveThread
<1>4. CASE Update(n)
  <2>1. CASE \E p \in Node : BeginProcess(n, p)
    BY <2>1, ProcessKeeps
  <2>2. CASE Handle(n)
    BY <2>2, RefusalsKeep, RecvConnectAcceptKeeps, RecvRefusalKeeps, RecvDisconnectKeeps,
       RecvRemoteKeeps, KeepAlivesKeep, ProcessKeeps DEF Handle
  <2>3. CASE \E due \in SUBSET Node : BeginUpdate(n, due)
    BY <2>3, BeginUpdateKeeps
  <2>4. CASE \E p \in Node : UpdateConnection(n, p)
    BY <2>4, UpdateDeadKeeps, UpdateConnectingKeeps, UpdateKeepAliveKeeps
       DEF UpdateConnection
  <2> QED
    BY <1>4, <2>1, <2>2, <2>3, <2>4 DEF Update
<1> QED
  BY <1>1, <1>2, <1>3, <1>4

LEMMA InitKeeps ==
    ASSUME Init
    PROVE  IInv
<1>1. conns \in ConnTable /\ \A n, p \in Node : conns[n][p].state = "none"
  BY DEF Init, NoConn, ConnTable, ConnType
<1>2. links \in LinkTable
  BY NoLinkType DEF Init, LinkTable, RowType
<1>3. game \in [Node -> GameType]
  BY DEF Init, GameType
<1>4. Counters
  <2>1. PICK k \in Limits : limit = [n \in Node |-> k]
    BY DEF Init
  <2>2. k \in Nat /\ Dials \in [Node -> Nat]
    BY ConnectionsAssumption
  <2> QED
    BY <2>1, <2>2 DEF Init, Counters
<1>5. /\ History
      /\ \A n, p \in Node : up[n][p] = 0 /\ owed[n][p] = 0
  BY DEF Init, History, IntTable
<1>6. CallbacksMatch
  BY <1>1, <1>5 DEF CallbacksMatch, Connected, Connecting
<1> QED
  BY <1>1, <1>2, <1>3, <1>4, <1>5, <1>6, TypeParts DEF IInv

LEMMA StutterKeeps ==
    ASSUME IInv, UNCHANGED vars
    PROVE  Step
<1>1. /\ TypeOK' /\ CallbacksMatch'
  BY DEF IInv, vars, TypeOK, CallbacksMatch, Connected, Connecting
<1>2. NoneNew
  BY DEF vars, NoneNew, Known
<1> QED
  BY <1>1, <1>2 DEF Step, IInv

-----------------------------------------------------------------------------
\* IInv is an inductive invariant.
THEOREM Invariance == Spec => []IInv
<1>1. Init => IInv
  BY InitKeeps
<1>2. IInv /\ [Next]_vars => IInv'
  <2> SUFFICES ASSUME IInv, [Next]_vars
               PROVE  IInv'
    OBVIOUS
  <2>1. CASE UNCHANGED vars
    BY <2>1, StutterKeeps DEF Step
  <2>2. CASE Next
    <3>1. CASE Step
      BY <3>1 DEF Step
    <3>2. CASE \E n \in Node : AcceptConnect(n)
      BY <3>2, AcceptConnectKeeps
    <3>3. CASE \E n \in Clients, p \in Node, request \in Requests : Connect(n, p, request)
      <4>1. Clients \subseteq Node
        BY ConnectionsAssumption
      <4> QED
        BY <3>3, <4>1, ConnectKeeps
    <3> QED
      BY <2>2, <3>1, <3>2, <3>3, NextCases
  <2> QED
    BY <2>1, <2>2
<1> QED
  BY <1>1, <1>2, PTL DEF Spec

\* Connections, links and messages are of the kinds the code has.
THEOREM TypeCorrect == Spec => []TypeOK
  BY Invariance, PTL DEF IInv

\* Every connected callback is followed by one onDisconnect, whatever ends the
\* connection, and every connect has at most one result, whatever comes first.
THEOREM CallbacksMatchHolds == Spec => []CallbacksMatch
  BY Invariance, PTL DEF IInv

-----------------------------------------------------------------------------
\* How many connections there are.

Finite == IsFiniteSet(Node)

LEMMA CountedInNat ==
    ASSUME Finite, NEW n
    PROVE  NumConnections(n) \in Nat /\ NumConnections(n)' \in Nat
<1>1. IsFiniteSet({p \in Node : Known(n, p)}) /\ IsFiniteSet({p \in Node : Known(n, p)'})
  BY FS_Subset DEF Finite
<1> QED
  BY <1>1, FS_CardinalityType DEF NumConnections

LEMMA FewerKnown ==
    ASSUME Finite, NEW n \in Node, \A q \in Node : Known(n, q)' => Known(n, q)
    PROVE  NumConnections(n)' <= NumConnections(n)
<1> DEFINE before == {q \in Node : Known(n, q)}
           after == {q \in Node : Known(n, q)'}
<1>1. IsFiniteSet(before) /\ after \in SUBSET before
  BY FS_Subset DEF Finite
<1>2. NumConnections(n) = Cardinality(before) /\ NumConnections(n)' = Cardinality(after)
  BY DEF NumConnections
<1> HIDE DEF before, after
<1> QED
  BY <1>1, <1>2, FS_Subset

LEMMA OneMoreKnown ==
    ASSUME Finite, NEW n \in Node, NEW p \in Node,
           \A q \in Node : q # p => (Known(n, q)' => Known(n, q))
    PROVE  NumConnections(n)' <= NumConnections(n) + 1
<1> DEFINE before == {q \in Node : Known(n, q)}
           after == {q \in Node : Known(n, q)'}
<1>1. IsFiniteSet(before) /\ after \in SUBSET (before \cup {p})
  BY FS_Subset DEF Finite
<1>2. NumConnections(n) = Cardinality(before) /\ NumConnections(n)' = Cardinality(after)
  BY DEF NumConnections
<1> HIDE DEF before, after
<1>3. /\ IsFiniteSet(before \cup {p}) /\ Cardinality(before) \in Nat
      /\ Cardinality(before \cup {p}) <= Cardinality(before) + 1
  <2>1. Cardinality(before) \in Nat
    BY <1>1, FS_CardinalityType
  <2>2. /\ IsFiniteSet(before \cup {p})
        /\ \/ Cardinality(before \cup {p}) = Cardinality(before)
           \/ Cardinality(before \cup {p}) = Cardinality(before) + 1
    BY <1>1, FS_AddElement
  <2> QED
    BY <2>1, <2>2
<1>4. /\ Cardinality(after) <= Cardinality(before \cup {p})
      /\ Cardinality(after) \in Nat /\ Cardinality(before \cup {p}) \in Nat
  BY <1>1, <1>3, FS_Subset, FS_CardinalityType
<1> QED
  BY <1>2, <1>3, <1>4

LEMMA MaxConnectionsStep ==
    ASSUME Finite, IInv, MaxConnectionsKept, [Next]_vars
    PROVE  MaxConnectionsKept'
<1> SUFFICES ASSUME NEW m \in Listeners \ Clients
             PROVE  NumConnections(m)' <= limit'[m]
  BY DEF MaxConnectionsKept
<1>1. m \in Node /\ m \notin Clients /\ NumConnections(m) <= limit[m]
  BY ConnectionsAssumption DEF MaxConnectionsKept
<1>2. limit[m] \in Nat
  BY <1>1, CellFacts DEF Counters
<1>3. NumConnections(m) \in Nat /\ NumConnections(m)' \in Nat
  BY CountedInNat
<1>4. ASSUME limit' = limit, \A q \in Node : Known(m, q)' => Known(m, q)
      PROVE  NumConnections(m)' <= limit'[m]
  <2>1. NumConnections(m)' <= NumConnections(m)
    BY <1>1, <1>4, FewerKnown
  <2> QED
    BY <1>1, <1>2, <1>3, <1>4, <2>1
<1>5. CASE Step
  BY <1>1, <1>4, <1>5 DEF Step, NoneNew
<1>6. CASE \E n \in Node : AcceptConnect(n)
  <2>1. PICK n \in Node : AcceptConnect(n)
    BY <1>6
  <2>2. /\ limit' = limit /\ Peer(n) \in Node /\ NumConnections(n) < limit[n]
        /\ \A k, q \in Node : k # n \/ q # Peer(n) => (Known(k, q)' <=> Known(k, q))
    BY <2>1, AcceptConnectKeeps
  <2>3. CASE m = n
    <3>1. NumConnections(m)' <= NumConnections(m) + 1
      BY <1>1, <2>2, <2>3, OneMoreKnown
    <3> QED
      BY <1>2, <1>3, <2>2, <2>3, <3>1
  <2>4. CASE m # n
    BY <1>1, <1>4, <2>2, <2>4
  <2> QED
    BY <2>3, <2>4
<1>7. CASE \E n \in Clients, p \in Node, request \in Requests : Connect(n, p, request)
  <2>1. PICK n \in Clients, p \in Node, request \in Requests : Connect(n, p, request)
    BY <1>7
  <2>2. n \in Node /\ m # n
    BY <1>1, ConnectionsAssumption
  <2>3. /\ limit' = limit
        /\ \A k, q \in Node : k # n \/ q # p => (Known(k, q)' <=> Known(k, q))
    BY <2>1, <2>2, ConnectKeeps
  <2> QED
    BY <1>1, <1>4, <2>2, <2>3
<1> QED
  BY <1>5, <1>6, <1>7, NextCases, StutterKeeps

\* A listening node that connects to no one never has more connections than
\* listen was told, however many requests it is sent at once.
THEOREM MaxConnectionsHolds == Finite /\ Spec => []MaxConnectionsKept
<1> SUFFICES ASSUME Finite
             PROVE  Spec => []MaxConnectionsKept
  OBVIOUS
<1>1. Init => MaxConnectionsKept
  <2> SUFFICES ASSUME Init, NEW n \in Listeners \ Clients
               PROVE  NumConnections(n) <= limit[n]
    BY DEF MaxConnectionsKept
  <2>1. n \in Node /\ IInv
    BY InitKeeps, ConnectionsAssumption
  <2>2. {p \in Node : Known(n, p)} = {}
    BY <2>1 DEF Init, NoConn, Known
  <2>3. NumConnections(n) = 0
    BY <2>2, FS_EmptySet DEF NumConnections
  <2>4. limit[n] \in Nat
    BY <2>1, CellFacts DEF Counters
  <2> QED
    BY <2>3, <2>4
<1>2. IInv /\ MaxConnectionsKept /\ [Next]_vars => MaxConnectionsKept'
  BY MaxConnectionsStep
<1> QED
  BY <1>1, <1>2, Invariance, PTL DEF Spec
=============================================================================
