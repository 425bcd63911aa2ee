---------------------------- MODULE Connections ----------------------------
(***************************************************************************)
(* The life of connections and of the links under them: ConnectionNode,    *)
(* Connection and the link table of RecvNode.  A client connects to a      *)
(* listening node, is accepted or refused, is kept alive and disconnected, *)
(* from either side, by the application or by a timer; a listening node    *)
(* relays who came and went to its other clients.                          *)
(*                                                                         *)
(* On every node a game thread (API calls and ZNode::update, one message   *)
(* at a time) and a receive thread (Deliver, Linger, UpdatePendingDeletes) *)
(* interleave.  A link is what ReliableOrdered shows it to be: its         *)
(* messages arrive in order, once each.  Time is abstracted: a timer may   *)
(* fire whenever its condition but for the clock holds.  One datagram      *)
(* lifetime is assumed to be below the linger time: a message a link took  *)
(* is acked before that link is deleted and does not arrive again later.   *)
(***************************************************************************)
EXTENDS Integers, SequencesExt

CONSTANTS
    Node,           \* the nodes, each known to the others by its endpoint
    Listeners,      \* nodes that called ZNode::listen
    Clients,        \* nodes that call ZNode::connect, to any listener
    Requests,       \* how: with the "right" or "wrong" password, or with "none" sent
    Limits,         \* maximum numbers of connections that listen is called with
    Dials,          \* bound: calls of connect by each node
    Closers,        \* nodes that call ZNode::disconnect(endpoint)
    Quitters,       \* nodes that call ZNode::disconnect(linger)
    RawSenders,     \* nodes that send to a link that is not connected
    KeepAlive,      \* nodes with m_KeepAliveIntervalMs > 0
    SameSeed        \* two nodes draw the same link ids from rand()

ASSUME ConnectionsAssumption ==
    /\ Listeners \subseteq Node /\ Clients \subseteq Node
    /\ Closers \subseteq Node /\ Quitters \subseteq Node /\ RawSenders \subseteq Node
    /\ Requests \subseteq {"right", "wrong", "none"}
    /\ Limits \subseteq Nat /\ Dials \in [Node -> Nat]
    /\ KeepAlive \subseteq Node /\ SameSeed \in BOOLEAN

VARIABLES
    conns,      \* m_Connections of each node
    links,      \* m_OpenLinksMap of each node, with the messages of each link
    game,       \* where ZNode::update of each node has got to
    limit,      \* m_MaxIncomingConnections of each node
    dialed,     \* how many link ids each node has drawn
    alive,      \* "running", "closing" (ZNode::disconnect sleeps) or "closed"
    \* History, from the callbacks.
    up,         \* connected to minus disconnected from, per endpoint
    owed,       \* connect calls that the listener has no result of yet
    remoteUp    \* relayed onNewConnection minus relayed onDisconnect

vars == <<conns, links, game, limit, dialed, alive, up, owed, remoteUp>>
history == <<up, owed, remoteUp>>

-----------------------------------------------------------------------------
\* Links.

NoLink == [phase |-> "none", id |-> <<>>, out |-> <<>>, acked |-> FALSE,
           queue |-> <<>>, heard |-> FALSE]

\* out: sent and not taken by the other side; acked: some were taken;
\* queue: taken and not polled; heard: some were taken.
NewLink(id) == [NoLink EXCEPT !.phase = "open", !.id = id]

SameId(a, b) == IF SameSeed THEN a[2] = b[2] ELSE a = b

\* Sends are blocked from the moment a link is pending delete.
Sent(row, p, msg) ==
    IF row[p].phase = "open" THEN [row EXCEPT ![p].out = Append(@, msg)] ELSE row

\* blockAllUpcomingSends and markPendingDelete.
Marked(row, P) ==
    [p \in Node |-> IF p \in P /\ row[p].phase = "open"
                       THEN [row[p] EXCEPT !.phase = "lingers"] ELSE row[p]]

Msg(type) == [type |-> type]
ConnectRequest(request) == [type |-> "ConnectRequest", ok |-> request = "right"]
RemoteConnected(p) == [type |-> "RemoteConnected", peer |-> p]
RemoteDisconnected(p) == [type |-> "RemoteDisconnected", peer |-> p]

RefusalTypes == {"IncorrectPassword", "MaxConnectionsReached", "AlreadyConnected"}

-----------------------------------------------------------------------------
\* Connections.

\* link: what m_Link points to, a link, nothing, or one that was deleted.
NoConn == [state |-> "none", waiting |-> FALSE, link |-> "null"]

Known(n, p) == conns[n][p].state # "none"
Connected(n, p) == conns[n][p].state = "Connected"
Connecting(n, p) == conns[n][p].state = "Connecting"

\* The endpoints whose connections hold a link that cleanLink gives back.
Holding(n, P) == {p \in P : conns[n][p].link = "link"}

\* Ended: state set and link given back (Connection::disconnect, cleanLink).
Ended(state) == [state |-> state, waiting |-> FALSE, link |-> "null"]

\* sendSystemMessage over m_Link.
SentBy(n, row, p, msg) == IF conns[n][p].link = "link" THEN Sent(row, p, msg) ELSE row

\* To all connected ones except p, if the node relays (it listens).
Relayed(n, row, p, msg) ==
    [q \in Node |-> IF n \in Listeners /\ q # p /\ Connected(n, q)
                       THEN SentBy(n, row, q, msg)[q] ELSE row[q]]

SetConn(n, p, c) == conns' = [conns EXCEPT ![n][p] = c]

\* Callbacks.  An application forgets the peers of a node that is gone, and
\* starts anew with those of a node that it gets connected to.
Forgotten(n) == [remoteUp EXCEPT ![n] = [p \in Node |-> 0]]
ConnectedCallback(n, p) == up' = [up EXCEPT ![n][p] = @ + 1]
DisconnectedCallback(n, P) ==
    /\ up' = [up EXCEPT ![n] = [p \in Node |-> IF p \in P THEN @[p] - 1 ELSE @[p]]]
    /\ remoteUp' = IF P = {} THEN remoteUp ELSE Forgotten(n)
ResultCallback(n, p) == owed' = [owed EXCEPT ![n][p] = @ - 1]

-----------------------------------------------------------------------------
Init ==
    /\ conns = [n \in Node |-> [p \in Node |-> NoConn]]
    /\ links = [n \in Node |-> [p \in Node |-> NoLink]]
    /\ game = [n \in Node |-> [at |-> "api"]]
    /\ \E k \in Limits : limit = [n \in Node |-> k]
    /\ dialed = [n \in Node |-> 0]
    /\ alive = [n \in Node |-> "running"]
    /\ up = [n \in Node |-> [p \in Node |-> 0]]
    /\ owed = [n \in Node |-> [p \in Node |-> 0]]
    /\ remoteUp = [n \in Node |-> [p \in Node |-> 0]]

-----------------------------------------------------------------------------
\* Game thread: calls of the application, between two updates.

Calling(n) == alive[n] = "running" /\ game[n].at = "api"

\* ZNode::connect; it fails (AlreadyExists) while a connection or link is known.
Connect(n, p, request) ==
    /\ Calling(n)
    /\ n # p /\ dialed[n] < Dials[n]
    /\ ~Known(n, p) /\ links[n][p].phase = "none"
    /\ dialed' = [dialed EXCEPT ![n] = @ + 1]
    /\ LET link == NewLink(<<n, dialed[n] + 1>>)
       IN IF request = "none"
             THEN /\ SetConn(n, p, [state |-> "Idle", waiting |-> FALSE, link |-> "link"])
                  /\ links' = [links EXCEPT ![n][p] = link]
                  /\ UNCHANGED owed
             ELSE /\ SetConn(n, p, [state |-> "Connecting", waiting |-> FALSE, link |-> "link"])
                  /\ links' = [links EXCEPT ![n][p] =
                                  [link EXCEPT !.out = <<ConnectRequest(request)>>]]
                  /\ owed' = [owed EXCEPT ![n][p] = @ + 1]
    /\ UNCHANGED <<game, limit, alive, up, remoteUp>>

\* What disconnecting from all of P does: a message and a callback each for
\* those that are connected; a result is not waited for any more.
Disconnect(n, P) ==
    LET connected == {p \in P : Connected(n, p)}
        row == [p \in Node |-> IF p \in connected
                                  THEN SentBy(n, links[n], p, Msg("Disconnect"))[p]
                                  ELSE links[n][p]]
    IN /\ links' = [links EXCEPT ![n] = Marked(row, Holding(n, P))]
       /\ conns' = [conns EXCEPT ![n] = [p \in Node |-> IF p \in P THEN NoConn ELSE @[p]]]
       /\ DisconnectedCallback(n, connected)
       /\ owed' = [owed EXCEPT ![n] = [p \in Node |-> IF p \in P /\ Connecting(n, p)
                                                         THEN @[p] - 1 ELSE @[p]]]

\* Mutant: the link is not given back.
Close_KeepsLink(n, p) ==
    /\ Calling(n)
    /\ Known(n, p)
    /\ conns' = [conns EXCEPT ![n][p] = NoConn]
    /\ links' = IF Connected(n, p)
                   THEN [links EXCEPT ![n] = SentBy(n, @, p, Msg("Disconnect"))] ELSE links
    /\ DisconnectedCallback(n, IF Connected(n, p) THEN {p} ELSE {})
    /\ owed' = [owed EXCEPT ![n][p] = IF Connecting(n, p) THEN @ - 1 ELSE @]
    /\ UNCHANGED <<game, limit, dialed, alive>>

\* ZNode::disconnect(endpoint).
Close(n, p) ==
    /\ Calling(n)
    /\ Known(n, p)
    /\ Disconnect(n, {p})
    /\ UNCHANGED <<game, limit, dialed, alive>>

\* ZNode::disconnect(linger): disconnects all, then sleeps ...
Quit(n) ==
    /\ Calling(n)
    /\ Disconnect(n, {p \in Node : Known(n, p)})
    /\ alive' = [alive EXCEPT ![n] = "closing"]
    /\ UNCHANGED <<game, limit, dialed>>

\* ... and then stops the threads and deletes all links.
Reset(n) ==
    /\ alive[n] = "closing"
    /\ alive' = [alive EXCEPT ![n] = "closed"]
    /\ links' = [links EXCEPT ![n] = [p \in Node |-> NoLink]]
    /\ UNCHANGED <<conns, game, limit, dialed, history>>

\* sendReliableOrdered with requiresConnection = false, to one link.  Bound: one
\* such message is under way.
SendRaw(n, p) ==
    /\ Calling(n)
    /\ links[n][p].phase = "open" /\ ~Connected(n, p)
    /\ Msg("User") \notin ToSet(links[n][p].out \o links[p][n].queue)
    /\ links' = [links EXCEPT ![n] = Sent(@, p, Msg("User"))]
    /\ UNCHANGED <<conns, game, limit, dialed, alive, history>>

-----------------------------------------------------------------------------
\* Receive thread.

\* A node has a socket and a receive thread once it listens or connects.
HasSocket(n) == alive[n] # "closed" /\ (n \in Listeners \/ dialed[n] > 0)

\* A message of n reaches p, on a link p knows or as the first of a new one.
\* The receive queue is locked while it is polled.
Deliver(n, p) ==
    LET there == links[n][p]
        here == links[p][n]
        taken == [there EXCEPT !.out = Tail(@), !.acked = TRUE]
        new == [NewLink(there.id) EXCEPT !.queue = <<Head(there.out)>>, !.heard = TRUE]
        old == [here EXCEPT !.queue = Append(@, Head(there.out)), !.heard = TRUE]
    IN /\ n # p /\ HasSocket(p)
       /\ there.out # <<>>
       /\ ~(game[p].at = "polling" /\ game[p].peer = n)
       /\ \/ /\ here.phase = "none"
             /\ Head(there.out).type = "ConnectRequest"
             /\ links' = [links EXCEPT ![n][p] = taken, ![p][n] = new]
          \/ /\ here.phase \in {"open", "lingers"}
             /\ SameId(here.id, there.id)
             /\ there.acked = here.heard    \* sequence numbers agree
             /\ links' = [links EXCEPT ![n][p] = taken, ![p][n] = old]
       /\ UNCHANGED <<conns, game, limit, dialed, alive, history>>

\* Pending delete for sm_MaxLingerTimeMs: what arrives from now on is ignored.
Linger(n, p) ==
    /\ links[n][p].phase = "lingers"
    /\ links' = [links EXCEPT ![n][p].phase = "expired"]
    /\ UNCHANGED <<conns, game, limit, dialed, alive, history>>

\* Mutant: a link is deleted that is not pending delete.
UpdatePendingDeletes_InUse(n, p) ==
    /\ HasSocket(n)
    /\ links[n][p].phase # "none"
    /\ ~(game[n].at = "polling" /\ game[n].peer = p)
    /\ links' = [links EXCEPT ![n][p] = NoLink]
    /\ conns' = [conns EXCEPT ![n][p].link = IF @ = "link" THEN "deleted" ELSE @]
    /\ UNCHANGED <<game, limit, dialed, alive, history>>

\* Pending delete for more than twice that, and not pinned by update.
UpdatePendingDeletes(n, p) ==
    /\ HasSocket(n)
    /\ links[n][p].phase = "expired"
    /\ ~(game[n].at = "polling" /\ game[n].peer = p)
    /\ links' = [links EXCEPT ![n][p] = NoLink]
    /\ conns' = [conns EXCEPT ![n][p].link = IF @ = "link" THEN "deleted" ELSE @]
    /\ UNCHANGED <<game, limit, dialed, alive, history>>

-----------------------------------------------------------------------------
\* Game thread: ZNode::update, first part: the messages of each link.

\* Pin and lock a link, and look up its connection, once for all its messages.
BeginProcess(n, p) ==
    /\ alive[n] = "running" /\ game[n].at \in {"api", "links"}
    /\ links[n][p].queue # <<>>
    /\ game' = [game EXCEPT ![n] = [at |-> "polling", peer |-> p, known |-> Known(n, p)]]
    /\ UNCHANGED <<conns, links, limit, dialed, alive, history>>

Peer(n) == game[n].peer
Polled(n) == Head(links[n][Peer(n)].queue)
Popped(n) == [links[n] EXCEPT ![Peer(n)].queue = Tail(@)]

\* The next message of the link has one of these types, and a connection or not.
Polls(n, types, known) ==
    /\ game[n].at = "polling" /\ game[n].known \in known
    /\ links[n][Peer(n)].queue # <<>>
    /\ Polled(n).type \in types
    /\ UNCHANGED <<game, limit, dialed, alive>>

\* handleInvalidConnectAttempt.
Refused(n, type) == Marked(Sent(Popped(n), Peer(n), Msg(type)), {Peer(n)})

RowTo(n, row) == links' = [links EXCEPT ![n] = row]

\* Any other message without a connection.
RefuseUnknown(n) ==
    /\ Polls(n, {"ConnectAccept", "Disconnect", "RemoteConnected", "RemoteDisconnected",
                 "KeepAliveRequest", "KeepAliveAnswer", "IncorrectPassword",
                 "MaxConnectionsReached", "AlreadyConnected", "InvalidConnectPacket",
                 "User"}, {FALSE})
    /\ RowTo(n, Refused(n, "InvalidConnectPacket"))
    /\ UNCHANGED <<conns, history>>

NumConnections(n) == Cardinality({p \in Node : Known(n, p)})

\* Mutant: the link of a refused attempt is not marked pending delete.
RefuseConnect_NotMarked(n) ==
    /\ Polls(n, {"ConnectRequest"}, BOOLEAN)
    /\ \/ Known(n, Peer(n)) /\ RowTo(n, Sent(Popped(n), Peer(n), Msg("AlreadyConnected")))
       \/ /\ ~Known(n, Peer(n)) /\ ~Polled(n).ok
          /\ RowTo(n, Sent(Popped(n), Peer(n), Msg("IncorrectPassword")))
       \/ /\ ~Known(n, Peer(n)) /\ Polled(n).ok /\ NumConnections(n) >= limit[n]
          /\ RowTo(n, Sent(Popped(n), Peer(n), Msg("MaxConnectionsReached")))
    /\ UNCHANGED <<conns, history>>

\* Mutant: the answer to a wrong password has the type of the request, but not
\* what belongs to one.
RefuseConnect_TypeOfRequest(n) ==
    /\ Polls(n, {"ConnectRequest"}, BOOLEAN)
    /\ \/ Known(n, Peer(n)) /\ RowTo(n, Refused(n, "AlreadyConnected"))
       \/ ~Known(n, Peer(n)) /\ ~Polled(n).ok /\ RowTo(n, Refused(n, Polled(n).type))
       \/ /\ ~Known(n, Peer(n)) /\ Polled(n).ok /\ NumConnections(n) >= limit[n]
          /\ RowTo(n, Refused(n, "MaxConnectionsReached"))
    /\ UNCHANGED <<conns, history>>

\* recvConnectPacket, the refusals.
RefuseConnect(n) ==
    /\ Polls(n, {"ConnectRequest"}, BOOLEAN)
    /\ \/ Known(n, Peer(n)) /\ RowTo(n, Refused(n, "AlreadyConnected"))
       \/ ~Known(n, Peer(n)) /\ ~Polled(n).ok /\ RowTo(n, Refused(n, "IncorrectPassword"))
       \/ /\ ~Known(n, Peer(n)) /\ Polled(n).ok /\ NumConnections(n) >= limit[n]
          /\ RowTo(n, Refused(n, "MaxConnectionsReached"))
    /\ UNCHANGED <<conns, history>>

\* Mutant: one connection too many.
AcceptConnect_OneMore(n) ==
    /\ Polls(n, {"ConnectRequest"}, BOOLEAN)
    /\ ~Known(n, Peer(n)) /\ Polled(n).ok /\ NumConnections(n) <= limit[n]
    /\ SetConn(n, Peer(n), [state |-> "Connected", waiting |-> FALSE, link |-> "link"])
    /\ RowTo(n, Relayed(n, Sent(Popped(n), Peer(n), Msg("ConnectAccept")),
                        Peer(n), RemoteConnected(Peer(n))))
    /\ ConnectedCallback(n, Peer(n))
    /\ UNCHANGED <<owed, remoteUp>>

\* Mutant: the other clients are not told.
AcceptConnect_NotRelayed(n) ==
    /\ Polls(n, {"ConnectRequest"}, BOOLEAN)
    /\ ~Known(n, Peer(n)) /\ Polled(n).ok /\ NumConnections(n) < limit[n]
    /\ SetConn(n, Peer(n), [state |-> "Connected", waiting |-> FALSE, link |-> "link"])
    /\ RowTo(n, Sent(Popped(n), Peer(n), Msg("ConnectAccept")))
    /\ ConnectedCallback(n, Peer(n))
    /\ UNCHANGED <<owed, remoteUp>>

\* recvConnectPacket, all fine.
AcceptConnect(n) ==
    /\ Polls(n, {"ConnectRequest"}, BOOLEAN)
    /\ ~Known(n, Peer(n)) /\ Polled(n).ok /\ NumConnections(n) < limit[n]
    /\ SetConn(n, Peer(n), [state |-> "Connected", waiting |-> FALSE, link |-> "link"])
    /\ RowTo(n, Relayed(n, Sent(Popped(n), Peer(n), Msg("ConnectAccept")),
                        Peer(n), RemoteConnected(Peer(n))))
    /\ ConnectedCallback(n, Peer(n))
    /\ UNCHANGED <<owed, remoteUp>>

\* Connection::onReceiveConnectAccept.
RecvConnectAccept(n) ==
    /\ Polls(n, {"ConnectAccept"}, {TRUE})
    /\ RowTo(n, Popped(n))
    /\ IF Connecting(n, Peer(n))
          THEN /\ conns' = [conns EXCEPT ![n][Peer(n)].state = "Connected"]
               /\ ConnectedCallback(n, Peer(n)) /\ ResultCallback(n, Peer(n))
               /\ remoteUp' = Forgotten(n)
          ELSE UNCHANGED <<conns, history>>

\* Mutant: without the check of the state.
RecvRefusal_AnyState(n) ==
    /\ Polls(n, RefusalTypes, {TRUE})
    /\ RowTo(n, Popped(n))
    /\ conns' = [conns EXCEPT ![n][Peer(n)].state = "Refused"]
    /\ ResultCallback(n, Peer(n))
    /\ UNCHANGED <<up, remoteUp>>

\* A refusal: setInvalidPassword, setMaxConnectionsReached, setInvalidConnectPacket.
RecvRefusal(n) ==
    /\ Polls(n, RefusalTypes, {TRUE})
    /\ RowTo(n, Popped(n))
    /\ IF Connecting(n, Peer(n))
          THEN /\ conns' = [conns EXCEPT ![n][Peer(n)].state = "Refused"]
               /\ ResultCallback(n, Peer(n))
          ELSE UNCHANGED <<conns, owed>>
    /\ UNCHANGED <<up, remoteUp>>

\* Mutant: the other clients are not told.
RecvDisconnect_NotRelayed(n) ==
    /\ Polls(n, {"Disconnect"}, {TRUE})
    /\ LET p == Peer(n)
       IN IF Connected(n, p)
             THEN /\ SetConn(n, p, Ended("Disconnected"))
                  /\ RowTo(n, Marked(Popped(n), Holding(n, {p})))
                  /\ DisconnectedCallback(n, {p})
             ELSE RowTo(n, Popped(n)) /\ UNCHANGED <<conns, up, remoteUp>>
    /\ UNCHANGED owed

\* recvDisconnectPacket.
RecvDisconnect(n) ==
    /\ Polls(n, {"Disconnect"}, {TRUE})
    /\ LET p == Peer(n)
       IN IF Connected(n, p)
             THEN /\ SetConn(n, p, Ended("Disconnected"))
                  /\ RowTo(n, Relayed(n, Marked(Popped(n), Holding(n, {p})), p,
                                      RemoteDisconnected(p)))
                  /\ DisconnectedCallback(n, {p})
             ELSE RowTo(n, Popped(n)) /\ UNCHANGED <<conns, up, remoteUp>>
    /\ UNCHANGED owed

\* recvRemoteConnected, recvRemoteDisconnected.
RecvRemote(n) ==
    /\ Polls(n, {"RemoteConnected", "RemoteDisconnected"}, {TRUE})
    /\ RowTo(n, Popped(n))
    /\ remoteUp' = [remoteUp EXCEPT ![n][Polled(n).peer] =
                       IF Polled(n).type = "RemoteConnected" THEN @ + 1 ELSE @ - 1]
    /\ UNCHANGED <<conns, up, owed>>

\* onReceiveKeepAliveRequest.
RecvKeepAliveRequest(n) ==
    /\ Polls(n, {"KeepAliveRequest"}, {TRUE})
    /\ RowTo(n, IF Connected(n, Peer(n))
                   THEN SentBy(n, Popped(n), Peer(n), Msg("KeepAliveAnswer"))
                   ELSE Popped(n))
    /\ UNCHANGED <<conns, history>>

\* onReceiveKeepAliveAnswer.
RecvKeepAliveAnswer(n) ==
    /\ Polls(n, {"KeepAliveAnswer"}, {TRUE})
    /\ RowTo(n, Popped(n))
    /\ conns' = [conns EXCEPT ![n][Peer(n)].waiting = FALSE]
    /\ UNCHANGED history

\* Nothing for this connection to do.
RecvOther(n) ==
    /\ Polls(n, {"InvalidConnectPacket", "User"}, {TRUE})
    /\ RowTo(n, Popped(n))
    /\ UNCHANGED <<conns, history>>

\* No more messages: unlock and unpin.
EndProcess(n) ==
    /\ game[n].at = "polling"
    /\ links[n][Peer(n)].queue = <<>>
    /\ game' = [game EXCEPT ![n] = [at |-> "links"]]
    /\ UNCHANGED <<conns, links, limit, dialed, alive, history>>

-----------------------------------------------------------------------------
\* Game thread: ZNode::update, second part: ConnectionNode::update.

Dead(n) == {p \in Node : Known(n, p) /\ ~Connected(n, p) /\ ~Connecting(n, p)}
Timed(n) == {p \in Node : Connecting(n, p) \/ (Connected(n, p) /\ n \in KeepAlive)}

\* The walk over the connections, one step for each that it does something to:
\* those that ended are deleted, and those in due have a timer that fires.
BeginUpdate(n, due) ==
    /\ alive[n] = "running" /\ game[n].at \in {"api", "links"}
    /\ due \subseteq Timed(n)
    /\ LET todo == due \cup Dead(n)
       IN /\ todo # {} \/ game[n].at = "links"
          /\ game' = [game EXCEPT ![n] = IF todo = {} THEN [at |-> "api"]
                                         ELSE [at |-> "timers", todo |-> todo]]
    /\ UNCHANGED <<conns, links, limit, dialed, alive, history>>

Updates(n, p) ==
    /\ game[n].at = "timers" /\ p \in game[n].todo
    /\ LET todo == game[n].todo \ {p}
       IN game' = [game EXCEPT ![n] = IF todo = {} THEN [at |-> "api"]
                                      ELSE [@ EXCEPT !.todo = todo]]
    /\ UNCHANGED <<limit, dialed, alive>>

UpdateDead(n, p) ==
    /\ Updates(n, p)
    /\ ~Connected(n, p) /\ ~Connecting(n, p)
    /\ SetConn(n, p, NoConn)
    /\ RowTo(n, Marked(links[n], Holding(n, {p})))
    /\ UNCHANGED history

\* Connection::updateConnecting.
UpdateConnecting(n, p) ==
    /\ Updates(n, p)
    /\ Connecting(n, p)
    /\ SetConn(n, p, Ended("InitiateTimedOut"))
    /\ RowTo(n, Marked(links[n], Holding(n, {p})))
    /\ ResultCallback(n, p)
    /\ UNCHANGED <<up, remoteUp>>

\* Connection::updateKeepAlive, the interval has passed.
UpdateKeepAliveRequest(n, p) ==
    /\ Updates(n, p)
    /\ Connected(n, p) /\ ~conns[n][p].waiting
    /\ conns' = [conns EXCEPT ![n][p].waiting = TRUE]
    /\ RowTo(n, SentBy(n, links[n], p, Msg("KeepAliveRequest")))
    /\ UNCHANGED history

\* Mutant: only the side that connected watches the connection.
UpdateKeepAliveLost_ConnectorOnly(n, p) ==
    /\ Updates(n, p)
    /\ Connected(n, p) /\ conns[n][p].waiting
    /\ IF n \in Clients
          THEN /\ SetConn(n, p, Ended("ConnectionTimedOut"))
               /\ RowTo(n, Marked(links[n], Holding(n, {p})))
               /\ DisconnectedCallback(n, {p})
          ELSE UNCHANGED <<conns, links, up, remoteUp>>
    /\ UNCHANGED owed

\* No answer: the connection is lost.
UpdateKeepAliveLost(n, p) ==
    /\ Updates(n, p)
    /\ Connected(n, p) /\ conns[n][p].waiting
    /\ SetConn(n, p, Ended("ConnectionTimedOut"))
    /\ RowTo(n, Relayed(n, Marked(links[n], Holding(n, {p})), p, RemoteDisconnected(p)))
    /\ DisconnectedCallback(n, {p})
    /\ UNCHANGED owed

-----------------------------------------------------------------------------
Application(n) ==
    \/ \E p \in Listeners, request \in Requests : n \in Clients /\ Connect(n, p, request)
    \/ \E p \in Node : n \in Closers /\ Close(n, p)
    \/ \E p \in Node : n \in RawSenders /\ SendRaw(n, p)
    \/ n \in Quitters /\ (Quit(n) \/ Reset(n))

ReceiveThread(n) ==
    \E p \in Node : Deliver(p, n) \/ Linger(n, p) \/ UpdatePendingDeletes(n, p)

Handle(n) ==
    \/ RefuseUnknown(n) \/ RefuseConnect(n) \/ AcceptConnect(n)
    \/ RecvConnectAccept(n) \/ RecvRefusal(n) \/ RecvDisconnect(n) \/ RecvRemote(n)
    \/ RecvKeepAliveRequest(n) \/ RecvKeepAliveAnswer(n) \/ RecvOther(n)
    \/ EndProcess(n)

UpdateConnection(n, p) ==
    \/ UpdateDead(n, p)
    \/ UpdateConnecting(n, p)
    \/ UpdateKeepAliveRequest(n, p)
    \/ UpdateKeepAliveLost(n, p)

Update(n) ==
    \/ \E p \in Node : BeginProcess(n, p)
    \/ Handle(n)
    \/ \E due \in SUBSET Node : BeginUpdate(n, due)
    \/ \E p \in Node : UpdateConnection(n, p)

Next == \E n \in Node : Application(n) \/ ReceiveThread(n) \/ Update(n)

Spec == Init /\ [][Next]_vars

-----------------------------------------------------------------------------
\* Fairness: the threads keep running, the network lets a message that is
\* sent again and again through, and time passes: a timer that is set has run
\* off at some later update.  (The deletion of links needs a receive thread
\* that wakes up: some datagram arrives.)

TimerFires(n, p) == \E due \in SUBSET Node : p \in due /\ BeginUpdate(n, due)

Fairness ==
    \A n \in Node :
        /\ WF_vars(Handle(n))
        /\ WF_vars(BeginUpdate(n, {}))
        /\ WF_vars(\E p \in Node : UpdateConnection(n, p))
        /\ WF_vars(Reset(n))
        /\ \A p \in Node :
              /\ WF_vars(Deliver(p, n))
              /\ WF_vars(BeginProcess(n, p))
              /\ WF_vars(TimerFires(n, p))
              /\ WF_vars(Linger(n, p))
              /\ WF_vars(UpdatePendingDeletes(n, p))

FairSpec == Spec /\ Fairness

-----------------------------------------------------------------------------
\* Properties.

Message ==
    [type : {"ConnectAccept", "Disconnect", "KeepAliveRequest", "KeepAliveAnswer",
             "InvalidConnectPacket", "User"} \cup RefusalTypes]
    \cup [type : {"ConnectRequest"}, ok : BOOLEAN]
    \cup [type : {"RemoteConnected", "RemoteDisconnected"}, peer : Node]

ConnType ==
    [state : {"none", "Idle", "Connecting", "InitiateTimedOut", "Refused", "Connected",
              "ConnectionTimedOut", "Disconnected"},
     waiting : BOOLEAN, link : {"null", "link", "deleted"}]

LinkType ==
    [phase : {"none", "open", "lingers", "expired"}, id : (Node \X Nat) \cup {<<>>},
     out : Seq(Message), acked : BOOLEAN, queue : Seq(Message), heard : BOOLEAN]

\* Every variable has its type: connection states, link phases and messages
\* are those of the code, and a poll is of a node that exists.
TypeOK ==
    /\ conns \in [Node -> [Node -> ConnType]]
    /\ links \in [Node -> [Node -> LinkType]]
    /\ game \in [Node -> [at : {"api", "links"}]
                          \cup [at : {"polling"}, peer : Node, known : BOOLEAN]
                          \cup [at : {"timers"}, todo : SUBSET Node]]
    /\ limit \in [Node -> Nat]
    /\ dialed \in [Node -> Nat] /\ \A n \in Node : dialed[n] <= Dials[n]
    /\ alive \in [Node -> {"running", "closing", "closed"}]
    /\ up \in [Node -> [Node -> Int]]
    /\ owed \in [Node -> [Node -> Int]]
    /\ remoteUp \in [Node -> [Node -> Int]]

\* Callbacks pair up: on every path, one connected callback when a connection
\* comes to be and one onDisconnect when it ends, by whichever side or timer;
\* and at most one onConnectResult for each call of connect.
CallbacksMatch ==
    \A n, p \in Node :
        /\ up[n][p] = IF Connected(n, p) THEN 1 ELSE 0
        /\ owed[n][p] = IF Connecting(n, p) THEN 1 ELSE 0

\* A connection that is connecting or connected holds a link that exists and
\* takes what is sent: m_Link is never dangling nor silently blocked.
LinkHeld ==
    \A n, p \in Node :
        Connected(n, p) \/ Connecting(n, p) =>
            conns[n][p].link = "link" /\ links[n][p].phase = "open"

\* No side believes in a connection that the other side, with its end of the
\* same link open, does not have.
PeerAgrees ==
    \A n, p \in Node :
        /\ Connected(n, p)
        /\ links[p][n].phase = "open" /\ SameId(links[p][n].id, links[n][p].id)
        => Connected(p, n) \/ Connecting(p, n)

\* A listener never has more connections than it was told to accept.
MaxConnectionsKept == \A n \in Listeners \ Clients : NumConnections(n) <= limit[n]

\* While it is connected a client hears of a peer's coming and going in turn,
\* as long as the server itself closes no connection, which it does not relay.
\* (The client may hear of the going of one whose coming it was not there for.)
RemoteAlternates ==
    \A n \in Clients \ Listeners, e \in Node :
        (\E p \in Node : Connected(n, p)) => remoteUp[n][e] \in -1 .. 1

\* p has the other end of n's connection.
Matched(n, p) ==
    /\ Connected(p, n)
    /\ links[p][n].phase # "none" /\ links[n][p].phase # "none"
    /\ SameId(links[p][n].id, links[n][p].id)

\* When no more is under way to it, a client was told the truth: what it heard
\* last of a peer is what the server has (under the same condition).
RelaysAreTrue ==
    \A n \in Clients \ Listeners, p, e \in Node :
        /\ e # n /\ Connected(n, p) /\ Matched(n, p)
        /\ links[n][p].queue = <<>> /\ links[p][n].out = <<>>
        => /\ remoteUp[n][e] = 1 => Connected(p, e)
           /\ remoteUp[n][e] = -1 => ~Connected(p, e)

\* A link whose connection is gone, or that never had one, is deleted: links
\* do not leak, and the endpoint can be connected to again.
LinksAreDeleted ==
    \A n, p \in Node :
        links[n][p].phase # "none" ~>
            links[n][p].phase = "none" \/ Connected(n, p) \/ Connecting(n, p)

\* A connection whose other end is gone, without a message that says so, is
\* noticed and ended (or was about to be accepted, and is).
HalfOpenNoticed ==
    \A n, p \in Node : Connected(n, p) ~> ~Connected(n, p) \/ Matched(n, p)

-----------------------------------------------------------------------------
\* What comments and docs of the code say and the code does not keep.

\* "returns nullptr if connection disconnected" (Connection::getLink): m_Link
\* is null or a link.
NoDanglingLink == \A n, p \in Node : conns[n][p].link # "deleted"
=============================================================================
