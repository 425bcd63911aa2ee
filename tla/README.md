# Zerodelay (GameConn) in TLA+

Zerodelay is a C++ library for real-time games: nodes (`ZNode`) connect over
UDP, as clients of a server or peer to peer, and exchange reliable ordered,
unreliable sequenced and reliable newest messages, remote procedure calls and
groups of synchronised variables.  This directory holds TLA+ models of the
library, the TLC runs that check them, and TLAPS proofs about them.  All source
paths below are relative to `src/GameConn/`.

## The system

Each node runs three threads: the **game thread** (every `ZNode` call, and
`ZNode::update`, which runs all callbacks), the **receive thread**
(`RecvNode::recvThread`) and the **send thread** (`RecvNode::sendThread`).

| Part | State | Operations | Hard behaviour |
|---|---|---|---|
| `RUDPLink` (one per remote endpoint) | per channel: send and receive sequence numbers, retransmit queue, receive queues, fragment buffers, ack queue; `m_BlockNewSends`, pending-delete flag and time, pin count | `addToSendQueue`, `addReliableNewest`, `poll`, `dispatch...` (send thread), `recvData` and below (receive thread), `markPendingDelete`, `pin` | three threads with four locks and some unlocked reads; loss, duplication, reordering; wrap of the numbers |
| `RecvNode` | socket, the two threads, map and list of links, list pin count | `send`, `addLink`, `getLinkAndPinIt`, `updatePendingDeletes`, `recvThread`, `sendThread`, `reset` | link lifetime: pins, linger, deletion in the receive thread while the others hold pointers |
| `Connection` | state (`EConnectionState`), link, keep-alive and connect timestamps, `m_DisconnectCalled` | `sendConnectRequest`, `sendConnectAccept`, `disconnect`, keep alive, `update...` | timeouts racing late answers; link handed back while others still use it |
| `ConnectionNode` | connections by endpoint, `m_ProcessingConnection`, password, maximum, relay flag | `connect`, `disconnect`, `update`, `recvPacket` and its handlers, relays, callbacks | handshake, refusal, both ends closing, both ends connecting |
| `CoreNode`, `ZNode` | critical errors, listening / p2p flags | `update`, `listen`, `sendReliableOrdered`, relay of user packets, RPC dispatch | a critical error stops `update` for good |
| `VariableGroupNode`, `VariableGroup`, `NetVariable`, `SyncGroups.h` | groups, pending groups, id ranges | create, destroy, update, id request | ids granted asynchronously |
| `MasterServer` | registered servers | register, lookup | packet handler is never called from `update` |
| `BinSerializer`, `Util`, `EndPoint` | buffers | reads and writes | bounds |
| `Socket`, `Platform` | OS socket, dynamic loader | pure I/O | - |

How they interact: the game thread calls `addToSendQueue` on a link, which
numbers the fragments and queues them under `m_ReliableOrderedQueueMutex`; the
send thread walks all links under `m_OpenLinksMutex` and sends their retransmit
and ack queues; the receive thread finds or adds the link of a datagram and runs
`recvData`; `ZNode::update` pins each link in turn, polls it under
`m_RecvQueuesMutex` and hands every message to `ConnectionNode`,
`VariableGroupNode` or `CoreNode`, and afterwards updates the connections'
timers.

## Modules

Which module stands on which:

    SequenceNumbers
      Fragmentation ................ FragmentationProofs
        ReliableOrdered ............ ReliableOrderedProofs
          OrderedChannel               (what it promises)
        UnreliableSequenced ........ UnreliableSequencedProofs
          SequencedChannel             (what it promises)
      ReliableNewest
    Connections, MCConnections ..... ConnectionsProofs, ConnectionsAgreementProofs
    LinkLifetime ................... LinkLifetimeProofs
    UserRelay, MCUserRelay ......... UserRelayProofs
    GroupIds, MCGroupIds ........... GroupIdsProofs

`Connections`, `UserRelay` and `GroupIds` use the promises of the channels: they
model a link as queues, and what the channel modules show is what makes that
right.

### Reliable ordered delivery

`SequenceNumbers` is the u32 arithmetic of the counters and
`RUDPLink::isSequenceNewer`, with the width as a parameter.  `Fragmentation` is
what both channels share: cutting and numbering (`serializeNormalPacket`),
the search for a complete message (`tryReassembleBigPacket`) and its
reassembly (`defragmentPacket`).  `ReliableOrdered` is one direction of one
channel of a link, from `addToSendQueue` on one node to `poll` on the other.
`OrderedChannel` is what it promises: a queue.

| Variable | Code |
|---|---|
| `sendSeq`, `retransmitQueue` | `m_SendSeq_reliable`, `m_RetransmitQueue_reliable` |
| `toSend` | the local `packs` of `addToSendQueue`, between unlock and the last `send` |
| `net`, `ackNet` | datagrams in flight or in the socket's buffer |
| `ackQueue`, `fragments`, `recvQueue`, `recvSeq` | `m_AckQueue`, `m_Reliable_fragments`, `m_RecvQueue_reliable_order`, `m_RecvSeq_reliable` |
| `recvThread` | how far `recvData` has got with its packet |
| `polling` | the game thread is between `beginPoll` and `endPoll` |
| `sent`, `delivered` | history: what was accepted, what was handed to the game |

One action per critical section: `AddToSendQueue` and `SocketSend` (game
thread), `DispatchReliableOrderedQueue` and `DispatchAckQueue` (send thread),
`ReceiveAck`, `RecvData`, `EarlyOut`, `ReceiveUnfragmented`, `BufferFragment`,
`ReassembleFragments` (receive thread), `BeginPoll`, `Poll`, `EndPoll` (game
thread).  The steps of `recvData` are separate because the ack is queued under
one lock, the early-out reads the counter under none, and the queue is changed
under a third; the game thread may come between any two.

### Unreliable sequenced delivery

`UnreliableSequenced` is one direction of one unreliable channel, from
`addToSendQueue` to `poll`.  `SequencedChannel` is what it promises: whole
messages, none twice, none after a newer one; any may be missing.

| Variable | Code |
|---|---|
| `sendSeq`, `recvSeq` | `m_SendSeq_unreliable`, `m_RecvSeq_unreliable` |
| `fragments`, `recvQueue` | `m_Ureliable_fragments`, `m_RecvQueue_unreliable_sequenced` |
| `net` | datagrams in flight or in the socket's buffer |
| `firstRecvSeq`, `arrived`, `sent`, `delivered` | history: what `recvSeq` was at first, which packets came in, what was accepted and handed over |

`AddToSendQueue` numbers and sends; `ReceiveOlder`, `ReceiveUnfragmented`,
`BufferFragment` and `ReassembleFragments` are the four ways through
`receiveUnreliableSequenced`; `Poll` is the game thread.  Counter and fragments
belong to the receive thread alone, so a packet is one step.  The constructor
sets `m_RecvSeq_reliable` twice and `m_RecvSeq_unreliable` never, so the first
value of `recvSeq` is chosen from `FirstRecvSeqs`.

### Reliable newest data

`ReliableNewest` is both ends of a link with one group of items each:
`AddReliableNewest` (game thread), `SendThread` (which, in both of its rounds,
calls `dispatchRelNewestAckQueue` only), `ReceiveReliableNewest` and
`ReceiveAckRelNewest` (receive thread).  Only the end that accepted the connection
sends that ack: `RUDPLink::setConnected` is called by `sendConnectAccept` and
nowhere else, and an end that is not connected dispatches none (`isConnected`).  `dispatchReliableNewestQueue` has no caller
and is no action.  The ack is sent with its sequence at offset 5 and read at
offset 0, where the link id is, and the model does the same.

### User messages

`UserRelay` is several nodes whose games send user messages and remote procedure
calls to each other: `ZNode::sendReliableOrdered` with its choice of addressees,
the walk of `ZNode::update` over the links, `CoreNode::recvUserPacket` with the
relay of a listening node, and `CoreNode::recvRpcPacket` with the critical error
that ends all updates.  `MCUserRelay` gives TLC the topology.

| Variable | Code |
|---|---|
| `Unconnected` (constant) | ends of links without a connection: refused, timed out or closed there, while the link lingers |
| `queue[n][m][c]` | the reliable ordered channel c of the link from n to m: accepted and not polled |
| `linkIdx` | `linkIdx` of `ZNode::update`; 0 once the node updates no more |
| `criticalError` | `CoreNode::m_CriticalErrors` |
| `sent`, `handed` | history: messages and addressees, messages handed to each game |

`RecvUserPacket` polls one message, sends it on to all links but its own
(`RelayReceivers`, `Relayed`), and hands it to the game; `RecvRpcPacket` calls,
or fails.  What comes over a link without a connection gets no further than
`ConnectionNode::recvPacket` (`RecvRefused`), and what is sent over one is dropped,
because such a link is blocked (`cleanLink`, `handleInvalidConnectAttempt`).  `isP2P` is left out because `setIsP2P` has no caller.

### Ids of variable groups

`GroupIds` is the part of `VariableGroupNode` that runs: groups that the game
declares wait for a network id, nodes that are no id provider ask their
connections for packs of ids, providers hand them out from a counter.

| Variable | Code |
|---|---|
| `listen` | whether the node listens, or did before a reset closed its socket |
| `isProvider`, `counter`, `deck`, `pending` | `m_IsNetworkIdProvider`, `m_UniqueIdCounter`, `m_UniqueIds`, `m_PendingGroups` |
| `requests`, `packs` | `IdPackRequest` (unreliable) and `IdPackProvide` (reliable ordered) under way |
| `connected` | connections, which both ends see alike here |
| `running` | the process has not ended |
| `groups`, `providerReset`, `taken`, `breaks` | history: groups made, whether a provider was reset, ids given to groups, connections lost and nodes reset |

`UpdateAsking` and `UpdateOnly` are one `VariableGroupNode::update` with and
without a request; `RecvIdRequest` and `RecvIdProvide` the handlers;
`Listen`, `Connect`, `LoseConnection` and `Disconnect` what the rest of the node
does to it (`VariableGroupNode` is not registered as a listener of connections, so
it is told of none of them).  An id is a number and no more, as in the code, so the
ids of two providers, or of one before and after a reset, may be equal.  A group that gets its id ends its process: the creation
message is written into an empty `BinSerializer`, whose `growTo` asserts that
`i32_t(2 * 1.2f) > 2` and, in a build without assertions, copies from a null
pointer with `memcpy_s`.  So nothing is modelled of what comes after.

### Connections

`Connections` is `ConnectionNode`, `Connection` and the part of `RecvNode` they
live on, for any set of nodes.  It stands on the result of `ReliableOrdered`: a
link is a pair of queues that deliver in order and once.  `MCConnections` adds
the nodes' names and the numbers of `connect` calls for TLC.

| Variable | Code |
|---|---|
| `conns[n][p]` | the `Connection` of node n with endpoint p: `m_State`, `m_IsWaitingForKeepAlive`, and what `m_Link` points to: a link, nothing, or a link that was deleted |
| `links[n][p]` | the `RUDPLink` of n with p: its id, its phase (open, pending delete and lingering, pending delete for longer), messages not yet taken by the other side, messages taken and not polled, and whether any were acked and heard (the two sequence counters agree) |
| `game[n]` | where `ZNode::update` is: between updates, between links, in the batch of one link (with `m_ProcessingConnection` looked up once), or in the walk over the connections |
| `limit`, `dialed`, `alive` | `m_MaxIncomingConnections`, link ids drawn, `ZNode::disconnect(linger)` |
| `up`, `owed`, `remoteUp` | history of the callbacks: connected minus disconnected, connect calls without a result, relayed connects minus disconnects (forgotten when the node is told that a connection of its own ended, or that it got connected: the application starts a new list) |

`Connect`, `Close`, `Quit`, `Reset` and `SendRaw` are calls of the application.
`Deliver`, `Linger` and `UpdatePendingDeletes` are the receive thread.
`BeginProcess`, one handler per message type (`RefuseUnknown`,
`RefuseConnect`, `AcceptConnect`, `RecvConnectAccept`, `RecvRefusal`,
`RecvDisconnect`, `RecvRemote`, `RecvKeepAlive...`, `RecvOther`) and
`EndProcess` are the first part of `update`; `BeginUpdate` and `Update...` the
second.  Each message and each connection is a step of its own, so the receive
thread and other nodes come in between.  Relays and callbacks are part of the
handler that makes them.

Abstractions: a message is its type (and, for a connect request, whether
password and all are right; for a relay, the peer).  Clocks are left out: a
timer may fire at any update in which its condition but for the time holds, so
every order of timeouts and answers is covered.  A datagram is assumed not to
live longer than a link lingers.  A link id is drawn from `rand()`: two nodes draw
different ids, unless `SameSeed` holds (two processes that never called `srand`
draw the same).  What is sent over a deleted link goes nowhere; undefined
behaviour beyond that is not followed, and the run `no_dangling_link` shows how
it comes about.

### The life of links

`LinkLifetime` looks at one node and lets its three threads interleave at the
grain of the mutexes: who may use a `RUDPLink`, and when it is deleted.

| Variable | Code |
|---|---|
| `list` | `m_OpenLinksList`, and `m_OpenLinksMap`, which changes with it |
| `link` | every `RUDPLink` ever allocated: memory, endpoint, `m_PinnedCount` (now and as found at construction), `m_IsPendingDelete`, time since `m_MarkDeleteTS` in three classes |
| `listPins` | `m_ListPinned` |
| `mutex` | `m_OpenLinksMutex` where it is held across steps (the send thread's walk) |
| `game`, `recv`, `send` | how far each thread is |

`GetLink`, `ReceiveConnect`, `Received`, `UpdatePendingDeletes` are the receive
thread, `Dispatch` and `WaitAgain` the send thread, `Connect`,
`GetLinkAndPinIt`, `UnpinLink`, `MarkPendingDelete`, `SetMarkDeleteTS`,
`LeaveWalk` (`hasPendingData` returns at the first link with data), `PinList`,
`SendToLink` and `UnpinList` the game thread.  The two assignments
of `markPendingDelete` are two steps because the receive thread reads both
without their mutex.  The constructor of `RUDPLink` does not set
`m_PinnedCount`, so its first value is chosen from `FreshPins`.

## What TLC checks

| Run | Question | Bounds |
|---|---|---|
| `reliable_ordered` | types; messages whole, in order, once (`OrderedDelivery`); nothing is acked and then lost (`AckedIsReceived`); the link implements `OrderedChannel`; everything accepted is handed over (`EventuallyDelivered`) and acked (`EventuallyAcked`) in the end | 2 fragments, as one message or two; numbers of 2 bits from 3 on, so that they wrap; two datagrams in flight each way |
| `connections` | callbacks pair up on every path (`CallbacksMatch`) | one client that connects twice, with the right password, a wrong one or none sent; a server with no place or one; both close, quit, keep alive; the client also sends without a connection |
| `connections_relay` | both sides agree (`PeerAgrees`), the limit holds (`MaxConnectionsKept`), relays alternate (`RemoteAlternates`) and, once all arrived, say what the server has (`RelaysAreTrue`) | two clients, a server with one place or two; one client leaves and returns |
| `connections_live` | connected ones hold live links (`LinkHeld`), `PeerAgrees`; links are deleted in the end (`LinksAreDeleted`); a connection whose other end is gone is noticed (`HalfOpenNoticed`) | one client that connects twice and may quit, one server, keep alive on both |
| `link_lifetime` | no thread uses a deleted link (`PinnedIsAlive`); no link leaves the list under `forEachLink` (`ListGrowsUnderWalk`); none is deleted before it lingered, but in the middle of `markPendingDelete` (`LingersOnceMarked`); between two calls of the game nothing is left pinned, so that nothing keeps a link from deletion for good (`NothingPinnedAtRest`) | two endpoints, three links ever allocated, pin counts modulo 4 that start at 0, 1 or 2 |
| `unreliable_sequenced` | a message that got through whole is kept unless a newer one is (`NewestIsKept`); the link implements `SequencedChannel` | messages of 1, 2 or 3 fragments, 5 fragments in all, numbers modulo 10 from 8 on, so that they wrap; 3 datagrams in flight; first values of the receiver's counter 3, 4, 7, 8 and 9: just before, at and far from the first number |
| `user_relay` | relayed once (`RelayedOnce`), never back to the sender (`NoEcho`), in order over two hops (`InOrder`), over connected links to everyone unless a critical error is in the way (`EveryoneGetsIt`) | two listeners that are connected, a client of each, and one that its listener has given up and that does not know it yet; one client sends two messages, the one given up one; two channels; one listener lacks the function that is called |
| `group_ids` | with a single provider no id is in two places (`UniqueIds`); no group waits for ever at a node that is connected to a running provider (`NoGroupWaitsForever`) | a server and two clients, any of them perhaps a provider from the start; a group of the server and of one client, while the other client asks for ids ahead; packs of 2; two requests or packs under way from node to node; one lost connection or reset |

Four runs end in a violation on purpose; they are below, under disagreements.

Why the bounds are enough.  *Reliable ordered:* the receiver compares numbers
only with `recvSeq` and with neighbours; two adjacent messages or one fragmented one,
a gap, a duplicate of something already processed and the wrap are in the run.
A fragmented message next to another is not (with fairness it would be too large):
its safety is what the theorems below show for any number of messages of any
length, and the search and reassembly it rests on are `Fragmentation`, which
`unreliable_sequenced` runs with messages of up to three fragments.  `HalfRange` bounds the
messages sent in all, which is the code's own condition for telling newer from
older numbers.  The theorems below remove these bounds.  *Connections:* twice
connecting is what it takes for a late answer of the first attempt to meet the
second; two clients and a server are what a relay takes.  *Unreliable:* two
messages of two fragments can be interleaved in every order, which is what it
takes to move the counter past a fragment that is buffered.  *User messages:*
two hops and a third that must not be taken are what a relay of a relay takes; two
messages of one sender what order takes.  *Ids:* two askers of one provider, which
has a group itself; two providers, if the flag of a client happens to be set; an
answer that is late, and one that comes to a node that was reset.  *Link
lifetime:* with
three allocations for two endpoints one endpoint is used again after its link
was deleted.  Each bound on what the environment does is a guard: `MaxPackets`
and `MaxInFlight`; `Dials`, and one raw message under way in `SendRaw`;
`MaxLinks`; `MaxSent`; `MaxGroups`, `MaxInFlight` and `MaxBreaks` of `GroupIds`;
`MaxUpdates`.

`CHECK_DEADLOCK FALSE` is said where the system really may stop: nodes that
connected as often as they may and are closed have nothing to do, and nor does
a node all of whose links are used up.

### Fairness

* `ReliableOrdered`: each thread is a loop, hence weak fairness of the game
  thread's `update` and of `ReceiveAck`.  The receive thread waits for a mutex
  that the game thread takes again and again, hence strong fairness.  Dispatch,
  receipt and acks of one number get strong fairness: a network that is handed the
  same datagram for ever lets it through for ever.  Nothing says that any
  particular datagram arrives.
* `Connections`: weak fairness of each handler and of the update walk, of
  `Deliver` (which stands for retransmission over the link), of the passing of
  time (`Linger`, `TimerFires`: a timer that is set has run off at some later
  update) and of deletion.  The last needs a receive thread that wakes up, so
  that some datagram reaches the socket.
* `UserRelay`: games keep calling `update` (weak fairness of `NextLink`), and what
  a link has accepted is found by `poll` in one of the updates, which is
  `EventuallyDelivered` of `ReliableOrdered` (strong fairness of `Recv`, as the walk
  is at that link only now and then).  Nothing is promised of what comes to an end
  without a connection.
* `GroupIds`: games keep calling `update`; a request that is sent every half
  second to the same node arrives one day (strong fairness of the arrival); packs
  are reliable while the connection lasts.  A single request may always be lost.
  This is optimistic while `m_RecvSeq_unreliable` of the provider's link is at its
  uninitialised first value: until the asker's numbers pass that, which may take
  2^31 requests, all of them are dropped as old (see `UnreliableSequenced`).
* `ReliableNewest`: send threads and receive threads keep running, and what is sent
  again and again arrives.  The violation does not hang on less.
* `LinkLifetime` has no liveness property: whether the receive thread ever looks at
  a moment in which the game has nothing pinned is up to the scheduler.
  `NothingPinnedAtRest` says that such moments come after every call of the game.

## Disagreements between the code and its comments

Each has a run of its own which finds the shortest way to it.

* `header_of_first_fragment`: `defragmentPacket` takes the id and type of a
  message from the lowest buffered fragment ("copy id, type etc from first
  fragment"), which may belong to another message.
* `no_dangling_link`: `m_ProcessingConnection` is looked up once per batch.
  After an accepted connect request the next message of the batch is refused
  and marks the new connection's link pending delete.
* `newest_is_transmitted`: "guarentees that the last piece of data (update) is
  always transmitted" (`RUDPLink.h:27`), but the send thread never sends any of it.
* `every_group_has_unique_id`: "Every group has a unique ID network wide"
  (`VariableGroupNode.h:47`), but nothing sets `m_IsNetworkIdProvider` before `listen`
  does.  A client whose flag happens to be set counts from zero, like its server,
  and a group of each gets id 0.

Noticed while modelling, without a run:

* `addToSendQueue` sends fragments after it released the queue's mutex; an ack for
  what the send thread sent may have deleted them (`RUDPLink.cpp:85`).
* A duplicate that arrives while its original is being polled stays in the receive
  queue, so that `hasPendingData` is true for ever.
* `hasPendingData` called from a callback of `update` locks a mutex that the same
  thread holds since `beginPoll`.
* `markPendingDelete` sets the flag before the time; in between, the receive thread
  may delete the link at once.  `LingersOnceMarked` says that this is the only
  way to lose the linger time.
* `forEachLink` walks over a vector that the receive thread appends to, which may
  move its elements.  `ListGrowsUnderWalk` says that appending is all that
  happens.
* A link whose pin count happens not to start at zero is never deleted, and one
  that starts at the highest value is not protected by its pin.
* Two peers that connect to each other (with equal link ids) refuse each
  other, and the refusal ends the attempt that `recvAlreadyConnected`, never
  called, would keep (`ConnectionNode.cpp:469`).
* `isConnectionKnown` looks at links and `connect` at connections, which end at
  different moments; a server that closes a connection itself does not relay it,
  so `RemoteAlternates` and `RelaysAreTrue` are about a server that closes none.
* `recvRemoteConnected` and `recvRemoteDisconnected` do not look at the state of the
  connection that the news came over (`ConnectionNode.cpp:544`).  A client that was
  accepted, but gave up before the answer came, still hears of others until the
  next update deletes the attempt, and so does one whose connection was lost
  (`onDisconnect` called).  It may never hear of their going, and on its next
  connection it hears of the same peer's coming a second time.
  `RemoteAlternates` therefore counts from one connection to the next only:
  an application that keeps its list across connections would count twice.
* The first value of `m_RecvSeq_unreliable` may hide up to half of all numbers;
  `NewestIsKept` speaks of the others.
* The relay of user messages goes to all links, also to those without a connection,
  although `Zerodelay.h` speaks of "other connected clients"; only that such links
  are blocked keeps it from them.  The relay flag of a remote procedure call has no
  effect.
* A provider that calls `disconnect` counts ids from zero again while others keep the
  ones it gave them; a listener that becomes a client stays a provider, and gets no
  ids from its server.  `UniqueIds` therefore is about a single provider that
  is never reset.
* `cleanLink` marks a link through the connection's pointer, which pins nothing: between
  flag and time of the mark the receive thread may delete the link, and the time is
  written to freed memory (`RUDPLink.cpp:261`).

## What is proved

The proofs hold for every value of the constants, under the modules' named
assumptions.

**`ReliableOrderedProofs`** (from `FragmentationAssumption`: positive
fragment counts, at most `HalfRange` fragments sent in all):
`Spec => []TypeOK` (`TypeCorrect`), `Spec => []OrderedDelivery`
(`OrderedDeliveryHolds`), and that the specification implements `OrderedChannel`
(`LinkImplementsOrderedChannel`).  `OrderedDelivery` alone is not inductive:
that the next message polled is the right one depends on what was put in the
queue long before.  The inductive invariant says (1) how the accepted messages
lie in the sequence space, one after the other; (2) that every packet anywhere
(queues, network, the receive thread, the fragment buffer) is a fragment of an
accepted message, under its own number; (3) that every entry of the receive
queue is one accepted message, whole; (4) that `recvSeq` is the number of the
first fragment of the message after those delivered.  With at most half the
range in use distinct positions have distinct numbers, so reassembly, which
sees numbers only, cannot mix messages; and the entry with number `recvSeq`
can only be the next message.  The refinement then follows step by step: only
`AddToSendQueue` and `Poll` change what the two game threads see.
`Spec => []AckedIsReceived` (`AckedIsReceivedHolds`) needs more: `recvData` queues
an ack before the packet is processed, so an ack that reaches the sender later
must still be for something the receiver kept.  `AckIInv` says that every sent
packet is in the retransmit queue or was taken (`KeptOrGot`), and that every ack
anywhere is the number of a sent packet that was taken (`AcksAreForGot`); it is
inductive relative to the invariant above, which makes that packet the only one
of its number and keeps the receiver from dropping, as old, one it still needs.

**`FragmentationProofs`** has no specification of its own: it holds the facts about
cutting, numbering and reassembly that both channels use (a run of numbers with
the ends marked is one accepted message, whole; what was accepted only grows).

**`UnreliableSequencedProofs`** (from `FragmentationAssumption` and
`FirstRecvSeqsAssumption`): `Spec => []TypeOK` (`TypeCorrect`),
`Spec => []NewestIsKept` (`NewestIsKeptHolds`) and that the specification implements
`SequencedChannel` (`LinkImplementsSequencedChannel`).  Besides the layout of the
messages and the provenance of packets, the inductive invariant says that what is
queued and was handed over is in order of its messages (`InSequence`), that the
counter is at the front of what was taken, or at its first value
(`CounterAtFront`), that everything that arrived and is not older is buffered
(`ArrivedIsBuffered`), and that no complete message lies in the buffer
(`NoneIsComplete`).  The last two are why a message cannot be missed: with its last
missing fragment it would have been complete.

**`LinkLifetimeProofs`** (from `LinkLifetimeAssumption` and `RoomForAPin`: the
pin count of a new link is not the highest value): `Spec => []TypeOK`
(`TypeCorrect`) and `Spec => []PinnedIsAlive` (`PinnedIsAliveHolds`), for any
number of links and endpoints and any width of the pin count; then
`Spec => []NothingPinnedAtRest` (`NothingPinnedAtRestHolds`),
`Spec => []ListGrowsUnderWalk` (`ListGrowsUnderWalkHolds`) and
`Spec => LingersOnceMarked` (`LingersOnceMarkedHolds`), which use that invariant and
that a mark without a time is one that the game thread is at.  The inductive
invariant adds that everything in the list is allocated, that a link's pin count is
its first value plus the game thread's pin, that the list is pinned during
`forEachLink`, and that `markPendingDelete` returns to the link it was called
for.  `RoomForAPin` is needed: with the highest first value the pin wraps to zero
and the link may be deleted under the game thread.

**`ConnectionsProofs`** (from `ConnectionsAssumption`): `Spec => []TypeOK`
(`TypeCorrect`) and `Spec => []CallbacksMatch` (`CallbacksMatchHolds`) for any set
of nodes, and `Spec => []MaxConnectionsKept` (`MaxConnectionsHolds`) for any
finite one.  `TypeOK /\ CallbacksMatch` is inductive: the counts of callbacks
depend on the connection's own state only, so the argument does not rest on what
the links deliver, and it says that every handler checks the state before it
calls back.  Each action is a lemma about the one cell of `conns` it changes
(`CellStep`, or `DisconnectKeeps` for all at once).  For the limit the same
lemmas say who is known afterwards: only `AcceptConnect`, below the limit, and
`Connect`, on clients, add a connection.

**`ConnectionsAgreementProofs`** (from `ConnectionsAssumption`):
`OneWay /\ RawSenders = {} /\ Spec => []LinkHeld` (`LinkHeldHolds`) and the same for
`PeerAgrees` (`PeerAgreesHolds`), for any nodes, listeners, clients, limits and
requests, with equal or different link ids.  Neither is inductive: that a
client's accepted attempt meets an open end rests on what was put under way long
before.  The inductive invariant, `AgreeInv` (theorem `Agreement`), speaks of a
client and a server at a time, by their two connections, the two ends of their
link and the messages in between.  `ClientEnd` and `ServerEnd` say when an end is
open: a client's as long as a connection holds it, a server's as long as it is
connected or has an unread request.  `Ends` says that a request is the first and
only message of its link until it is answered, and that a client that was
refused has no open end across.  `OthersInv` says that nodes that connect
neither way have nothing; `PollInv` that what `ZNode::update` remembers of a
connection while it polls a link is stale only once the link has been emptied;
`GoneInv` that `ZNode::disconnect(linger)` left no connection behind.  Each action
is then a lemma about the one end it changes, as one of three kinds (`Moves`,
`Removed`, `Replies`), and each kind keeps `PairInv` seen from either side;
`Deliver`, which moves a message between two ends, and `Connect`, which opens one,
are by themselves.

Both hypotheses are needed.  `OneWay`: no two nodes may connect to each other.
Two peers that do, and draw the same link ids, break both properties
(`SameSeed = TRUE`; with different ids TLC finds no violation on two nodes).
`RawSenders = {}`: nobody sends over a link that is not connected, which
`requiresConnection = false` allows.  With one client that does, both fail: its
message follows the request, is polled in the same batch, and `update`, which
looked for the connection before, marks the link of the connection just accepted
for deletion (the run `no_dangling_link`); the server goes on with a link that is
gone and refuses the client's next attempt as already connected.
The runs check the two properties under these hypotheses.

The second part of the module is about what a server relays:
`OneServer /\ Listeners \cap Closers = {} /\ RawSenders = {} /\ Spec =>
[]RemoteAlternates` (`RemoteAlternatesHolds`) and the same for `RelaysAreTrue`
(`RelaysAreTrueHolds`), for one server and any number of clients that come, go,
time out, are refused, are lost or quit.  Both say what the game has been told; the
inductive invariant, `TurnsInv` (theorem `Relaying`), speaks of what it is going to
be told.  Take a client, the server and a third node, and write down what the
client heard of it last, then all that is under way (the client's queue, and what
the server sent if it is over the same link), then the opposite of what the server
has: in that sequence of comings and goings no two equal ones follow each other
(`InTurn`).  A client that polls takes the first one off (`TurnHeard`), a server that
gets or loses a node adds one and turns the last one round (`TurnTold`), a connection
that ends, on either side, strikes out the first or the last (`TurnWeaken`), and a
delivery changes nothing, for it moves a message within the sequence.  That an
accepted client begins with nothing under way is `Unanswered` of `AgreeInv`, and
that a new link has no message of an old one that `dialed` only grows.  Most actions
do no more than that at one node (`QuietStep`, `QuietKeeps`); `AcceptConnect`,
`RecvDisconnect` and `UpdateKeepAliveLost` tell (`RelayKeeps`), `RecvRemote` hears.

Of the hypotheses, `OneServer` (no two nodes listen) is needed because two servers
may both tell of the same node, and a server among `Closers` because
`ZNode::disconnect(endpoint)` is not relayed.  A server that quits is covered: it
tells no one any more.

**`UserRelayProofs`** (from `UserRelayAssumption`: a link has two different ends, and
a node has one link at most to another): `Spec => []TypeOK` (`TypeCorrect`),
`Spec => []RelayedOnce` (`RelayedOnceHolds`), `Spec => []NoEcho` (`NoEchoHolds`) and
`Spec => []InOrder` (`InOrderHolds`), for any nodes and links, with any ends of them
unconnected and any number of nodes listening.  That order survives two links one after the other rests on what
relays have in flight: the inductive invariant says that everything under way over
a link is the sender's own or was handed to the sender directly before
(`AllMayTravel`, `AllMayBeHanded`), that queues are in the order of sending per origin
(`QueueInOrder`), and that what is under way is newer than what came the same way
(`QueueIsNewer`).  A message that is relayed is therefore newer than all that were
relayed before it.

**`GroupIdsProofs`** (from `GroupIdsAssumption`): `Spec => []TypeOK` (`TypeCorrect`) and
`Spec => []UniqueIds` (`IdsAreUnique`), for any nodes and listeners, any number of ids
in a pack and any number of requests, lost connections and resets.  `UniqueIds`, whose
hypothesis is that there is one provider at most and none was reset
(`SingleProvider`), is not inductive: a new id is new only because the counter is past
all that are anywhere.  The inductive invariant adds that a pack under way is whole
(`PacksAreWhole`) and, under `SingleProvider`, that the counter of a provider has
passed every id in a deck, in a pack under way or in use (`HeldAreGivenOut`), and
it says "in one place at most" kind of place by kind of place (`PlacesDiffer`).
An id then only moves: from a pack to a deck, and from a deck to a group.  As nothing
makes a provider no provider again, `SingleProvider` never comes back once it is
lost, which is why the invariant may have it as a hypothesis.

Only model-checked: all liveness (fairness and `ENABLED` are beyond the prover used
here), that is `EventuallyDelivered`, `EventuallyAcked`, `LinksAreDeleted`,
`HalfOpenNoticed`, `EveryoneGetsIt` and `NoGroupWaitsForever`.
Every invariant that a passing run checks is a theorem.

## What is not modelled

* **Variable groups beyond their ids.**  Creating the first group ends the process
  (see `GroupIds` above), and updates of variables are reliable newest data, which
  is never sent.  `recvVariableGroupCreate` and its kin are thus never reached by
  a message of this program.
* **The master server.**  `MasterServer::recvPacket` has no caller.
* **Ack tickets, packet loss simulation, latency and send intervals, meta data of
  connections, and the critical errors of malformed packets**: of the modelled
  parts these are left out.
* **RPC macros, serializers and utilities** are sequential code without state that
  outlives a call; sockets and the dynamic loader are I/O.
* **Chat, the unit tests, SDL and the leak detector** use the library or stand
  beside it.  They are most of the repository: 37,000 of its 47,000 lines of
  C++ are headers of SDL and the leak detector, and 2,600 are tests and the
  example.  The library itself is under 8,000 lines, a good part of it
  declarations, logging and buffer handling, so the share of mapped lines over all
  files is small and cannot become large.

## What is left

1. `LinkHeld` and `PeerAgrees` for peers that connect to each other under different
   link ids; what clients of several servers hear, where news of one server would
   have to be told from that of another (the callback does not say whose it is).
2. A run of `Connections` with two peers that connect to each other; critical errors
   in `Connections`.
3. Groups after their creation, once the code gets that far.
