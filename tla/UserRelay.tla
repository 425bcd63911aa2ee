----------------------------- MODULE UserRelay -----------------------------
(***************************************************************************)
(* User messages between nodes (ZNode::sendReliableOrdered, ZNode::update, *)
(* CoreNode::recvUserPacket).  A node hands a user message to the game     *)
(* and, when it is listening, sends it on to its other links if the sender *)
(* asked for that.  A remote procedure call that cannot be handled leaves  *)
(* a critical error, after which a node does no more updates.              *)
(*                                                                         *)
(* A link is its two ends' view of each other; per direction and channel   *)
(* it is the ordered channel that ReliableOrdered implements.  How far a   *)
(* message in it has got is not modelled: poll may or may not find the     *)
(* next one.  Links and connections neither come nor go here (they do in   *)
(* Connections).  An end of a link may be without a connection, though: it *)
(* was refused, timed out or ended there, and the link lingers.  Such an   *)
(* end sends nothing any more (cleanLink and handleInvalidConnectAttempt   *)
(* block it), and what comes to it goes no further than ConnectionNode.    *)
(*                                                                         *)
(* Nothing in the code makes a node a peer of a peer-to-peer session       *)
(* (setIsP2P has no caller), so that exception to relaying is left out.    *)
(***************************************************************************)
EXTENDS Naturals, Sequences, FiniteSets

CONSTANTS
    Node,
    OpenLinks,      \* m_OpenLinksList of each node: the nodes at the other ends
    Unconnected,    \* <<n, m>>: n's end of the link to m has no connection
    Listening,      \* nodes that listen
    Channels,       \* channels in use
    Lacking,        \* nodes whose program lacks the function that is called
    MaxSent         \* bound: how many messages each node sends

ASSUME UserRelayAssumption ==
    /\ OpenLinks \in [Node -> Seq(Node)]
    /\ \A n \in Node : \A i \in 1 .. Len(OpenLinks[n]) :
          \E j \in 1 .. Len(OpenLinks[OpenLinks[n][i]]) : OpenLinks[OpenLinks[n][i]][j] = n
    /\ \A n \in Node : \A i, j \in 1 .. Len(OpenLinks[n]) :
          /\ OpenLinks[n][i] # n
          /\ OpenLinks[n][i] = OpenLinks[n][j] => i = j
    /\ Unconnected \subseteq Node \X Node
    /\ Listening \subseteq Node
    /\ Lacking \subseteq Node
    /\ MaxSent \in [Node -> Nat]

VARIABLES
    queue,          \* by sender, receiver and channel: accepted, not yet polled
    linkIdx,        \* of each node: which link its update is at, 0 when it does none
    criticalError,  \* of each node: hasCriticalErrors
    sent,           \* history: the messages each node sent, and to whom
    handed          \* history: the messages each game was handed

vars == <<queue, linkIdx, criticalError, sent, handed>>

Linked(n) == {OpenLinks[n][i] : i \in 1 .. Len(OpenLinks[n])}
Connected(n) == {m \in Linked(n) : <<n, m>> \notin Unconnected}

Kinds == {"user", "rpc"}

-----------------------------------------------------------------------------
Init ==
    /\ queue = [n \in Node |-> [m \in Node |-> [c \in Channels |-> <<>>]]]
    /\ linkIdx = [n \in Node |-> IF Linked(n) = {} THEN 0 ELSE 1]
    /\ criticalError = [n \in Node |-> FALSE]
    /\ sent = [n \in Node |-> <<>>]
    /\ handed = [n \in Node |-> <<>>]

-----------------------------------------------------------------------------
\* Sending.

\* queues with packet p added, on channel c, at node n's end of the links to
\* receivers, but for those that are blocked.
WithAdded(queues, n, receivers, c, p) ==
    [queues EXCEPT ![n] =
        [m \in Node |->
            IF m \in receivers /\ <<n, m>> \notin Unconnected
            THEN [queues[n][m] EXCEPT ![c] = Append(queues[n][m][c], p)]
            ELSE queues[n][m]]]

\* To whom a message may be addressed: all, one, or all but one, of the
\* connections or (requiresConnection = false) of the links.
Addressees(n) ==
    UNION {{group, group \cap {specific}, group \ {specific}} :
              group \in {Linked(n), Connected(n)}, specific \in Linked(n)}

\* The game sends a message, or calls a remote procedure (which always
\* requires a connection), between updates or from a callback.
SendReliableOrdered(n) ==
    /\ Len(sent[n]) < MaxSent[n]
    /\ \E to \in Addressees(n), kind \in Kinds, relay \in BOOLEAN, c \in Channels :
          /\ kind = "rpc" => to \subseteq Connected(n)
          /\ queue' = WithAdded(queue, n, to, c,
                          [kind |-> kind, relay |-> relay, channel |-> c,
                           origin |-> n, num |-> Len(sent[n]) + 1])
          /\ sent' = [sent EXCEPT ![n] =
                        Append(@, [kind |-> kind, relay |-> relay, to |-> to])]
    /\ UNCHANGED <<linkIdx, criticalError, handed>>

-----------------------------------------------------------------------------
\* Receiving: ZNode::update walks over the links.

\* Mutants: the walk goes past the list; it ends before its last link.
NextLink_PastEnd(n) ==
    /\ linkIdx[n] # 0
    /\ linkIdx' = [linkIdx EXCEPT ![n] =
                     IF @ <= Len(OpenLinks[n]) THEN @ + 1
                     ELSE IF criticalError[n] THEN 0 ELSE 1]
    /\ UNCHANGED <<queue, criticalError, sent, handed>>
NextLink_NotLast(n) ==
    /\ linkIdx[n] # 0
    /\ linkIdx' = [linkIdx EXCEPT ![n] =
                     IF @ + 1 < Len(OpenLinks[n]) THEN @ + 1
                     ELSE IF criticalError[n] THEN 0 ELSE 1]
    /\ UNCHANGED <<queue, criticalError, sent, handed>>

\* Go on to the next link; after the last one the update ends, and the next
\* starts at the first link unless there was a critical error.
NextLink(n) ==
    /\ linkIdx[n] # 0
    /\ linkIdx' = [linkIdx EXCEPT ![n] =
                     IF @ < Len(OpenLinks[n]) THEN @ + 1
                     ELSE IF criticalError[n] THEN 0 ELSE 1]
    /\ UNCHANGED <<queue, criticalError, sent, handed>>

\* The update is at the link to node from, and poll finds a packet on channel c.
Arrived(n, from, c) ==
    /\ linkIdx[n] # 0
    /\ OpenLinks[n][linkIdx[n]] = from
    /\ queue[from][n][c] # <<>>

Polled(n, from, c) == [queue EXCEPT ![from][n][c] = Tail(@)]

\* Mutant: the message goes back to where it came from as well.
RelayReceivers_All(n, from, p) ==
    IF p.relay /\ n \in Listening THEN Linked(n) ELSE {}

\* A listening node sends on what is to be relayed, to all links but the one
\* it came from.
RelayReceivers(n, from, p) ==
    IF p.relay /\ n \in Listening THEN Linked(n) \ {from} ELSE {}

\* Mutant: what was relayed is relayed again.
Relayed_Again(p) == p

\* What is relayed is relayed only once.
Relayed(p) == [p EXCEPT !.relay = FALSE]

\* Mutant: relayed on the channel that is the default.
RecvUserPacket_DefaultChannel(n, from, c) ==
    /\ Arrived(n, from, c)
    /\ from \in Connected(n)
    /\ LET p == Head(queue[from][n][c])
       IN /\ p.kind = "user"
          /\ queue' = WithAdded(Polled(n, from, c), n, RelayReceivers(n, from, p), 0, Relayed(p))
          /\ handed' = [handed EXCEPT ![n] =
                          Append(@, [origin |-> p.origin, num |-> p.num, sentOn |-> p.channel,
                                     channel |-> c, from |-> from])]
    /\ UNCHANGED <<linkIdx, criticalError, sent>>

\* A user message is relayed, then handed to the game.
RecvUserPacket(n, from, c) ==
    /\ Arrived(n, from, c)
    /\ from \in Connected(n)
    /\ LET p == Head(queue[from][n][c])
       IN /\ p.kind = "user"
          /\ queue' = WithAdded(Polled(n, from, c), n, RelayReceivers(n, from, p), c, Relayed(p))
          /\ handed' = [handed EXCEPT ![n] =
                          Append(@, [origin |-> p.origin, num |-> p.num, sentOn |-> p.channel,
                                     channel |-> c, from |-> from])]
    /\ UNCHANGED <<linkIdx, criticalError, sent>>

\* A remote procedure call is made here and never relayed, whatever its relay
\* flag; when the program has no such function, that is a critical error.
RecvRpcPacket(n, from, c) ==
    /\ Arrived(n, from, c)
    /\ from \in Connected(n)
    /\ Head(queue[from][n][c]).kind = "rpc"
    /\ queue' = Polled(n, from, c)
    /\ criticalError' = [criticalError EXCEPT ![n] = @ \/ n \in Lacking]
    /\ UNCHANGED <<linkIdx, sent, handed>>

\* Without a connection nothing but a connect request is expected: the packet
\* is refused (the answer and the marks find the link blocked and marked).
RecvRefused(n, from, c) ==
    /\ Arrived(n, from, c)
    /\ from \notin Connected(n)
    /\ queue' = Polled(n, from, c)
    /\ UNCHANGED <<linkIdx, criticalError, sent, handed>>

-----------------------------------------------------------------------------
\* What a node takes from a node it has a connection with.
Recv(n, from, c) == RecvUserPacket(n, from, c) \/ RecvRpcPacket(n, from, c)

Next ==
    \E n \in Node :
        \/ SendReliableOrdered(n)
        \/ NextLink(n)
        \/ \E from \in Linked(n), c \in Channels : RecvUserPacket(n, from, c)
        \/ \E from \in Linked(n), c \in Channels : RecvRpcPacket(n, from, c)
        \/ \E from \in Linked(n), c \in Channels : RecvRefused(n, from, c)

Spec == Init /\ [][Next]_vars

\* Every game keeps calling update, and what a link has accepted arrives
\* (EventuallyDelivered of ReliableOrdered), so that poll finds it in one of
\* the updates.
Fairness ==
    \A n \in Node :
        /\ WF_vars(NextLink(n))
        /\ \A from \in Linked(n) : SF_vars(\E c \in Channels : Recv(n, from, c))

FairSpec == Spec /\ Fairness

-----------------------------------------------------------------------------
\* Properties.

Packet == [kind : Kinds, relay : BOOLEAN, channel : Channels, origin : Node, num : Nat]
Handed == [origin : Node, num : Nat, sentOn : Channels, channel : Channels, from : Node]

\* Every variable has its type; an update is at one of the node's links.
TypeOK ==
    /\ queue \in [Node -> [Node -> [Channels -> Seq(Packet)]]]
    /\ linkIdx \in [Node -> Nat]
    /\ \A n \in Node : linkIdx[n] <= Len(OpenLinks[n])
    /\ criticalError \in [Node -> BOOLEAN]
    /\ sent \in [Node -> Seq([kind : Kinds, relay : BOOLEAN, to : SUBSET Node])]
    /\ handed \in [Node -> Seq(Handed)]

\* A message comes from the node that sent it, or from a listening node with
\* a link to that node: a relayed message is not relayed again, also where
\* listening nodes are linked to each other ("relay only once").
RelayedOnce ==
    \A n \in Node : \A i \in 1 .. Len(handed[n]) :
        LET h == handed[n][i]
        IN h.from # h.origin => h.from \in Listening /\ h.origin \in Linked(h.from)

\* No game is handed its own message ("except self").
NoEcho ==
    \A n \in Node : \A i \in 1 .. Len(handed[n]) : handed[n][i].origin # n

\* The messages that a node is handed over one link and that come from one
\* node on one channel are in the order they were sent in, each once, directly
\* or relayed, and on that channel ("in the order they were sent", which two
\* links one after the other must keep).
InOrder ==
    \A n \in Node : \A j \in 1 .. Len(handed[n]) :
        LET h == handed[n][j]
        IN /\ h.channel = h.sentOn
           /\ \A i \in 1 .. j - 1 :
                 LET g == handed[n][i]
                 IN g.from = h.from /\ g.origin = h.origin /\ g.channel = h.channel
                        => g.num < h.num

\* Node n was handed message k of node o over the link to node from, or has
\* stopped at a critical error.
GotOrStopped(n, o, k, from) ==
    \/ criticalError[n]
    \/ \E i \in 1 .. Len(handed[n]) :
          handed[n][i].origin = o /\ handed[n][i].num = k /\ handed[n][i].from = from

\* n and m have a connection at both ends of their link.
BothConnected(n, m) == m \in Connected(n) /\ n \in Connected(m)

\* Once all are done sending, every user message is handed to everyone it was
\* addressed to, and by way of a listening node to everyone with a link to
\* that, where both ends are connected; only a critical error, at the receiver
\* or on the way, prevents it, and one at any other node does not.
EveryoneGetsIt ==
    <>[](\A o \in Node : \A k \in 1 .. Len(sent[o]) : sent[o][k].kind = "user" =>
            \A n \in sent[o][k].to : BothConnected(o, n) =>
                /\ GotOrStopped(n, o, k, o)
                /\ sent[o][k].relay /\ n \in Listening /\ ~criticalError[n] =>
                      \A m \in Linked(n) \ {o} : BothConnected(n, m) => GotOrStopped(m, o, k, n))
=============================================================================
