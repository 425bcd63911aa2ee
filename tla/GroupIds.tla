------------------------------ MODULE GroupIds ------------------------------
(***************************************************************************)
(* Network ids for variable groups (VariableGroupNode).  A group that the  *)
(* game creates waits for an id.  A node that is no id provider asks all   *)
(* its connections for ids, every so often while it has few; a provider    *)
(* answers with a pack of ids from its counter, and takes its own ids from *)
(* the counter too.                                                        *)
(*                                                                         *)
(* The request is unreliable, the answer reliable ordered while the        *)
(* connection lasts.  What becomes of a group that has its id is not       *)
(* modelled, for nothing does: VariableGroupNode writes the create message *)
(* to an empty BinSerializer, whose growTo ends the process (it copies     *)
(* from a null pointer, after an assertion that cannot hold either).       *)
(*                                                                         *)
(* Whether a node is a provider has no initial value; ZNode::listen makes  *)
(* it one, and nothing makes it no provider again.  An id is a number and  *)
(* no more (a u32, and no counter is assumed to get to 2^32).              *)
(***************************************************************************)
EXTENDS Naturals, Sequences, FiniteSets

CONSTANTS
    Node,
    Listeners,      \* nodes whose game may call listen
    IdsPerPack,     \* sm_AvailableIds
    MaxGroups,      \* bound: how many groups each node creates
    MaxInFlight,    \* bound: requests and packs under way from node to node
    MaxBreaks       \* bound: how often connections are lost or a node resets

ASSUME GroupIdsAssumption ==
    /\ Listeners \subseteq Node
    /\ IdsPerPack \in Nat \ {0}
    /\ MaxGroups \in [Node -> Nat]
    /\ MaxInFlight \in Nat \ {0}
    /\ MaxBreaks \in Nat

VARIABLES
    connected,      \* connections, each the set of its two nodes
    listen,         \* of each node: whether it listens, or did before a reset
    isProvider,     \* m_IsNetworkIdProvider of each node
    counter,        \* m_UniqueIdCounter of each node
    deck,           \* m_UniqueIds of each node
    pending,        \* how many m_PendingGroups each node has
    running,        \* of each node: its process has not ended
    requests,       \* by asker and asked: how many requests are under way
    packs,          \* by provider and asker: packs under way
    \* History.
    groups,         \* how many groups each node created
    providerReset,  \* a provider was reset
    taken,          \* by group: the id it was given
    breaks          \* how often a connection was lost or a node reset

vars == <<connected, listen, isProvider, counter, deck, pending, running, requests,
          packs, groups, providerReset, taken, breaks>>

Peers(n) == {m \in Node : {n, m} \in connected}

\* The next ids of a node's counter.
IdsFrom(n, count) == [i \in 1 .. count |-> counter[n] + i - 1]

-----------------------------------------------------------------------------
Init ==
    /\ connected = {}
    /\ listen = [n \in Node |-> "not"]
    /\ isProvider \in [Node -> BOOLEAN]
    /\ counter = [n \in Node |-> 0]
    /\ deck = [n \in Node |-> <<>>]
    /\ pending = [n \in Node |-> 0]
    /\ running = [n \in Node |-> TRUE]
    /\ requests = [n \in Node |-> [m \in Node |-> 0]]
    /\ packs = [n \in Node |-> [m \in Node |-> <<>>]]
    /\ groups = [n \in Node |-> 0]
    /\ providerReset = FALSE
    /\ taken = <<>>
    /\ breaks = 0

-----------------------------------------------------------------------------
\* The game thread of a node.

\* The game declares a group (deferredCreateGroup).
CreateGroup(n) ==
    /\ running[n]
    /\ groups[n] < MaxGroups[n]
    /\ groups' = [groups EXCEPT ![n] = @ + 1]
    /\ pending' = [pending EXCEPT ![n] = @ + 1]
    /\ UNCHANGED <<connected, listen, isProvider, counter, deck, running, requests, packs,
                   providerReset, taken, breaks>>

\* Mutant: it asks ahead only, not for a group that waits.
ShortOfIds_Ahead(n) == ~isProvider[n] /\ Len(deck[n]) < IdsPerPack /\ pending[n] = 0

ShortOfIds(n) == ~isProvider[n] /\ Len(deck[n]) < IdsPerPack

\* Ask every connection for ids; some of the requests arrive.
IntervalSendIdRequest(n, arriving) ==
    /\ ShortOfIds(n)
    /\ Peers(n) # {}
    /\ arriving \subseteq Peers(n)
    /\ \A m \in arriving : requests[n][m] + Len(packs[m][n]) < MaxInFlight
    /\ requests' = [requests EXCEPT ![n] =
                      [m \in Node |-> IF m \in arriving THEN @[m] + 1 ELSE @[m]]]

\* The ids the node can give its groups: a provider puts one for each of them
\* in its deck first.
Offered(n) == IF isProvider[n] THEN deck[n] \o IdsFrom(n, pending[n]) ELSE deck[n]

\* Mutant: an id is taken whether a group waits or not.
ResolvePendingGroups_NoneWaits(n) ==
    /\ counter' = [counter EXCEPT ![n] = IF isProvider[n] THEN @ + pending[n] ELSE @]
    /\ IF Offered(n) # <<>>
       THEN /\ taken' = Append(taken, Head(Offered(n)))
            /\ deck' = [deck EXCEPT ![n] = Tail(Offered(n))]
            /\ pending' = [pending EXCEPT ![n] = @ - 1]
            /\ running' = [running EXCEPT ![n] = FALSE]
       ELSE UNCHANGED <<taken, deck, pending, running>>

\* The first group that waits gets the first id, which ends the process.
ResolvePendingGroups(n) ==
    /\ counter' = [counter EXCEPT ![n] = IF isProvider[n] THEN @ + pending[n] ELSE @]
    /\ IF pending[n] > 0 /\ Offered(n) # <<>>
       THEN /\ taken' = Append(taken, Head(Offered(n)))
            /\ deck' = [deck EXCEPT ![n] = Tail(Offered(n))]
            /\ pending' = [pending EXCEPT ![n] = @ - 1]
            /\ running' = [running EXCEPT ![n] = FALSE]
       ELSE /\ deck' = [deck EXCEPT ![n] = Offered(n)]
            /\ UNCHANGED <<taken, pending, running>>

\* One update: ask if half a second has passed, then resolve.
UpdateAsking(n, arriving) ==
    /\ running[n]
    /\ IntervalSendIdRequest(n, arriving)
    /\ ResolvePendingGroups(n)
    /\ UNCHANGED <<connected, listen, isProvider, packs, groups, providerReset, breaks>>

UpdateOnly(n) ==
    /\ running[n]
    /\ ResolvePendingGroups(n)
    /\ UNCHANGED <<connected, listen, isProvider, requests, packs, groups, providerReset,
                   breaks>>

\* Mutant: every asker is given the same ids.
RecvIdRequest_CounterStays(n, asker) ==
    /\ running[n]
    /\ requests[asker][n] > 0
    /\ requests' = [requests EXCEPT ![asker][n] = @ - 1]
    /\ IF isProvider[n]
       THEN packs' = [packs EXCEPT ![n][asker] = Append(@, IdsFrom(n, IdsPerPack))]
       ELSE UNCHANGED packs
    /\ UNCHANGED <<connected, listen, isProvider, counter, deck, pending, running, groups,
                   providerReset, taken, breaks>>

\* A provider answers a request with new ids.
RecvIdRequest(n, asker) ==
    /\ running[n]
    /\ requests[asker][n] > 0
    /\ requests' = [requests EXCEPT ![asker][n] = @ - 1]
    /\ IF isProvider[n]
       THEN /\ packs' = [packs EXCEPT ![n][asker] = Append(@, IdsFrom(n, IdsPerPack))]
            /\ counter' = [counter EXCEPT ![n] = @ + IdsPerPack]
       ELSE UNCHANGED <<packs, counter>>
    /\ UNCHANGED <<connected, listen, isProvider, deck, pending, running, groups,
                   providerReset, taken, breaks>>

\* A pack arrives.
RecvIdProvide(n, provider) ==
    /\ running[n]
    /\ packs[provider][n] # <<>>
    /\ deck' = [deck EXCEPT ![n] = @ \o Head(packs[provider][n])]
    /\ packs' = [packs EXCEPT ![provider][n] = Tail(@)]
    /\ UNCHANGED <<connected, listen, isProvider, counter, pending, running, requests, groups,
                   providerReset, taken, breaks>>

-----------------------------------------------------------------------------
\* Connections, which both ends see alike here (Connections has the rest).

\* ZNode::listen makes the node an id provider, whether it gets a socket or
\* not.  A node that listened once cannot do so again (AlreadyStartedServer).
Listen(n) ==
    /\ running[n]
    /\ n \in Listeners /\ listen[n] = "not"
    /\ \E result \in {"listening", "not"} : listen' = [listen EXCEPT ![n] = result]
    /\ isProvider' = [isProvider EXCEPT ![n] = TRUE]
    /\ UNCHANGED <<connected, counter, deck, pending, running, requests, packs, groups,
                   providerReset, taken, breaks>>

\* A node connects to one that listens.
Connect(n, m) ==
    /\ running[n] /\ running[m]
    /\ n # m /\ {n, m} \notin connected
    /\ listen[m] = "listening"
    /\ connected' = connected \cup {{n, m}}
    /\ UNCHANGED <<listen, isProvider, counter, deck, pending, running, requests, packs,
                   groups, providerReset, taken, breaks>>

\* The connections in lost end, and with their links what is under way.
WithoutLinks(lost) ==
    /\ connected' = connected \ lost
    /\ requests' = [n \in Node |-> [m \in Node |-> IF {n, m} \in lost THEN 0 ELSE requests[n][m]]]
    /\ packs' = [n \in Node |-> [m \in Node |-> IF {n, m} \in lost THEN <<>> ELSE packs[n][m]]]
    /\ breaks < MaxBreaks
    /\ breaks' = breaks + 1

\* A connection is closed or lost: no ids are given back or forgotten, as the
\* VariableGroupNode is not told.
LoseConnection(c) ==
    /\ c \in connected
    /\ WithoutLinks({c})
    /\ UNCHANGED <<listen, isProvider, counter, deck, pending, running, groups,
                   providerReset, taken>>

\* ZNode::disconnect closes the socket and resets all but whether the node is a
\* provider, and that it listened.
Disconnect(n) ==
    /\ running[n]
    /\ WithoutLinks({c \in connected : n \in c})
    /\ counter' = [counter EXCEPT ![n] = 0]
    /\ deck' = [deck EXCEPT ![n] = <<>>]
    /\ pending' = [pending EXCEPT ![n] = 0]
    /\ listen' = [listen EXCEPT ![n] = IF @ = "listening" THEN "closed" ELSE @]
    /\ providerReset' = (providerReset \/ isProvider[n])
    /\ UNCHANGED <<isProvider, running, groups, taken>>

-----------------------------------------------------------------------------
Next ==
    \/ \E n \in Node : CreateGroup(n)
    \/ \E n \in Node, arriving \in SUBSET Node : UpdateAsking(n, arriving)
    \/ \E n \in Node : UpdateOnly(n)
    \/ \E n, asker \in Node : RecvIdRequest(n, asker)
    \/ \E n, provider \in Node : RecvIdProvide(n, provider)
    \/ \E n \in Node : Listen(n)
    \/ \E n, m \in Node : Connect(n, m)
    \/ \E c \in connected : LoseConnection(c)
    \/ \E n \in Node : Disconnect(n)

Spec == Init /\ [][Next]_vars

\* Every game keeps calling update, which asks again and again; a request that
\* is sent over and over arrives, and a running node receives what a running
\* node sent it.
Fairness ==
    \A n \in Node :
        /\ WF_vars(UpdateOnly(n))
        /\ \A m \in Node \ {n} :
              /\ SF_vars(\E arriving \in SUBSET Node : m \in arriving /\ UpdateAsking(n, arriving))
              /\ WF_vars(RecvIdRequest(n, m))
              /\ WF_vars(running[m] /\ RecvIdProvide(n, m))

FairSpec == Spec /\ Fairness

-----------------------------------------------------------------------------
\* Properties.

\* Every variable has its type; counters and what is under way stay bounded.
TypeOK ==
    /\ connected \subseteq {{n, m} : n, m \in Node}
    /\ listen \in [Node -> {"not", "listening", "closed"}]
    /\ isProvider \in [Node -> BOOLEAN]
    /\ counter \in [Node -> Nat]
    /\ DOMAIN deck = Node /\ \A n \in Node : deck[n] \in Seq(Nat)
    /\ pending \in [Node -> Nat]
    /\ running \in [Node -> BOOLEAN]
    /\ requests \in [Node -> [Node -> 0 .. MaxInFlight]]
    /\ \A n, m \in Node : packs[n][m] \in Seq(Seq(Nat))
    /\ groups \in [Node -> Nat]
    /\ providerReset \in BOOLEAN
    /\ taken \in Seq(Nat)
    /\ breaks \in 0 .. MaxBreaks

\* Where ids are: in a deck, in a pack under way, or with a group.
Held ==
    UNION ({{[at |-> <<n, i>>, id |-> deck[n][i]] : i \in DOMAIN deck[n]} : n \in Node}
           \cup {{[at |-> <<n, m, i, k>>, id |-> packs[n][m][i][k]] :
                    i \in DOMAIN packs[n][m], k \in 1 .. IdsPerPack} : n, m \in Node}
           \cup {{[at |-> <<i>>, id |-> taken[i]] : i \in DOMAIN taken}})

\* "There should always only be one ID provider in the network"
\* (VariableGroupNode.h), and none was reset, which sets its counter to zero.
SingleProvider ==
    /\ \A n, m \in Node : isProvider[n] /\ isProvider[m] => n = m
    /\ ~providerReset

\* With a single provider no id is in two places, however requests, packs, lost
\* connections and resets of the others interleave.
UniqueIds == SingleProvider => \A x, y \in Held : x.id = y.id => x = y

\* "Every group has a unique ID network wide" (VariableGroupNode.h): while all
\* nodes are connected, and one of them at most ever listened.
EveryGroupHasUniqueId ==
    (\A n, m \in Node : n # m => {n, m} \in connected) =>
        \A i, j \in DOMAIN taken : taken[i] = taken[j] => i = j

\* No group waits for an id forever at a node that has a connection with a
\* running provider, although requests get lost and are answered once.
NoGroupWaitsForever ==
    \A n \in Node : \A m \in Node \ {n} :
        ~<>[](/\ running[n] /\ pending[n] > 0
              /\ {n, m} \in connected /\ running[m] /\ isProvider[m])
=============================================================================
