--------------------------- MODULE ReliableNewest ---------------------------
(***************************************************************************)
(* Reliable newest data over both directions of a connected link           *)
(* (RUDPLink), with the send threads that drive it (RecvNode).  A group of *)
(* items is updated in place, each item remembers the revision it was last *)
(* written with and the revision the peer last acked, and only the latest  *)
(* data of an item has to reach the peer.                                  *)
(*                                                                         *)
(* The send thread never calls dispatchReliableNewestQueue: in both of its *)
(* rounds it sends the ack instead, and that only over a link that is      *)
(* marked connected, as the link of the end that accepted is.  So nothing  *)
(* here puts a datagram of type "Reliable_Newest" on the wire, although    *)
(* both ends can take one.                                                 *)
(***************************************************************************)
EXTENDS SequenceNumbers

CONSTANTS
    Item,               \* items of the group (sm_MaxItemsPerGroup = 16)
    LinkIds,            \* sequence numbers the link's random id may be
    MaxUpdates          \* bound: updates of one item at one end

End == {"client", "listener"}
Peer(e) == CHOOSE f \in End : f # e

VARIABLES
    linkId,             \* m_LinkId, the same at both ends
    group,              \* m_SendQueue_reliable_newest: no group, or its items
    recvSeq,            \* m_RecvSeq_reliable_newest
    ackSeq,             \* m_RecvSeq_reliable_newest_ack
    wire,               \* datagrams in flight
    received,           \* m_RecvQueue_reliable_newest: <<item, data>> taken
    written             \* history: updates of each item

vars == <<linkId, group, recvSeq, ackSeq, wire, received, written>>

NoGroup == [i \in {} |-> 0]

\* m_IsConnected of the link: sendConnectAccept sets it, and nothing does at
\* the end that asked for the connection.
isConnected(e) == e = "listener"

\* m_SendSeq_reliable_newest: only dispatchReliableNewestQueue moves it.
SendSeq == 0

Init ==
    /\ linkId \in LinkIds
    /\ group = [e \in End |-> NoGroup]
    /\ recvSeq = [e \in End |-> 0]
    /\ ackSeq = [e \in End |-> 0]
    /\ wire = {}
    /\ received = [e \in End |-> {}]
    /\ written = [e \in End |-> [i \in Item |-> 0]]

-----------------------------------------------------------------------------
\* Game thread: write item i, in a new group if there is none.
AddReliableNewest(e, i) ==
    /\ written[e][i] < MaxUpdates
    /\ written' = [written EXCEPT ![e][i] = @ + 1]
    /\ LET unset == [local |-> SendSeq, remote |-> SendSeq, data |-> 0]
           items == IF group[e] = NoGroup THEN [j \in Item |-> unset]
                                          ELSE group[e]
       IN group' = [group EXCEPT ![e] =
              [items EXCEPT ![i].local = SendSeq, ![i].data = written'[e][i]]]
    /\ UNCHANGED <<linkId, recvSeq, ackSeq, wire, received>>

\* Send thread: the ack names the sequence before the one waited for.
SendThread(e) ==
    /\ isConnected(e)
    /\ wire' = wire \cup {[type |-> "Ack_Reliable_Newest", to |-> Peer(e),
                           link |-> linkId, seq |-> Sub(recvSeq[e], 1)]}
    /\ UNCHANGED <<linkId, group, recvSeq, ackSeq, received, written>>

\* Receive thread: take the data unless something newer was taken.
ReceiveReliableNewest(e, d) ==
    /\ d \in wire /\ d.to = e /\ d.type = "Reliable_Newest"
    /\ wire' = wire \ {d}
    /\ IF isSequenceNewer(d.seq, recvSeq[e])
       THEN /\ recvSeq' = [recvSeq EXCEPT ![e] = Add(d.seq, 1)]
            /\ received' = [received EXCEPT ![e] = @ \cup d.items]
       ELSE UNCHANGED <<recvSeq, received>>
    /\ UNCHANGED <<linkId, group, ackSeq, written>>

\* Receive thread: the sequence is read at the offset of the link id.  A
\* group goes when every item's local revision is past the acked one.
ReceiveAckRelNewest(e, d) ==
    /\ d \in wire /\ d.to = e /\ d.type = "Ack_Reliable_Newest"
    /\ wire' = wire \ {d}
    /\ LET seq == d.link
           acked == [i \in DOMAIN group[e] |-> [group[e][i] EXCEPT !.remote = seq]]
           kept == \E i \in DOMAIN acked : isSequenceNewer(seq, acked[i].local)
       IN IF isSequenceNewer(seq, ackSeq[e])
          THEN /\ ackSeq' = [ackSeq EXCEPT ![e] = Add(seq, 1)]
               /\ group' = [group EXCEPT ![e] = IF kept THEN acked ELSE NoGroup]
          ELSE UNCHANGED <<ackSeq, group>>
    /\ UNCHANGED <<linkId, recvSeq, received, written>>

LoseDatagram ==
    /\ \E d \in wire : wire' = wire \ {d}
    /\ UNCHANGED <<linkId, group, recvSeq, ackSeq, received, written>>

RecvThread(e) ==
    \E d \in wire : ReceiveReliableNewest(e, d) \/ ReceiveAckRelNewest(e, d)

Next ==
    \/ \E e \in End : \/ \E i \in Item : AddReliableNewest(e, i)
                      \/ SendThread(e)
                      \/ RecvThread(e)
    \/ LoseDatagram

\* Both threads of a node keep running, and what is sent again and again
\* arrives in the end.  (The send thread of the end that asked for the
\* connection has nothing to send here.)
Fairness == \A e \in End : WF_vars(SendThread(e)) /\ SF_vars(RecvThread(e))

Spec == Init /\ [][Next]_vars /\ Fairness

-----------------------------------------------------------------------------
\* "Represents a group of data that guarentees that the last piece of data
\* (update) is always transmitted" (RUDPLink.h): the data an item was last
\* written with reaches the peer, unless the item is written again.
NewestIsTransmitted ==
    \A e \in End, i \in Item, n \in 1 .. MaxUpdates :
        written[e][i] = n ~> written[e][i] # n \/ <<i, n>> \in received[Peer(e)]
=============================================================================
