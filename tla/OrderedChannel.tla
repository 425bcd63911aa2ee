--------------------------- MODULE OrderedChannel ---------------------------
(***************************************************************************)
(* What one channel of a link promises for reliable ordered messages       *)
(* (ZNode::sendReliableOrdered): the receiver's game thread is handed      *)
(* exactly the accepted messages, once each and in the order they were     *)
(* accepted.                                                               *)
(***************************************************************************)
EXTENDS Naturals, Sequences

CONSTANT Message

VARIABLES
    accepted,       \* messages the sender's link took, in order
    handed          \* messages the receiver's game thread was handed

channelVars == <<accepted, handed>>

Init ==
    /\ accepted = <<>>
    /\ handed = <<>>

Accept ==
    /\ \E m \in Message : accepted' = Append(accepted, m)
    /\ UNCHANGED handed

Deliver ==
    /\ Len(handed) < Len(accepted)
    /\ handed' = Append(handed, accepted[Len(handed) + 1])
    /\ UNCHANGED accepted

Next == Accept \/ Deliver

Spec == Init /\ [][Next]_channelVars
=============================================================================
