-------------------------- MODULE SequencedChannel --------------------------
(***************************************************************************)
(* What one channel of a link promises for unreliable sequenced messages   *)
(* (ZNode::sendUnreliableSequenced): the receiver's game thread may miss   *)
(* any accepted message, but is never handed one twice or after a newer.   *)
(***************************************************************************)
EXTENDS Naturals, Sequences

CONSTANT Message

VARIABLES
    accepted,       \* messages the sender's link took, in order
    handed,         \* messages the receiver's game thread was handed
    newest          \* how many accepted messages are past: handed over or missed

channelVars == <<accepted, handed, newest>>

Init ==
    /\ accepted = <<>>
    /\ handed = <<>>
    /\ newest = 0

Accept ==
    /\ \E m \in Message : accepted' = Append(accepted, m)
    /\ UNCHANGED <<handed, newest>>

Deliver ==
    /\ \E i \in newest + 1 .. Len(accepted) :
          /\ handed' = Append(handed, accepted[i])
          /\ newest' = i
    /\ UNCHANGED accepted

Next == Accept \/ Deliver

Spec == Init /\ [][Next]_channelVars
=============================================================================
