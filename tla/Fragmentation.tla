--------------------------- MODULE Fragmentation ---------------------------
(***************************************************************************)
(* How RUDPLink cuts a message into fragments, numbers them, and puts them *)
(* together again.  Reliable ordered and unreliable sequenced data share   *)
(* these functions: the sender cuts and numbers with serializeNormalPacket,*)
(* the receiver reassembles with tryReassembleBigPacket (the search for    *)
(* the first and the last fragment) and defragmentPacket.                  *)
(*                                                                         *)
(* Payloads are abstracted to the pieces <<message, part>> that a fragment *)
(* carries.                                                                *)
(***************************************************************************)
EXTENDS SequenceNumbers, Sequences, FiniteSets

CONSTANTS
    FirstSeq,       \* the sequence number the sender has reached
    FragCounts,     \* into how many fragments a message may be cut
    MaxPackets,     \* bound: how many fragments are sent in all
    MaxInFlight     \* bound: how many datagrams are in flight each way

ASSUME FragmentationAssumption ==
    /\ FirstSeq \in SeqNum
    /\ FragCounts \subseteq Nat \ {0}
    /\ MaxPackets \in 0 .. HalfRange
    /\ MaxInFlight \in Nat

VARIABLES
    sendSeq,        \* the number of the next fragment
    sent            \* history, accepted messages: position of the first fragment, count

Packet == [seq : SeqNum, msg : Nat, part : Nat, first : BOOLEAN, last : BOOLEAN]

\* A complete message in the receiver's queue.
Entry == [seq : SeqNum, n : Nat, head : Nat, body : Seq(Nat \X Nat)]

\* The payload message m was accepted with.
Body(m) == [k \in 1 .. sent[m].n |-> <<m, k>>]

\* What the sender's game thread sees: the messages there can be, and those
\* the link accepted.
Messages == {[k \in 1 .. n |-> <<m, k>>] : n \in FragCounts, m \in 1 .. MaxPackets}
Accepted == [m \in 1 .. Len(sent) |-> Body(m)]

-----------------------------------------------------------------------------
\* Cutting and numbering.

\* Number of fragments sent so far, that is the position of the next one.
SentPackets == IF sent = <<>> THEN 0 ELSE sent[Len(sent)].start + sent[Len(sent)].n

\* Message m cut in n fragments, the first of which gets sequence number seq.
serializeNormalPacket(m, n, seq) ==
    [k \in 1 .. n |-> [seq |-> Add(seq, k - 1), msg |-> m, part |-> k,
                       first |-> k = 1, last |-> k = n]]

-----------------------------------------------------------------------------
\* Putting together.

\* k steps back from s lies a buffered first fragment, with only buffered
\* fragments that are not a first one in between.
FirstFragmentBack(frags, s, k) ==
    /\ \E f \in frags : f.seq = Sub(s, k) /\ f.first
    /\ \A i \in 0 .. k - 1 : \E f \in frags : f.seq = Sub(s, i) /\ ~f.first

\* Mutant: a fragment that is missing ends the message.
LastFragmentAhead_GapEnds(frags, s, k) ==
    /\ \A i \in 0 .. k : \E f \in frags : f.seq = Add(s, i)
    /\ ~\E f \in frags : f.seq = Add(s, k + 1)

\* The same forward, to a last fragment.
LastFragmentAhead(frags, s, k) ==
    /\ \E f \in frags : f.seq = Add(s, k) /\ f.last
    /\ \A i \in 0 .. k - 1 : \E f \in frags : f.seq = Add(s, i) /\ ~f.last

FragmentAt(frags, s) == CHOOSE f \in frags : f.seq = s

\* The buffered fragment with the lowest number (std::map::begin).
LowestFragment(frags) == CHOOSE f \in frags : \A g \in frags : f.seq <= g.seq

\* The n fragments from sequence number seq on as one received message.  The
\* header (message id, relay flag) is that of the lowest buffered fragment.
defragmentPacket(frags, seq, n) ==
    [seq |-> seq, n |-> n, head |-> LowestFragment(frags).msg,
     body |-> [i \in 1 .. n |->
                 LET f == FragmentAt(frags, Add(seq, i - 1)) IN <<f.msg, f.part>>]]

createNormalPacket(p) ==
    [seq |-> p.seq, n |-> 1, head |-> p.msg, body |-> << <<p.msg, p.part>> >>]

-----------------------------------------------------------------------------
\* The network.

\* Some of what is sent joins what is in flight; the rest is lost.
InTransit(inFlight, outgoing, after) ==
    \E arriving \in SUBSET outgoing :
        /\ after = inFlight \cup arriving
        /\ arriving \subseteq inFlight \/ Cardinality(after) <= MaxInFlight
=============================================================================
