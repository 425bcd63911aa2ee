------------------------ MODULE FragmentationProofs ------------------------
(***************************************************************************)
(* Facts about sent fragments and what is reassembled from them, for both  *)
(* kinds of data that are cut into fragments.                              *)
(***************************************************************************)
EXTENDS Fragmentation, SequenceTheorems, WellFoundedInduction, TLAPS

-----------------------------------------------------------------------------
\* What was sent.

\* Fragment k of message m, as it was put on the wire.
Fragment(m, k) ==
    [seq |-> Add(FirstSeq, sent[m].start + k - 1), msg |-> m, part |-> k,
     first |-> k = 1, last |-> k = sent[m].n]

IsSent(p) == \E m \in 1 .. Len(sent) : \E k \in 1 .. sent[m].n : p = Fragment(m, k)

\* Messages lie one after the other in the sequence space, which is not
\* used up.
Layout ==
    /\ sent \in Seq([start : Nat, n : Nat])
    /\ \A m \in 1 .. Len(sent) : sent[m].n > 0
    /\ sent # <<>> => sent[1].start = 0
    /\ \A m \in 1 .. Len(sent) - 1 : sent[m + 1].start = sent[m].start + sent[m].n
    /\ \A i, j \in 1 .. Len(sent) : i < j => sent[i].start + sent[i].n <= sent[j].start
    /\ Len(sent) <= SentPackets
    /\ SentPackets <= MaxPackets
    /\ sendSeq = Add(FirstSeq, SentPackets)

\* Entry e is message m, whole.
IsMessage(e, m) ==
    /\ e.seq = Add(FirstSeq, sent[m].start)
    /\ e.n = sent[m].n
    /\ e.body = Body(m)

-----------------------------------------------------------------------------
\* Sequence numbers of a window of at most half the range.

USE DEF SeqNum, SeqMod

\* A function on 1 .. n with values in S is a sequence over S.
LEMMA SeqOfFunction ==
    ASSUME NEW S, NEW n \in Nat, NEW f, f = [k \in 1 .. n |-> f[k]],
           \A k \in 1 .. n : f[k] \in S
    PROVE  f \in Seq(S)
OBVIOUS

\* The position of a number in the window is determined by the number.
LEMMA AddInjective ==
    ASSUME NEW a \in 0 .. SeqMod - 1, NEW b \in 0 .. SeqMod - 1,
           Add(FirstSeq, a) = Add(FirstSeq, b)
    PROVE  a = b
BY HalfRangeAssumption, FragmentationAssumption DEF Add

\* Adding to a number of the window moves its position.
LEMMA AddAdd ==
    ASSUME NEW a \in 0 .. SeqMod - 1, NEW i \in 0 .. SeqMod - 1, a + i < SeqMod
    PROVE  Add(Add(FirstSeq, a), i) = Add(FirstSeq, a + i)
BY HalfRangeAssumption, FragmentationAssumption DEF Add

\* Counting n on from a number and taking m steps back.
LEMMA SubAdd ==
    ASSUME NEW a \in 0 .. SeqMod - 1, NEW i \in 0 .. a
    PROVE  Sub(Add(FirstSeq, a), i) = Add(FirstSeq, a - i)
BY HalfRangeAssumption, FragmentationAssumption DEF Add, Sub

\* The distance of two numbers of the window.
LEMMA SubDistance ==
    ASSUME NEW a \in 0 .. SeqMod - 1, NEW b \in 0 .. SeqMod - 1
    PROVE  Sub(Add(FirstSeq, a), Add(FirstSeq, b)) =
               IF a >= b THEN a - b ELSE a - b + SeqMod
BY HalfRangeAssumption, FragmentationAssumption DEF Add, Sub

\* u32 arithmetic stays in range.
LEMMA SeqNumClosed ==
    ASSUME NEW a \in SeqNum, NEW b \in SeqNum
    PROVE  Add(a, b) \in SeqNum /\ Sub(a, b) \in SeqNum
BY HalfRangeAssumption DEF Add, Sub

\* Within a window of half the range, the wrapping comparison of
\* isSequenceNewer is the comparison of positions.
LEMMA NewerIsLater ==
    ASSUME NEW a \in 0 .. HalfRange - 1, NEW b \in 0 .. HalfRange
    PROVE  isSequenceNewer(Add(FirstSeq, a), Add(FirstSeq, b)) <=> a >= b
<1>1. Sub(Add(FirstSeq, a), Add(FirstSeq, b)) = IF a >= b THEN a - b ELSE a - b + SeqMod
  BY SubDistance, HalfRangeAssumption
<1> QED
  BY <1>1, HalfRangeAssumption DEF isSequenceNewer

-----------------------------------------------------------------------------
\* Messages and fragments in the sequence space.

\* Every fragment lies below what was sent so far, within the window.
LEMMA PositionBounds ==
    ASSUME Layout, NEW m \in 1 .. Len(sent), NEW k \in 1 .. sent[m].n
    PROVE  /\ sent[m].start \in Nat
           /\ sent[m].n \in Nat \ {0}
           /\ sent[m].start + sent[m].n <= SentPackets
           /\ SentPackets \in 0 .. MaxPackets
           /\ sent[m].start + k - 1 \in 0 .. HalfRange - 1
           /\ sent[m].start + k - 1 \in 0 .. SeqMod - 1
<1>1. sent[m] \in [start : Nat, n : Nat] /\ sent[Len(sent)] \in [start : Nat, n : Nat]
  <2>1. sent \in Seq([start : Nat, n : Nat])
    BY DEF Layout
  <2>2. m \in 1 .. Len(sent) /\ Len(sent) \in 1 .. Len(sent)
    BY <2>1
  <2> QED
    BY <2>1, <2>2, ElementOfSeq
<1>2. sent[m].n > 0
  BY DEF Layout
<1>3. sent[m].start + sent[m].n <= SentPackets
  <2>1. CASE m = Len(sent)
    <3>1. sent # <<>>
      BY <2>1
    <3> QED
      BY <2>1, <3>1, <1>1 DEF SentPackets
  <2>2. CASE m < Len(sent)
    <3>1. sent[m].start + sent[m].n <= sent[Len(sent)].start
      BY <2>2 DEF Layout
    <3> QED
      BY <1>1, <3>1 DEF SentPackets
  <2> QED
    BY <2>1, <2>2 DEF Layout
<1>4. SentPackets \in Nat /\ SentPackets <= MaxPackets
  BY <1>1 DEF SentPackets, Layout
<1>5. sent[m].start \in Nat /\ sent[m].n \in Nat \ {0}
  BY <1>1, <1>2
<1>6. /\ MaxPackets \in Nat /\ MaxPackets <= HalfRange /\ HalfRange \in Nat
      /\ HalfRange <= SeqMod
  BY FragmentationAssumption, HalfRangeAssumption
<1>7. sent[m].start + k - 1 \in Nat /\ sent[m].start + k - 1 < HalfRange
  <2> HIDE DEF SeqMod
  <2> QED
    BY <1>3, <1>4, <1>5, <1>6
<1>8. sent[m].start + k - 1 \in 0 .. HalfRange - 1 /\ sent[m].start + k - 1 \in 0 .. SeqMod - 1
  <2>1. SeqMod \in Nat
    BY HalfRangeAssumption
  <2> HIDE DEF SeqMod
  <2> QED
    BY <2>1, <1>6, <1>7
<1> QED
  BY <1>3, <1>4, <1>5, <1>8, <1>6

\* Positions of messages that follow each other differ.
LEMMA DisjointRanges ==
    ASSUME NEW a \in Nat, NEW n \in Nat, NEW b \in Nat, NEW n2 \in Nat,
           NEW k \in 1 .. n, NEW k2 \in 1 .. n2, a + n <= b
    PROVE  a + k - 1 # b + k2 - 1
OBVIOUS

\* Two fragments with the same number are the same fragment.
LEMMA UniqueNumber ==
    ASSUME Layout,
           NEW m \in 1 .. Len(sent), NEW k \in 1 .. sent[m].n,
           NEW m2 \in 1 .. Len(sent), NEW k2 \in 1 .. sent[m2].n,
           Fragment(m, k).seq = Fragment(m2, k2).seq
    PROVE  m = m2 /\ k = k2
<1>1. /\ sent[m].start \in Nat /\ sent[m].n \in Nat
      /\ sent[m].start + k - 1 \in 0 .. SeqMod - 1
      /\ sent[m2].start \in Nat /\ sent[m2].n \in Nat
      /\ sent[m2].start + k2 - 1 \in 0 .. SeqMod - 1
  BY PositionBounds
<1>2. sent[m].start + k - 1 = sent[m2].start + k2 - 1
  <2>1. Add(FirstSeq, sent[m].start + k - 1) = Add(FirstSeq, sent[m2].start + k2 - 1)
    BY DEF Fragment
  <2> QED
    BY <1>1, <2>1, AddInjective
<1>3. ~(m < m2)
  <2>1. m < m2 => sent[m].start + sent[m].n <= sent[m2].start
    BY DEF Layout
  <2> QED
    BY <1>1, <1>2, <2>1, DisjointRanges
<1>4. ~(m2 < m)
  <2>1. m2 < m => sent[m2].start + sent[m2].n <= sent[m].start
    BY DEF Layout
  <2> QED
    BY <1>1, <1>2, <2>1, DisjointRanges
<1>5. m = m2
  BY <1>3, <1>4 DEF Layout
<1> QED
  BY <1>1, <1>2, <1>5

\* A sent packet that carries the number of a fragment is that fragment.
LEMMA NumberIdentifies ==
    ASSUME Layout, NEW f, IsSent(f),
           NEW m \in 1 .. Len(sent), NEW k \in 1 .. sent[m].n,
           f.seq = Add(FirstSeq, sent[m].start + k - 1)
    PROVE  f = Fragment(m, k)
<1>1. PICK m2 \in 1 .. Len(sent) : \E k2 \in 1 .. sent[m2].n : f = Fragment(m2, k2)
  BY DEF IsSent
<1>2. PICK k2 \in 1 .. sent[m2].n : f = Fragment(m2, k2)
  BY <1>1
<1>3. Fragment(m, k).seq = Fragment(m2, k2).seq
  BY <1>2 DEF Fragment
<1> QED
  BY <1>2, <1>3, UniqueNumber

\* From a fragment, the search for the first fragment stops at the first
\* fragment of its own message.
LEMMA SearchBack ==
    ASSUME Layout, NEW frags, \A f \in frags : IsSent(f),
           NEW m \in 1 .. Len(sent), NEW k \in 1 .. sent[m].n, NEW back \in SeqNum,
           FirstFragmentBack(frags, Fragment(m, k).seq, back)
    PROVE  back = k - 1
<1> DEFINE seq == Fragment(m, k).seq
           pos == sent[m].start + k - 1
<1>1. sent[m].start \in Nat /\ sent[m].n \in Nat /\ pos \in 0 .. SeqMod - 1
  BY PositionBounds
<1>2. \A i \in 0 .. k - 1 : Sub(seq, i) = Add(FirstSeq, sent[m].start + (k - i) - 1)
  <2> TAKE i \in 0 .. k - 1
  <2>1. i \in 0 .. pos /\ pos - i = sent[m].start + (k - i) - 1
    BY <1>1, SMTT(30)
  <2>2. Sub(Add(FirstSeq, pos), i) = Add(FirstSeq, pos - i)
    BY <1>1, <2>1, SubAdd
  <2> QED
    BY <2>1, <2>2 DEF Fragment
<1>3. ASSUME back < k - 1 PROVE FALSE
  <2>1. PICK f \in frags : f.seq = Sub(seq, back) /\ f.first
    BY DEF FirstFragmentBack
  <2>2. back \in 0 .. k - 1 /\ k - back \in 1 .. sent[m].n /\ k - back # 1
    BY <1>1, <1>3
  <2>3. f.seq = Add(FirstSeq, sent[m].start + (k - back) - 1)
    BY <1>2, <2>1, <2>2
  <2>4. f = Fragment(m, k - back)
    BY <2>2, <2>3, NumberIdentifies
  <2> QED
    BY <2>1, <2>2, <2>4 DEF Fragment
<1>4. ASSUME back > k - 1 PROVE FALSE
  <2>1. k - 1 \in 0 .. back - 1
    BY <1>1, <1>4
  <2>2. PICK f \in frags : f.seq = Sub(seq, k - 1) /\ ~f.first
    BY <2>1 DEF FirstFragmentBack
  <2>3. f.seq = Add(FirstSeq, sent[m].start + 1 - 1)
    <3>1. k - 1 \in 0 .. k - 1 /\ k - (k - 1) = 1
      BY <1>1
    <3> QED
      BY <1>2, <2>2, <3>1
  <2>4. 1 \in 1 .. sent[m].n
    BY <1>1
  <2>5. f = Fragment(m, 1)
    BY <2>3, <2>4, NumberIdentifies
  <2> QED
    BY <2>2, <2>5 DEF Fragment
<1> QED
  BY <1>1, <1>3, <1>4

\* And the search for the last one at the last of its own message.
LEMMA SearchAhead ==
    ASSUME Layout, NEW frags, \A f \in frags : IsSent(f),
           NEW m \in 1 .. Len(sent), NEW k \in 1 .. sent[m].n, NEW ahead \in SeqNum,
           LastFragmentAhead(frags, Fragment(m, k).seq, ahead)
    PROVE  ahead = sent[m].n - k
<1> DEFINE seq == Fragment(m, k).seq
           pos == sent[m].start + k - 1
           rest == sent[m].n - k
<1>1. sent[m].start \in Nat /\ sent[m].n \in Nat /\ pos \in 0 .. SeqMod - 1
  BY PositionBounds
<1>2. \A i \in 0 .. rest : Add(seq, i) = Add(FirstSeq, sent[m].start + (k + i) - 1)
  <2> TAKE i \in 0 .. rest
  <2>1. k + i \in 1 .. sent[m].n
    BY <1>1
  <2>2. sent[m].start + (k + i) - 1 \in 0 .. SeqMod - 1
    BY <2>1, PositionBounds
  <2>3. /\ pos + i = sent[m].start + (k + i) - 1
        /\ i \in 0 .. SeqMod - 1
        /\ pos + i < SeqMod
    <3>1. k \in Nat /\ k >= 1 /\ i \in Nat /\ SeqMod \in Nat
      BY <1>1, HalfRangeAssumption
    <3>2. pos + i = sent[m].start + (k + i) - 1
      <4>1. \A a \in Nat : (a + k - 1) + i = a + (k + i) - 1
        BY <3>1
      <4> QED
        BY <1>1, <4>1
    <3> HIDE DEF pos
    <3> QED
      BY <1>1, <2>2, <3>1, <3>2, SMTT(30)
  <2>4. Add(Add(FirstSeq, pos), i) = Add(FirstSeq, pos + i)
    <3> HIDE DEF pos
    <3> QED
      BY <1>1, <2>3, AddAdd
  <2> QED
    BY <2>3, <2>4 DEF Fragment
<1>3. ASSUME ahead < rest PROVE FALSE
  <2>1. PICK f \in frags : f.seq = Add(seq, ahead) /\ f.last
    BY DEF LastFragmentAhead
  <2>2. ahead \in 0 .. rest /\ k + ahead \in 1 .. sent[m].n /\ k + ahead # sent[m].n
    BY <1>1, <1>3, SMTT(30)
  <2>3. f.seq = Add(FirstSeq, sent[m].start + (k + ahead) - 1)
    BY <1>2, <2>1, <2>2
  <2>4. f = Fragment(m, k + ahead)
    BY <2>2, <2>3, NumberIdentifies
  <2> QED
    BY <2>1, <2>2, <2>4 DEF Fragment
<1>4. ASSUME ahead > rest PROVE FALSE
  <2>1. rest \in 0 .. ahead - 1 /\ rest \in 0 .. rest
    BY <1>1, <1>4, SMTT(30)
  <2>2. PICK f \in frags : f.seq = Add(seq, rest) /\ ~f.last
    BY <2>1 DEF LastFragmentAhead
  <2>3. f.seq = Add(FirstSeq, sent[m].start + (k + rest) - 1) /\ k + rest = sent[m].n
    BY <1>1, <1>2, <2>1, <2>2
  <2>4. k + rest \in 1 .. sent[m].n
    BY <1>1, <2>3
  <2>5. f = Fragment(m, k + rest)
    BY <2>3, <2>4, NumberIdentifies
  <2> QED
    BY <2>2, <2>3, <2>5 DEF Fragment
<1> QED
  BY <1>1, <1>3, <1>4, SMTT(30)

\* Offsets between two parts of a message that starts at a.
LEMMA PartOffsets ==
    ASSUME NEW a \in Nat, NEW n \in Nat, NEW k \in 1 .. n, NEW i \in 1 .. n, NEW size \in Nat,
           a + k - 1 \in 0 .. size - 1, a + i - 1 \in 0 .. size - 1
    PROVE  /\ a \in 0 .. size - 1 /\ i - 1 \in 0 .. size - 1
           /\ a + (i - 1) = a + i - 1 /\ a + (i - 1) < size
           /\ i <= k => /\ k - i \in 0 .. a + k - 1
                        /\ (a + k - 1) - (k - i) = a + i - 1
           /\ i > k => /\ i - k \in 0 .. size - 1
                       /\ (a + k - 1) + (i - k) = a + i - 1
                       /\ (a + k - 1) + (i - k) < size
OBVIOUS

\* The fragments found from fragment k of message m are that message.
FoundMessage(frags, m, k, back, ahead) ==
    /\ back = k - 1
    /\ back + ahead + 1 = sent[m].n
    /\ Sub(Fragment(m, k).seq, back) = Add(FirstSeq, sent[m].start)
    /\ IsMessage(defragmentPacket(frags, Sub(Fragment(m, k).seq, back), back + ahead + 1), m)

\* What is reassembled from sent fragments is one whole accepted message.
LEMMA ReassembledIsMessage ==
    ASSUME Layout, NEW frags, \A f \in frags : IsSent(f),
           NEW m \in 1 .. Len(sent), NEW k \in 1 .. sent[m].n,
           NEW back \in SeqNum, NEW ahead \in SeqNum,
           FirstFragmentBack(frags, Fragment(m, k).seq, back),
           LastFragmentAhead(frags, Fragment(m, k).seq, ahead)
    PROVE  FoundMessage(frags, m, k, back, ahead)
<1> DEFINE seq == Fragment(m, k).seq
           pos == sent[m].start + k - 1
           begin == Add(FirstSeq, sent[m].start)
<1>1. sent[m].start \in Nat /\ sent[m].n \in Nat /\ pos \in 0 .. SeqMod - 1
  BY PositionBounds
<1>2. back = k - 1 /\ ahead = sent[m].n - k
  BY SearchBack, SearchAhead
<1>3. back + ahead + 1 = sent[m].n
  BY <1>1, <1>2
<1>4. seq = Add(FirstSeq, pos)
  BY DEF Fragment
<1>5. Sub(seq, back) = begin
  <2>1. back \in 0 .. pos /\ pos - back = sent[m].start
    BY <1>1, <1>2
  <2> HIDE DEF pos
  <2> QED
    BY <1>1, <1>4, <2>1, SubAdd
<1>6. \A i \in 1 .. sent[m].n : FragmentAt(frags, Add(begin, i - 1)) = Fragment(m, i)
  <2> TAKE i \in 1 .. sent[m].n
  <2> DEFINE ipos == sent[m].start + i - 1
  <2>1. ipos \in 0 .. SeqMod - 1
    BY PositionBounds
  <2>offsets.
        /\ sent[m].start \in 0 .. SeqMod - 1 /\ i - 1 \in 0 .. SeqMod - 1
        /\ sent[m].start + (i - 1) = ipos /\ sent[m].start + (i - 1) < SeqMod
        /\ i <= k => k - i \in 0 .. pos /\ pos - (k - i) = ipos
        /\ i > k => /\ i - k \in 0 .. SeqMod - 1
                    /\ pos + (i - k) = ipos /\ pos + (i - k) < SeqMod
    <3>1. SeqMod \in Nat
      BY HalfRangeAssumption
    <3> HIDE DEF SeqMod
    <3> QED
      BY <1>1, <2>1, <3>1, PartOffsets
  <2>2. Add(begin, i - 1) = Add(FirstSeq, ipos)
    <3>1. /\ sent[m].start \in 0 .. SeqMod - 1 /\ i - 1 \in 0 .. SeqMod - 1
          /\ sent[m].start + (i - 1) = ipos /\ sent[m].start + (i - 1) < SeqMod
      BY <2>offsets
    <3> HIDE DEF ipos
    <3> QED
      BY <3>1, AddAdd
  <2>3. \E f \in frags : f.seq = Add(FirstSeq, ipos)
    <3>1. CASE i <= k
      <4>1. k - i \in 0 .. back
        BY <1>1, <1>2, <3>1
      <4>2. \E f \in frags : f.seq = Sub(seq, k - i)
        <5>1. CASE k - i = back
          BY <5>1 DEF FirstFragmentBack
        <5>2. CASE k - i # back
          <6>1. k - i \in 0 .. back - 1
            BY <4>1, <5>2
          <6> QED
            BY <6>1 DEF FirstFragmentBack
        <5> QED
          BY <5>1, <5>2
      <4>3. k - i \in 0 .. pos /\ pos - (k - i) = ipos
        BY <3>1, <2>offsets
      <4>4. Sub(seq, k - i) = Add(FirstSeq, ipos)
        <5> HIDE DEF pos, ipos
        <5> QED
          BY <1>1, <1>4, <4>3, SubAdd
      <4> QED
        BY <4>2, <4>4
    <3>2. CASE i > k
      <4>1. i - k \in 0 .. ahead
        <5>1. k \in Nat /\ i \in Nat /\ sent[m].n \in Nat /\ i <= sent[m].n
          BY <1>1
        <5> QED
          BY <1>2, <3>2, <5>1
      <4>2. \E f \in frags : f.seq = Add(seq, i - k)
        <5>1. CASE i - k = ahead
          BY <5>1 DEF LastFragmentAhead
        <5>2. CASE i - k # ahead
          <6>1. i - k \in 0 .. ahead - 1
            BY <4>1, <5>2
          <6> QED
            BY <6>1 DEF LastFragmentAhead
        <5> QED
          BY <5>1, <5>2
      <4>3. i - k \in 0 .. SeqMod - 1 /\ pos + (i - k) = ipos /\ pos + (i - k) < SeqMod
        BY <3>2, <2>offsets
      <4>4. Add(seq, i - k) = Add(FirstSeq, ipos)
        <5> HIDE DEF pos, ipos
        <5> QED
          BY <1>1, <1>4, <4>3, AddAdd
      <4> QED
        BY <4>2, <4>4
    <3> QED
      BY <1>1, <3>1, <3>2
  <2>4. /\ FragmentAt(frags, Add(begin, i - 1)) \in frags
        /\ FragmentAt(frags, Add(begin, i - 1)).seq = Add(FirstSeq, ipos)
    <3> HIDE DEF ipos, begin
    <3> QED
      BY <2>2, <2>3 DEF FragmentAt
  <2> QED
    BY <2>4, NumberIdentifies
<1>7. IsMessage(defragmentPacket(frags, begin, sent[m].n), m)
  <2>1. \A i \in 1 .. sent[m].n :
            LET f == FragmentAt(frags, Add(begin, i - 1)) IN <<f.msg, f.part>> = <<m, i>>
    <3>1. \A i : Fragment(m, i).msg = m /\ Fragment(m, i).part = i
      BY DEF Fragment
    <3> HIDE DEF begin
    <3> QED
      BY <1>6, <3>1
  <2> HIDE DEF begin
  <2>2. defragmentPacket(frags, begin, sent[m].n).body = Body(m)
    BY <2>1 DEF defragmentPacket, Body
  <2>3. /\ defragmentPacket(frags, begin, sent[m].n).seq = begin
        /\ defragmentPacket(frags, begin, sent[m].n).n = sent[m].n
    BY DEF defragmentPacket
  <2> QED
    BY <2>2, <2>3 DEF IsMessage, begin
<1> QED
  BY <1>2, <1>3, <1>5, <1>7 DEF FoundMessage

\* A message that was not cut is whole by itself.
LEMMA UnfragmentedIsMessage ==
    ASSUME Layout, NEW p, IsSent(p), p.first, p.last
    PROVE  \E m \in 1 .. Len(sent) : p.msg = m /\ IsMessage(createNormalPacket(p), m)
<1>1. PICK m \in 1 .. Len(sent) : \E k \in 1 .. sent[m].n : p = Fragment(m, k)
  BY DEF IsSent
<1>2. PICK k \in 1 .. sent[m].n : p = Fragment(m, k)
  BY <1>1
<1>3. k = 1 /\ sent[m].n = 1
  BY <1>2 DEF Fragment
<1>4. sent[m].start \in Nat
  BY <1>2, PositionBounds
<1>5. p.seq = Add(FirstSeq, sent[m].start) /\ p.msg = m /\ p.part = 1
  BY <1>2, <1>3, <1>4 DEF Fragment
<1>6. createNormalPacket(p).body = Body(m)
  BY <1>3, <1>5 DEF createNormalPacket, Body
<1> QED
  BY <1>3, <1>5, <1>6 DEF IsMessage, createNormalPacket

\* Entries made of sent packets have the type of an entry.
LEMMA MessageIsEntry ==
    ASSUME Layout, NEW e, NEW m \in 1 .. Len(sent), IsMessage(e, m),
           e = [seq |-> e.seq, n |-> e.n, head |-> e.head, body |-> e.body], e.head \in Nat
    PROVE  e \in Entry
<1>1. sent[m].start \in Nat /\ sent[m].n \in Nat \ {0}
  <2>1. sent[m] \in [start : Nat, n : Nat] /\ sent[m].n > 0
    BY ElementOfSeq DEF Layout
  <2> QED
    BY <2>1
<1>2. e.seq \in SeqNum
  <2>1. sent[m].start + 1 - 1 \in 0 .. SeqMod - 1
    <3>1. 1 \in 1 .. sent[m].n
      BY <1>1
    <3> QED
      BY <3>1, PositionBounds
  <2>2. sent[m].start \in SeqNum
    BY <1>1, <2>1
  <2> QED
    BY <2>2, SeqNumClosed, FragmentationAssumption DEF IsMessage
<1>3. e.n \in Nat
  BY <1>1 DEF IsMessage
<1>4. e.body \in Seq(Nat \X Nat)
  <2>1. \A k \in 1 .. sent[m].n : <<m, k>> \in Nat \X Nat
    OBVIOUS
  <2>2. Body(m) \in Seq(Nat \X Nat)
    BY <1>1, <2>1 DEF Body
  <2> QED
    BY <2>2 DEF IsMessage
<1> QED
  BY <1>2, <1>3, <1>4 DEF Entry

\* The lowest buffered fragment exists.
LEMMA LowestFragmentExists ==
    ASSUME NEW frags, frags \subseteq Packet, frags # {}
    PROVE  LowestFragment(frags) \in frags
<1> DEFINE numbers == {f.seq : f \in frags}
<1>1. numbers \in SUBSET Nat /\ numbers # {}
  BY HalfRangeAssumption DEF Packet
<1>2. \E s \in numbers : \A t \in numbers : s <= t
  <2> HIDE DEF numbers
  <2>1. PICK s \in numbers : \A t \in numbers : ~(<<t, s>> \in OpToRel(<, Nat))
    BY <1>1, WFMin, NatLessThanWellFounded
  <2>2. \A t \in numbers : ~(t < s)
    BY <1>1, <2>1 DEF OpToRel
  <2> QED
    BY <1>1, <2>2
<1>3. \E f \in frags : \A g \in frags : f.seq <= g.seq
  BY <1>2
<1> QED
  BY <1>3 DEF LowestFragment

\* Sent packets have the type of a packet.
LEMMA SentIsPacket ==
    ASSUME Layout, NEW p, IsSent(p)
    PROVE  p \in Packet
<1>1. PICK m \in 1 .. Len(sent) : \E k \in 1 .. sent[m].n : p = Fragment(m, k)
  BY DEF IsSent
<1>2. PICK k \in 1 .. sent[m].n : p = Fragment(m, k)
  BY <1>1
<1>3. sent[m].start + k - 1 \in SeqNum
  BY PositionBounds
<1>4. Add(FirstSeq, sent[m].start + k - 1) \in SeqNum
  BY <1>3, SeqNumClosed, FragmentationAssumption
<1>5. m \in Nat /\ k \in Nat
  OBVIOUS
<1> QED
  BY <1>2, <1>4, <1>5 DEF Fragment, Packet

\* Two messages that start at the same number are the same message.
LEMMA UniqueStart ==
    ASSUME Layout, NEW m \in 1 .. Len(sent), NEW m2 \in 1 .. Len(sent),
           Add(FirstSeq, sent[m].start) = Add(FirstSeq, sent[m2].start)
    PROVE  m = m2
<1>1. \A i \in 1 .. Len(sent) : sent[i].start \in Nat /\ sent[i].n \in Nat \ {0}
  <2> TAKE i \in 1 .. Len(sent)
  <2>1. sent[i] \in [start : Nat, n : Nat] /\ sent[i].n > 0
    BY ElementOfSeq DEF Layout
  <2> QED
    BY <2>1
<1>2. \A i \in 1 .. Len(sent) : sent[i].start + 1 - 1 = sent[i].start /\ 1 \in 1 .. sent[i].n
  BY <1>1
<1>3. Fragment(m, 1).seq = Fragment(m2, 1).seq
  BY <1>2 DEF Fragment
<1> QED
  BY <1>2, <1>3, UniqueNumber

\* Packets that were sent stay sent when no message is accepted.
LEMMA SentUnchanged ==
    ASSUME UNCHANGED <<sendSeq, sent>>, Layout
    PROVE  /\ Layout'
           /\ \A p : IsSent(p) => IsSent(p)'
           /\ \A e, m : IsMessage(e, m) => IsMessage(e, m)'
<1>1. Layout'
  BY DEF Layout, SentPackets
<1>2. \A p : IsSent(p) => IsSent(p)'
  BY DEF IsSent, Fragment
<1>3. \A e, m : IsMessage(e, m) => IsMessage(e, m)'
  BY DEF IsMessage, Body
<1> QED
  BY <1>1, <1>2, <1>3

\* What is in transit after a send was there before or was sent now.
LEMMA InTransitPackets ==
    ASSUME NEW inFlight, NEW outgoing, NEW after, InTransit(inFlight, outgoing, after)
    PROVE  after \subseteq inFlight \cup outgoing
BY DEF InTransit

\* Accepting a message of n fragments lays it out behind the others, and
\* nothing else changes place: what was sent stays sent, what was a message
\* stays one, and the new fragments are sent as they are.
LEMMA AcceptMessage ==
    ASSUME Layout, NEW n \in FragCounts, SentPackets + n <= MaxPackets,
           sendSeq' = Add(sendSeq, n),
           sent' = Append(sent, [start |-> SentPackets, n |-> n]),
           NEW packs, packs = serializeNormalPacket(Len(sent) + 1, n, sendSeq)
    PROVE  /\ Layout'
           /\ Len(sent') = Len(sent) + 1
           /\ \A i \in 1 .. Len(sent) : sent'[i] = sent[i]
           /\ sent'[Len(sent) + 1] = [start |-> SentPackets, n |-> n]
           /\ sendSeq' \in SeqNum
           /\ \A p : IsSent(p) => IsSent(p)'
           /\ \A i \in 1 .. Len(sent) : Body(i)' = Body(i)
           /\ \A e : \A i \in 1 .. Len(sent) :
                  IsMessage(e, i) => i \in 1 .. Len(sent') /\ IsMessage(e, i)'
           /\ Len(packs) = n /\ DOMAIN packs = 1 .. n
           /\ packs \in Seq(Packet)
           /\ \A k \in 1 .. n : IsSent(packs[k])'
<1>m. PICK m \in Nat : m = Len(sent) + 1
  BY DEF Layout
<1>packs. packs = serializeNormalPacket(m, n, sendSeq)
  BY <1>m
<1> DEFINE new == [start |-> SentPackets, n |-> n]
<1>1. /\ SentPackets + n <= MaxPackets
      /\ sendSeq' = Add(sendSeq, n)
      /\ sent' = Append(sent, new)
  OBVIOUS
<1>2. n \in Nat \ {0}
  BY FragmentationAssumption
<1>3. /\ Len(sent) \in Nat
      /\ \A i \in 1 .. Len(sent) : /\ sent[i].start \in Nat
                                   /\ sent[i].n \in Nat \ {0}
                                   /\ sent[i].start + sent[i].n <= SentPackets
  <2>1. Len(sent) \in Nat
    BY DEF Layout
  <2>2. ASSUME NEW i \in 1 .. Len(sent)
        PROVE  /\ sent[i].start \in Nat
               /\ sent[i].n \in Nat \ {0}
               /\ sent[i].start + sent[i].n <= SentPackets
    <3>1. sent[i] \in [start : Nat, n : Nat] /\ sent[i].n > 0
      BY ElementOfSeq DEF Layout
    <3>2. 1 \in 1 .. sent[i].n
      BY <3>1
    <3> QED
      BY <3>1, <3>2, PositionBounds
  <2> QED
    BY <2>1, <2>2
<1>4. SentPackets \in Nat
  <2>1. CASE sent = <<>>
    BY <2>1 DEF SentPackets
  <2>2. CASE sent # <<>>
    <3>1. Len(sent) \in 1 .. Len(sent)
      BY <1>m, <2>2, <1>3 DEF Layout
    <3> QED
      BY <1>m, <1>3, <2>2, <3>1 DEF SentPackets
  <2> QED
    BY <2>1, <2>2
<1>5. /\ sent' \in Seq([start : Nat, n : Nat])
      /\ sent' # <<>>
      /\ Len(sent') = m
      /\ \A i \in 1 .. Len(sent) : sent'[i] = sent[i]
      /\ sent'[m] = new
  <2>1. new \in [start : Nat, n : Nat]
    BY <1>2, <1>4
  <2>2. sent \in Seq([start : Nat, n : Nat])
    BY DEF Layout
  <2> HIDE DEF new
  <2> QED
    BY <1>1, <1>m, <2>1, <2>2, AppendProperties
<1>6. \A i \in 1 .. m : i = m \/ i \in 1 .. Len(sent)
  BY <1>m, <1>3
<1>7. SentPackets' = SentPackets + n
  BY <1>m, <1>5 DEF SentPackets
<1>8. /\ SeqMod \in Nat /\ n \in SeqNum /\ SentPackets + n \in SeqNum
      /\ SentPackets \in SeqNum
  BY <1>1, <1>2, <1>4, FragmentationAssumption, HalfRangeAssumption
<1>9. sendSeq' = Add(FirstSeq, SentPackets') /\ sendSeq' \in SeqNum
  <2>1. sendSeq = Add(FirstSeq, SentPackets)
    BY DEF Layout
  <2>2. SentPackets + n < SeqMod
    BY <1>8
  <2>3. sendSeq' = Add(FirstSeq, SentPackets + n)
    BY <1>1, <1>8, <2>1, <2>2, AddAdd
  <2>4. sendSeq' \in SeqNum
    BY <1>8, <2>3, SeqNumClosed, FragmentationAssumption
  <2> QED
    BY <1>7, <2>3, <2>4
<1>10. Layout'
  <2>1. (\A i \in 1 .. Len(sent) : sent[i].n > 0)'
    <3>1. ASSUME NEW i \in 1 .. m
          PROVE  sent'[i].n > 0
      <4>1. CASE i = m
        BY <1>2, <1>5, <4>1
      <4>2. CASE i \in 1 .. Len(sent)
        <5>1. sent'[i] = sent[i]
          BY <1>5, <4>2
        <5>2. sent[i].n > 0
          BY <1>3, <4>2
        <5> QED
          BY <5>1, <5>2
      <4> QED
        BY <1>6, <4>1, <4>2
    <3> QED
      BY <1>5, <3>1
  <2>2. (sent # <<>> => sent[1].start = 0)'
    <3>1. CASE sent = <<>>
      <4>1. m = 1 /\ SentPackets = 0
        BY <1>m, <3>1 DEF SentPackets
      <4> QED
        BY <1>m, <1>5, <4>1
    <3>2. CASE sent # <<>>
      <4>1. 1 \in 1 .. Len(sent)
        BY <1>m, <1>3, <3>2 DEF Layout
      <4> QED
        BY <1>m, <1>5, <3>2, <4>1 DEF Layout
    <3> QED
      BY <3>1, <3>2
  <2>3. (\A i \in 1 .. Len(sent) - 1 : sent[i + 1].start = sent[i].start + sent[i].n)'
    <3>1. ASSUME NEW i \in 1 .. m - 1
          PROVE  sent'[i + 1].start = sent'[i].start + sent'[i].n
      <4>1. i \in 1 .. Len(sent) /\ sent'[i] = sent[i]
        BY <1>m, <1>3, <1>5
      <4>2. CASE i = Len(sent)
        <5>1. sent # <<>>
          BY <1>m, <4>1, <4>2, <1>3
        <5>2. SentPackets = sent[i].start + sent[i].n
          BY <4>2, <5>1 DEF SentPackets
        <5> QED
          BY <1>m, <1>5, <4>1, <4>2, <5>2
      <4>3. CASE i # Len(sent)
        <5>1. i \in 1 .. Len(sent) - 1 /\ i + 1 \in 1 .. Len(sent)
          BY <1>m, <1>3, <4>1, <4>3
        <5>2. sent[i + 1].start = sent[i].start + sent[i].n
          BY <5>1 DEF Layout
        <5> QED
          BY <1>m, <1>5, <4>1, <5>1, <5>2
      <4> QED
        BY <4>2, <4>3
    <3> QED
      BY <1>m, <1>5, <3>1
  <2>4. (\A i, j \in 1 .. Len(sent) : i < j => sent[i].start + sent[i].n <= sent[j].start)'
    <3>1. ASSUME NEW i \in 1 .. m, NEW j \in 1 .. m, i < j
          PROVE  sent'[i].start + sent'[i].n <= sent'[j].start
      <4>0. i # m
        BY <3>1
      <4>1. i \in 1 .. Len(sent) /\ sent'[i] = sent[i]
        BY <1>5, <1>6, <4>0
      <4>2. CASE j = m
        BY <1>m, <1>3, <1>5, <4>1, <4>2
      <4>3. CASE j # m
        <5>1. j \in 1 .. Len(sent) /\ sent'[j] = sent[j]
          BY <1>m, <1>5, <1>6, <4>3
        <5>2. sent[i].start + sent[i].n <= sent[j].start
          BY <3>1, <4>1, <5>1 DEF Layout
        <5> QED
          BY <4>1, <5>1, <5>2
      <4> QED
        BY <4>2, <4>3
    <3> QED
      BY <1>m, <1>5, <3>1
  <2>5. (SentPackets <= MaxPackets)'
    BY <1>1, <1>7
  <2>6. (Len(sent) <= SentPackets)'
    <3>1. Len(sent) <= SentPackets
      BY DEF Layout
    <3>2. Len(sent') <= SentPackets + n
      BY <1>2, <1>3, <1>4, <1>5, <1>m, <3>1
    <3> QED
      BY <1>7, <3>2
  <2>7. (sent \in Seq([start : Nat, n : Nat]))'
    BY <1>5
  <2> QED
    BY <1>9, <2>1, <2>2, <2>3, <2>4, <2>5, <2>6, <2>7 DEF Layout
<1>11. \A p : IsSent(p) => IsSent(p)'
  <2>1. \A i \in 1 .. Len(sent) : \A k : Fragment(i, k)' = Fragment(i, k)
    BY <1>m, <1>5 DEF Fragment
  <2>2. \A i \in 1 .. Len(sent) : i \in 1 .. Len(sent') /\ sent'[i] = sent[i]
    BY <1>m, <1>3, <1>5
  <2> QED
    BY <2>1, <2>2 DEF IsSent
<1>12. \A k \in 1 .. n : packs[k] = Fragment(m, k)'
  <2> TAKE k \in 1 .. n
  <2>1. sendSeq = Add(FirstSeq, SentPackets)
    BY DEF Layout
  <2>2. /\ k - 1 \in 0 .. SeqMod - 1 /\ SentPackets \in 0 .. SeqMod - 1
        /\ SentPackets + (k - 1) < SeqMod /\ SentPackets + (k - 1) = SentPackets + k - 1
    BY <1>2, <1>4, <1>8
  <2>3. Add(sendSeq, k - 1) = Add(FirstSeq, SentPackets + k - 1)
    BY <2>1, <2>2, AddAdd
  <2>4. packs[k] = [seq |-> Add(sendSeq, k - 1), msg |-> m, part |-> k,
                    first |-> k = 1, last |-> k = n]
    BY <1>packs DEF serializeNormalPacket
  <2>5. Fragment(m, k)' = [seq |-> Add(FirstSeq, SentPackets + k - 1), msg |-> m, part |-> k,
                           first |-> k = 1, last |-> k = n]
    BY <1>m, <1>5 DEF Fragment
  <2> QED
    BY <2>3, <2>4, <2>5
<1>13. \A k \in 1 .. n : IsSent(packs[k])'
  <2>1. m \in 1 .. Len(sent') /\ sent'[m].n = n
    BY <1>m, <1>3, <1>5
  <2> QED
    BY <1>12, <2>1 DEF IsSent
<1>14. Len(packs) = n /\ DOMAIN packs = 1 .. n
  BY <1>2, <1>packs DEF serializeNormalPacket
<1>seq. sendSeq \in SeqNum
  BY <1>8, SeqNumClosed, FragmentationAssumption DEF Layout
<1>15. \A k \in 1 .. n : packs[k] \in Packet
  <2> TAKE k \in 1 .. n
  <2>1. k - 1 \in SeqNum
    BY <1>2, <1>8
  <2>2. Add(sendSeq, k - 1) \in SeqNum
    BY <2>1, SeqNumClosed, <1>seq
  <2>3. m \in Nat /\ k \in Nat
    BY <1>m, <1>2, <1>3
  <2> QED
    BY <2>2, <2>3, <1>packs DEF serializeNormalPacket, Packet
<1>16. packs \in Seq(Packet)
  <2>1. packs = [k \in 1 .. n |-> packs[k]]
    BY <1>14, <1>packs DEF serializeNormalPacket
  <2> QED
    BY <1>2, <1>15, <2>1, SeqOfFunction
<1>17. \A i \in 1 .. Len(sent) : Body(i)' = Body(i)
  BY <1>m, <1>5 DEF Body
<1>18. \A e : \A i \in 1 .. Len(sent) : IsMessage(e, i) => i \in 1 .. Len(sent') /\ IsMessage(e, i)'
  BY <1>m, <1>3, <1>5, <1>17 DEF IsMessage
<1> HIDE DEF new
<1>19. Len(sent') = Len(sent) + 1 /\ sent'[Len(sent) + 1] = [start |-> SentPackets, n |-> n]
  BY <1>m, <1>5 DEF new
<1> QED
  BY <1>5, <1>9, <1>10, <1>11, <1>13, <1>14, <1>16, <1>17, <1>18, <1>19

-----------------------------------------------------------------------------
\* What the sender's game thread sees.

\* A sequence that is one element longer is the other with the element appended.
LEMMA AppendIs ==
    ASSUME NEW S, NEW s \in Seq(S), NEW t \in Seq(S), NEW e \in S,
           Len(t) = Len(s) + 1, t[Len(s) + 1] = e,
           \A i \in 1 .. Len(s) : t[i] = s[i]
    PROVE  t = Append(s, e)
<1>1. /\ Append(s, e) \in Seq(S)
      /\ Len(Append(s, e)) = Len(s) + 1
      /\ \A i \in 1 .. Len(s) : Append(s, e)[i] = s[i]
      /\ Append(s, e)[Len(s) + 1] = e
  BY AppendProperties
<1>2. \A i \in 1 .. Len(t) : i \in 1 .. Len(s) \/ i = Len(s) + 1
  BY LenProperties
<1>3. \A i \in 1 .. Len(t) : t[i] = Append(s, e)[i]
  BY <1>1, <1>2
<1> QED
  BY <1>1, <1>3, SeqEqual

\* The payload of a message is a sequence of pieces.
LEMMA BodyIsSequence ==
    ASSUME Layout, NEW m \in 1 .. Len(sent)
    PROVE  Body(m) \in Seq(Nat \X Nat)
<1>1. sent[m] \in [start : Nat, n : Nat] /\ m \in Nat
  <2>1. sent \in Seq([start : Nat, n : Nat])
    BY DEF Layout
  <2>2. Len(sent) \in Nat
    BY <2>1
  <2>3. sent[m] \in [start : Nat, n : Nat]
    BY <2>1, ElementOfSeq
  <2>4. m \in Nat
    BY <2>2
  <2> QED
    BY <2>3, <2>4
<1>2. Body(m) = [k \in 1 .. sent[m].n |-> Body(m)[k]] /\ sent[m].n \in Nat
  BY <1>1 DEF Body
<1>3. \A k \in 1 .. sent[m].n : k \in Nat
  BY <1>1
<1>4. \A k \in 1 .. sent[m].n : Body(m)[k] \in Nat \X Nat
  BY <1>1, <1>3 DEF Body
<1> QED
  BY <1>2, <1>4, SeqOfFunction

\* What the link accepted is a sequence of payloads.
AcceptedView == Accepted \in Seq(Seq(Nat \X Nat)) /\ Len(Accepted) = Len(sent)

\* And it is one wherever messages are laid out.
LEMMA AcceptedIsSequence == Layout => AcceptedView
<1> SUFFICES ASSUME Layout PROVE AcceptedView
  OBVIOUS
<1>1. Len(sent) \in Nat
  BY DEF Layout
<1>2. Accepted = [m \in 1 .. Len(sent) |-> Accepted[m]]
  BY DEF Accepted
<1>3. \A m \in 1 .. Len(sent) : Accepted[m] \in Seq(Nat \X Nat)
  BY BodyIsSequence DEF Accepted
<1>4. Accepted \in Seq(Seq(Nat \X Nat))
  BY <1>1, <1>2, <1>3, SeqOfFunction
<1>5. DOMAIN Accepted = 1 .. Len(sent)
  BY DEF Accepted
<1> QED
  BY <1>1, <1>4, <1>5, LenProperties DEF AcceptedView

\* Accepting a message appends it to what was accepted.
LEMMA AcceptedGrows ==
    ASSUME Layout, NEW n \in FragCounts, SentPackets + n <= MaxPackets,
           sendSeq' = Add(sendSeq, n),
           sent' = Append(sent, [start |-> SentPackets, n |-> n])
    PROVE  \E body \in Messages : Accepted' = Append(Accepted, body)
<1>m. PICK m \in Nat : m = Len(sent) + 1
  BY DEF Layout
<1>packs. PICK packs : packs = serializeNormalPacket(Len(sent) + 1, n, sendSeq)
  OBVIOUS
<1>0. PICK body : body = [k \in 1 .. n |-> <<m, k>>]
  OBVIOUS
<1>1. /\ Layout' /\ Len(sent') = m /\ sent'[m].n = n
      /\ \A i \in 1 .. Len(sent) : Body(i)' = Body(i)
  BY <1>m, <1>packs, AcceptMessage
<1>2. m \in 1 .. Len(sent') /\ m \in 1 .. MaxPackets
  <2>1. Len(sent') <= SentPackets' /\ SentPackets' <= MaxPackets
    BY <1>1 DEF Layout
  <2>2. m \in 1 .. Len(sent')
    BY <1>m, <1>1 DEF Layout
  <2>3. SentPackets' \in Nat
    <3>1. sent' # <<>> /\ sent'[m] \in [start : Nat, n : Nat]
      BY <1>1, <2>2, ElementOfSeq DEF Layout
    <3> QED
      BY <1>1, <3>1 DEF SentPackets
  <2>4. MaxPackets \in Nat
    BY FragmentationAssumption
  <2> QED
    BY <1>m, <1>1, <2>1, <2>2, <2>3, <2>4
<1>3. body \in Messages
  BY <1>0, <1>2 DEF Messages
<1>4. /\ Accepted \in Seq(Seq(Nat \X Nat)) /\ Len(Accepted) = Len(sent)
      /\ Accepted' \in Seq(Seq(Nat \X Nat)) /\ Len(Accepted') = Len(sent')
  <2>1. Layout /\ Layout'
    BY <1>1
  <2>2. AcceptedView /\ AcceptedView'
    BY <2>1, AcceptedIsSequence, PTL
  <2> QED
    BY <2>2 DEF AcceptedView
<1>5. Accepted'[m] = body /\ \A i \in 1 .. Len(sent) : Accepted'[i] = Accepted[i]
  <2>1. \A i \in 1 .. Len(sent) : i \in 1 .. Len(sent')
    BY <1>m, <1>1 DEF Layout
  <2>2. Accepted'[m] = body
    BY <1>0, <1>1, <1>2 DEF Accepted, Body
  <2> QED
    BY <1>1, <2>1, <2>2 DEF Accepted
<1>6. body \in Seq(Nat \X Nat)
  <2>1. n \in Nat /\ body = [k \in 1 .. n |-> body[k]]
    BY <1>0, FragmentationAssumption
  <2>2. \A k \in 1 .. n : body[k] \in Nat \X Nat
    BY <1>0, <2>1
  <2> QED
    BY <2>1, <2>2, SeqOfFunction
<1>7. Accepted' = Append(Accepted, body)
  BY <1>m, <1>1, <1>4, <1>5, <1>6, AppendIs
<1> QED
  BY <1>3, <1>7
=============================================================================
