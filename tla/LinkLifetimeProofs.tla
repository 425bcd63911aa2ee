------------------------- MODULE LinkLifetimeProofs -------------------------
(***************************************************************************)
(* No thread uses a deleted link, for any number of links and endpoints,   *)
(* as long as the pin count of a new link is not one of the highest value. *)
(***************************************************************************)
EXTENDS LinkLifetime, SequenceTheorems, TLAPS

\* The highest count plus one pin would be zero.
RoomForAPin == PinMod > 1 /\ FreshPins \subseteq 0 .. PinMod - 2

-----------------------------------------------------------------------------
\* The inductive invariant.

\* What is in the list is allocated.
ListAllocated == \A i \in 1 .. Len(list) : Allocated(list[i])

\* A pin count is what it was at first, and one for the game thread's pin.
PinsCounted ==
    \A l \in Links :
        /\ link[l].fresh \in 0 .. PinMod - 2
        /\ link[l].pins = link[l].fresh + (IF l \in PinnedByGame THEN 1 ELSE 0)

\* The list is pinned during forEachLink and at no other time, and markPendingDelete returns to the
\* link it was called for.
PcConsistent ==
    /\ listPins = IF game.at = "forEach" THEN 1 ELSE 0
    /\ game.at = "marking" /\ game.back.at = "pinned" => game.back.link = game.link

IInv == TypeOK /\ ListAllocated /\ PinsCounted /\ PcConsistent /\ PinnedIsAlive

-----------------------------------------------------------------------------
LEMMA PinArithmetic ==
    ASSUME RoomForAPin, NEW p \in 0 .. PinMod - 2, PinMod \in Nat
    PROVE  /\ (p + 1) % PinMod = p + 1
           /\ (p + 1 + PinMod - 1) % PinMod = p
<1>1. (p + 1) % PinMod = p + 1
  BY SMTT(30) DEF RoomForAPin
<1>2. p + 1 + PinMod - 1 = p + PinMod
  BY SMTT(30)
<1>3. (p + PinMod) % PinMod = p
  BY SMTT(30) DEF RoomForAPin
<1> QED
  BY <1>1, <1>2, <1>3

LEMMA RemovedElements ==
    ASSUME NEW S, NEW s \in Seq(S), NEW i \in 1 .. Len(s)
    PROVE  /\ RemoveAt(s, i) \in Seq(S)
           /\ Len(RemoveAt(s, i)) = Len(s) - 1
           /\ \A j \in 1 .. Len(s) - 1 :
                 RemoveAt(s, i)[j] = IF j < i THEN s[j] ELSE s[j + 1]
<1> DEFINE a == SubSeq(s, 1, i - 1)
           b == SubSeq(s, i + 1, Len(s))
<1>1. /\ a \in Seq(S) /\ Len(a) = i - 1
      /\ \A j \in 1 .. i - 1 : a[j] = s[j]
  BY SubSeqProperties, SMTT(30)
<1>2. /\ b \in Seq(S) /\ Len(b) = Len(s) - i
      /\ \A j \in 1 .. Len(s) - i : b[j] = s[i + j]
  BY SubSeqProperties, SMTT(30)
<1>3. RemoveAt(s, i) = a \o b
  BY DEF RemoveAt
<1> HIDE DEF a, b
<1>4. /\ a \o b \in Seq(S) /\ Len(a \o b) = Len(s) - 1
      /\ \A j \in 1 .. Len(s) - 1 : (a \o b)[j] = IF j <= Len(a) THEN a[j] ELSE b[j - Len(a)]
  <2>1. /\ a \o b \in Seq(S) /\ Len(a \o b) = Len(a) + Len(b)
        /\ \A j \in 1 .. Len(a) + Len(b) : (a \o b)[j] = IF j <= Len(a) THEN a[j] ELSE b[j - Len(a)]
    BY <1>1, <1>2, ConcatProperties
  <2>2. Len(a) + Len(b) = Len(s) - 1
    BY <1>1, <1>2, SMTT(30)
  <2> QED
    BY <2>1, <2>2
<1>5. \A j \in 1 .. Len(s) - 1 : (a \o b)[j] = IF j < i THEN s[j] ELSE s[j + 1]
  <2> SUFFICES ASSUME NEW j \in 1 .. Len(s) - 1
               PROVE  (a \o b)[j] = IF j < i THEN s[j] ELSE s[j + 1]
    OBVIOUS
  <2>1. CASE j < i
    BY <1>1, <1>4, <2>1, SMTT(30)
  <2>2. CASE ~(j < i)
    <3>1. j - Len(a) \in 1 .. Len(s) - i /\ i + (j - Len(a)) = j + 1
      BY <1>1, <2>2, SMTT(30)
    <3> QED
      BY <1>1, <1>2, <1>4, <2>2, <3>1, SMTT(30)
  <2> QED
    BY <2>1, <2>2
<1> QED
  BY <1>3, <1>4, <1>5

-----------------------------------------------------------------------------
LinkType == [memory : {"unused", "allocated", "deleted"}, endpoint : Endpoint,
             fresh : FreshPins \cup {0}, pins : 0 .. PinMod - 1, pending : BOOLEAN,
             since : {"unset", "fresh", "lingered", "late"}]

GameType == Pc \cup [at : {"marking"}, link : Links, back : Pc]
               \cup [at : {"forEach"}, left : SUBSET Links, list : Seq(Links)]

LEMMA InitIInv == ASSUME RoomForAPin PROVE Init => IInv
<1> SUFFICES ASSUME Init PROVE IInv
  OBVIOUS
<1>1. Unused \in LinkType /\ Unused.fresh = 0 /\ Unused.pins = 0
  <2>1. (CHOOSE e \in Endpoint : TRUE) \in Endpoint
    BY LinkLifetimeAssumption
  <2> QED
    BY <2>1, RoomForAPin, LinkLifetimeAssumption DEF Unused, LinkType, RoomForAPin
<1>2. TypeOK
  <2>1. list \in Seq(Links) /\ Len(list) = 0
    BY DEF Init
  <2>2. link \in [Links -> LinkType]
    BY <1>1 DEF Init
  <2>3. game \in Pc
    BY DEF Init, Pc
  <2> QED
    BY <2>1, <2>2, <2>3 DEF Init, TypeOK, LinkType
<1>3. PinnedByGame = {}
  BY DEF Init, PinnedByGame
<1>4. PinsCounted
  <2>1. 0 \in 0 .. PinMod - 2
    BY LinkLifetimeAssumption DEF RoomForAPin
  <2> QED
    BY <1>1, <1>3, <2>1 DEF Init, PinsCounted
<1>5. ListAllocated
  BY DEF Init, ListAllocated
<1>6. PcConsistent /\ PinnedIsAlive
  BY <1>3 DEF Init, PcConsistent, PinnedIsAlive
<1> QED
  BY <1>2, <1>4, <1>5, <1>6 DEF IInv

\* A new link: what was allocated stays, and nothing is pinned on the new one.
LEMMA AddLinkKeeps ==
    ASSUME RoomForAPin, IInv, NEW e \in Endpoint, AddLink(e), game' = game
    PROVE  /\ list' \in Seq(Links) /\ Len(list') > 0
           /\ \A i, j \in 1 .. Len(list') :
                 i # j => link'[list'[i]].endpoint # link'[list'[j]].endpoint
           /\ link' \in [Links -> LinkType]
           /\ \A l \in Links : Allocated(l) => Allocated(l)'
           /\ ListAllocated' /\ PinsCounted'
<1>1. PICK l \in Links, pins \in FreshPins :
         /\ link[l].memory = "unused"
         /\ link' = [link EXCEPT ![l] = NewLink(e, pins)]
         /\ list' = Append(list, l)
  BY DEF AddLink
<1>2. /\ list \in Seq(Links) /\ link \in [Links -> LinkType]
      /\ \A i, j \in 1 .. Len(list) :
            i # j => link[list[i]].endpoint # link[list[j]].endpoint
  BY DEF IInv, TypeOK, LinkType
<1>3. /\ NewLink(e, pins) \in LinkType /\ NewLink(e, pins).memory = "allocated"
      /\ NewLink(e, pins).endpoint = e /\ NewLink(e, pins).fresh = pins /\ NewLink(e, pins).pins = pins
  <2>1. pins \in 0 .. PinMod - 1
    BY RoomForAPin, LinkLifetimeAssumption DEF RoomForAPin
  <2> QED
    BY <2>1 DEF NewLink, LinkType
<1>4. /\ list' \in Seq(Links) /\ Len(list') = Len(list) + 1
      /\ \A i \in 1 .. Len(list) : list'[i] = list[i]
      /\ list'[Len(list) + 1] = l
  BY <1>1, <1>2, AppendProperties
<1>5. link'[l] = NewLink(e, pins) /\ \A k \in Links \ {l} : link'[k] = link[k]
  BY <1>1, <1>2
<1>6. \A i \in 1 .. Len(list) : list[i] \in Links /\ list[i] # l /\ link[list[i]].endpoint # e
  BY <1>1, <1>2 DEF IInv, ListAllocated, Allocated, AddLink, InList
<1>7. Len(list) \in Nat
  BY <1>2
<1>8. \A i, j \in 1 .. Len(list') :
         i # j => link'[list'[i]].endpoint # link'[list'[j]].endpoint
  <2> SUFFICES ASSUME NEW i \in 1 .. Len(list'), NEW j \in 1 .. Len(list'), i # j
               PROVE  link'[list'[i]].endpoint # link'[list'[j]].endpoint
    OBVIOUS
  <2>1. \A k \in 1 .. Len(list') : k \in 1 .. Len(list) \/ k = Len(list) + 1
    BY <1>4, <1>7
  <2> QED
    BY <1>2, <1>3, <1>4, <1>5, <1>6, <2>1
<1>9. \A k \in Links : Allocated(k) => Allocated(k)'
  BY <1>1, <1>5 DEF Allocated
<1>10. ListAllocated'
  <2>1. \A k \in 1 .. Len(list') : k \in 1 .. Len(list) \/ k = Len(list) + 1
    BY <1>4, <1>7
  <2> QED
    BY <1>3, <1>4, <1>5, <1>6, <2>1 DEF IInv, ListAllocated, Allocated
<1>11. PinsCounted'
  <2>1. PinnedByGame' = PinnedByGame
    BY DEF PinnedByGame
  <2>2. l \notin PinnedByGame
    BY <1>1 DEF IInv, PinnedIsAlive, Allocated
  <2>3. pins \in 0 .. PinMod - 2
    BY RoomForAPin DEF RoomForAPin
  <2>4. ASSUME NEW k \in Links
        PROVE  /\ link'[k].fresh \in 0 .. PinMod - 2
               /\ link'[k].pins = link'[k].fresh + (IF k \in PinnedByGame' THEN 1 ELSE 0)
    <3>1. CASE k = l
      BY <1>3, <1>5, <2>1, <2>2, <2>3, <3>1
    <3>2. CASE k # l
      BY <1>5, <2>1, <3>2 DEF IInv, PinsCounted
    <3> QED
      BY <3>1, <3>2
  <2> QED
    BY <2>4 DEF PinsCounted
<1>12. link' \in [Links -> LinkType]
  BY <1>1, <1>2, <1>3
<1> QED
  BY <1>4, <1>7, <1>8, <1>9, <1>10, <1>11, <1>12

-----------------------------------------------------------------------------
\* Receive thread.

LEMMA GetLinkKeeps == ASSUME RoomForAPin, IInv, GetLink PROVE IInv'
<1> USE DEF GetLink
<1>1. PICK i \in 1 .. Len(list) : recv' = [at |-> "link", link |-> list[i]]
  OBVIOUS
<1>2. list[i] \in Links /\ Allocated(list[i])
  BY DEF IInv, TypeOK, ListAllocated
<1>3. TypeOK'
  <2>1. recv' \in [at : {"link"}, link : Links]
    BY <1>1, <1>2
  <2>2. UNCHANGED <<list, link, listPins, mutex, game, send>>
    OBVIOUS
  <2> QED
    BY <2>1, <2>2, SMTT(30) DEF IInv, TypeOK, Pc
<1>4. /\ ListAllocated' /\ PcConsistent' /\ PinnedByGame' = PinnedByGame
      /\ \A l : Allocated(l)' <=> Allocated(l)
  BY DEF IInv, ListAllocated, PcConsistent, PinnedByGame, Allocated
<1>5. PinsCounted'
  BY <1>4 DEF IInv, PinsCounted
<1>6. PinnedIsAlive'
  BY <1>1, <1>2, <1>4 DEF IInv, PinnedIsAlive
<1> QED
  BY <1>3, <1>4, <1>5, <1>6 DEF IInv

LEMMA AddLinkSteps == ASSUME RoomForAPin, IInv, ReceiveConnect \/ Connect PROVE IInv'
<1>1. PICK e \in Endpoint : AddLink(e)
  BY DEF ReceiveConnect, Connect
<1>2. UNCHANGED <<listPins, mutex, game, send>>
  BY DEF ReceiveConnect, Connect
<1>3. /\ list' \in Seq(Links) /\ Len(list') > 0
      /\ \A i, j \in 1 .. Len(list') :
            i # j => link'[list'[i]].endpoint # link'[list'[j]].endpoint
      /\ link' \in [Links -> LinkType]
      /\ \A l \in Links : Allocated(l) => Allocated(l)'
      /\ ListAllocated' /\ PinsCounted'
  BY <1>1, <1>2, AddLinkKeeps
<1>4. recv' = recv \/ recv' = [at |-> "link", link |-> list'[Len(list')]]
  BY DEF ReceiveConnect, Connect
<1>5. list'[Len(list')] \in Links /\ Allocated(list[Len(list)])'
  <2>1. Len(list') \in 1 .. Len(list')
    BY <1>3
  <2> QED
    BY <1>3, <2>1 DEF ListAllocated
<1>6. TypeOK'
  <2>1. recv' \in [at : {"socket"}] \cup [at : {"link"}, link : Links]
    BY <1>4, <1>5 DEF IInv, TypeOK
  <2> QED
    BY <1>2, <1>3, <2>1 DEF IInv, TypeOK, LinkType
<1>7. PcConsistent'
  BY <1>2 DEF IInv, PcConsistent
<1>8. PinnedIsAlive'
  <2>1. PinnedByGame' = PinnedByGame /\ PinnedByGame \subseteq Links
    BY <1>2 DEF IInv, TypeOK, PinnedByGame, Pc
  <2>2. (\A l \in PinnedByGame : Allocated(l))'
    BY <1>3, <2>1 DEF IInv, PinnedIsAlive
  <2>3. (game.at = "forEach" => \A l \in game.left : Allocated(l))'
    BY <1>2, <1>3 DEF IInv, TypeOK, PinnedIsAlive, Pc
  <2>4. (recv.at = "link" => Allocated(recv.link))'
    BY <1>3, <1>4, <1>5 DEF IInv, TypeOK, PinnedIsAlive
  <2>5. (\A i \in 1 .. Len(list) : Allocated(list[i]))'
    BY <1>3 DEF ListAllocated
  <2> QED
    BY <2>2, <2>3, <2>4, <2>5 DEF PinnedIsAlive
<1> QED
  BY <1>3, <1>6, <1>7, <1>8 DEF IInv

LEMMA ReceivedKeeps == ASSUME RoomForAPin, IInv, Received PROVE IInv'
<1> USE DEF Received
<1>1. TypeOK' /\ ListAllocated' /\ PcConsistent' /\ PinnedByGame' = PinnedByGame
  BY DEF IInv, TypeOK, ListAllocated, PcConsistent, PinnedByGame, Allocated
<1>2. PinsCounted'
  BY <1>1 DEF IInv, PinsCounted
<1>3. PinnedIsAlive'
  BY <1>1 DEF IInv, PinnedIsAlive, Allocated
<1> QED
  BY <1>1, <1>2, <1>3 DEF IInv

\* A link is only deleted when no thread has it.
LEMMA UpdatePendingDeletesKeeps ==
    ASSUME RoomForAPin, IInv, NEW l \in Links, UpdatePendingDeletes(l)
    PROVE  IInv'
<1>1. PICK i \in 1 .. Len(list) : list[i] = l /\ list' = RemoveAt(list, i)
  BY DEF UpdatePendingDeletes
<1>2. /\ recv.at = "socket" /\ listPins = 0 /\ link[l].pins = 0 /\ mutex = "none"
      /\ link' = [link EXCEPT ![l].memory = "deleted"]
      /\ UNCHANGED <<listPins, mutex, game, recv, send>>
  BY DEF UpdatePendingDeletes, Free
<1>3. /\ list \in Seq(Links) /\ link \in [Links -> LinkType] /\ Len(list) \in Nat
      /\ \A j, k \in 1 .. Len(list) :
            j # k => link[list[j]].endpoint # link[list[k]].endpoint
  BY DEF IInv, TypeOK, LinkType
<1>4. /\ list' \in Seq(Links) /\ Len(list') = Len(list) - 1
      /\ \A j \in 1 .. Len(list) - 1 : list'[j] = IF j < i THEN list[j] ELSE list[j + 1]
  BY <1>1, <1>3, RemovedElements
<1>5. /\ \A k \in Links : /\ link'[k].endpoint = link[k].endpoint
                          /\ link'[k].fresh = link[k].fresh /\ link'[k].pins = link[k].pins
                          /\ k # l => link'[k] = link[k]
      /\ link' \in [Links -> LinkType]
  <2>1. link' = [link EXCEPT ![l] = [link[l] EXCEPT !.memory = "deleted"]]
    BY <1>2
  <2> DEFINE new == [link[l] EXCEPT !.memory = "deleted"]
  <2>2. /\ new \in LinkType /\ new.endpoint = link[l].endpoint
        /\ new.fresh = link[l].fresh /\ new.pins = link[l].pins
    BY <1>3 DEF LinkType
  <2> HIDE DEF new
  <2> QED
    BY <1>3, <2>1, <2>2 DEF new
<1> DEFINE old(j) == IF j < i THEN j ELSE j + 1
<1>6. ASSUME NEW j \in 1 .. Len(list')
      PROVE  old(j) \in 1 .. Len(list) /\ old(j) # i /\ list'[j] = list[old(j)]
  BY <1>3, <1>4, SMTT(30)
<1>7. \A j \in 1 .. Len(list') : list'[j] \in Links /\ list'[j] # l /\ Allocated(list'[j])
  <2> SUFFICES ASSUME NEW j \in 1 .. Len(list')
               PROVE  list'[j] \in Links /\ list'[j] # l /\ Allocated(list'[j])
    OBVIOUS
  <2> DEFINE o == old(j)
  <2>1. o \in 1 .. Len(list) /\ o # i /\ list'[j] = list[o]
    BY <1>6
  <2> HIDE DEF o
  <2>2. list[o] \in Links /\ Allocated(list[o])
    BY <1>3, <2>1 DEF IInv, ListAllocated
  <2>3. list[o] # l
    BY <1>1, <1>3, <2>1
  <2> QED
    BY <2>1, <2>2, <2>3
<1>8. \A j, k \in 1 .. Len(list') :
         j # k => link'[list'[j]].endpoint # link'[list'[k]].endpoint
  <2> SUFFICES ASSUME NEW j \in 1 .. Len(list'), NEW k \in 1 .. Len(list'), j # k
               PROVE  link'[list'[j]].endpoint # link'[list'[k]].endpoint
    OBVIOUS
  <2>1. old(j) # old(k)
    BY <1>3, <1>4
  <2>2. link[list[old(j)]].endpoint # link[list[old(k)]].endpoint
    BY <1>3, <1>6, <2>1
  <2>3. link[list'[j]].endpoint # link[list'[k]].endpoint
    BY <1>6, <2>2
  <2>4. list'[j] \in Links /\ list'[k] \in Links
    BY <1>7
  <2> HIDE DEF old
  <2> QED
    BY <1>5, <2>3, <2>4
<1>9. TypeOK'
  BY <1>2, <1>4, <1>5, <1>8 DEF IInv, TypeOK, LinkType
<1>10. ListAllocated'
  BY <1>5, <1>7 DEF ListAllocated, Allocated
<1>11. PinnedByGame' = PinnedByGame
  BY <1>2 DEF PinnedByGame
<1>12. PinsCounted'
  BY <1>5, <1>11 DEF IInv, PinsCounted
<1>13. PcConsistent' /\ game.at # "forEach"
  BY <1>2 DEF IInv, PcConsistent
<1>14. PinnedIsAlive'
  <2>1. l \notin PinnedByGame /\ PinnedByGame \subseteq Links
    BY <1>2, <1>3 DEF IInv, TypeOK, PinsCounted, PinnedByGame, Pc
  <2>2. \A k \in PinnedByGame' : Allocated(k)'
    BY <1>5, <1>11, <2>1 DEF IInv, PinnedIsAlive, Allocated
  <2> QED
    BY <1>2, <1>10, <1>13, <2>2 DEF PinnedIsAlive, ListAllocated
<1> QED
  BY <1>9, <1>10, <1>12, <1>13, <1>14 DEF IInv

-----------------------------------------------------------------------------
\* The other steps keep the list, and what of a link the list depends on.

\* What no step but deletion and addition changes of a link.
FieldsKept ==
    /\ link' \in [Links -> LinkType]
    /\ \A k \in Links : /\ link'[k].memory = link[k].memory
                         /\ link'[k].endpoint = link[k].endpoint
                         /\ link'[k].fresh = link[k].fresh

LEMMA ListKept ==
    ASSUME IInv, list' = list, FieldsKept
    PROVE  /\ list' \in Seq(Links)
           /\ \A i, j \in 1 .. Len(list') :
                 i # j => link'[list'[i]].endpoint # link'[list'[j]].endpoint
           /\ ListAllocated'
           /\ \A k \in Links : Allocated(k)' <=> Allocated(k)
<1>1. \A i \in 1 .. Len(list) : list[i] \in Links
  BY DEF IInv, TypeOK
<1>2. \A k \in Links : Allocated(k)' <=> Allocated(k)
  BY DEF Allocated, FieldsKept
<1>3. \A i, j \in 1 .. Len(list') :
         i # j => link'[list'[i]].endpoint # link'[list'[j]].endpoint
  BY <1>1 DEF IInv, TypeOK, FieldsKept
<1>4. ListAllocated'
  BY <1>1, <1>2 DEF IInv, ListAllocated
<1> QED
  BY <1>2, <1>3, <1>4 DEF IInv, TypeOK

LEMMA SendThreadKeeps == ASSUME RoomForAPin, IInv, Dispatch \/ WaitAgain PROVE IInv'
<1>1. /\ UNCHANGED <<list, link, listPins, game, recv>>
      /\ send' \in {"waits", "dispatches"} /\ mutex' \in {"none", "send"}
  BY DEF Dispatch, WaitAgain
<1>2. TypeOK' /\ ListAllocated' /\ PcConsistent' /\ PinnedByGame' = PinnedByGame
  BY <1>1 DEF IInv, TypeOK, ListAllocated, PcConsistent, PinnedByGame, Allocated
<1>3. PinsCounted'
  BY <1>1, <1>2 DEF IInv, PinsCounted
<1>4. PinnedIsAlive'
  BY <1>1, <1>2 DEF IInv, PinnedIsAlive, ListAllocated, Allocated
<1> QED
  BY <1>2, <1>3, <1>4 DEF IInv

\* What a step of the game thread or of time has to show.
LEMMA GameStep ==
    ASSUME IInv, list' = list, mutex' = mutex, recv' = recv, send' = send, FieldsKept,
           game' \in GameType, listPins' \in Nat, PcConsistent', PinsCounted',
           \A k \in PinnedByGame' : k \in Links /\ Allocated(k),
           game'.at = "forEach" => \A k \in game'.left : Allocated(k)
    PROVE  IInv'
<1>1. /\ list' \in Seq(Links)
      /\ \A i, j \in 1 .. Len(list') :
            i # j => link'[list'[i]].endpoint # link'[list'[j]].endpoint
      /\ ListAllocated'
      /\ \A k \in Links : Allocated(k)' <=> Allocated(k)
  BY ListKept
<1>2. TypeOK'
  BY <1>1 DEF IInv, TypeOK, LinkType, GameType, FieldsKept
<1>3. PinnedIsAlive'
  <2>1. (\A k \in PinnedByGame : Allocated(k))'
    BY <1>1
  <2>2. (game.at = "forEach" => \A k \in game.left : Allocated(k))'
    BY <1>1 DEF GameType, Pc
  <2>3. (recv.at = "link" => Allocated(recv.link))'
    BY <1>1 DEF IInv, TypeOK, PinnedIsAlive
  <2>4. (\A i \in 1 .. Len(list) : Allocated(list[i]))'
    BY <1>1 DEF ListAllocated
  <2> QED
    BY <2>1, <2>2, <2>3, <2>4 DEF PinnedIsAlive
<1> QED
  BY <1>1, <1>2, <1>3 DEF IInv

\* Link l changes to new.
LEMMA OneLink ==
    ASSUME link \in [Links -> LinkType], NEW l \in Links, NEW new \in LinkType,
           new.memory = link[l].memory, new.endpoint = link[l].endpoint,
           new.fresh = link[l].fresh, link' = [link EXCEPT ![l] = new]
    PROVE  FieldsKept /\ link'[l] = new /\ \A k \in Links \ {l} : link'[k] = link[k]
  BY DEF FieldsKept

\* The same pins on the same links.
LEMMA PinsKept ==
    ASSUME IInv, PinnedByGame' = PinnedByGame, FieldsKept,
           \A k \in Links : link'[k].pins = link[k].pins
    PROVE  PinsCounted'
  BY DEF IInv, PinsCounted, FieldsKept

\* One pin more, or one less, on link l.
LEMMA PinsMoved ==
    ASSUME IInv, NEW l \in Links, FieldsKept, \A k \in Links \ {l} : link'[k] = link[k],
           link'[l].pins = link[l].fresh + (IF l \in PinnedByGame' THEN 1 ELSE 0),
           \A k \in Links \ {l} : k \in PinnedByGame' <=> k \in PinnedByGame
    PROVE  PinsCounted'
<1> SUFFICES ASSUME NEW k \in Links
             PROVE  /\ link'[k].fresh \in 0 .. PinMod - 2
                    /\ link'[k].pins = link'[k].fresh + (IF k \in PinnedByGame' THEN 1 ELSE 0)
  BY DEF PinsCounted
<1>1. link'[k].fresh = link[k].fresh /\ link[k].fresh \in 0 .. PinMod - 2
  BY DEF FieldsKept, IInv, PinsCounted
<1>2. CASE k = l
  BY <1>1, <1>2
<1>3. CASE k # l
  <2>1. link'[k].pins = link[k].pins /\ (k \in PinnedByGame' <=> k \in PinnedByGame)
    BY <1>3
  <2>2. link[k].pins = link[k].fresh + (IF k \in PinnedByGame THEN 1 ELSE 0)
    BY DEF IInv, PinsCounted
  <2> QED
    BY <1>1, <2>1, <2>2
<1> QED
  BY <1>2, <1>3

-----------------------------------------------------------------------------
\* Game thread.

LEMMA GetLinkAndPinItKeeps == ASSUME RoomForAPin, IInv, GetLinkAndPinIt PROVE IInv'
<1> DEFINE i == IF game.at = "idle" THEN 1 ELSE game.next
<1>1. /\ link \in [Links -> LinkType] /\ list \in Seq(Links) /\ listPins' = 0
      /\ game \in Pc /\ game.at \in {"idle", "walk"} /\ PinnedByGame = {}
      /\ list' = list /\ mutex' = mutex /\ recv' = recv /\ send' = send
  BY DEF IInv, TypeOK, LinkType, Pc, GetLinkAndPinIt, PinnedByGame, PcConsistent
<1>2. i \in Nat \ {0}
  BY <1>1 DEF Pc
<1>3. CASE i <= Len(list)
  <2> DEFINE l == list[i]
             q == (link[l].pins + 1) % PinMod
             new == [link[l] EXCEPT !.pins = q]
  <2>1. /\ link' = [link EXCEPT ![l] = new]
        /\ game' = [at |-> "pinned", link |-> l, next |-> i + 1]
    BY <1>3 DEF GetLinkAndPinIt
  <2>2. i \in 1 .. Len(list)
    BY <1>1, <1>2, <1>3
  <2>3. l \in Links /\ Allocated(l)
    BY <1>1, <2>2 DEF IInv, ListAllocated
  <2> HIDE DEF i, l
  <2>4. link[l].pins = link[l].fresh /\ link[l].pins \in 0 .. PinMod - 2
    BY <1>1, <2>3 DEF IInv, PinsCounted
  <2>5. q = link[l].fresh + 1
    BY <2>4, PinArithmetic, LinkLifetimeAssumption
  <2>6. q \in 0 .. PinMod - 1
    BY <2>4, <2>5, LinkLifetimeAssumption
  <2> HIDE DEF q
  <2>7. /\ new \in LinkType /\ new.memory = link[l].memory
        /\ new.endpoint = link[l].endpoint /\ new.fresh = link[l].fresh
        /\ new.pins = link[l].fresh + 1
    BY <1>1, <2>3, <2>5, <2>6 DEF LinkType
  <2> HIDE DEF new
  <2>8. FieldsKept /\ link'[l] = new /\ \A k \in Links \ {l} : link'[k] = link[k]
    BY <1>1, <2>1, <2>3, <2>7, OneLink
  <2>9. PinnedByGame' = {l} /\ game'.at = "pinned" /\ game' \in GameType /\ PcConsistent'
    BY <1>1, <1>2, <2>1, <2>3 DEF PinnedByGame, GameType, Pc, PcConsistent
  <2>10. PinsCounted'
    BY <1>1, <2>3, <2>7, <2>8, <2>9, PinsMoved
  <2> QED
    BY <1>1, <2>3, <2>8, <2>9, <2>10, GameStep
<1>4. CASE ~(i <= Len(list))
  <2>1. game' = [at |-> "idle"] /\ link' = link
    BY <1>4 DEF GetLinkAndPinIt
  <2>2. /\ PinnedByGame' = {} /\ game' \in GameType /\ game'.at = "idle"
        /\ PcConsistent' /\ FieldsKept
    BY <1>1, <2>1 DEF PinnedByGame, GameType, Pc, PcConsistent, FieldsKept
  <2>3. PinsCounted'
    BY <1>1, <2>1, <2>2, PinsKept
  <2> QED
    BY <1>1, <2>2, <2>3, GameStep
<1> QED
  BY <1>3, <1>4

LEMMA LeaveWalkKeeps == ASSUME RoomForAPin, IInv, LeaveWalk PROVE IInv'
<1>1. /\ link \in [Links -> LinkType] /\ list \in Seq(Links) /\ listPins' = 0
      /\ game \in Pc /\ game.at = "walk" /\ PinnedByGame = {}
      /\ list' = list /\ mutex' = mutex /\ recv' = recv /\ send' = send
      /\ game' = [at |-> "idle"] /\ link' = link /\ listPins' = listPins
  BY DEF IInv, TypeOK, LinkType, Pc, LeaveWalk, PinnedByGame, PcConsistent
<1>2. /\ PinnedByGame' = {} /\ game' \in GameType /\ game'.at = "idle"
      /\ PcConsistent' /\ FieldsKept
  BY <1>1 DEF PinnedByGame, GameType, Pc, PcConsistent, FieldsKept, IInv
<1>3. PinsCounted'
  BY <1>1, <1>2, PinsKept
<1> QED
  BY <1>1, <1>2, <1>3, GameStep

LEMMA UnpinLinkKeeps == ASSUME RoomForAPin, IInv, UnpinLink PROVE IInv'
<1> DEFINE l == game.link
           q == (link[l].pins + PinMod - 1) % PinMod
           new == [link[l] EXCEPT !.pins = q]
<1>1. /\ link \in [Links -> LinkType] /\ listPins' = 0
      /\ game.at = "pinned" /\ PinnedByGame = {l} /\ l \in Links
      /\ game.next \in Nat \ {0}
      /\ list' = list /\ mutex' = mutex /\ recv' = recv /\ send' = send
  BY DEF IInv, TypeOK, LinkType, Pc, UnpinLink, PinnedByGame, PcConsistent
<1>2. /\ link' = [link EXCEPT ![l] = new]
      /\ game' = [at |-> "walk", next |-> game.next]
  BY DEF UnpinLink
<1> HIDE DEF l
<1>3. link[l].fresh \in 0 .. PinMod - 2 /\ link[l].pins = link[l].fresh + 1
  BY <1>1 DEF IInv, PinsCounted
<1>4. q = link[l].fresh
  BY <1>3, PinArithmetic, LinkLifetimeAssumption
<1>5. q \in 0 .. PinMod - 1
  BY <1>3, <1>4, LinkLifetimeAssumption
<1> HIDE DEF q
<1>6. /\ new \in LinkType /\ new.memory = link[l].memory
      /\ new.endpoint = link[l].endpoint /\ new.fresh = link[l].fresh
      /\ new.pins = link[l].fresh
  BY <1>1, <1>4, <1>5 DEF LinkType
<1> HIDE DEF new
<1>7. FieldsKept /\ link'[l] = new /\ \A k \in Links \ {l} : link'[k] = link[k]
  BY <1>1, <1>2, <1>6, OneLink
<1>8. PinnedByGame' = {} /\ game'.at = "walk" /\ game' \in GameType /\ PcConsistent'
  BY <1>1, <1>2 DEF PinnedByGame, GameType, Pc, PcConsistent
<1>9. PinsCounted'
  <2>1. link'[l].pins = link[l].fresh + (IF l \in PinnedByGame' THEN 1 ELSE 0)
    BY <1>3, <1>6, <1>7, <1>8
  <2> QED
    BY <1>1, <1>7, <1>8, <2>1, PinsMoved
<1> QED
  BY <1>1, <1>7, <1>8, <1>9, GameStep

LEMMA MarkPendingDeleteKeeps ==
    ASSUME RoomForAPin, IInv, NEW l \in Links, MarkPendingDelete(l)
    PROVE  IInv'
<1> DEFINE new == [link[l] EXCEPT !.pending = TRUE]
<1>1. /\ link \in [Links -> LinkType] /\ listPins' = 0 /\ game \in Pc
      /\ game.at = "idle" \/ (game.at = "pinned" /\ game.link = l)
      /\ link' = [link EXCEPT ![l] = new]
      /\ game' = [at |-> "marking", link |-> l, back |-> game]
      /\ list' = list /\ mutex' = mutex /\ recv' = recv /\ send' = send
  BY DEF IInv, TypeOK, LinkType, MarkPendingDelete, PcConsistent
<1>2. /\ new \in LinkType /\ new.memory = link[l].memory
      /\ new.endpoint = link[l].endpoint /\ new.fresh = link[l].fresh
      /\ new.pins = link[l].pins
  BY <1>1 DEF LinkType
<1> HIDE DEF new
<1>3. FieldsKept /\ link'[l] = new /\ \A k \in Links \ {l} : link'[k] = link[k]
  BY <1>1, <1>2, OneLink
<1>4. PinnedByGame' = PinnedByGame /\ PinnedByGame \subseteq {l}
  BY <1>1 DEF PinnedByGame
<1>5. game'.at = "marking" /\ game' \in GameType /\ PcConsistent'
  BY <1>1 DEF GameType, PcConsistent
<1>6. \A k \in Links : link'[k].pins = link[k].pins
  BY <1>2, <1>3
<1>7. PinsCounted'
  BY <1>3, <1>4, <1>6, PinsKept
<1>8. \A k \in PinnedByGame' : k \in Links /\ Allocated(k)
  BY <1>4 DEF IInv, PinnedIsAlive
<1> QED
  BY <1>1, <1>3, <1>5, <1>7, <1>8, GameStep

LEMMA SetMarkDeleteTSKeeps == ASSUME RoomForAPin, IInv, SetMarkDeleteTS PROVE IInv'
<1> DEFINE l == game.link
           new == [link[l] EXCEPT !.since = "fresh"]
<1>1. /\ link \in [Links -> LinkType] /\ listPins' = 0
      /\ game.at = "marking" /\ l \in Links /\ game.back \in Pc
      /\ link' = [link EXCEPT ![l] = new] /\ game' = game.back
      /\ list' = list /\ mutex' = mutex /\ recv' = recv /\ send' = send
  BY DEF IInv, TypeOK, LinkType, Pc, SetMarkDeleteTS, PcConsistent
<1>2. game.back.at # "marking" /\ game.back.at # "forEach"
  BY <1>1 DEF Pc
<1>3. PinnedByGame' = PinnedByGame /\ PinnedByGame \subseteq {l}
  BY <1>1, <1>2 DEF PinnedByGame, IInv, PcConsistent
<1> HIDE DEF l
<1>4. /\ new \in LinkType /\ new.memory = link[l].memory
      /\ new.endpoint = link[l].endpoint /\ new.fresh = link[l].fresh
      /\ new.pins = link[l].pins
  BY <1>1 DEF LinkType
<1> HIDE DEF new
<1>5. FieldsKept /\ link'[l] = new /\ \A k \in Links \ {l} : link'[k] = link[k]
  BY <1>1, <1>4, OneLink
<1>6. game'.at # "forEach" /\ game' \in GameType /\ PcConsistent'
  BY <1>1, <1>2 DEF GameType, PcConsistent
<1>7. \A k \in Links : link'[k].pins = link[k].pins
  BY <1>4, <1>5
<1>8. PinsCounted'
  BY <1>3, <1>5, <1>7, PinsKept
<1>9. \A k \in PinnedByGame' : k \in Links /\ Allocated(k)
  BY <1>1, <1>3 DEF IInv, PinnedIsAlive
<1> QED
  BY <1>1, <1>5, <1>6, <1>8, <1>9, GameStep

LEMMA ListPinSteps ==
    ASSUME RoomForAPin, IInv, PinList \/ SendToLink \/ UnpinList
    PROVE  IInv'
<1>1. /\ link \in [Links -> LinkType] /\ listPins \in Nat /\ game \in GameType
      /\ link' = link /\ list' = list /\ mutex' = mutex /\ recv' = recv /\ send' = send
      /\ \A i \in 1 .. Len(list) : list[i] \in Links /\ list \in Seq(Links)
  BY DEF IInv, TypeOK, LinkType, GameType, PinList, SendToLink, UnpinList
<1>2. FieldsKept
  BY <1>1 DEF FieldsKept
<1>3. CASE PinList
  <2>1. /\ game.at = "idle" /\ listPins' = listPins + 1
        /\ game' = [at |-> "forEach", left |-> {list[i] : i \in 1 .. Len(list)}, list |-> list]
    BY <1>3 DEF PinList
  <2>2. game' \in GameType
    BY <1>1, <2>1 DEF GameType, IInv, TypeOK
  <2>3. PinnedByGame' = {} /\ PinnedByGame = {} /\ PcConsistent' /\ listPins' \in Nat
    BY <1>1, <2>1 DEF PinnedByGame, IInv, PcConsistent
  <2>4. PinsCounted'
    BY <1>1, <1>2, <2>3, PinsKept
  <2>5. \A k \in game'.left : Allocated(k)
    BY <2>1 DEF IInv, ListAllocated
  <2> QED
    BY <1>1, <1>2, <2>2, <2>3, <2>4, <2>5, GameStep
<1>4. CASE SendToLink
  <2>1. PICK l \in game.left : game' = [game EXCEPT !.left = @ \ {l}]
    BY <1>4 DEF SendToLink
  <2>2. game.at = "forEach" /\ listPins' = listPins
    BY <1>4 DEF SendToLink
  <2>3. game \in [at : {"forEach"}, left : SUBSET Links, list : Seq(Links)]
    BY <1>1, <2>2 DEF GameType, Pc
  <2>4. game'.at = "forEach" /\ game'.left \subseteq game.left /\ game' \in GameType
    BY <2>1, <2>2, <2>3 DEF GameType
  <2>5. PinnedByGame' = {} /\ PinnedByGame = {} /\ PcConsistent' /\ listPins' \in Nat
    BY <1>1, <2>2, <2>4 DEF PinnedByGame, IInv, PcConsistent
  <2>6. PinsCounted'
    BY <1>1, <1>2, <2>5, PinsKept
  <2>7. \A k \in game'.left : Allocated(k)
    BY <2>2, <2>4 DEF IInv, PinnedIsAlive
  <2> QED
    BY <1>1, <1>2, <2>4, <2>5, <2>6, <2>7, GameStep
<1>5. CASE UnpinList
  <2>1. game.at = "forEach" /\ listPins' = listPins - 1 /\ game' = [at |-> "idle"]
    BY <1>5 DEF UnpinList
  <2>2. PinnedByGame' = {} /\ PinnedByGame = {} /\ PcConsistent' /\ listPins' \in Nat
    BY <1>1, <2>1 DEF PinnedByGame, IInv, PcConsistent
  <2>3. game' \in GameType /\ game'.at = "idle"
    BY <2>1 DEF GameType, Pc
  <2>4. PinsCounted'
    BY <1>1, <1>2, <2>2, PinsKept
  <2> QED
    BY <1>1, <1>2, <2>2, <2>3, <2>4, GameStep
<1> QED
  BY <1>3, <1>4, <1>5

LEMMA TimePassesKeeps ==
    ASSUME RoomForAPin, IInv, NEW l \in Links, TimePasses(l)
    PROVE  IInv'
<1> DEFINE new == [link[l] EXCEPT !.since = Later(@)]
<1>1. /\ link \in [Links -> LinkType] /\ link[l].since \in {"fresh", "lingered"}
      /\ link' = [link EXCEPT ![l] = new]
      /\ list' = list /\ mutex' = mutex /\ recv' = recv /\ send' = send
      /\ game' = game /\ listPins' = listPins /\ listPins' \in Nat /\ game \in GameType
  BY DEF IInv, TypeOK, LinkType, GameType, TimePasses
<1>2. Later(link[l].since) \in {"lingered", "late"}
  BY <1>1 DEF Later
<1>3. /\ new \in LinkType /\ new.memory = link[l].memory
      /\ new.endpoint = link[l].endpoint /\ new.fresh = link[l].fresh
      /\ new.pins = link[l].pins
  BY <1>1, <1>2 DEF LinkType
<1> HIDE DEF new
<1>4. FieldsKept /\ link'[l] = new /\ \A k \in Links \ {l} : link'[k] = link[k]
  BY <1>1, <1>3, OneLink
<1>5. PinnedByGame' = PinnedByGame /\ PcConsistent'
  BY <1>1 DEF PinnedByGame, IInv, PcConsistent
<1>6. \A k \in Links : link'[k].pins = link[k].pins
  BY <1>3, <1>4
<1>7. PinsCounted'
  BY <1>4, <1>5, <1>6, PinsKept
<1>8. PinnedByGame \subseteq Links
  BY DEF IInv, TypeOK, PinnedByGame, Pc
<1>9. /\ \A k \in PinnedByGame' : k \in Links /\ Allocated(k)
      /\ game'.at = "forEach" => \A k \in game'.left : Allocated(k)
  BY <1>1, <1>5, <1>8 DEF IInv, PinnedIsAlive
<1> QED
  BY <1>1, <1>4, <1>5, <1>7, <1>9, GameStep

-----------------------------------------------------------------------------
\* The theorems.

\* The inductive invariant: types, what the list holds, what the pins count.
THEOREM Invariance == ASSUME RoomForAPin PROVE Spec => []IInv
<1>1. Init => IInv
  BY InitIInv
<1>2. IInv /\ [Next]_vars => IInv'
  <2> SUFFICES ASSUME IInv, [Next]_vars PROVE IInv'
    OBVIOUS
  <2>1. CASE GetLink
    BY <2>1, GetLinkKeeps
  <2>2. CASE ReceiveConnect \/ Connect
    BY <2>2, AddLinkSteps
  <2>3. CASE Received
    BY <2>3, ReceivedKeeps
  <2>4. CASE \E l \in Links : UpdatePendingDeletes(l)
    BY <2>4, UpdatePendingDeletesKeeps
  <2>5. CASE Dispatch \/ WaitAgain
    BY <2>5, SendThreadKeeps
  <2>6. CASE GetLinkAndPinIt
    BY <2>6, GetLinkAndPinItKeeps
  <2>7. CASE UnpinLink
    BY <2>7, UnpinLinkKeeps
  <2>13. CASE LeaveWalk
    BY <2>13, LeaveWalkKeeps
  <2>8. CASE \E l \in Links : MarkPendingDelete(l)
    BY <2>8, MarkPendingDeleteKeeps
  <2>9. CASE SetMarkDeleteTS
    BY <2>9, SetMarkDeleteTSKeeps
  <2>10. CASE PinList \/ SendToLink \/ UnpinList
    BY <2>10, ListPinSteps
  <2>11. CASE \E l \in Links : TimePasses(l)
    BY <2>11, TimePassesKeeps
  <2>12. CASE UNCHANGED vars
    <3>1. /\ TypeOK' /\ ListAllocated' /\ PcConsistent' /\ PinnedByGame' = PinnedByGame
          /\ link' = link
      BY <2>12 DEF vars, IInv, TypeOK, ListAllocated, PcConsistent, PinnedByGame, Allocated
    <3>2. PinsCounted'
      BY <3>1 DEF IInv, PinsCounted
    <3>3. PinnedIsAlive'
      BY <2>12, <3>1 DEF vars, IInv, PinnedIsAlive, Allocated
    <3> QED
      BY <3>1, <3>2, <3>3 DEF IInv
  <2> QED
    BY <2>1, <2>2, <2>3, <2>4, <2>5, <2>6, <2>7, <2>8, <2>9, <2>10, <2>11, <2>12, <2>13
       DEF Next
<1> QED
  BY <1>1, <1>2, PTL DEF Spec

\* Every variable keeps its type, and no endpoint has two links (addLink).
THEOREM TypeCorrect == ASSUME RoomForAPin PROVE Spec => []TypeOK
<1>1. IInv => TypeOK
  BY DEF IInv
<1> QED
  BY <1>1, Invariance, PTL

\* No thread uses a deleted link: updatePendingDeletes never deletes one that
\* is pinned, in a pinned list, looked up by the receive thread or walked over.
THEOREM PinnedIsAliveHolds == ASSUME RoomForAPin PROVE Spec => []PinnedIsAlive
<1>1. IInv => PinnedIsAlive
  BY DEF IInv
<1> QED
  BY <1>1, Invariance, PTL

\* Every pin is taken back before the game thread returns: what is left is what
\* m_PinnedCount happened to be at first.
THEOREM NothingPinnedAtRestHolds == ASSUME RoomForAPin PROVE Spec => []NothingPinnedAtRest
<1>1. IInv => NothingPinnedAtRest
  BY DEF IInv, TypeOK, PcConsistent, PinsCounted, PinnedByGame, NothingPinnedAtRest
<1> QED
  BY <1>1, Invariance, PTL

-----------------------------------------------------------------------------
\* The list under the walk, and the time of the mark.

\* A marked link whose time is not set is the one that is being marked.
MarkedHasTime ==
    \A l \in Links :
        link[l].pending /\ link[l].since = "unset" => game.at = "marking" /\ game.link = l

\* What is appended to leaves what was there.
LEMMA PrefixOfAppend ==
    ASSUME NEW S, NEW s \in Seq(S), NEW t \in Seq(S), NEW e \in S, IsPrefix(s, t)
    PROVE  IsPrefix(s, Append(t, e))
<1>1. /\ Len(s) \in Nat /\ Len(t) \in Nat /\ Len(s) <= Len(t)
      /\ SubSeq(s, 1, Len(s)) = SubSeq(t, 1, Len(s))
  BY DEF IsPrefix
<1>2. Append(t, e) \in Seq(S) /\ Len(Append(t, e)) = Len(t) + 1
  OBVIOUS
<1> DEFINE a == SubSeq(t, 1, Len(s))
           b == SubSeq(Append(t, e), 1, Len(s))
<1>3. a \in Seq(S) /\ Len(a) = Len(s) /\ \A i \in 1 .. Len(s) : a[i] = t[i]
  BY <1>1, SubSeqProperties, SMTT(30)
<1>4. b \in Seq(S) /\ Len(b) = Len(s) /\ \A i \in 1 .. Len(s) : b[i] = Append(t, e)[i]
  BY <1>1, <1>2, SubSeqProperties, SMTT(30)
<1>5. \A i \in 1 .. Len(s) : Append(t, e)[i] = t[i]
  BY <1>1, SMTT(30)
<1>6. a = b
  <2> HIDE DEF a, b
  <2>1. Len(a) = Len(b) /\ \A i \in 1 .. Len(a) : a[i] = b[i]
    BY <1>3, <1>4, <1>5
  <2> QED
    BY <1>3, <1>4, <2>1, SeqEqual
<1> QED
  BY <1>1, <1>2, <1>6 DEF IsPrefix

\* What is taken out of the list is not there under the walk, what is added is
\* at its end, and the walk begins with the list as it is.
LEMMA ListGrowsStep ==
    ASSUME IInv, IInv', ListGrowsUnderWalk, [Next]_vars
    PROVE  ListGrowsUnderWalk'
<1> SUFFICES ASSUME game'.at = "forEach" PROVE IsPrefix(game'.list, list')
  BY DEF ListGrowsUnderWalk
<1>1. /\ list \in Seq(Links) /\ game \in GameType
      /\ game.at = "forEach" => game.list \in Seq(Links) /\ IsPrefix(game.list, list) /\ listPins > 0
  BY DEF IInv, TypeOK, GameType, LinkType, ListGrowsUnderWalk, PcConsistent, Pc
<1>2. CASE ReceiveConnect
  <2>1. PICK e \in Endpoint : AddLink(e)
    BY <1>2 DEF ReceiveConnect
  <2>2. PICK l \in Links : list' = Append(list, l)
    BY <2>1 DEF AddLink
  <2>3. game' = game
    BY <1>2 DEF ReceiveConnect
  <2> QED
    BY <1>1, <2>2, <2>3, PrefixOfAppend
<1>3. CASE \E l \in Links : UpdatePendingDeletes(l)
  BY <1>1, <1>3 DEF UpdatePendingDeletes
<1>4. CASE PinList
  <2>1. game'.list = list /\ list' = list
    BY <1>4 DEF PinList
  <2> QED
    BY <1>1, <2>1 DEF IsPrefix
<1>5. CASE SendToLink
  <2>1. game.at = "forEach" /\ game \in [at : {"forEach"}, left : SUBSET Links, list : Seq(Links)]
    BY <1>1, <1>5 DEF SendToLink, GameType, Pc
  <2>2. game'.list = game.list /\ list' = list
    BY <1>5, <2>1 DEF SendToLink
  <2> QED
    BY <1>1, <2>1, <2>2
<1>6. CASE GetLink \/ Received \/ Dispatch \/ WaitAgain \/ \E l \in Links : TimePasses(l)
  BY <1>1, <1>6 DEF GetLink, Received, Dispatch, WaitAgain, TimePasses
<1>7. CASE UNCHANGED vars
  BY <1>1, <1>7 DEF vars
<1>8. CASE Connect
  BY <1>8 DEF Connect
<1>9. CASE \/ GetLinkAndPinIt \/ UnpinLink \/ LeaveWalk \/ UnpinList
           \/ \E l \in Links : MarkPendingDelete(l)
  BY <1>9 DEF GetLinkAndPinIt, UnpinLink, LeaveWalk, UnpinList, MarkPendingDelete
<1>10. CASE SetMarkDeleteTS
  <2>1. game.back \in Pc /\ game' = game.back
    BY <1>1, <1>10 DEF SetMarkDeleteTS, GameType, Pc
  <2> QED
    BY <2>1 DEF Pc
<1> QED
  BY <1>2, <1>3, <1>4, <1>5, <1>6, <1>7, <1>8, <1>9, <1>10 DEF Next

\* Pinning and unpinning a link changes its pin count and nothing else.
LEMMA PinsOnly ==
    ASSUME IInv, GetLinkAndPinIt \/ UnpinLink, NEW k \in Links
    PROVE  /\ link'[k].pending = link[k].pending /\ link'[k].since = link[k].since
           /\ link'[k].memory = link[k].memory
<1>1. link \in [Links -> LinkType] /\ link[k] \in LinkType
  BY DEF IInv, TypeOK, LinkType
<1>2. \/ link' = link
      \/ \E x, p : link' = [link EXCEPT ![x].pins = p]
  BY DEF GetLinkAndPinIt, UnpinLink
<1>3. ASSUME NEW x, NEW p, link' = [link EXCEPT ![x].pins = p]
      PROVE  link'[k] = link[k] \/ link'[k] = [link[k] EXCEPT !.pins = p]
  BY <1>1, <1>3
<1> QED
  BY <1>1, <1>2, <1>3 DEF LinkType

\* Only MarkPendingDelete sets the flag, and SetMarkDeleteTS, which comes
\* before any other step of the game thread, sets the time.
LEMMA MarkedHasTimeStep ==
    ASSUME IInv, MarkedHasTime, [Next]_vars
    PROVE  MarkedHasTime'
<1> SUFFICES ASSUME NEW k \in Links, link'[k].pending, link'[k].since = "unset"
             PROVE  game'.at = "marking" /\ game'.link = k
  BY DEF MarkedHasTime
<1>1. link \in [Links -> LinkType] /\ game \in GameType
  BY DEF IInv, TypeOK, GameType, LinkType
<1>2. CASE link'[k].pending = link[k].pending /\ link'[k].since = link[k].since /\ game' = game
  BY <1>2 DEF MarkedHasTime
<1>3. CASE ReceiveConnect \/ Connect
  <2>1. PICK e \in Endpoint : AddLink(e)
    BY <1>3 DEF ReceiveConnect, Connect
  <2>2. PICK l \in Links, pins \in FreshPins : link' = [link EXCEPT ![l] = NewLink(e, pins)]
    BY <2>1 DEF AddLink
  <2>3. k # l /\ link'[k] = link[k]
    BY <1>1, <2>2 DEF NewLink
  <2>4. game.at # "idle" /\ game' = game
    BY <1>3, <2>3 DEF MarkedHasTime, ReceiveConnect, Connect
  <2> QED
    BY <1>2, <2>3, <2>4
<1>4. CASE \E l \in Links : UpdatePendingDeletes(l) \/ TimePasses(l)
  <2>1. PICK l \in Links : UpdatePendingDeletes(l) \/ TimePasses(l)
    BY <1>4
  <2>2. game' = game /\ link'[k].pending = link[k].pending
    BY <1>1, <2>1 DEF UpdatePendingDeletes, TimePasses, LinkType
  <2>3. link'[k].since = link[k].since
    BY <1>1, <2>1 DEF UpdatePendingDeletes, TimePasses, LinkType, Later
  <2> QED
    BY <1>2, <2>2, <2>3
<1>5. CASE GetLinkAndPinIt \/ UnpinLink
  <2>1. link'[k].pending = link[k].pending /\ link'[k].since = link[k].since
    BY <1>5, PinsOnly
  <2>2. game.at # "marking"
    BY <1>5 DEF GetLinkAndPinIt, UnpinLink
  <2> QED
    BY <2>1, <2>2 DEF MarkedHasTime
<1>6. CASE \E l \in Links : MarkPendingDelete(l)
  <2>1. PICK l \in Links : MarkPendingDelete(l)
    BY <1>6
  <2>2. game' = [at |-> "marking", link |-> l, back |-> game] /\ game.at # "marking"
    BY <2>1 DEF MarkPendingDelete
  <2>3. k # l => link'[k] = link[k]
    BY <1>1, <2>1 DEF MarkPendingDelete
  <2> QED
    BY <2>2, <2>3 DEF MarkedHasTime
<1>7. CASE SetMarkDeleteTS
  <2>1. game.link \in Links /\ link' = [link EXCEPT ![game.link].since = "fresh"] /\ game.at = "marking"
    BY <1>1, <1>7 DEF SetMarkDeleteTS, GameType, Pc
  <2>2. k # game.link /\ link'[k] = link[k]
    BY <1>1, <2>1 DEF LinkType
  <2> QED
    BY <2>1, <2>2 DEF MarkedHasTime
<1>8. CASE LeaveWalk \/ PinList \/ SendToLink \/ UnpinList
  BY <1>8 DEF MarkedHasTime, LeaveWalk, PinList, SendToLink, UnpinList
<1>9. CASE GetLink \/ Received \/ Dispatch \/ WaitAgain
  BY <1>2, <1>9 DEF GetLink, Received, Dispatch, WaitAgain
<1>10. CASE UNCHANGED vars
  BY <1>2, <1>10 DEF vars
<1> QED
  BY <1>3, <1>4, <1>5, <1>6, <1>7, <1>8, <1>9, <1>10 DEF Next

\* Under the walk of forEachLink, which holds no lock, the list only grows at
\* its end: updatePendingDeletes takes nothing out of a pinned list.
THEOREM ListGrowsUnderWalkHolds == ASSUME RoomForAPin PROVE Spec => []ListGrowsUnderWalk
<1>1. Init => ListGrowsUnderWalk
  BY DEF Init, ListGrowsUnderWalk
<1>2. IInv /\ IInv' /\ ListGrowsUnderWalk /\ [Next]_vars => ListGrowsUnderWalk'
  BY ListGrowsStep
<1>3. Spec => []IInv
  BY Invariance
<1> QED
  BY <1>1, <1>2, <1>3, PTL DEF Spec

\* updatePendingDeletes deletes a link whose mark is complete only after twice
\* the linger time.
THEOREM LingersOnceMarkedHolds == ASSUME RoomForAPin PROVE Spec => LingersOnceMarked
<1>1. Init => MarkedHasTime
  BY DEF Init, MarkedHasTime, Unused
<1>2. IInv /\ MarkedHasTime /\ [Next]_vars => MarkedHasTime'
  BY MarkedHasTimeStep
<1>3. IInv /\ MarkedHasTime /\ [Next]_vars => [DeletesInTime]_vars
  <2> SUFFICES ASSUME IInv, MarkedHasTime, Next, NEW k \in Links,
                      Allocated(k), link'[k].memory = "deleted"
               PROVE  link[k].since = "late" \/ (game.at = "marking" /\ game.link = k)
    BY DEF DeletesInTime
  <2>1. link \in [Links -> LinkType] /\ game \in GameType /\ link[k].memory = "allocated"
    BY DEF IInv, TypeOK, GameType, LinkType, Allocated
  <2>2. CASE \E l \in Links : UpdatePendingDeletes(l)
    <3>1. PICK l \in Links : UpdatePendingDeletes(l)
      BY <2>2
    <3>2. k = l /\ link[k].pending /\ link[k].since \in {"late", "unset"}
      BY <2>1, <3>1 DEF UpdatePendingDeletes, LateEnough
    <3> QED
      BY <3>2 DEF MarkedHasTime
  <2>3. CASE ReceiveConnect \/ Connect
    <3>1. PICK e \in Endpoint : AddLink(e)
      BY <2>3 DEF ReceiveConnect, Connect
    <3> QED
      BY <2>1, <3>1 DEF AddLink, NewLink
  <2>4. CASE \E l \in Links : TimePasses(l) \/ MarkPendingDelete(l)
    <3>1. PICK l \in Links : \/ link' = [link EXCEPT ![l].since = Later(@)]
                              \/ link' = [link EXCEPT ![l].pending = TRUE]
      BY <2>4 DEF TimePasses, MarkPendingDelete
    <3>2. link[k] \in LinkType
      BY <2>1
    <3>3. link'[k].memory = link[k].memory
      BY <2>1, <3>1, <3>2 DEF LinkType
    <3> QED
      BY <2>1, <3>3
  <2>5. CASE SetMarkDeleteTS
    BY <2>1, <2>5 DEF SetMarkDeleteTS, GameType, Pc, LinkType
  <2>6. CASE GetLinkAndPinIt \/ UnpinLink
    BY <2>1, <2>6, PinsOnly
  <2>7. CASE \/ GetLink \/ Received \/ Dispatch \/ WaitAgain
             \/ LeaveWalk \/ PinList \/ SendToLink \/ UnpinList
    BY <2>1, <2>7
       DEF GetLink, Received, Dispatch, WaitAgain, LeaveWalk, PinList, SendToLink, UnpinList
  <2> QED
    BY <2>2, <2>3, <2>4, <2>5, <2>6, <2>7 DEF Next
<1>4. Spec => []IInv
  BY Invariance
<1>5. Spec => [][DeletesInTime]_vars
  BY <1>1, <1>2, <1>3, <1>4, PTL DEF Spec
<1> QED
  BY <1>5 DEF LingersOnceMarked
=============================================================================
