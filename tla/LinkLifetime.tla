---------------------------- MODULE LinkLifetime ----------------------------
(***************************************************************************)
(* Who may use a link, and until when: the table of links of RecvNode, the *)
(* pin counts of links and list, and markPendingDelete, on one node.       *)
(*                                                                         *)
(* The receive thread adds links and is the only one to delete them; the   *)
(* send thread walks the list with m_OpenLinksMutex held; the game thread  *)
(* pins a link (update), pins the list (send to all), or uses the pointer  *)
(* of a connection, which pins nothing (cleanLink).  What is done with a   *)
(* link while it is in use is left out: using it is having it.             *)
(***************************************************************************)
EXTENDS Naturals, SequencesExt

CONSTANTS
    Endpoint,       \* the remote endpoints
    MaxLinks,       \* bound: links ever allocated
    PinMod,         \* 2^32 in the code: the pin counts are u32
    FreshPins       \* what m_PinnedCount of a new link, which nothing sets, may be

ASSUME LinkLifetimeAssumption ==
    /\ Endpoint # {} /\ MaxLinks \in Nat
    /\ PinMod \in Nat \ {0} /\ FreshPins \subseteq 0 .. PinMod - 1

Links == 1 .. MaxLinks

VARIABLES
    list,       \* m_OpenLinksList, and m_OpenLinksMap
    link,       \* the links: memory, endpoint, pins (at first and now), pending
                \* delete and since when
    listPins,   \* m_ListPinned
    mutex,      \* m_OpenLinksMutex, where it is held for more than a step
    game, recv, send    \* how far the three threads are

vars == <<list, link, listPins, mutex, game, recv, send>>

-----------------------------------------------------------------------------
Unused == [memory |-> "unused", endpoint |-> CHOOSE e \in Endpoint : TRUE,
           fresh |-> 0, pins |-> 0, pending |-> FALSE, since |-> "unset"]

\* The constructor: m_PinnedCount keeps what was in memory.
NewLink(e, pins) == [memory |-> "allocated", endpoint |-> e, fresh |-> pins, pins |-> pins,
                     pending |-> FALSE, since |-> "unset"]

InList(e) == \E i \in 1 .. Len(list) : link[list[i]].endpoint = e

\* m_OpenLinksMutex is free, for a section that is one step.
Free == mutex = "none"

\* since: the time since the mark, below sm_MaxLingerTimeMs ("fresh"), above it
\* ("lingered"), above twice that ("late").  Before m_MarkDeleteTS is set it is
\* 0, and the time since is the age of the program: any of the three.
LateEnough(l) == l.since \in {"late", "unset"}

Init ==
    /\ list = <<>>
    /\ link = [l \in Links |-> Unused]
    /\ listPins = 0
    /\ mutex = "none"
    /\ game = [at |-> "idle"]
    /\ recv = [at |-> "socket"]
    /\ send = "waits"

-----------------------------------------------------------------------------
\* Mutant: without the lookup.
AddLink_Again(e) ==
    /\ Free
    /\ \E l \in Links, pins \in FreshPins :
          /\ link[l].memory = "unused"
          /\ \A k \in Links : k < l => link[k].memory # "unused"
          /\ link' = [link EXCEPT ![l] = NewLink(e, pins)]
          /\ list' = Append(list, l)

\* addLink, from the receive thread or from connect.
AddLink(e) ==
    /\ Free
    /\ ~InList(e)
    /\ \E l \in Links, pins \in FreshPins :
          /\ link[l].memory = "unused"
          /\ \A k \in Links : k < l => link[k].memory # "unused"
          /\ link' = [link EXCEPT ![l] = NewLink(e, pins)]
          /\ list' = Append(list, l)

-----------------------------------------------------------------------------
\* Receive thread.

\* A datagram of a known endpoint; m_OpenLinksMutex only for the lookup.
GetLink ==
    /\ recv.at = "socket" /\ Free
    /\ \E i \in 1 .. Len(list) : recv' = [at |-> "link", link |-> list[i]]
    /\ UNCHANGED <<list, link, listPins, mutex, game, send>>

\* A connect request of an unknown one.
ReceiveConnect ==
    /\ recv.at = "socket"
    /\ \E e \in Endpoint : AddLink(e)
    /\ recv' = [at |-> "link", link |-> list'[Len(list')]]
    /\ UNCHANGED <<listPins, mutex, game, send>>

\* recvData is done.
Received ==
    /\ recv.at = "link"
    /\ recv' = [at |-> "socket"]
    /\ UNCHANGED <<list, link, listPins, mutex, game, send>>

\* Mutant: the pins of the list are not looked at.
UpdatePendingDeletes_IgnoreList(l) ==
    /\ recv.at = "socket" /\ Free
    /\ link[l].pins = 0 /\ link[l].pending /\ LateEnough(link[l])
    /\ \E i \in 1 .. Len(list) : list[i] = l /\ list' = RemoveAt(list, i)
    /\ link' = [link EXCEPT ![l].memory = "deleted"]
    /\ UNCHANGED <<listPins, mutex, game, recv, send>>

\* Mutant: the pins of the link are not looked at.
UpdatePendingDeletes_IgnorePins(l) ==
    /\ recv.at = "socket" /\ Free
    /\ listPins = 0
    /\ link[l].pending /\ LateEnough(link[l])
    /\ \E i \in 1 .. Len(list) : list[i] = l /\ list' = RemoveAt(list, i)
    /\ link' = [link EXCEPT ![l].memory = "deleted"]
    /\ UNCHANGED <<listPins, mutex, game, recv, send>>

\* updatePendingDeletes, for one of the links it deletes.
UpdatePendingDeletes(l) ==
    /\ recv.at = "socket" /\ Free
    /\ listPins = 0
    /\ link[l].pins = 0 /\ link[l].pending /\ LateEnough(link[l])
    /\ \E i \in 1 .. Len(list) : list[i] = l /\ list' = RemoveAt(list, i)
    /\ link' = [link EXCEPT ![l].memory = "deleted"]
    /\ UNCHANGED <<listPins, mutex, game, recv, send>>

-----------------------------------------------------------------------------
\* Send thread: wait_for returns with the mutex, and the list is walked.

Dispatch ==
    /\ send = "waits" /\ Free
    /\ send' = "dispatches" /\ mutex' = "send"
    /\ UNCHANGED <<list, link, listPins, game, recv>>

WaitAgain ==
    /\ send = "dispatches"
    /\ send' = "waits" /\ mutex' = "none"
    /\ UNCHANGED <<list, link, listPins, game, recv>>

-----------------------------------------------------------------------------
\* Game thread.

\* connect: a link is added, and belongs to a connection.
Connect ==
    /\ game.at = "idle"
    /\ \E e \in Endpoint : AddLink(e)
    /\ UNCHANGED <<listPins, mutex, game, recv, send>>

\* update: the link at the next index is pinned, and used until it is unpinned.
GetLinkAndPinIt ==
    /\ game.at \in {"idle", "walk"} /\ Free
    /\ LET i == IF game.at = "idle" THEN 1 ELSE game.next
       IN IF i <= Len(list)
             THEN /\ link' = [link EXCEPT ![list[i]].pins = (@ + 1) % PinMod]
                  /\ game' = [at |-> "pinned", link |-> list[i], next |-> i + 1]
             ELSE /\ game.at = "walk"
                  /\ game' = [at |-> "idle"]
                  /\ UNCHANGED link
    /\ UNCHANGED <<list, listPins, mutex, recv, send>>

UnpinLink ==
    /\ game.at = "pinned" /\ Free
    /\ link' = [link EXCEPT ![game.link].pins = (@ + PinMod - 1) % PinMod]
    /\ game' = [at |-> "walk", next |-> game.next]
    /\ UNCHANGED <<list, listPins, mutex, recv, send>>

\* Mutant: the walk is left without the link being unpinned.
LeaveWalk_Pinned ==
    /\ game.at \in {"pinned", "walk"}
    /\ game' = [at |-> "idle"]
    /\ UNCHANGED <<list, link, listPins, mutex, recv, send>>

\* hasPendingData returns at the first link with something in a queue.
LeaveWalk ==
    /\ game.at = "walk"
    /\ game' = [at |-> "idle"]
    /\ UNCHANGED <<list, link, listPins, mutex, recv, send>>

\* markPendingDelete of the link that is pinned (handleInvalidConnectAttempt) or
\* of one that a connection points to (cleanLink): first the flag ...
MarkPendingDelete(l) ==
    /\ \/ game.at = "idle" /\ \E i \in 1 .. Len(list) : list[i] = l
       \/ game.at = "pinned" /\ game.link = l
    /\ ~link[l].pending
    /\ link' = [link EXCEPT ![l].pending = TRUE]
    /\ game' = [at |-> "marking", link |-> l, back |-> game]
    /\ UNCHANGED <<list, listPins, mutex, recv, send>>

\* Mutant: the time of the mark is not set.
SetMarkDeleteTS_Unset ==
    /\ game.at = "marking"
    /\ game' = game.back
    /\ UNCHANGED <<list, link, listPins, mutex, recv, send>>

\* ... then the time.
SetMarkDeleteTS ==
    /\ game.at = "marking"
    /\ link' = [link EXCEPT ![game.link].since = "fresh"]
    /\ game' = game.back
    /\ UNCHANGED <<list, listPins, mutex, recv, send>>

\* forEachLink: pinList, a walk without the mutex, unpinList.
PinList ==
    /\ game.at = "idle" /\ Free
    /\ listPins' = listPins + 1
    /\ game' = [at |-> "forEach", left |-> {list[i] : i \in 1 .. Len(list)}, list |-> list]
    /\ UNCHANGED <<list, link, mutex, recv, send>>

SendToLink ==
    /\ game.at = "forEach"
    /\ \E l \in game.left : game' = [game EXCEPT !.left = @ \ {l}]
    /\ UNCHANGED <<list, link, listPins, mutex, recv, send>>

UnpinList ==
    /\ game.at = "forEach" /\ game.left = {}
    /\ listPins' = listPins - 1
    /\ game' = [at |-> "idle"]
    /\ UNCHANGED <<list, link, mutex, recv, send>>

-----------------------------------------------------------------------------
Later(since) == CASE since = "fresh" -> "lingered" [] since = "lingered" -> "late"

TimePasses(l) ==
    /\ link[l].memory = "allocated" /\ link[l].since \in {"fresh", "lingered"}
    /\ link' = [link EXCEPT ![l].since = Later(@)]
    /\ UNCHANGED <<list, listPins, mutex, game, recv, send>>

Next ==
    \/ GetLink \/ ReceiveConnect \/ Received
    \/ \E l \in Links : UpdatePendingDeletes(l)
    \/ Dispatch \/ WaitAgain
    \/ Connect \/ GetLinkAndPinIt \/ UnpinLink \/ LeaveWalk
    \/ \E l \in Links : MarkPendingDelete(l)
    \/ SetMarkDeleteTS
    \/ PinList \/ SendToLink \/ UnpinList
    \/ \E l \in Links : TimePasses(l)

Spec == Init /\ [][Next]_vars

-----------------------------------------------------------------------------
\* Properties.

Pc ==
    [at : {"idle"}] \cup [at : {"walk"}, next : Nat \ {0}]
    \cup [at : {"pinned"}, link : Links, next : Nat \ {0}]

\* Every variable has its type; the list holds at most one link per endpoint.
TypeOK ==
    /\ list \in Seq(Links)
    /\ \A i, j \in 1 .. Len(list) :
          i # j => link[list[i]].endpoint # link[list[j]].endpoint
    /\ link \in [Links -> [memory : {"unused", "allocated", "deleted"}, endpoint : Endpoint,
                           fresh : FreshPins \cup {0}, pins : 0 .. PinMod - 1, pending : BOOLEAN,
                           since : {"unset", "fresh", "lingered", "late"}]]
    /\ listPins \in Nat /\ mutex \in {"none", "send"}
    /\ \/ game \in Pc
       \/ game \in [at : {"marking"}, link : Links, back : Pc]
       \/ game \in [at : {"forEach"}, left : SUBSET Links, list : Seq(Links)]
    /\ recv \in [at : {"socket"}] \cup [at : {"link"}, link : Links]
    /\ send \in {"waits", "dispatches"}

Allocated(l) == link[l].memory = "allocated"

\* The link the game thread has pinned, also while it marks it.
PinnedByGame ==
    IF game.at = "pinned" \/ (game.at = "marking" /\ game.back.at = "pinned")
       THEN {game.link} ELSE {}

\* A pinned link, one of a pinned list, one that the receive thread looked up
\* and those the send thread walks over are not deleted under the thread that
\* uses them, whatever the other two do.  (A connection's pointer to a link
\* pins nothing, and is not spoken of here.)
PinnedIsAlive ==
    /\ \A l \in PinnedByGame : Allocated(l)
    /\ game.at = "forEach" => \A l \in game.left : Allocated(l)
    /\ recv.at = "link" => Allocated(recv.link)
    /\ send = "dispatches" => \A i \in 1 .. Len(list) : Allocated(list[i])

\* Between two calls of the game nothing is pinned, whichever way the last one
\* returned: neither the list, nor a link beyond the count it was found with.
\* So at any such moment a link that is pending delete and has lingered can be
\* deleted, unless its count was not zero at first.
NothingPinnedAtRest ==
    game.at = "idle" => listPins = 0 /\ \A l \in Links : link[l].pins = link[l].fresh

\* "for each link (only to b called from main thread)" (RecvNode.h): links may
\* be added at the end of the list under the walk, which moves the elements of
\* the vector, but none is taken out.
ListGrowsUnderWalk == game.at = "forEach" => IsPrefix(game.list, list)

\* A link is deleted when twice the linger time has gone by since the mark, or
\* between the two assignments of markPendingDelete.
DeletesInTime ==
    \A l \in Links :
        Allocated(l) /\ link'[l].memory = "deleted" =>
            link[l].since = "late" \/ (game.at = "marking" /\ game.link = l)

\* "keep it in that for some time" (updatePendingDeletes): no link is deleted
\* early, unless the game thread has yet to set the time of its mark.
LingersOnceMarked == [][DeletesInTime]_vars
=============================================================================
