--------------------------- MODULE GroupIdsProofs ---------------------------
(***************************************************************************)
(* Proofs about GroupIds: every variable keeps its type, and while there   *)
(* is a single provider that was never reset, no id is in two places.      *)
(***************************************************************************)
EXTENDS GroupIds, SequenceTheorems, TLAPS

-----------------------------------------------------------------------------
\* The inductive invariant.

\* Packs are whole.
Pack == [1 .. IdsPerPack -> Nat]
PacksAreWhole == packs \in [Node -> [Node -> Seq(Pack)]]

\* TypeOK in parts.
LinksType ==
    /\ connected \subseteq {{n, m} : n, m \in Node}
    /\ breaks \in 0 .. MaxBreaks
RequestsType == requests \in [Node -> [Node -> 0 .. MaxInFlight]]
NodesType ==
    /\ isProvider \in [Node -> BOOLEAN] /\ counter \in [Node -> Nat]
    /\ pending \in [Node -> Nat] /\ running \in [Node -> BOOLEAN]
    /\ groups \in [Node -> Nat]
    /\ listen \in [Node -> {"not", "listening", "closed"}] /\ providerReset \in BOOLEAN
PlacesType ==
    /\ DOMAIN deck = Node /\ \A n \in Node : deck[n] \in Seq(Nat)
    /\ taken \in Seq(Nat)

\* The counter of a provider has passed x.
GivenOut(x) == \E p \in Node : isProvider[p] /\ x < counter[p]

\* All ids that are anywhere were given out, so those that follow are new.
HeldAreGivenOut ==
    /\ \A n \in Node : \A i \in 1 .. Len(deck[n]) : GivenOut(deck[n][i])
    /\ \A n, m \in Node : \A i \in 1 .. Len(packs[n][m]) : \A k \in 1 .. IdsPerPack :
          GivenOut(packs[n][m][i][k])
    /\ \A i \in 1 .. Len(taken) : GivenOut(taken[i])

\* No two places hold the same id.
DecksDiffer ==
    \A n, m \in Node : \A i \in 1 .. Len(deck[n]), j \in 1 .. Len(deck[m]) :
        deck[n][i] = deck[m][j] => n = m /\ i = j
PackDiffers(n, m, i, p, q, j) ==
    \A k, l \in 1 .. IdsPerPack :
        packs[n][m][i][k] = packs[p][q][j][l] => n = p /\ m = q /\ i = j /\ k = l
PacksDifferBetween(n, m, p, q) ==
    \A i \in 1 .. Len(packs[n][m]), j \in 1 .. Len(packs[p][q]) : PackDiffers(n, m, i, p, q, j)
PacksDiffer == \A n, m, p, q \in Node : PacksDifferBetween(n, m, p, q)
TakenDiffer ==
    \A i, j \in 1 .. Len(taken) : taken[i] = taken[j] => i = j
DeckFromPacks(n, p, q) ==
    \A i \in 1 .. Len(deck[n]), j \in 1 .. Len(packs[p][q]) :
        \A k \in 1 .. IdsPerPack : deck[n][i] # packs[p][q][j][k]
DecksFromPacks == \A n, p, q \in Node : DeckFromPacks(n, p, q)
DecksFromTaken ==
    \A n \in Node : \A i \in 1 .. Len(deck[n]), j \in 1 .. Len(taken) : deck[n][i] # taken[j]
PacksFromTaken ==
    \A n, m \in Node : \A i \in 1 .. Len(packs[n][m]), j \in 1 .. Len(taken) :
        \A k \in 1 .. IdsPerPack : packs[n][m][i][k] # taken[j]

PlacesDiffer ==
    /\ DecksDiffer /\ PacksDiffer /\ TakenDiffer
    /\ DecksFromPacks /\ DecksFromTaken /\ PacksFromTaken

IInv == TypeOK /\ PacksAreWhole /\ (SingleProvider => HeldAreGivenOut /\ PlacesDiffer)

-----------------------------------------------------------------------------
\* It is what the properties say.

InDeck(z, n, i) ==
    n \in Node /\ i \in 1 .. Len(deck[n]) /\ z = [at |-> <<n, i>>, id |-> deck[n][i]]
InPack(z, n, m, i, k) ==
    /\ n \in Node /\ m \in Node /\ i \in 1 .. Len(packs[n][m]) /\ k \in 1 .. IdsPerPack
    /\ z = [at |-> <<n, m, i, k>>, id |-> packs[n][m][i][k]]
InTaken(z, i) == i \in 1 .. Len(taken) /\ z = [at |-> <<i>>, id |-> taken[i]]

\* An element of Held says where it is.
LEMMA HeldPlace ==
    ASSUME NEW x \in Held, TypeOK, PacksAreWhole
    PROVE  \/ \E n, i : InDeck(x, n, i)
           \/ \E n, m, i, k : InPack(x, n, m, i, k)
           \/ \E i : InTaken(x, i)
<1>1. /\ \A n \in Node : DOMAIN deck[n] = 1 .. Len(deck[n])
      /\ \A n, m \in Node : DOMAIN packs[n][m] = 1 .. Len(packs[n][m])
      /\ DOMAIN taken = 1 .. Len(taken)
  BY DEF TypeOK, PacksAreWhole
<1> DEFINE Decks == {{[at |-> <<n, i>>, id |-> deck[n][i]] : i \in DOMAIN deck[n]} : n \in Node}
           Packs == {{[at |-> <<n, m, i, k>>, id |-> packs[n][m][i][k]] :
                        i \in DOMAIN packs[n][m], k \in 1 .. IdsPerPack} : n, m \in Node}
           Taken == {[at |-> <<i>>, id |-> taken[i]] : i \in DOMAIN taken}
<1>2. \E S \in Decks \cup Packs \cup {Taken} : x \in S
  <2>1. Held = UNION (Decks \cup Packs \cup {Taken})
    BY DEF Held
  <2> HIDE DEF Decks, Packs, Taken
  <2> QED
    BY <2>1
<1>3. ASSUME NEW S \in Decks, x \in S PROVE \E n, i : InDeck(x, n, i)
  <2>1. PICK n \in Node : S = {[at |-> <<n, i>>, id |-> deck[n][i]] : i \in DOMAIN deck[n]}
    BY <1>3
  <2>2. PICK i \in DOMAIN deck[n] : x = [at |-> <<n, i>>, id |-> deck[n][i]]
    BY <1>3, <2>1
  <2>3. InDeck(x, n, i)
    BY <1>1, <2>2 DEF InDeck
  <2> QED
    BY <2>3
<1>4. ASSUME NEW S \in Packs, x \in S PROVE \E n, m, i, k : InPack(x, n, m, i, k)
  <2>1. PICK n, m \in Node : S = {[at |-> <<n, m, i, k>>, id |-> packs[n][m][i][k]] :
                                     i \in DOMAIN packs[n][m], k \in 1 .. IdsPerPack}
    BY <1>4
  <2>2. PICK i \in DOMAIN packs[n][m], k \in 1 .. IdsPerPack :
            x = [at |-> <<n, m, i, k>>, id |-> packs[n][m][i][k]]
    BY <1>4, <2>1
  <2>3. InPack(x, n, m, i, k)
    BY <1>1, <2>2 DEF InPack
  <2> QED
    BY <2>3
<1>5. ASSUME x \in Taken PROVE \E i : InTaken(x, i)
  <2>1. PICK i \in DOMAIN taken : x = [at |-> <<i>>, id |-> taken[i]]
    BY <1>5
  <2>2. InTaken(x, i)
    BY <1>1, <2>1 DEF InTaken
  <2> QED
    BY <2>2
<1> HIDE DEF Decks, Packs, Taken
<1> QED
  BY <1>2, <1>3, <1>4, <1>5

\* Two places of which one or both are in packs.
LEMMA TwoPacks ==
    ASSUME PacksDiffer, NEW x, NEW y, x.id = y.id,
           NEW n, NEW m, NEW i, NEW k, InPack(x, n, m, i, k),
           NEW p, NEW q, NEW j, NEW l, InPack(y, p, q, j, l)
    PROVE  x = y
<1>1. packs[n][m][i][k] = packs[p][q][j][l]
  BY DEF InPack
<1>2. /\ n \in Node /\ m \in Node /\ i \in 1 .. Len(packs[n][m]) /\ k \in 1 .. IdsPerPack
      /\ p \in Node /\ q \in Node /\ j \in 1 .. Len(packs[p][q]) /\ l \in 1 .. IdsPerPack
  BY DEF InPack
<1>3. PacksDifferBetween(n, m, p, q)
  BY <1>2 DEF PacksDiffer
<1>4. PackDiffers(n, m, i, p, q, j)
  BY <1>2, <1>3 DEF PacksDifferBetween
<1>5. n = p /\ m = q /\ i = j /\ k = l
  BY <1>1, <1>2, <1>4 DEF PackDiffers
<1>6. x = [at |-> <<n, m, i, k>>, id |-> packs[n][m][i][k]]
  BY DEF InPack
<1>7. y = [at |-> <<p, q, j, l>>, id |-> packs[p][q][j][l]]
  BY DEF InPack
<1> QED
  BY <1>5, <1>6, <1>7, Zenon

LEMMA DeckAndPack ==
    ASSUME DecksFromPacks, NEW x, NEW y, x.id = y.id,
           NEW n, NEW i, InDeck(x, n, i),
           NEW p, NEW q, NEW j, NEW l, InPack(y, p, q, j, l)
    PROVE  FALSE
<1>1. deck[n][i] = packs[p][q][j][l]
  BY DEF InDeck, InPack
<1> QED
  BY <1>1 DEF InDeck, InPack, DecksFromPacks, DeckFromPacks

LEMMA PackAndTaken ==
    ASSUME PacksFromTaken, NEW x, NEW y, x.id = y.id,
           NEW n, NEW m, NEW i, NEW k, InPack(x, n, m, i, k),
           NEW j, InTaken(y, j)
    PROVE  FALSE
<1>1. packs[n][m][i][k] = taken[j]
  BY DEF InPack, InTaken
<1> QED
  BY <1>1 DEF InPack, InTaken, PacksFromTaken

LEMMA PlacesDifferUnique == ASSUME IInv PROVE UniqueIds
<1> SUFFICES ASSUME SingleProvider, NEW x \in Held, NEW y \in Held, x.id = y.id
             PROVE  x = y
  BY DEF UniqueIds
<1> DEFINE Decks(z) == \E n, i : InDeck(z, n, i)
           Packs(z) == \E n, m, i, k : InPack(z, n, m, i, k)
           Taken(z) == \E i : InTaken(z, i)
<1>1. Decks(x) \/ Packs(x) \/ Taken(x)
  BY HeldPlace DEF IInv
<1>2. Decks(y) \/ Packs(y) \/ Taken(y)
  BY HeldPlace DEF IInv
<1>3. Decks(x) /\ Decks(y) => x = y
  BY DEF InDeck, IInv, PlacesDiffer, DecksDiffer
<1>4. Packs(x) /\ Packs(y) => x = y
  BY TwoPacks DEF IInv, PlacesDiffer
<1>5. Taken(x) /\ Taken(y) => x = y
  BY DEF InTaken, IInv, PlacesDiffer, TakenDiffer
<1>6. ~(Decks(x) /\ Packs(y)) /\ ~(Packs(x) /\ Decks(y))
  BY DeckAndPack DEF IInv, PlacesDiffer
<1>7. ~(Decks(x) /\ Taken(y)) /\ ~(Taken(x) /\ Decks(y))
  BY DEF InDeck, InTaken, IInv, PlacesDiffer, DecksFromTaken
<1>8. ~(Packs(x) /\ Taken(y)) /\ ~(Taken(x) /\ Packs(y))
  BY PackAndTaken DEF IInv, PlacesDiffer
<1> HIDE DEF Decks, Packs, Taken
<1> QED
  BY <1>1, <1>2, <1>3, <1>4, <1>5, <1>6, <1>7, <1>8

LEMMA Initially == ASSUME Init PROVE IInv
<1>1. TypeOK
  <2>1. 0 \in 0 .. MaxInFlight /\ 0 \in 0 .. MaxBreaks
    BY GroupIdsAssumption
  <2>2. /\ listen \in [Node -> {"not", "listening", "closed"}]
        /\ isProvider \in [Node -> BOOLEAN] /\ running \in [Node -> BOOLEAN]
    BY DEF Init
  <2>3. /\ counter \in [Node -> Nat] /\ pending \in [Node -> Nat] /\ groups \in [Node -> Nat]
        /\ DOMAIN deck = Node /\ \A n \in Node : deck[n] \in Seq(Nat)
        /\ taken \in Seq(Nat)
    BY DEF Init
  <2>4. /\ requests \in [Node -> [Node -> 0 .. MaxInFlight]]
        /\ \A n, m \in Node : packs[n][m] \in Seq(Seq(Nat))
    BY <2>1 DEF Init
  <2>5. connected \subseteq {{n, m} : n, m \in Node}
    <3>1. connected = {}
      BY DEF Init
    <3> QED
      BY <3>1
  <2>6. providerReset \in BOOLEAN /\ breaks \in 0 .. MaxBreaks
    <3>1. providerReset = FALSE /\ breaks = 0
      BY DEF Init
    <3> QED
      BY <2>1, <3>1
  <2> QED
    BY <2>2, <2>3, <2>4, <2>5, <2>6 DEF TypeOK
<1>2. PacksAreWhole
  BY DEF Init, PacksAreWhole
<1>3. HeldAreGivenOut
  BY DEF Init, HeldAreGivenOut
<1>4. PlacesDiffer
  BY DEF Init, PlacesDiffer, DecksDiffer, PacksDiffer, PacksDifferBetween,
         PackDiffers, TakenDiffer,
         DecksFromPacks, DeckFromPacks, DecksFromTaken, PacksFromTaken
<1> QED
  BY <1>1, <1>2, <1>3, <1>4 DEF IInv

-----------------------------------------------------------------------------
\* Nat.

\* Given out stays given out: providers stay providers, and their counters go up.
GoOn == \A p \in Node : isProvider[p] => isProvider'[p] /\ counter'[p] >= counter[p]

LEMMA StaysGivenOut ==
    ASSUME TypeOK, TypeOK', GoOn, NEW x \in Nat, GivenOut(x)
    PROVE  GivenOut(x)'
<1>1. PICK p \in Node : isProvider[p] /\ x < counter[p]
  BY DEF GivenOut
<1>2. isProvider'[p] /\ counter'[p] >= counter[p]
  BY <1>1 DEF GoOn
<1>3. counter[p] \in Nat /\ counter'[p] \in Nat
  BY DEF TypeOK
<1>4. isProvider'[p] /\ x < counter'[p]
  BY <1>1, <1>2, <1>3
<1> QED
  BY <1>4 DEF GivenOut

\* The ids a counter gives out next.
LEMMA NewIds ==
    ASSUME TypeOK, NEW n \in Node, NEW count \in Nat
    PROVE  /\ IdsFrom(n, count) \in Seq(Nat) /\ Len(IdsFrom(n, count)) = count
           /\ IdsFrom(n, count) \in [1 .. count -> Nat]
           /\ \A i \in 1 .. count : IdsFrom(n, count)[i] = counter[n] + i - 1
           /\ \A i, j \in 1 .. count : IdsFrom(n, count)[i] = IdsFrom(n, count)[j] => i = j
<1>1. counter[n] \in Nat
  BY DEF TypeOK
<1>2. \A i \in 1 .. count : /\ IdsFrom(n, count)[i] = counter[n] + i - 1
                            /\ counter[n] + i - 1 \in Nat
  BY <1>1 DEF IdsFrom
<1>3. IdsFrom(n, count) \in [1 .. count -> Nat]
  BY <1>2 DEF IdsFrom
<1>4. IdsFrom(n, count) \in Seq(Nat) /\ Len(IdsFrom(n, count)) = count
  BY <1>3
<1> QED
  BY <1>1, <1>2, <1>3, <1>4

\* If the node is the single provider, they have not been given out.
LEMMA NewIdsAreNew ==
    ASSUME TypeOK, SingleProvider, NEW n \in Node, isProvider[n], NEW count \in Nat,
           NEW i \in 1 .. count
    PROVE  ~GivenOut(IdsFrom(n, count)[i])
<1>1. counter[n] \in Nat
  BY DEF TypeOK
<1>2. IdsFrom(n, count)[i] = counter[n] + i - 1
  BY NewIds
<1>3. \A p \in Node : isProvider[p] => p = n
  BY DEF SingleProvider
<1> QED
  BY <1>1, <1>2, <1>3 DEF GivenOut

\* Once the counter of a provider passed them, they are given out.
LEMMA PassedIsGivenOut ==
    ASSUME TypeOK, NEW n \in Node, isProvider'[n], NEW count \in Nat, NEW i \in 1 .. count,
           counter'[n] = counter[n] + count,
           NEW x, x = IdsFrom(n, count)[i]
    PROVE  GivenOut(x)'
<1>1. counter[n] \in Nat
  BY DEF TypeOK
<1>2. x = counter[n] + i - 1
  BY NewIds
<1>3. x < counter'[n]
  BY <1>1, <1>2
<1> QED
  BY <1>3 DEF GivenOut

LEMMA HeldAreIds ==
    ASSUME TypeOK, PacksAreWhole
    PROVE  /\ \A n \in Node : \A i \in 1 .. Len(deck[n]) : deck[n][i] \in Nat
           /\ \A n, m \in Node : \A i \in 1 .. Len(packs[n][m]) : \A k \in 1 .. IdsPerPack :
                 packs[n][m][i][k] \in Nat
           /\ \A i \in 1 .. Len(taken) : taken[i] \in Nat
<1>1. \A n, m \in Node : \A i \in 1 .. Len(packs[n][m]) : packs[n][m][i] \in Pack
  BY DEF PacksAreWhole
<1>2. \A n, m \in Node : \A i \in 1 .. Len(packs[n][m]) : \A k \in 1 .. IdsPerPack :
          packs[n][m][i][k] \in Nat
  <2> SUFFICES ASSUME NEW n \in Node, NEW m \in Node, NEW i \in 1 .. Len(packs[n][m]),
                      NEW k \in 1 .. IdsPerPack
               PROVE  packs[n][m][i][k] \in Nat
    OBVIOUS
  <2>1. packs[n][m][i] \in Pack
    BY <1>1
  <2> QED
    BY <2>1 DEF Pack
<1>3. \A n \in Node : deck[n] \in Seq(Nat)
  BY DEF TypeOK
<1>4. taken \in Seq(Nat)
  BY DEF TypeOK
<1> QED
  BY <1>2, <1>3, <1>4

-----------------------------------------------------------------------------
\* Steps that take ids away, or leave them where they are.

LEMMA FewerPlaces ==
    ASSUME PlacesDiffer, UNCHANGED taken,
           \A n \in Node : deck'[n] = deck[n] \/ deck'[n] = <<>>,
           \A n, m \in Node : packs'[n][m] = packs[n][m] \/ packs'[n][m] = <<>>
    PROVE  PlacesDiffer'
<1>1. \A n \in Node : \A i \in 1 .. Len(deck'[n]) :
          i \in 1 .. Len(deck[n]) /\ deck'[n][i] = deck[n][i]
  OBVIOUS
<1>2. \A n, m \in Node : \A i \in 1 .. Len(packs'[n][m]) :
          i \in 1 .. Len(packs[n][m]) /\ packs'[n][m] = packs[n][m]
  OBVIOUS
<1>3. DecksDiffer'
  <2> SUFFICES ASSUME NEW n \in Node, NEW m \in Node,
                      NEW i \in 1 .. Len(deck'[n]), NEW j \in 1 .. Len(deck'[m]),
                      deck'[n][i] = deck'[m][j]
               PROVE  n = m /\ i = j
    BY DEF DecksDiffer
  <2>1. /\ i \in 1 .. Len(deck[n]) /\ j \in 1 .. Len(deck[m])
        /\ deck[n][i] = deck[m][j]
    BY <1>1
  <2> QED
    BY <2>1 DEF PlacesDiffer, DecksDiffer
<1>4. PacksDiffer'
  <2> SUFFICES ASSUME NEW n \in Node, NEW m \in Node, NEW p \in Node, NEW q \in Node,
                      NEW i \in 1 .. Len(packs'[n][m]), NEW j \in 1 .. Len(packs'[p][q]),
                      NEW k \in 1 .. IdsPerPack, NEW l \in 1 .. IdsPerPack,
                      packs'[n][m][i][k] = packs'[p][q][j][l]
               PROVE  n = p /\ m = q /\ i = j /\ k = l
    BY DEF PacksDiffer, PacksDifferBetween, PackDiffers
  <2>1. /\ i \in 1 .. Len(packs[n][m]) /\ j \in 1 .. Len(packs[p][q])
        /\ packs[n][m][i][k] = packs[p][q][j][l]
    BY <1>2
  <2>2. PacksDifferBetween(n, m, p, q)
    BY DEF PlacesDiffer, PacksDiffer
  <2>3. PackDiffers(n, m, i, p, q, j)
    BY <2>1, <2>2 DEF PacksDifferBetween
  <2> QED
    BY <2>1, <2>3 DEF PackDiffers
<1>5. TakenDiffer'
  BY DEF PlacesDiffer, TakenDiffer
<1>6. DecksFromPacks'
  <2> SUFFICES ASSUME NEW n \in Node, NEW p \in Node, NEW q \in Node,
                      NEW i \in 1 .. Len(deck'[n]), NEW j \in 1 .. Len(packs'[p][q]),
                      NEW k \in 1 .. IdsPerPack
               PROVE  deck'[n][i] # packs'[p][q][j][k]
    BY DEF DecksFromPacks, DeckFromPacks
  <2>1. /\ i \in 1 .. Len(deck[n]) /\ deck'[n][i] = deck[n][i]
        /\ j \in 1 .. Len(packs[p][q]) /\ packs'[p][q] = packs[p][q]
    BY <1>1, <1>2
  <2>2. DeckFromPacks(n, p, q)
    BY DEF PlacesDiffer, DecksFromPacks
  <2>3. deck[n][i] # packs[p][q][j][k]
    BY <2>1, <2>2 DEF DeckFromPacks
  <2> QED
    BY <2>1, <2>3
<1>7. DecksFromTaken'
  <2> SUFFICES ASSUME NEW n \in Node, NEW i \in 1 .. Len(deck'[n]), NEW j \in 1 .. Len(taken)
               PROVE  deck'[n][i] # taken[j]
    BY DEF DecksFromTaken
  <2>1. i \in 1 .. Len(deck[n]) /\ deck'[n][i] = deck[n][i]
    BY <1>1
  <2> QED
    BY <2>1 DEF PlacesDiffer, DecksFromTaken
<1>8. PacksFromTaken'
  <2> SUFFICES ASSUME NEW n \in Node, NEW m \in Node, NEW i \in 1 .. Len(packs'[n][m]),
                      NEW j \in 1 .. Len(taken), NEW k \in 1 .. IdsPerPack
               PROVE  packs'[n][m][i][k] # taken[j]
    BY DEF PacksFromTaken
  <2>1. i \in 1 .. Len(packs[n][m]) /\ packs'[n][m] = packs[n][m]
    BY <1>2
  <2> QED
    BY <2>1 DEF PlacesDiffer, PacksFromTaken
<1> QED
  BY <1>3, <1>4, <1>5, <1>6, <1>7, <1>8 DEF PlacesDiffer

LEMMA FewerGivenOut ==
    ASSUME TypeOK, TypeOK', PacksAreWhole, HeldAreGivenOut, UNCHANGED taken,
           \A n \in Node : deck'[n] = deck[n] \/ deck'[n] = <<>>,
           \A n, m \in Node : packs'[n][m] = packs[n][m] \/ packs'[n][m] = <<>>,
           GoOn
    PROVE  HeldAreGivenOut'
<1>1. /\ \A n \in Node : \A i \in 1 .. Len(deck[n]) : deck[n][i] \in Nat
      /\ \A n, m \in Node : \A i \in 1 .. Len(packs[n][m]) : \A k \in 1 .. IdsPerPack :
            packs[n][m][i][k] \in Nat
      /\ \A i \in 1 .. Len(taken) : taken[i] \in Nat
  BY HeldAreIds
<1>2. \A x \in Nat : GivenOut(x) => GivenOut(x)'
  BY StaysGivenOut
<1>3. /\ \A n \in Node : \A i \in 1 .. Len(deck'[n]) :
            i \in 1 .. Len(deck[n]) /\ deck'[n][i] = deck[n][i]
      /\ \A n, m \in Node : \A i \in 1 .. Len(packs'[n][m]) :
            i \in 1 .. Len(packs[n][m]) /\ packs'[n][m] = packs[n][m]
  OBVIOUS
<1>4. \A n \in Node : (\A i \in 1 .. Len(deck[n]) : GivenOut(deck[n][i]))'
  BY <1>1, <1>2, <1>3 DEF HeldAreGivenOut
<1>5. \A n, m \in Node : (\A i \in 1 .. Len(packs[n][m]) : \A k \in 1 .. IdsPerPack :
          GivenOut(packs[n][m][i][k]))'
  BY <1>1, <1>2, <1>3 DEF HeldAreGivenOut
<1>6. (\A i \in 1 .. Len(taken) : GivenOut(taken[i]))'
  BY <1>1, <1>2 DEF HeldAreGivenOut
<1> QED
  BY <1>4, <1>5, <1>6 DEF HeldAreGivenOut

-----------------------------------------------------------------------------
\* A provider answers: a pack of new ids.

LEMMA PackAppended ==
    ASSUME TypeOK, PacksAreWhole, NEW n \in Node, NEW asker \in Node,
           packs' = [packs EXCEPT ![n][asker] = Append(@, IdsFrom(n, IdsPerPack))]
    PROVE  /\ PacksAreWhole'
           /\ \A p, q \in Node : \A i \in 1 .. Len(packs'[p][q]) :
                 \/ i \in 1 .. Len(packs[p][q]) /\ packs'[p][q][i] = packs[p][q][i]
                 \/ /\ p = n /\ q = asker /\ i = Len(packs[n][asker]) + 1
                    /\ packs'[p][q][i] = IdsFrom(n, IdsPerPack)
<1>1. IdsFrom(n, IdsPerPack) \in Pack
  BY NewIds, GroupIdsAssumption DEF Pack
<1>2. \A p, q \in Node : packs[p][q] \in Seq(Pack)
  BY DEF PacksAreWhole
<1>3. PacksAreWhole'
  BY <1>1, <1>2 DEF PacksAreWhole
<1>4. \A p, q \in Node :
          packs'[p][q] = IF p = n /\ q = asker THEN Append(packs[n][asker], IdsFrom(n, IdsPerPack))
                         ELSE packs[p][q]
  BY DEF PacksAreWhole
<1> QED
  BY <1>1, <1>2, <1>3, <1>4

LEMMA PlacesDifferIdsGiven ==
    ASSUME TypeOK, PacksAreWhole, SingleProvider, HeldAreGivenOut, PlacesDiffer,
           NEW n \in Node, isProvider[n], NEW asker \in Node, UNCHANGED <<deck, taken>>,
           packs' = [packs EXCEPT ![n][asker] = Append(@, IdsFrom(n, IdsPerPack))]
    PROVE  PlacesDiffer'
<1> DEFINE Old(p, q, i) == i \in 1 .. Len(packs[p][q]) /\ packs'[p][q][i] = packs[p][q][i]
           New(p, q, i) == /\ p = n /\ q = asker /\ i = Len(packs[n][asker]) + 1
                           /\ packs'[p][q][i] = IdsFrom(n, IdsPerPack)
<1>1. \A p, q \in Node : \A i \in 1 .. Len(packs'[p][q]) : Old(p, q, i) \/ New(p, q, i)
  BY PackAppended
<1>2. \A k \in 1 .. IdsPerPack : ~GivenOut(IdsFrom(n, IdsPerPack)[k])
  BY NewIdsAreNew, GroupIdsAssumption
<1>3. \A k, l \in 1 .. IdsPerPack :
          IdsFrom(n, IdsPerPack)[k] = IdsFrom(n, IdsPerPack)[l] => k = l
  BY NewIds, GroupIdsAssumption
<1>4. DecksDiffer' /\ TakenDiffer' /\ DecksFromTaken'
  <2>1. DecksDiffer' /\ TakenDiffer'
    BY DEF PlacesDiffer, DecksDiffer, TakenDiffer
  <2>2. DecksFromTaken'
    BY DEF PlacesDiffer, DecksFromTaken
  <2> QED
    BY <2>1, <2>2
<1>5. PacksDiffer'
  <2> SUFFICES ASSUME NEW p \in Node, NEW q \in Node, NEW r \in Node, NEW s \in Node,
                      NEW i \in 1 .. Len(packs'[p][q]), NEW j \in 1 .. Len(packs'[r][s]),
                      NEW k \in 1 .. IdsPerPack, NEW l \in 1 .. IdsPerPack,
                      packs'[p][q][i][k] = packs'[r][s][j][l]
               PROVE  p = r /\ q = s /\ i = j /\ k = l
    BY DEF PacksDiffer, PacksDifferBetween, PackDiffers
  <2>1. (Old(p, q, i) \/ New(p, q, i)) /\ (Old(r, s, j) \/ New(r, s, j))
    BY <1>1
  <2>2. CASE Old(p, q, i) /\ Old(r, s, j)
    <3>1. PacksDifferBetween(p, q, r, s)
      BY DEF PlacesDiffer, PacksDiffer
    <3>2. /\ i \in 1 .. Len(packs[p][q]) /\ j \in 1 .. Len(packs[r][s])
          /\ packs[p][q][i][k] = packs[r][s][j][l]
      BY <2>2
    <3> HIDE DEF Old, New
    <3>3. PackDiffers(p, q, i, r, s, j)
      BY <3>1, <3>2 DEF PacksDifferBetween
    <3> QED
      BY <3>2, <3>3 DEF PackDiffers
  <2>3. CASE New(p, q, i) /\ New(r, s, j)
    BY <2>3, <1>3
  <2>4. CASE Old(p, q, i) /\ New(r, s, j)
    <3>1. GivenOut(packs[p][q][i][k])
      BY <2>4 DEF HeldAreGivenOut
    <3> QED
      BY <2>4, <3>1, <1>2
  <2>5. CASE New(p, q, i) /\ Old(r, s, j)
    <3>1. GivenOut(packs[r][s][j][l])
      BY <2>5 DEF HeldAreGivenOut
    <3> QED
      BY <2>5, <3>1, <1>2
  <2> HIDE DEF Old, New
  <2> QED
    BY <2>1, <2>2, <2>3, <2>4, <2>5
<1>6. DecksFromPacks'
  <2> SUFFICES ASSUME NEW m \in Node, NEW p \in Node, NEW q \in Node,
                      NEW i \in 1 .. Len(deck[m]), NEW j \in 1 .. Len(packs'[p][q]),
                      NEW k \in 1 .. IdsPerPack
               PROVE  deck[m][i] # packs'[p][q][j][k]
    BY DEF DecksFromPacks, DeckFromPacks
  <2>1. GivenOut(deck[m][i])
    BY DEF HeldAreGivenOut
  <2>2. Old(p, q, j) => deck[m][i] # packs[p][q][j][k]
    <3>1. DeckFromPacks(m, p, q)
      BY DEF PlacesDiffer, DecksFromPacks
    <3> QED
      BY <3>1 DEF DeckFromPacks
  <2>3. CASE Old(p, q, j)
    BY <2>2, <2>3
  <2>4. CASE New(p, q, j)
    BY <1>2, <2>1, <2>4
  <2> QED
    BY <1>1, <2>3, <2>4
<1>7. PacksFromTaken'
  <2> SUFFICES ASSUME NEW p \in Node, NEW q \in Node,
                      NEW i \in 1 .. Len(packs'[p][q]), NEW j \in 1 .. Len(taken),
                      NEW k \in 1 .. IdsPerPack
               PROVE  packs'[p][q][i][k] # taken[j]
    BY DEF PacksFromTaken
  <2>1. GivenOut(taken[j])
    BY DEF HeldAreGivenOut
  <2>2. Old(p, q, i) => packs[p][q][i][k] # taken[j]
    BY DEF PlacesDiffer, PacksFromTaken
  <2> QED
    BY <1>1, <1>2, <2>1, <2>2
<1> QED
  BY <1>4, <1>5, <1>6, <1>7 DEF PlacesDiffer

LEMMA GivenOutIdsGiven ==
    ASSUME TypeOK, TypeOK', PacksAreWhole, HeldAreGivenOut,
           NEW n \in Node, isProvider[n], NEW asker \in Node,
           UNCHANGED <<deck, taken, isProvider>>,
           packs' = [packs EXCEPT ![n][asker] = Append(@, IdsFrom(n, IdsPerPack))],
           counter' = [counter EXCEPT ![n] = @ + IdsPerPack]
    PROVE  HeldAreGivenOut'
<1>1. /\ \A m \in Node : counter[m] \in Nat /\ counter'[m] >= counter[m]
      /\ counter'[n] = counter[n] + IdsPerPack /\ IdsPerPack \in Nat
  <2>1. IdsPerPack \in Nat /\ counter \in [Node -> Nat]
    BY GroupIdsAssumption DEF TypeOK
  <2>2. \A m \in Node : counter'[m] = IF m = n THEN counter[m] + IdsPerPack ELSE counter[m]
    BY <2>1
  <2> QED
    BY <2>1, <2>2
<1>2. \A x \in Nat : GivenOut(x) => GivenOut(x)'
  <2>1. GoOn
    BY <1>1 DEF GoOn
  <2> QED
    BY <2>1, StaysGivenOut
<1>3. \A k \in 1 .. IdsPerPack : \A x : x = IdsFrom(n, IdsPerPack)[k] => GivenOut(x)'
  BY <1>1, PassedIsGivenOut
<1>4. (\A m \in Node : \A i \in 1 .. Len(deck[m]) : GivenOut(deck[m][i]))'
  BY <1>2, HeldAreIds DEF HeldAreGivenOut
<1>5. (\A i \in 1 .. Len(taken) : GivenOut(taken[i]))'
  BY <1>2, HeldAreIds DEF HeldAreGivenOut
<1>6. \A p, q \in Node : (\A i \in 1 .. Len(packs[p][q]) : \A k \in 1 .. IdsPerPack :
          GivenOut(packs[p][q][i][k]))'
  <2> SUFFICES ASSUME NEW p \in Node, NEW q \in Node,
                      NEW i \in 1 .. Len(packs'[p][q]), NEW k \in 1 .. IdsPerPack,
                      NEW x, x = packs'[p][q][i][k]
               PROVE  GivenOut(x)'
    OBVIOUS
  <2>1. CASE i \in 1 .. Len(packs[p][q]) /\ packs'[p][q][i] = packs[p][q][i]
    BY <2>1, <1>2, HeldAreIds DEF HeldAreGivenOut
  <2>2. CASE packs'[p][q][i] = IdsFrom(n, IdsPerPack)
    BY <2>2, <1>3
  <2> QED
    BY <2>1, <2>2, PackAppended
<1> QED
  BY <1>4, <1>5, <1>6 DEF HeldAreGivenOut

-----------------------------------------------------------------------------
\* A pack arrives: its ids move to a deck.

PackMoves(n, provider) ==
    /\ packs[provider][n] # <<>>
    /\ deck' = [deck EXCEPT ![n] = @ \o Head(packs[provider][n])]
    /\ packs' = [packs EXCEPT ![provider][n] = Tail(@)]

\* Places in decks and in packs after that, and where their ids were.
InOldDeck(m, i) == i \in 1 .. Len(deck[m]) /\ deck'[m][i] = deck[m][i]
FromPack(n, provider, m, i) ==
    /\ m = n /\ i - Len(deck[n]) \in 1 .. IdsPerPack
    /\ 1 \in 1 .. Len(packs[provider][n])
    /\ deck'[m][i] = packs[provider][n][1][i - Len(deck[n])]
InSamePack(n, provider, p, q, i) ==
    /\ ~(p = provider /\ q = n)
    /\ i \in 1 .. Len(packs[p][q]) /\ packs'[p][q][i] = packs[p][q][i]
InNextPack(n, provider, p, q, i) ==
    /\ p = provider /\ q = n
    /\ i + 1 \in 1 .. Len(packs[p][q]) /\ packs'[p][q][i] = packs[p][q][i + 1]

LEMMA PackMoved ==
    ASSUME TypeOK, PacksAreWhole, NEW n \in Node, NEW provider \in Node,
           PackMoves(n, provider)
    PROVE  /\ PacksAreWhole'
           /\ DOMAIN deck' = Node /\ \A m \in Node : deck'[m] \in Seq(Nat)
           /\ \A m \in Node : \A i \in 1 .. Len(deck'[m]) :
                 InOldDeck(m, i) \/ FromPack(n, provider, m, i)
           /\ \A p, q \in Node : \A i \in 1 .. Len(packs'[p][q]) :
                 InSamePack(n, provider, p, q, i) \/ InNextPack(n, provider, p, q, i)
<1>1. /\ DOMAIN deck = Node /\ \A m \in Node : deck[m] \in Seq(Nat)
      /\ packs \in [Node -> [Node -> Seq(Pack)]] /\ IdsPerPack \in Nat \ {0}
  <2>1. DOMAIN deck = Node /\ \A m \in Node : deck[m] \in Seq(Nat)
    BY DEF TypeOK
  <2>2. packs \in [Node -> [Node -> Seq(Pack)]]
    BY DEF PacksAreWhole
  <2> QED
    BY <2>1, <2>2, GroupIdsAssumption
<1> DEFINE flight == packs[provider][n]
<1>2. flight \in Seq(Pack) /\ flight # <<>>
  BY <1>1 DEF PackMoves
<1>3. /\ 1 \in 1 .. Len(flight) /\ flight[1] \in Pack /\ Head(flight) = flight[1]
      /\ Tail(flight) \in Seq(Pack) /\ Len(Tail(flight)) = Len(flight) - 1
      /\ \A i \in 1 .. Len(Tail(flight)) : Tail(flight)[i] = flight[i + 1]
  <2> HIDE DEF flight
  <2> QED
    BY <1>2
<1>4. flight[1] \in Seq(Nat) /\ Len(flight[1]) = IdsPerPack
  <2>1. flight[1] \in [1 .. IdsPerPack -> Nat] /\ IdsPerPack \in Nat
    BY <1>1, <1>3 DEF Pack
  <2> HIDE DEF flight
  <2> QED
    BY <2>1
<1>5. \A m \in Node : deck'[m] = IF m = n THEN deck[n] \o flight[1] ELSE deck[m]
  BY <1>1, <1>3 DEF PackMoves
<1>6. \A p, q \in Node :
          packs'[p][q] = IF p = provider /\ q = n THEN Tail(flight) ELSE packs[p][q]
  BY <1>1 DEF PackMoves
<1>7. PacksAreWhole'
  BY <1>1, <1>3 DEF PackMoves, PacksAreWhole
<1>8. DOMAIN deck' = Node /\ \A m \in Node : deck'[m] \in Seq(Nat)
  BY <1>1, <1>4, <1>5 DEF PackMoves
<1>9. ASSUME NEW m \in Node, NEW i \in 1 .. Len(deck'[m])
      PROVE  InOldDeck(m, i) \/ FromPack(n, provider, m, i)
  <2>1. CASE m # n
    BY <1>5, <2>1 DEF InOldDeck
  <2>2. CASE m = n
    <3>1. i \in 1 .. Len(deck[n] \o flight[1]) /\ deck'[n][i] = (deck[n] \o flight[1])[i]
      BY <1>5, <2>2
    <3>2. \/ i \in 1 .. Len(deck[n]) /\ deck'[n][i] = deck[n][i]
          \/ i - Len(deck[n]) \in 1 .. IdsPerPack /\ deck'[n][i] = flight[1][i - Len(deck[n])]
      <4> DEFINE s == deck[n]
                 f == flight[1]
      <4>1. s \in Seq(Nat) /\ f \in Seq(Nat) /\ Len(f) = IdsPerPack
        BY <1>1, <1>4
      <4>2. i \in 1 .. Len(s \o f) /\ deck'[n][i] = (s \o f)[i]
        BY <3>1
      <4> HIDE DEF s, f
      <4>3. \/ i \in 1 .. Len(s) /\ deck'[n][i] = s[i]
            \/ i - Len(s) \in 1 .. IdsPerPack /\ deck'[n][i] = f[i - Len(s)]
        BY <4>1, <4>2
      <4> QED
        BY <4>3 DEF s, f
    <3> QED
      BY <1>3, <2>2, <3>2 DEF InOldDeck, FromPack
  <2> QED
    BY <2>1, <2>2
<1>10. ASSUME NEW p \in Node, NEW q \in Node, NEW i \in 1 .. Len(packs'[p][q])
       PROVE  InSamePack(n, provider, p, q, i) \/ InNextPack(n, provider, p, q, i)
  <2>1. CASE ~(p = provider /\ q = n)
    BY <1>6, <2>1 DEF InSamePack
  <2>2. CASE p = provider /\ q = n
    <3>1. i \in 1 .. Len(Tail(flight)) /\ packs'[p][q][i] = Tail(flight)[i]
      BY <1>6, <2>2
    <3>2. i + 1 \in 1 .. Len(flight) /\ packs'[p][q][i] = flight[i + 1]
      BY <1>2, <1>3, <3>1
    <3> QED
      BY <2>2, <3>2 DEF InNextPack
  <2> QED
    BY <2>1, <2>2
<1> QED
  BY <1>7, <1>8, <1>9, <1>10

LEMMA PlacesDifferPackMoved ==
    ASSUME TypeOK, PacksAreWhole, PlacesDiffer,
           NEW n \in Node, NEW provider \in Node, UNCHANGED taken,
           PackMoves(n, provider)
    PROVE  PlacesDiffer'
<1>1. \A m \in Node : \A i \in 1 .. Len(deck'[m]) :
          InOldDeck(m, i) \/ FromPack(n, provider, m, i)
  BY PackMoved
<1>2. \A p, q \in Node : \A i \in 1 .. Len(packs'[p][q]) :
          InSamePack(n, provider, p, q, i) \/ InNextPack(n, provider, p, q, i)
  BY PackMoved
<1>3. TakenDiffer'
  BY DEF PlacesDiffer, TakenDiffer
<1>4. \A p, q, r, s \in Node : PacksDifferBetween(p, q, r, s)
  BY DEF PlacesDiffer, PacksDiffer
<1>5. DecksDiffer'
  <2> SUFFICES ASSUME NEW m \in Node, NEW p \in Node,
                      NEW i \in 1 .. Len(deck'[m]), NEW j \in 1 .. Len(deck'[p]),
                      deck'[m][i] = deck'[p][j]
               PROVE  m = p /\ i = j
    BY DEF DecksDiffer
  <2>1. ASSUME InOldDeck(m, i), InOldDeck(p, j) PROVE m = p /\ i = j
    <3>1. /\ i \in 1 .. Len(deck[m]) /\ j \in 1 .. Len(deck[p])
          /\ deck[m][i] = deck[p][j]
      BY <2>1 DEF InOldDeck
    <3> QED
      BY <3>1 DEF PlacesDiffer, DecksDiffer
  <2>2. ASSUME FromPack(n, provider, m, i), FromPack(n, provider, p, j) PROVE m = p /\ i = j
    <3>1. PacksDifferBetween(provider, n, provider, n)
      BY <1>4
    <3>2. Len(deck[n]) \in Nat
      BY DEF TypeOK
    <3>3. PackDiffers(provider, n, 1, provider, n, 1)
      BY <2>2, <3>1 DEF FromPack, PacksDifferBetween
    <3>4. i - Len(deck[n]) = j - Len(deck[n])
      BY <2>2, <3>3 DEF FromPack, PackDiffers
    <3> QED
      BY <2>2, <3>2, <3>4 DEF FromPack
  <2>3. ASSUME NEW q \in Node, NEW r \in Node,
               NEW g \in 1 .. Len(deck'[q]), NEW h \in 1 .. Len(deck'[r]),
               InOldDeck(q, g), FromPack(n, provider, r, h)
        PROVE  deck'[q][g] # deck'[r][h]
    <3>1. g \in 1 .. Len(deck[q]) /\ deck'[q][g] = deck[q][g]
      BY <2>3 DEF InOldDeck
    <3>2. PICK k \in 1 .. IdsPerPack : /\ 1 \in 1 .. Len(packs[provider][n])
                                      /\ deck'[r][h] = packs[provider][n][1][k]
      BY <2>3 DEF FromPack
    <3>3. DeckFromPacks(q, provider, n)
      BY DEF PlacesDiffer, DecksFromPacks
    <3>4. deck[q][g] # packs[provider][n][1][k]
      BY <3>1, <3>2, <3>3 DEF DeckFromPacks
    <3> QED
      BY <3>1, <3>2, <3>4
  <2> QED
    BY <1>1, <2>1, <2>2, <2>3
<1>6. PacksDiffer'
  <2> SUFFICES ASSUME NEW p \in Node, NEW q \in Node, NEW r \in Node, NEW s \in Node,
                      NEW i \in 1 .. Len(packs'[p][q]), NEW j \in 1 .. Len(packs'[r][s]),
                      NEW k \in 1 .. IdsPerPack, NEW l \in 1 .. IdsPerPack,
                      packs'[p][q][i][k] = packs'[r][s][j][l]
               PROVE  p = r /\ q = s /\ i = j /\ k = l
    BY DEF PacksDiffer, PacksDifferBetween, PackDiffers
  <2>1. PacksDifferBetween(p, q, r, s)
    BY <1>4
  <2>2. /\ InSamePack(n, provider, p, q, i) \/ InNextPack(n, provider, p, q, i)
        /\ InSamePack(n, provider, r, s, j) \/ InNextPack(n, provider, r, s, j)
    BY <1>2
  <2> QED
    <3>1. PICK h : /\ h \in 1 .. Len(packs[p][q]) /\ packs'[p][q][i] = packs[p][q][h]
                   /\ h = IF p = provider /\ q = n THEN i + 1 ELSE i
      BY <2>2 DEF InSamePack, InNextPack
    <3>2. PICK g : /\ g \in 1 .. Len(packs[r][s]) /\ packs'[r][s][j] = packs[r][s][g]
                   /\ g = IF r = provider /\ s = n THEN j + 1 ELSE j
      BY <2>2 DEF InSamePack, InNextPack
    <3>3. packs[p][q][h][k] = packs[r][s][g][l]
      BY <3>1, <3>2
    <3>4. h \in 1 .. Len(packs[p][q]) /\ g \in 1 .. Len(packs[r][s])
      BY <3>1, <3>2
    <3>5. PackDiffers(p, q, h, r, s, g)
      BY <2>1, <3>4 DEF PacksDifferBetween
    <3>6. p = r /\ q = s /\ h = g /\ k = l
      BY <3>3, <3>5 DEF PackDiffers
    <3> QED
      BY <3>1, <3>2, <3>6
<1>7. DecksFromPacks'
  <2> SUFFICES ASSUME NEW m \in Node, NEW p \in Node, NEW q \in Node,
                      NEW i \in 1 .. Len(deck'[m]), NEW j \in 1 .. Len(packs'[p][q]),
                      NEW k \in 1 .. IdsPerPack, deck'[m][i] = packs'[p][q][j][k]
               PROVE  FALSE
    BY DEF DecksFromPacks, DeckFromPacks
  <2>1. PICK h \in 1 .. Len(packs[p][q]) :
            /\ packs'[p][q][j] = packs[p][q][h]
            /\ ~(p = provider /\ q = n /\ h = 1)
    BY <1>2 DEF InSamePack, InNextPack
  <2>2. ~InOldDeck(m, i)
    <3>1. DeckFromPacks(m, p, q)
      BY DEF PlacesDiffer, DecksFromPacks
    <3> QED
      BY <2>1, <3>1 DEF InOldDeck, DeckFromPacks
  <2>3. ~FromPack(n, provider, m, i)
    <3>1. PacksDifferBetween(provider, n, p, q)
      BY <1>4
    <3> SUFFICES ASSUME FromPack(n, provider, m, i) PROVE FALSE
      OBVIOUS
    <3>2. PICK g \in 1 .. IdsPerPack : /\ 1 \in 1 .. Len(packs[provider][n])
                                      /\ packs[provider][n][1][g] = packs[p][q][h][k]
      BY <2>1 DEF FromPack
    <3>3. PackDiffers(provider, n, 1, p, q, h)
      BY <2>1, <3>1, <3>2 DEF PacksDifferBetween
    <3> QED
      BY <2>1, <3>2, <3>3 DEF PackDiffers
  <2> QED
    BY <1>1, <2>2, <2>3
<1>8. DecksFromTaken'
  <2> SUFFICES ASSUME NEW m \in Node, NEW i \in 1 .. Len(deck'[m]), NEW j \in 1 .. Len(taken)
               PROVE  deck'[m][i] # taken[j]
    BY DEF DecksFromTaken
  <2>1. InOldDeck(m, i) => deck'[m][i] # taken[j]
    BY DEF InOldDeck, PlacesDiffer, DecksFromTaken
  <2>2. FromPack(n, provider, m, i) => deck'[m][i] # taken[j]
    BY DEF FromPack, PlacesDiffer, PacksFromTaken
  <2> QED
    BY <1>1, <2>1, <2>2
<1>9. PacksFromTaken'
  <2> SUFFICES ASSUME NEW p \in Node, NEW q \in Node,
                      NEW i \in 1 .. Len(packs'[p][q]), NEW j \in 1 .. Len(taken),
                      NEW k \in 1 .. IdsPerPack
               PROVE  packs'[p][q][i][k] # taken[j]
    BY DEF PacksFromTaken
  <2>1. \E h \in 1 .. Len(packs[p][q]) : packs'[p][q][i] = packs[p][q][h]
    BY <1>2 DEF InSamePack, InNextPack
  <2> QED
    BY <2>1 DEF PlacesDiffer, PacksFromTaken
<1> QED
  BY <1>3, <1>5, <1>6, <1>7, <1>8, <1>9 DEF PlacesDiffer

LEMMA GivenOutPackMoved ==
    ASSUME TypeOK, PacksAreWhole, HeldAreGivenOut,
           NEW n \in Node, NEW provider \in Node, UNCHANGED <<taken, isProvider, counter>>,
           PackMoves(n, provider)
    PROVE  HeldAreGivenOut'
<1>1. \A x : GivenOut(x)' <=> GivenOut(x)
  BY DEF GivenOut
<1>2. \A m \in Node : (\A i \in 1 .. Len(deck[m]) : GivenOut(deck[m][i]))'
  <2> SUFFICES ASSUME NEW m \in Node, NEW i \in 1 .. Len(deck'[m]), NEW x, x = deck'[m][i]
               PROVE  GivenOut(x)
    BY <1>1
  <2> QED
    <3>1. InOldDeck(m, i) \/ FromPack(n, provider, m, i)
      BY PackMoved
    <3> QED
      BY <3>1 DEF InOldDeck, FromPack, HeldAreGivenOut
<1>3. \A p, q \in Node : (\A i \in 1 .. Len(packs[p][q]) : \A k \in 1 .. IdsPerPack :
          GivenOut(packs[p][q][i][k]))'
  <2> SUFFICES ASSUME NEW p \in Node, NEW q \in Node,
                      NEW i \in 1 .. Len(packs'[p][q]), NEW k \in 1 .. IdsPerPack,
                      NEW x, x = packs'[p][q][i][k]
               PROVE  GivenOut(x)
    BY <1>1
  <2>1. \E h \in 1 .. Len(packs[p][q]) : packs'[p][q][i] = packs[p][q][h]
    <3>1. InSamePack(n, provider, p, q, i) \/ InNextPack(n, provider, p, q, i)
      BY PackMoved
    <3> QED
      BY <3>1 DEF InSamePack, InNextPack
  <2> QED
    BY <2>1 DEF HeldAreGivenOut
<1>4. (\A i \in 1 .. Len(taken) : GivenOut(taken[i]))'
  BY <1>1 DEF HeldAreGivenOut
<1> QED
  BY <1>2, <1>3, <1>4 DEF HeldAreGivenOut

-----------------------------------------------------------------------------
\* The ids a node offers its groups: those of its deck, then new ones.

LEMMA OfferedIds ==
    ASSUME TypeOK, NEW n \in Node
    PROVE  /\ Offered(n) \in Seq(Nat)
           /\ \A i \in 1 .. Len(Offered(n)) :
                 \/ i \in 1 .. Len(deck[n]) /\ Offered(n)[i] = deck[n][i]
                 \/ /\ isProvider[n] /\ i - Len(deck[n]) \in 1 .. pending[n]
                    /\ Offered(n)[i] = IdsFrom(n, pending[n])[i - Len(deck[n])]
<1> DEFINE s == deck[n]
           f == IdsFrom(n, pending[n])
<1>1. pending[n] \in Nat
  BY DEF TypeOK
<1>2. s \in Seq(Nat) /\ f \in Seq(Nat) /\ Len(f) = pending[n]
  BY <1>1, NewIds DEF TypeOK
<1>3. Offered(n) = IF isProvider[n] THEN s \o f ELSE s
  BY DEF Offered
<1> HIDE DEF s, f
<1>4. Offered(n) \in Seq(Nat)
  BY <1>2, <1>3
<1>5. ASSUME NEW i \in 1 .. Len(Offered(n))
      PROVE  \/ i \in 1 .. Len(s) /\ Offered(n)[i] = s[i]
             \/ isProvider[n] /\ i - Len(s) \in 1 .. pending[n] /\ Offered(n)[i] = f[i - Len(s)]
  <2>1. CASE isProvider[n]
    <3>1. Offered(n) = s \o f
      BY <1>3, <2>1
    <3> QED
      BY <1>2, <2>1, <3>1
  <2>2. CASE ~isProvider[n]
    BY <1>3, <2>2
  <2> QED
    BY <2>1, <2>2
<1> QED
  BY <1>4, <1>5 DEF s, f

\* They are where they are only, or new.
NotInPacks(x, p, q) ==
    \A j \in 1 .. Len(packs[p][q]) : \A k \in 1 .. IdsPerPack : x # packs[p][q][j][k]
IsApart(x) ==
    /\ \A p, q \in Node : NotInPacks(x, p, q)
    /\ \A j \in 1 .. Len(taken) : x # taken[j]

LEMMA OfferedAreApart ==
    ASSUME TypeOK, SingleProvider, HeldAreGivenOut, PlacesDiffer, NEW n \in Node
    PROVE  /\ \A i \in 1 .. Len(Offered(n)) : IsApart(Offered(n)[i])
           /\ \A i \in 1 .. Len(Offered(n)) : \A m \in Node \ {n} :
                 \A j \in 1 .. Len(deck[m]) : Offered(n)[i] # deck[m][j]
           /\ \A i, j \in 1 .. Len(Offered(n)) : Offered(n)[i] = Offered(n)[j] => i = j
<1> DEFINE Old(i) == i \in 1 .. Len(deck[n]) /\ Offered(n)[i] = deck[n][i]
           New(i) == /\ isProvider[n] /\ i - Len(deck[n]) \in 1 .. pending[n]
                     /\ Offered(n)[i] = IdsFrom(n, pending[n])[i - Len(deck[n])]
<1>1. pending[n] \in Nat /\ Len(deck[n]) \in Nat
  BY DEF TypeOK
<1>2. \A i \in 1 .. Len(Offered(n)) : Old(i) \/ New(i)
  BY OfferedIds
<1>3. \A i \in 1 .. Len(Offered(n)) : New(i) => ~GivenOut(Offered(n)[i])
  BY <1>1, NewIdsAreNew
<1>4. ASSUME NEW i \in 1 .. Len(Offered(n)), New(i) PROVE IsApart(Offered(n)[i])
  BY <1>3, <1>4 DEF IsApart, NotInPacks, HeldAreGivenOut
<1>5. ASSUME NEW i \in 1 .. Len(Offered(n)), Old(i) PROVE IsApart(Offered(n)[i])
  <2>1. \A p, q \in Node : DeckFromPacks(n, p, q)
    BY DEF PlacesDiffer, DecksFromPacks
  <2>2. \A p, q \in Node : \A j \in 1 .. Len(packs[p][q]) : \A k \in 1 .. IdsPerPack :
            deck[n][i] # packs[p][q][j][k]
    BY <1>5, <2>1 DEF DeckFromPacks
  <2>3. \A j \in 1 .. Len(taken) : deck[n][i] # taken[j]
    BY <1>5 DEF PlacesDiffer, DecksFromTaken
  <2> QED
    BY <1>5, <2>2, <2>3 DEF IsApart, NotInPacks
<1>6. ASSUME NEW i \in 1 .. Len(Offered(n)), NEW m \in Node \ {n}, NEW j \in 1 .. Len(deck[m])
      PROVE  Offered(n)[i] # deck[m][j]
  <2>1. Old(i) => Offered(n)[i] # deck[m][j]
    BY DEF PlacesDiffer, DecksDiffer
  <2>2. New(i) => Offered(n)[i] # deck[m][j]
    BY <1>3 DEF HeldAreGivenOut
  <2> QED
    BY <1>2, <2>1, <2>2
<1>7. ASSUME NEW i \in 1 .. Len(Offered(n)), NEW j \in 1 .. Len(Offered(n)),
             Offered(n)[i] = Offered(n)[j]
      PROVE  i = j
  <2>1. ASSUME Old(i), Old(j) PROVE i = j
    <3>1. deck[n][i] = deck[n][j] /\ i \in 1 .. Len(deck[n]) /\ j \in 1 .. Len(deck[n])
      BY <1>7, <2>1
    <3>2. DecksDiffer
      BY DEF PlacesDiffer
    <3> QED
      BY <3>1, <3>2, Zenon DEF DecksDiffer
  <2>2. ASSUME New(i), New(j) PROVE i = j
    <3>1. \A a, b \in 1 .. pending[n] :
              IdsFrom(n, pending[n])[a] = IdsFrom(n, pending[n])[b] => a = b
      BY <1>1, NewIds
    <3>2. i - Len(deck[n]) = j - Len(deck[n])
      BY <1>7, <2>2, <3>1
    <3> QED
      BY <1>1, <3>2
  <2>3. \A a \in 1 .. Len(Offered(n)) : Old(a) => GivenOut(Offered(n)[a])
    BY DEF HeldAreGivenOut
  <2> QED
    BY <1>2, <1>3, <1>7, <2>1, <2>2, <2>3
<1> QED
  BY <1>2, <1>4, <1>5, <1>6, <1>7

\* What resolvePendingGroups does to the ids: it moves the first of those
\* offered to a group, or none.
Resolves(n, d) ==
    /\ DOMAIN deck' = Node /\ deck'[n] \in Seq(Nat)
    /\ \A m \in Node \ {n} : deck'[m] = deck[m]
    /\ \A i \in 1 .. Len(deck'[n]) :
          i + d \in 1 .. Len(Offered(n)) /\ deck'[n][i] = Offered(n)[i + d]
    /\ \/ d = 0 /\ taken' = taken
       \/ d = 1 /\ Offered(n) # <<>> /\ taken' = Append(taken, Offered(n)[1])

LEMMA ResolveMoves ==
    ASSUME TypeOK, NEW n \in Node, ResolvePendingGroups(n)
    PROVE  Resolves(n, 0) \/ Resolves(n, 1)
<1> DEFINE s == Offered(n)
<1>1. DOMAIN deck = Node /\ s \in Seq(Nat)
  <2>1. DOMAIN deck = Node
    BY DEF TypeOK
  <2>2. s \in Seq(Nat)
    BY OfferedIds
  <2> QED
    BY <2>1, <2>2
<1>2. CASE /\ s # <<>> /\ taken' = Append(taken, Head(s))
           /\ deck' = [deck EXCEPT ![n] = Tail(s)]
  <2>1. DOMAIN deck' = Node /\ deck'[n] = Tail(s) /\ \A m \in Node \ {n} : deck'[m] = deck[m]
    BY <1>1, <1>2
  <2>2. /\ Tail(s) \in Seq(Nat) /\ Head(s) = s[1]
        /\ \A i \in 1 .. Len(Tail(s)) : i + 1 \in 1 .. Len(s) /\ Tail(s)[i] = s[i + 1]
    <3> HIDE DEF s
    <3> QED
      BY <1>1, <1>2
  <2> QED
    BY <1>2, <2>1, <2>2 DEF Resolves
<1>3. CASE deck' = [deck EXCEPT ![n] = s] /\ taken' = taken
  <2>1. DOMAIN deck' = Node /\ deck'[n] = s /\ \A m \in Node \ {n} : deck'[m] = deck[m]
    BY <1>1, <1>3
  <2>2. \A i \in 1 .. Len(s) : i + 0 \in 1 .. Len(s) /\ s[i] = s[i + 0]
    OBVIOUS
  <2> QED
    BY <1>1, <1>3, <2>1, <2>2 DEF Resolves
<1> QED
  BY <1>2, <1>3 DEF ResolvePendingGroups

LEMMA PlacesDifferResolve ==
    ASSUME TypeOK, SingleProvider, HeldAreGivenOut, PlacesDiffer, UNCHANGED packs,
           NEW n \in Node, NEW d \in {0, 1}, Resolves(n, d)
    PROVE  PlacesDiffer'
<1>1. /\ \A i \in 1 .. Len(deck'[n]) : /\ i + d \in 1 .. Len(Offered(n))
                                       /\ deck'[n][i] = Offered(n)[i + d]
      /\ \A m \in Node \ {n} : deck'[m] = deck[m]
  BY DEF Resolves
<1>2. taken \in Seq(Nat) /\ Offered(n) \in Seq(Nat)
  BY OfferedIds DEF TypeOK
<1>3. \A j \in 1 .. Len(taken') :
          \/ j \in 1 .. Len(taken) /\ taken'[j] = taken[j]
          \/ /\ j = Len(taken) + 1 /\ d = 1 /\ 1 \in 1 .. Len(Offered(n))
             /\ taken'[j] = Offered(n)[1]
  <2>1. CASE taken' = taken
    BY <2>1
  <2>2. CASE d = 1 /\ Offered(n) # <<>> /\ taken' = Append(taken, Offered(n)[1])
    <3>1. 1 \in 1 .. Len(Offered(n))
      BY <1>2, <2>2
    <3>2. \A x : \A j \in 1 .. Len(Append(taken, x)) :
              \/ j \in 1 .. Len(taken) /\ Append(taken, x)[j] = taken[j]
              \/ j = Len(taken) + 1 /\ Append(taken, x)[j] = x
      BY <1>2
    <3> QED
      BY <2>2, <3>1, <3>2
  <2> QED
    BY <2>1, <2>2 DEF Resolves
<1>4. \A i \in 1 .. Len(Offered(n)) : IsApart(Offered(n)[i])
  BY OfferedAreApart
<1>5. \A i \in 1 .. Len(Offered(n)) : \A m \in Node \ {n} :
          \A j \in 1 .. Len(deck[m]) : Offered(n)[i] # deck[m][j]
  BY OfferedAreApart
<1>6. \A i, j \in 1 .. Len(Offered(n)) : Offered(n)[i] = Offered(n)[j] => i = j
  BY OfferedAreApart
<1>7. DecksDiffer'
  <2> SUFFICES ASSUME NEW m \in Node, NEW p \in Node,
                      NEW i \in 1 .. Len(deck'[m]), NEW j \in 1 .. Len(deck'[p]),
                      deck'[m][i] = deck'[p][j]
               PROVE  m = p /\ i = j
    BY DEF DecksDiffer
  <2>1. CASE m = n /\ p = n
    <3>1. i + d = j + d
      BY <1>1, <1>6, <2>1
    <3> QED
      BY <2>1, <3>1
  <2>2. CASE m = n /\ p # n
    BY <1>1, <1>5, <2>2
  <2>3. CASE m # n /\ p = n
    BY <1>1, <1>5, <2>3
  <2>4. CASE m # n /\ p # n
    BY <1>1, <2>4 DEF PlacesDiffer, DecksDiffer
  <2> QED
    BY <2>1, <2>2, <2>3, <2>4
<1>8. PacksDiffer'
  <2>1. \A p, q, r, s \in Node : PacksDifferBetween(p, q, r, s)
    BY DEF PlacesDiffer, PacksDiffer
  <2>2. \A p, q, r, s : PacksDifferBetween(p, q, r, s)' <=> PacksDifferBetween(p, q, r, s)
    BY DEF PacksDifferBetween, PackDiffers
  <2> QED
    BY <2>1, <2>2 DEF PacksDiffer
<1>9. TakenDiffer'
  <2> SUFFICES ASSUME NEW i \in 1 .. Len(taken'), NEW j \in 1 .. Len(taken'), taken'[i] = taken'[j]
               PROVE  i = j
    BY DEF TakenDiffer
  <2>1. i \in 1 .. Len(taken) /\ j \in 1 .. Len(taken) /\ taken[i] = taken[j] => i = j
    BY DEF PlacesDiffer, TakenDiffer
  <2> QED
    BY <1>3, <1>4, <2>1 DEF IsApart
<1>10. DecksFromPacks'
  <2> SUFFICES ASSUME NEW m \in Node, NEW p \in Node, NEW q \in Node,
                      NEW i \in 1 .. Len(deck'[m]), NEW j \in 1 .. Len(packs[p][q]),
                      NEW k \in 1 .. IdsPerPack
               PROVE  deck'[m][i] # packs[p][q][j][k]
    BY DEF DecksFromPacks, DeckFromPacks
  <2>1. CASE m = n
    <3>1. NotInPacks(deck'[m][i], p, q)
      BY <1>1, <1>4, <2>1 DEF IsApart
    <3> QED
      BY <3>1 DEF NotInPacks
  <2>2. CASE m # n
    <3>1. DeckFromPacks(m, p, q)
      BY DEF PlacesDiffer, DecksFromPacks
    <3>2. i \in 1 .. Len(deck[m]) /\ deck'[m][i] = deck[m][i]
      BY <1>1, <2>2
    <3> QED
      BY <3>1, <3>2 DEF DeckFromPacks
  <2> QED
    BY <2>1, <2>2
<1>11. DecksFromTaken'
  <2> SUFFICES ASSUME NEW m \in Node, NEW i \in 1 .. Len(deck'[m]), NEW j \in 1 .. Len(taken')
               PROVE  deck'[m][i] # taken'[j]
    BY DEF DecksFromTaken
  <2>1. CASE j \in 1 .. Len(taken) /\ taken'[j] = taken[j]
    <3>1. CASE m = n
      BY <1>1, <1>4, <2>1, <3>1 DEF IsApart
    <3>2. CASE m # n
      BY <1>1, <2>1, <3>2 DEF PlacesDiffer, DecksFromTaken
    <3> QED
      BY <3>1, <3>2
  <2>2. CASE d = 1 /\ 1 \in 1 .. Len(Offered(n)) /\ taken'[j] = Offered(n)[1]
    <3>1. CASE m = n
      <4>1. i + 1 \in 1 .. Len(Offered(n)) /\ deck'[n][i] = Offered(n)[i + 1] /\ i + 1 # 1
        BY <1>1, <2>2, <3>1
      <4> QED
        BY <1>6, <2>2, <3>1, <4>1
    <3>2. CASE m # n
      BY <1>1, <1>5, <2>2, <3>2
    <3> QED
      BY <3>1, <3>2
  <2> QED
    BY <1>3, <2>1, <2>2
<1>12. PacksFromTaken'
  <2> SUFFICES ASSUME NEW p \in Node, NEW q \in Node,
                      NEW i \in 1 .. Len(packs[p][q]), NEW j \in 1 .. Len(taken'),
                      NEW k \in 1 .. IdsPerPack
               PROVE  packs[p][q][i][k] # taken'[j]
    BY DEF PacksFromTaken
  <2>1. j \in 1 .. Len(taken) => packs[p][q][i][k] # taken[j]
    BY DEF PlacesDiffer, PacksFromTaken
  <2>2. 1 \in 1 .. Len(Offered(n)) => NotInPacks(Offered(n)[1], p, q)
    BY <1>4 DEF IsApart
  <2> QED
    BY <1>3, <2>1, <2>2 DEF NotInPacks
<1> QED
  BY <1>7, <1>8, <1>9, <1>10, <1>11, <1>12 DEF PlacesDiffer

LEMMA GivenOutResolve ==
    ASSUME TypeOK, TypeOK', PacksAreWhole, HeldAreGivenOut, UNCHANGED <<packs, isProvider>>,
           NEW n \in Node, NEW d \in {0, 1}, Resolves(n, d),
           counter' = [counter EXCEPT ![n] = IF isProvider[n] THEN @ + pending[n] ELSE @]
    PROVE  HeldAreGivenOut'
<1>1. pending[n] \in Nat /\ taken \in Seq(Nat)
  BY DEF TypeOK
<1>2. \A m \in Node : counter[m] \in Nat /\ counter'[m] >= counter[m]
  <2>1. counter \in [Node -> Nat]
    BY DEF TypeOK
  <2>2. \A m \in Node :
            counter'[m] = IF m = n /\ isProvider[n] THEN counter[m] + pending[n] ELSE counter[m]
    BY <2>1
  <2> QED
    BY <1>1, <2>1, <2>2
<1>3. isProvider[n] => counter'[n] = counter[n] + pending[n]
  BY DEF TypeOK
<1>4. \A x \in Nat : GivenOut(x) => GivenOut(x)'
  <2>1. GoOn
    BY <1>2 DEF GoOn
  <2> QED
    BY <2>1, StaysGivenOut
<1>5. isProvider[n] => \A k \in 1 .. pending[n] : \A x : x = IdsFrom(n, pending[n])[k] => GivenOut(x)'
  BY <1>1, <1>3, PassedIsGivenOut
<1>6. \A i \in 1 .. Len(Offered(n)) : \A x : x = Offered(n)[i] => GivenOut(x)'
  <2> SUFFICES ASSUME NEW i \in 1 .. Len(Offered(n)), NEW x, x = Offered(n)[i]
               PROVE  GivenOut(x)'
    OBVIOUS
  <2>1. CASE i \in 1 .. Len(deck[n]) /\ Offered(n)[i] = deck[n][i]
    BY <1>4, <2>1, HeldAreIds DEF HeldAreGivenOut
  <2>2. CASE /\ isProvider[n] /\ i - Len(deck[n]) \in 1 .. pending[n]
             /\ Offered(n)[i] = IdsFrom(n, pending[n])[i - Len(deck[n])]
    BY <1>5, <2>2
  <2> QED
    BY <2>1, <2>2, OfferedIds
<1>7. \A m \in Node : (\A i \in 1 .. Len(deck[m]) : GivenOut(deck[m][i]))'
  <2> SUFFICES ASSUME NEW m \in Node, NEW i \in 1 .. Len(deck'[m]), NEW x, x = deck'[m][i]
               PROVE  GivenOut(x)'
    OBVIOUS
  <2>1. CASE m = n
    BY <1>6, <2>1 DEF Resolves
  <2>2. CASE m # n
    <3>1. deck'[m] = deck[m]
      BY <2>2 DEF Resolves
    <3> QED
      BY <1>4, <3>1, HeldAreIds DEF HeldAreGivenOut
  <2> QED
    BY <2>1, <2>2
<1>8. \A p, q \in Node : (\A i \in 1 .. Len(packs[p][q]) : \A k \in 1 .. IdsPerPack :
          GivenOut(packs[p][q][i][k]))'
  BY <1>4, HeldAreIds DEF HeldAreGivenOut
<1>9. (\A i \in 1 .. Len(taken) : GivenOut(taken[i]))'
  <2> SUFFICES ASSUME NEW i \in 1 .. Len(taken'), NEW x, x = taken'[i]
               PROVE  GivenOut(x)'
    OBVIOUS
  <2>1. CASE i \in 1 .. Len(taken) /\ taken'[i] = taken[i]
    BY <1>4, <2>1, HeldAreIds DEF HeldAreGivenOut
  <2>2. CASE Offered(n) # <<>> /\ taken'[i] = Offered(n)[1]
    <3>1. Offered(n) \in Seq(Nat)
      BY OfferedIds
    <3>2. 1 \in 1 .. Len(Offered(n))
      BY <2>2, <3>1
    <3>3. x = Offered(n)[1]
      BY <2>2
    <3> QED
      BY <1>6, <3>2, <3>3
  <2>3. CASE taken' = taken
    BY <2>1, <2>3
  <2>4. CASE Offered(n) # <<>> /\ taken' = Append(taken, Offered(n)[1])
    <3>1. \/ i \in 1 .. Len(taken) /\ taken'[i] = taken[i]
          \/ taken'[i] = Offered(n)[1]
      BY <1>1, <2>4
    <3> QED
      BY <2>1, <2>2, <2>4, <3>1
  <2> QED
    BY <2>3, <2>4 DEF Resolves
<1> QED
  BY <1>7, <1>8, <1>9 DEF HeldAreGivenOut

-----------------------------------------------------------------------------
\* Types.

LEMMA TypeResolve ==
    ASSUME TypeOK, NEW n \in Node, ResolvePendingGroups(n)
    PROVE  /\ counter' \in [Node -> Nat] /\ pending' \in [Node -> Nat]
           /\ running' \in [Node -> BOOLEAN] /\ taken' \in Seq(Nat)
           /\ DOMAIN deck' = Node /\ \A m \in Node : deck'[m] \in Seq(Nat)
<1>1. /\ counter \in [Node -> Nat] /\ pending \in [Node -> Nat]
      /\ running \in [Node -> BOOLEAN] /\ taken \in Seq(Nat)
      /\ \A m \in Node : deck[m] \in Seq(Nat)
  BY DEF TypeOK
<1>2. counter' \in [Node -> Nat]
  BY <1>1 DEF ResolvePendingGroups
<1>3. pending' \in [Node -> Nat] /\ running' \in [Node -> BOOLEAN]
  <2>1. CASE pending' = pending /\ running' = running
    BY <1>1, <2>1
  <2>2. CASE /\ pending[n] > 0 /\ pending' = [pending EXCEPT ![n] = @ - 1]
             /\ running' = [running EXCEPT ![n] = FALSE]
    <3>1. pending[n] - 1 \in Nat
      BY <1>1, <2>2
    <3> QED
      BY <1>1, <2>2, <3>1
  <2> QED
    BY <2>1, <2>2 DEF ResolvePendingGroups
<1>4. PICK d \in {0, 1} : Resolves(n, d)
  BY ResolveMoves
<1>5. Offered(n) # <<>> => Offered(n)[1] \in Nat
  BY OfferedIds
<1>6. taken' \in Seq(Nat)
  <2>1. CASE taken' = taken
    BY <1>1, <2>1
  <2>2. CASE Offered(n) # <<>> /\ taken' = Append(taken, Offered(n)[1])
    BY <1>1, <1>5, <2>2
  <2> QED
    BY <1>4, <2>1, <2>2 DEF Resolves
<1>7. DOMAIN deck' = Node /\ \A m \in Node : deck'[m] \in Seq(Nat)
  BY <1>1, <1>4 DEF Resolves
<1> QED
  BY <1>2, <1>3, <1>6, <1>7

LEMMA TypeWithoutLinks ==
    ASSUME TypeOK, PacksAreWhole, NEW lost, WithoutLinks(lost)
    PROVE  /\ connected' \subseteq {{n, m} : n, m \in Node}
           /\ requests' \in [Node -> [Node -> 0 .. MaxInFlight]]
           /\ PacksAreWhole' /\ breaks' \in 0 .. MaxBreaks
           /\ \A n, m \in Node : packs'[n][m] = packs[n][m] \/ packs'[n][m] = <<>>
<1>1. /\ requests \in [Node -> [Node -> 0 .. MaxInFlight]] /\ breaks \in 0 .. MaxBreaks
      /\ packs \in [Node -> [Node -> Seq(Pack)]] /\ connected \subseteq {{n, m} : n, m \in Node}
  BY DEF TypeOK, PacksAreWhole
<1>2. 0 \in 0 .. MaxInFlight /\ MaxBreaks \in Nat
  BY GroupIdsAssumption
<1>3. connected' \subseteq {{n, m} : n, m \in Node}
  BY <1>1 DEF WithoutLinks
<1>4. requests' \in [Node -> [Node -> 0 .. MaxInFlight]]
  BY <1>1, <1>2 DEF WithoutLinks
<1>5. <<>> \in Seq(Pack)
  OBVIOUS
<1>6. PacksAreWhole'
  BY <1>1, <1>5 DEF WithoutLinks, PacksAreWhole
<1>7. breaks' \in 0 .. MaxBreaks
  BY <1>1, <1>2 DEF WithoutLinks
<1>8. \A n, m \in Node : packs'[n][m] = packs[n][m] \/ packs'[n][m] = <<>>
  BY DEF WithoutLinks
<1> QED
  BY <1>3, <1>4, <1>6, <1>7, <1>8

\* What TypeOK says of packs follows from that they are whole.
LEMMA WholePacksHaveType == ASSUME NEW s \in Seq(Pack) PROVE s \in Seq(Seq(Nat))
<1>1. Pack \subseteq Seq(Nat)
  <2> SUFFICES ASSUME NEW f \in [1 .. IdsPerPack -> Nat] PROVE f \in Seq(Nat)
    BY DEF Pack
  <2>1. IdsPerPack \in Nat
    BY GroupIdsAssumption
  <2> QED
    BY <2>1
<1> QED
  BY <1>1

-----------------------------------------------------------------------------
\* Every step keeps the invariant.

LEMMA TypeParts ==
    ASSUME IInv
    PROVE  LinksType /\ RequestsType /\ NodesType /\ PlacesType
BY DEF IInv, TypeOK, LinksType, RequestsType, NodesType, PlacesType

LEMMA WholeType ==
    ASSUME LinksType', RequestsType', NodesType', PlacesType', PacksAreWhole'
    PROVE  TypeOK'
<1>1. \A n, m \in Node : packs'[n][m] \in Seq(Seq(Nat))
  BY WholePacksHaveType DEF PacksAreWhole
<1> QED
  BY <1>1 DEF TypeOK, LinksType, RequestsType, NodesType, PlacesType

\* A step that takes ids away, or leaves them where they are.
LEMMA FewerIInv ==
    ASSUME IInv, LinksType', RequestsType', NodesType', PlacesType', PacksAreWhole',
           UNCHANGED taken,
           \A n \in Node : deck'[n] = deck[n] \/ deck'[n] = <<>>,
           \A n, m \in Node : packs'[n][m] = packs[n][m] \/ packs'[n][m] = <<>>,
           SingleProvider' =>
               /\ SingleProvider
               /\ \A p \in Node : isProvider[p] => isProvider'[p] /\ counter'[p] = counter[p]
    PROVE  IInv'
<1>1. TypeOK'
  BY WholeType
<1>2. SingleProvider' => GoOn
  BY TypeParts DEF NodesType, GoOn
<1>3. SingleProvider' => HeldAreGivenOut'
  BY <1>1, <1>2, FewerGivenOut DEF IInv
<1>4. SingleProvider' => PlacesDiffer'
  BY FewerPlaces DEF IInv
<1> QED
  BY <1>1, <1>3, <1>4 DEF IInv

LEMMA CreateGroupIInv == ASSUME IInv, NEW n \in Node, CreateGroup(n) PROVE IInv'
<1>1. LinksType' /\ RequestsType' /\ PlacesType' /\ PacksAreWhole'
  BY TypeParts DEF IInv, CreateGroup, LinksType, RequestsType, PlacesType, PacksAreWhole
<1>2. NodesType'
  BY TypeParts DEF CreateGroup, NodesType
<1> QED
  BY <1>1, <1>2, FewerIInv DEF CreateGroup, SingleProvider

LEMMA ConnectIInv == ASSUME IInv, NEW n \in Node, NEW m \in Node, Connect(n, m) PROVE IInv'
<1>1. LinksType'
  BY TypeParts DEF Connect, LinksType
<1>2. RequestsType' /\ NodesType' /\ PlacesType' /\ PacksAreWhole'
  BY TypeParts DEF IInv, Connect, RequestsType, NodesType, PlacesType, PacksAreWhole
<1> QED
  BY <1>1, <1>2, FewerIInv DEF Connect, SingleProvider

LEMMA ListenIInv == ASSUME IInv, NEW n \in Node, Listen(n) PROVE IInv'
<1>1. LinksType' /\ RequestsType' /\ PlacesType' /\ PacksAreWhole'
  BY TypeParts DEF IInv, Listen, LinksType, RequestsType, PlacesType, PacksAreWhole
<1>2. NodesType'
  BY TypeParts DEF Listen, NodesType
<1>3. UNCHANGED <<counter, providerReset>> /\ \A p \in Node : isProvider[p] => isProvider'[p]
  BY TypeParts DEF Listen, NodesType
<1>4. SingleProvider' => SingleProvider
  BY <1>3 DEF SingleProvider
<1> QED
  BY <1>1, <1>2, <1>3, <1>4, FewerIInv DEF Listen

LEMMA LoseConnectionIInv == ASSUME IInv, NEW c \in connected, LoseConnection(c) PROVE IInv'
<1>1. /\ LinksType' /\ RequestsType' /\ PacksAreWhole'
      /\ \A n, m \in Node : packs'[n][m] = packs[n][m] \/ packs'[n][m] = <<>>
  BY TypeWithoutLinks DEF IInv, LoseConnection, LinksType, RequestsType
<1>2. NodesType' /\ PlacesType'
  BY TypeParts DEF LoseConnection, NodesType, PlacesType
<1> QED
  BY <1>1, <1>2, FewerIInv DEF LoseConnection, SingleProvider

LEMMA DisconnectIInv == ASSUME IInv, NEW n \in Node, Disconnect(n) PROVE IInv'
<1>1. /\ LinksType' /\ RequestsType' /\ PacksAreWhole'
      /\ \A p, m \in Node : packs'[p][m] = packs[p][m] \/ packs'[p][m] = <<>>
  BY TypeWithoutLinks DEF IInv, Disconnect, LinksType, RequestsType
<1>2. NodesType'
  BY TypeParts DEF Disconnect, NodesType
<1>3. DOMAIN deck' = Node /\ \A m \in Node : deck'[m] = deck[m] \/ deck'[m] = <<>>
  BY TypeParts DEF Disconnect, PlacesType
<1>4. PlacesType'
  BY <1>3, TypeParts DEF Disconnect, PlacesType
<1>5. SingleProvider' => SingleProvider /\ ~isProvider[n]
  BY TypeParts DEF Disconnect, NodesType, SingleProvider
<1>6. \A p \in Node : p # n => counter'[p] = counter[p] /\ isProvider' = isProvider
  BY TypeParts DEF Disconnect, NodesType
<1> QED
  BY <1>1, <1>2, <1>3, <1>4, <1>5, <1>6, FewerIInv DEF Disconnect

LEMMA RecvIdRequestIInv ==
    ASSUME IInv, NEW n \in Node, NEW asker \in Node, RecvIdRequest(n, asker)
    PROVE  IInv'
<1>1. RequestsType'
  <2>1. requests \in [Node -> [Node -> 0 .. MaxInFlight]] /\ MaxInFlight \in Nat
    BY GroupIdsAssumption, TypeParts DEF RequestsType
  <2>2. requests[asker][n] > 0 /\ requests[asker][n] \in 0 .. MaxInFlight
    BY <2>1 DEF RecvIdRequest
  <2>3. requests[asker][n] - 1 \in 0 .. MaxInFlight
    BY <2>1, <2>2
  <2> QED
    BY <2>1, <2>3 DEF RecvIdRequest, RequestsType
<1>2. LinksType' /\ PlacesType'
  BY TypeParts DEF RecvIdRequest, LinksType, PlacesType
<1>3. CASE isProvider[n]
  <2>1. /\ packs' = [packs EXCEPT ![n][asker] = Append(@, IdsFrom(n, IdsPerPack))]
        /\ counter' = [counter EXCEPT ![n] = @ + IdsPerPack]
        /\ UNCHANGED <<deck, taken, isProvider, providerReset>>
    BY <1>3 DEF RecvIdRequest
  <2>2. PacksAreWhole'
    BY <2>1, PackAppended DEF IInv
  <2>3. NodesType'
    <3>1. IdsPerPack \in Nat
      BY GroupIdsAssumption
    <3>2. counter' \in [Node -> Nat]
      BY <2>1, <3>1, TypeParts DEF NodesType
    <3> QED
      BY <3>2, TypeParts DEF RecvIdRequest, NodesType
  <2>4. TypeOK'
    BY <1>1, <1>2, <2>2, <2>3, WholeType
  <2>5. ASSUME SingleProvider' PROVE HeldAreGivenOut' /\ PlacesDiffer'
    <3>1. SingleProvider
      BY <2>1, <2>5 DEF SingleProvider
    <3>2. HeldAreGivenOut'
      BY <1>3, <2>1, <2>4, <3>1, GivenOutIdsGiven DEF IInv
    <3>3. PlacesDiffer'
      BY <1>3, <2>1, <3>1, PlacesDifferIdsGiven DEF IInv
    <3> QED
      BY <3>2, <3>3
  <2> QED
    BY <2>2, <2>4, <2>5 DEF IInv
<1>4. CASE ~isProvider[n]
  <2>1. UNCHANGED <<packs, counter, deck, taken, isProvider, providerReset>>
    BY <1>4 DEF RecvIdRequest
  <2>2. PacksAreWhole' /\ NodesType'
    BY <2>1, TypeParts DEF RecvIdRequest, IInv, PacksAreWhole, NodesType
  <2> QED
    BY <1>1, <1>2, <2>1, <2>2, FewerIInv DEF SingleProvider
<1> QED
  BY <1>3, <1>4

LEMMA RecvIdProvideIInv ==
    ASSUME IInv, NEW n \in Node, NEW provider \in Node, RecvIdProvide(n, provider)
    PROVE  IInv'
<1>1. PackMoves(n, provider) /\ UNCHANGED <<taken, isProvider, providerReset, counter>>
  BY DEF RecvIdProvide, PackMoves
<1>2. /\ PacksAreWhole' /\ DOMAIN deck' = Node
      /\ \A m \in Node : deck'[m] \in Seq(Nat)
  BY <1>1, PackMoved DEF IInv
<1>3. LinksType' /\ RequestsType' /\ NodesType'
  <2>1. LinksType' /\ RequestsType'
    BY TypeParts DEF RecvIdProvide, LinksType, RequestsType
  <2>2. NodesType'
    BY TypeParts DEF RecvIdProvide, NodesType
  <2> QED
    BY <2>1, <2>2
<1>4. PlacesType'
  BY <1>1, <1>2, TypeParts DEF PlacesType
<1>5. TypeOK'
  BY <1>2, <1>3, <1>4, WholeType
<1>6. SingleProvider' => SingleProvider
  BY <1>1 DEF SingleProvider
<1>7. SingleProvider' => HeldAreGivenOut'
  BY <1>1, <1>6, GivenOutPackMoved DEF IInv
<1>8. SingleProvider' => PlacesDiffer'
  BY <1>1, <1>6, PlacesDifferPackMoved DEF IInv
<1> QED
  BY <1>2, <1>5, <1>7, <1>8 DEF IInv

\* An update, whatever is sent.
LEMMA UpdateIInv ==
    ASSUME IInv, NEW n \in Node, ResolvePendingGroups(n), RequestsType',
           UNCHANGED <<connected, listen, isProvider, packs, groups, providerReset, breaks>>
    PROVE  IInv'
<1>1. /\ counter' \in [Node -> Nat] /\ pending' \in [Node -> Nat]
      /\ running' \in [Node -> BOOLEAN] /\ taken' \in Seq(Nat)
      /\ DOMAIN deck' = Node /\ \A m \in Node : deck'[m] \in Seq(Nat)
  BY TypeResolve DEF IInv
<1>2. LinksType' /\ PacksAreWhole'
  BY TypeParts DEF IInv, LinksType, PacksAreWhole
<1>3. NodesType' /\ PlacesType'
  BY <1>1, TypeParts DEF NodesType, PlacesType
<1>4. TypeOK'
  BY <1>2, <1>3, WholeType
<1>5. PICK d \in {0, 1} : Resolves(n, d)
  BY ResolveMoves DEF IInv
<1>6. counter' = [counter EXCEPT ![n] = IF isProvider[n] THEN @ + pending[n] ELSE @]
  BY DEF ResolvePendingGroups
<1>7. SingleProvider' => SingleProvider
  BY DEF SingleProvider
<1>8. SingleProvider' => HeldAreGivenOut'
  BY <1>4, <1>5, <1>6, <1>7, GivenOutResolve DEF IInv
<1>9. SingleProvider' => PlacesDiffer'
  BY <1>5, <1>7, PlacesDifferResolve DEF IInv
<1> QED
  BY <1>2, <1>4, <1>8, <1>9 DEF IInv

LEMMA UpdateAskingIInv ==
    ASSUME IInv, NEW n \in Node, NEW arriving \in SUBSET Node, UpdateAsking(n, arriving)
    PROVE  IInv'
<1>1. requests \in [Node -> [Node -> 0 .. MaxInFlight]] /\ MaxInFlight \in Nat
  BY GroupIdsAssumption, TypeParts DEF RequestsType
<1>2. \A m \in arriving : requests[n][m] < MaxInFlight
  <2> SUFFICES ASSUME NEW m \in arriving PROVE requests[n][m] < MaxInFlight
    OBVIOUS
  <2>1. requests[n][m] + Len(packs[m][n]) < MaxInFlight
    BY DEF UpdateAsking, IntervalSendIdRequest
  <2>2. Len(packs[m][n]) \in Nat /\ requests[n][m] \in Nat
    BY <1>1 DEF IInv, PacksAreWhole
  <2> QED
    BY <1>1, <2>1, <2>2
<1>3. requests' = [requests EXCEPT ![n] = [m \in Node |-> IF m \in arriving THEN @[m] + 1 ELSE @[m]]]
  BY DEF UpdateAsking, IntervalSendIdRequest
<1>4. RequestsType'
  <2>1. [m \in Node |-> IF m \in arriving THEN requests[n][m] + 1 ELSE requests[n][m]]
            \in [Node -> 0 .. MaxInFlight]
    BY <1>1, <1>2
  <2> QED
    BY <1>1, <1>3, <2>1 DEF RequestsType
<1> QED
  BY <1>4, UpdateIInv DEF UpdateAsking

LEMMA StepIInv == ASSUME IInv, [Next]_vars PROVE IInv'
<1>1. ASSUME NEW n \in Node, CreateGroup(n) PROVE IInv'
  BY <1>1, CreateGroupIInv
<1>2. ASSUME NEW n \in Node, NEW arriving \in SUBSET Node, UpdateAsking(n, arriving) PROVE IInv'
  BY <1>2, UpdateAskingIInv
<1>3. ASSUME NEW n \in Node, UpdateOnly(n) PROVE IInv'
  <2>1. RequestsType'
    BY <1>3, TypeParts DEF RequestsType, UpdateOnly
  <2> QED
    BY <1>3, <2>1, UpdateIInv DEF UpdateOnly
<1>4. ASSUME NEW n \in Node, NEW asker \in Node, RecvIdRequest(n, asker) PROVE IInv'
  BY <1>4, RecvIdRequestIInv
<1>5. ASSUME NEW n \in Node, NEW provider \in Node, RecvIdProvide(n, provider) PROVE IInv'
  BY <1>5, RecvIdProvideIInv
<1>6. ASSUME NEW n \in Node, NEW m \in Node, Connect(n, m) PROVE IInv'
  BY <1>6, ConnectIInv
<1>7. ASSUME NEW c \in connected, LoseConnection(c) PROVE IInv'
  BY <1>7, LoseConnectionIInv
<1>8. ASSUME NEW n \in Node, Disconnect(n) PROVE IInv'
  BY <1>8, DisconnectIInv
<1>9. ASSUME NEW n \in Node, Listen(n) PROVE IInv'
  BY <1>9, ListenIInv
<1>10. CASE UNCHANGED vars
  <2>1. LinksType' /\ RequestsType' /\ NodesType' /\ PlacesType' /\ PacksAreWhole'
    BY <1>10, TypeParts DEF vars, IInv, LinksType, RequestsType, NodesType, PlacesType, PacksAreWhole
  <2> QED
    BY <1>10, <2>1, FewerIInv DEF vars, SingleProvider
<1> QED
  BY <1>1, <1>2, <1>3, <1>4, <1>5, <1>6, <1>7, <1>8, <1>9, <1>10 DEF Next

-----------------------------------------------------------------------------
\* The inductive invariant holds in every reachable state.
THEOREM Invariance == Spec => []IInv
<1>1. Init => IInv
  BY Initially
<1>2. IInv /\ [Next]_vars => IInv'
  BY StepIInv
<1> QED
  BY <1>1, <1>2, PTL DEF Spec

\* Decks, packs and groups hold ids, counters stay natural numbers, and no more
\* requests are under way than the bound says.
THEOREM TypeCorrect == Spec => []TypeOK
<1>1. IInv => TypeOK
  BY DEF IInv
<1> QED
  BY <1>1, Invariance, PTL

\* While one node at most is an id provider and none was reset, no id is in two
\* decks, packs under way or groups (recvIdRequest, resolvePendingGroups),
\* however requests, packs, lost connections, resets of clients and a first
\* listen interleave.
THEOREM IdsAreUnique == Spec => []UniqueIds
<1>1. IInv => UniqueIds
  BY PlacesDifferUnique
<1> QED
  BY <1>1, Invariance, PTL
=============================================================================
