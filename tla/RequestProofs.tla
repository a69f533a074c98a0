---------------------------- MODULE RequestProofs ----------------------------
(***************************************************************************)
(* Proofs about three parts in which requests of users overlap.  Two tell  *)
(* other servers by jobs that are spawned after them: the likes of the     *)
(* items of sources (Sources) and the votes in polls (Polls).  The third   *)
(* answers a client that walks through a list in pages, whose rows others  *)
(* change between two of its requests (Listing).                           *)
(*                                                                         *)
(* The library's induction theorems take an operator; a least element of a *)
(* set of naturals (LeastNatural) is had from the one of well-founded      *)
(* relations that does not.                                                *)
(***************************************************************************)
EXTENDS Sources, Polls, Listing, FiniteSetTheorems, WellFoundedInduction, TLAPS

-----------------------------------------------------------------------------
(***************************************************************************)
(* Likes of items, and their undo rows.                                    *)
(***************************************************************************)
SourceRows == [kept : BOOLEAN, likes : BOOLEAN, inbox : BOOLEAN]
UndoRecords == [id : Nat, like : Nat, item : Pieces, user : Readers]
Errands == [is : {"like", "undo"}, id : Nat, user : Readers, via : Sources, item : Pieces]
Askings == {NoAsk} \cup [at : {"like"}, user : Readers, via : Sources, item : Pieces]
                   \cup [at : {"undo"}, user : Readers, via : Sources, item : Pieces, id : Nat]

SourcesTypes ==
  /\ source \in [Sources -> SourceRows] /\ placed \in [Pieces -> Sources \cup {Nowhere}]
  /\ fave \in [Pieces -> [Readers -> Nat]] /\ undoRows \subseteq UndoRecords
  /\ asking \in [Clients -> Askings] /\ errands \subseteq Errands /\ reported \subseteq Errands
  /\ wanted \subseteq Sources /\ fetches \subseteq Sources
  /\ strayed \subseteq Pieces /\ altered \subseteq Sources
  /\ sightings \in 0..MaxSightings /\ halted \in BOOLEAN

Undone == Cardinality(undoRows)
Issued == Cardinality(Likings) + Undone

\* Ids of likes and of undo rows are handed out one after the other, each once.
IdsOK ==
  /\ IsFiniteSet(Likings) /\ IsFiniteSet(undoRows) /\ Issued <= MaxFaves
  /\ \A i \in Pieces, u \in Readers : fave[i][u] <= Issued
  /\ \A r \in undoRows : /\ r.id \in 1..Undone /\ r.like \in 1..Issued
                         /\ fave[r.item][r.user] # r.like
  /\ \A q, r \in undoRows :
       q.id = r.id \/ (q.like = r.like /\ q.item = r.item /\ q.user = r.user) => q = r
  /\ given \subseteq 1..Undone

\* A like whose job was spawned is there, or an undo row names it.
Told == errands \cup reported
Likes == {e \in Told : e.is = "like"}
LikesOK == \A l \in Likes :
  l.id \in 1..Issued /\ (fave[l.item][l.user] = l.id \/ UndosOf(l) # {})

\* An undo that is under way is one of a row, and every row has its undo.
Undoes(c) == asking[c].at = "undo"
UndosOK ==
  /\ \A e \in Underway : \E r \in undoRows : r.id = e.id /\ r.item = e.item
  /\ \A c \in Clients : Undoes(c) =>
       \E r \in undoRows : r.id = asking[c].id /\ r.item = asking[c].item
  /\ \A r \in undoRows : \/ halted \/ r.id \in given
                         \/ \E e \in Underway : e.id = r.id
                         \/ \E c \in Clients : Undoes(c) /\ asking[c].id = r.id

\* What a request or a job has read of the item's place holds, or the item has strayed.
PlacesOK ==
  /\ \A e \in Told : placed[e.item] = e.via \/ e.item \in strayed
  /\ \A c \in Clients : asking[c] # NoAsk =>
       placed[asking[c].item] = asking[c].via \/ asking[c].item \in strayed

\* What was read of a source holds, or its row has changed.
Takes(s) == source[s].likes /\ source[s].inbox
OwnersOK ==
  /\ \A s \in Sources : Takes(s) => source[s].kept
  /\ \A l \in Likes : Takes(l.via) \/ l.via \in altered
  /\ \A c \in Clients : asking[c].at = "like" => Takes(asking[c].via) \/ asking[c].via \in altered

\* Nobody is told of an undo only when something has changed since the like.
GivenOK == \A l \in Likes : \A r \in UndosOf(l) :
  r.id \in given => l.item \in strayed \/ l.via \in altered

SourcesInv ==
  SourcesTypes /\ IdsOK /\ LikesOK /\ UndosOK /\ PlacesOK /\ OwnersOK /\ GivenOK

LEMMA SourcesBounds ==
  /\ MaxFaves \in Nat /\ MaxSightings \in Nat /\ Familiar \subseteq Sources /\ Nowhere \notin Sources
  /\ \A doc \in Documents : doc.likes \in BOOLEAN /\ doc.inbox \in BOOLEAN
BY SourcesAssumption DEF Nowhere

LEMMA SourcesInitInv == SourcesInit => SourcesInv
<1> SUFFICES ASSUME SourcesInit PROVE SourcesInv
  OBVIOUS
<1>1. Likings = {} /\ undoRows = {}
  BY DEF SourcesInit, Likings
<1>2. Cardinality({}) = 0 /\ IsFiniteSet({})
  BY FS_EmptySet
<1>3. Undone = 0 /\ Issued = 0 /\ IsFiniteSet(Likings) /\ IsFiniteSet(undoRows)
  BY <1>1, <1>2 DEF Undone, Issued
<1>4. SourcesTypes
  <2>1. source \in [Sources -> SourceRows]
    BY DEF SourcesInit, SourceRows
  <2>2. asking \in [Clients -> Askings]
    BY DEF SourcesInit, Askings
  <2>3. fave \in [Pieces -> [Readers -> Nat]]
    BY DEF SourcesInit
  <2>4. sightings \in 0..MaxSightings
    BY SourcesBounds DEF SourcesInit
  <2> QED
    BY <2>1, <2>2, <2>3, <2>4 DEF SourcesInit, SourcesTypes
<1>5. IdsOK
  BY <1>1, <1>3, SourcesBounds DEF SourcesInit, IdsOK
<1>6. LikesOK /\ GivenOK
  BY DEF SourcesInit, LikesOK, GivenOK, Likes, Told
<1>7. UndosOK
  BY DEF SourcesInit, UndosOK, Underway, Undoes, NoAsk
<1>8. PlacesOK
  BY DEF SourcesInit, PlacesOK, Told
<1>9. OwnersOK
  <2>1. \A c \in Clients : asking[c].at # "like"
    BY DEF SourcesInit, NoAsk
  <2>2. \A s \in Sources : source[s].likes => source[s].kept
    BY DEF SourcesInit
  <2> QED
    BY <2>1, <2>2 DEF SourcesInit, OwnersOK, Likes, Told, Takes
<1> QED
  BY <1>4, <1>5, <1>6, <1>7, <1>8, <1>9 DEF SourcesInv

\* Where nothing happens to likes, undo rows and the jobs and requests about them.
LEMMA LikesLeft ==
  ASSUME IdsOK, LikesOK, UndosOK,
         UNCHANGED <<fave, undoRows, asking, errands, reported, given, halted>>
  PROVE  IdsOK' /\ LikesOK' /\ UndosOK'
<1>1. Likings' = Likings /\ Issued' = Issued /\ Undone' = Undone
  BY DEF Likings, Issued, Undone
<1>2. IdsOK'
  BY <1>1 DEF IdsOK
<1>3. LikesOK'
  BY <1>1 DEF LikesOK, Likes, Told, UndosOf
<1>4. UndosOK'
  BY DEF UndosOK, Underway, Undoes
<1> QED
  BY <1>2, <1>3, <1>4

LEMMA IngestSourceKeeps ==
  ASSUME SourcesInv, NEW s \in Sources, NEW doc \in Documents, IngestSource(s, doc)
  PROVE  SourcesInv'
<1>1. UNCHANGED <<placed, fave, undoRows, asking, errands, fetches, reported, given, strayed, halted>>
  BY DEF IngestSource
<1>2. SourcesTypes /\ PlacesOK /\ OwnersOK /\ GivenOK
  BY DEF SourcesInv
<1> DEFINE seen == [kept |-> TRUE, likes |-> doc.likes, inbox |-> doc.inbox]
<1>3. /\ source' = [source EXCEPT ![s] = seen]
      /\ altered' = IF source[s].kept /\ source[s] # seen THEN altered \cup {s} ELSE altered
      /\ wanted' = IF doc.paged THEN wanted \cup {s} ELSE wanted
      /\ sightings < MaxSightings /\ sightings' = sightings + 1
  BY DEF IngestSource
<1>4. seen \in SourceRows /\ seen.kept = TRUE
  BY SourcesBounds DEF SourceRows
<1> HIDE DEF seen
<1>5. altered \subseteq altered' /\ altered' \subseteq Sources /\ wanted' \subseteq Sources
  BY <1>2, <1>3 DEF SourcesTypes
<1>6. SourcesTypes'
  <2>1. sightings' \in 0..MaxSightings
    BY <1>2, <1>3, SourcesBounds DEF SourcesTypes
  <2>2. source' \in [Sources -> SourceRows]
    BY <1>2, <1>3, <1>4 DEF SourcesTypes
  <2> QED
    BY <1>1, <1>2, <1>5, <2>1, <2>2 DEF SourcesTypes
<1>7. PlacesOK'
  BY <1>1, <1>2 DEF PlacesOK, Told
<1>8. ASSUME NEW t \in Sources PROVE Takes(t) => Takes(t)' \/ t \in altered'
  <2>1. CASE t # s
    BY <1>2, <1>3, <2>1 DEF SourcesTypes, Takes
  <2>2. CASE t = s
    <3>1. source'[s] = seen
      BY <1>2, <1>3 DEF SourcesTypes
    <3>2. CASE source[s] = seen
      BY <2>2, <3>1, <3>2 DEF Takes
    <3>3. CASE source[s] # seen
      BY <1>2, <1>3, <2>2, <3>3 DEF OwnersOK
    <3> QED
      BY <3>2, <3>3
  <2> QED
    BY <2>1, <2>2
<1>9. OwnersOK'
  <2>1. \A t \in Sources : Takes(t)' => source'[t].kept
    BY <1>2, <1>3, <1>4 DEF OwnersOK, Takes, SourcesTypes
  <2>2. \A l \in Likes : l.via \in Sources
    BY <1>2 DEF Likes, Told, SourcesTypes, Errands
  <2>3. \A c \in Clients : asking[c].at = "like" => asking[c].via \in Sources
    BY <1>2 DEF SourcesTypes, Askings, NoAsk
  <2>4. Likes' = Likes
    BY <1>1 DEF Likes, Told
  <2>5. \A l \in Likes : Takes(l.via)' \/ l.via \in altered'
    BY <1>2, <1>5, <1>8, <2>2 DEF OwnersOK
  <2>6. \A c \in Clients : asking[c].at = "like" => Takes(asking[c].via)' \/ asking[c].via \in altered'
    <3> SUFFICES ASSUME NEW c \in Clients, asking[c].at = "like"
                 PROVE  Takes(asking[c].via)' \/ asking[c].via \in altered'
      OBVIOUS
    <3>1. Takes(asking[c].via) \/ asking[c].via \in altered
      BY <1>2 DEF OwnersOK
    <3> QED
      BY <1>1, <1>5, <1>8, <2>3, <3>1
  <2> QED
    BY <1>1, <2>1, <2>4, <2>5, <2>6 DEF OwnersOK
<1>10. GivenOK'
  BY <1>1, <1>2, <1>5 DEF GivenOK, Likes, Told, UndosOf
<1> QED
  BY <1>1, <1>6, <1>7, <1>9, <1>10, LikesLeft DEF SourcesInv

LEMMA PlaceKeeps ==
  ASSUME SourcesInv, NEW s \in Sources, NEW seen \in SUBSET Pieces, Place(seen, s),
         UNCHANGED <<source, fave, undoRows, asking, errands, wanted, reported, given, altered,
                     sightings, halted>>, fetches' \subseteq fetches
  PROVE  SourcesInv'
<1>2. SourcesTypes /\ PlacesOK /\ OwnersOK /\ GivenOK
  BY DEF SourcesInv
<1>3. /\ placed' = [i \in Pieces |-> IF i \in seen THEN s ELSE placed[i]]
      /\ strayed' = strayed \cup {i \in seen : placed[i] \notin {s, Nowhere}}
  BY DEF Place
<1>4. SourcesTypes'
  BY <1>2, <1>3 DEF SourcesTypes
<1>5. ASSUME NEW i \in Pieces, NEW t \in Sources, placed[i] = t \/ i \in strayed
      PROVE  placed'[i] = t \/ i \in strayed'
  BY <1>3, <1>5, SourcesBounds
<1>6. PlacesOK'
  <2>1. \A e \in Told : e.item \in Pieces /\ e.via \in Sources
    BY <1>2 DEF SourcesTypes, Told, Errands
  <2>2. \A c \in Clients : asking[c] # NoAsk => asking[c].item \in Pieces /\ asking[c].via \in Sources
    BY <1>2 DEF SourcesTypes, Askings
  <2>3. Told' = Told
    BY DEF Told
  <2> QED
    BY <1>2, <1>5, <2>1, <2>2, <2>3 DEF PlacesOK
<1>7. OwnersOK'
  BY <1>2 DEF OwnersOK, Likes, Told, Takes
<1>8. GivenOK'
  BY <1>2, <1>3 DEF GivenOK, Likes, Told, UndosOf
<1> QED
  BY <1>4, <1>6, <1>7, <1>8, LikesLeft DEF SourcesInv

\* Requests come and go, but not those for an undo.
LEMMA UndosLeft ==
  ASSUME UndosOK, undoRows' = undoRows, halted' = halted, given' = given, Underway' = Underway,
         \A c \in Clients : /\ Undoes(c) => asking'[c] = asking[c]
                            /\ Undoes(c)' => asking'[c] = asking[c]
  PROVE  UndosOK'
<1>1. \A c \in Clients : Undoes(c)' => Undoes(c) /\ asking'[c] = asking[c]
  BY DEF Undoes
<1>2. \A c \in Clients : Undoes(c) => Undoes(c)' /\ asking'[c] = asking[c]
  BY DEF Undoes
<1>3. \A e \in Underway : \E r \in undoRows : r.id = e.id /\ r.item = e.item
  BY DEF UndosOK
<1>4. ASSUME NEW c \in Clients, Undoes(c)'
      PROVE  \E r \in undoRows : r.id = asking'[c].id /\ r.item = asking'[c].item
  BY <1>1, <1>4 DEF UndosOK
<1>5. ASSUME NEW r \in undoRows
      PROVE  \/ halted \/ r.id \in given
             \/ \E e \in Underway : e.id = r.id
             \/ \E c \in Clients : Undoes(c)' /\ asking'[c].id = r.id
  <2>1. CASE \E c \in Clients : Undoes(c) /\ asking[c].id = r.id
    BY <1>2, <2>1
  <2> QED
    BY <2>1 DEF UndosOK
<1> QED
  BY <1>3, <1>4, <1>5 DEF UndosOK

LEMMA AskLikeKeeps ==
  ASSUME SourcesInv, NEW c \in Clients, NEW u \in Readers, NEW s \in Sources, NEW i \in Pieces,
         AskLike(c, u, s, i)
  PROVE  SourcesInv'
<1>1. /\ asking[c] = NoAsk /\ placed[i] = s /\ Takes(s)
      /\ asking' = [asking EXCEPT ![c] = Asks(c, "like", u, s, i)]
      /\ UNCHANGED <<source, placed, fave, undoRows, errands, wanted, fetches, reported, given,
                     strayed, altered, sightings, halted>>
  BY DEF AskLike, Reachable, Takes
<1>2. SourcesTypes /\ IdsOK /\ LikesOK /\ UndosOK /\ PlacesOK /\ OwnersOK /\ GivenOK
  BY DEF SourcesInv
<1>3. Asks(c, "like", u, s, i) \in Askings
  BY DEF Asks, Askings
<1>4. /\ asking'[c] = [at |-> "like", user |-> u, via |-> s, item |-> i]
      /\ \A d \in Clients \ {c} : asking'[d] = asking[d]
  BY <1>1, <1>2 DEF SourcesTypes, Asks
<1>5. SourcesTypes'
  BY <1>1, <1>2, <1>3 DEF SourcesTypes
<1>6. IdsOK'
  BY <1>1, <1>2 DEF IdsOK, Likings, Issued, Undone
<1>7. LikesOK'
  BY <1>1, <1>2 DEF LikesOK, Likes, Told, UndosOf, Issued, Undone, Likings
<1>8. UndosOK'
  <2>1. \A d \in Clients : /\ Undoes(d) => asking'[d] = asking[d]
                           /\ Undoes(d)' => asking'[d] = asking[d]
    BY <1>1, <1>4 DEF Undoes, NoAsk
  <2> QED
    BY <1>1, <1>2, <2>1, UndosLeft DEF Underway
<1>9. PlacesOK'
  BY <1>1, <1>2, <1>4 DEF PlacesOK, Told
<1>10. OwnersOK'
  BY <1>1, <1>2, <1>4 DEF OwnersOK, Likes, Told, Takes
<1>11. GivenOK'
  BY <1>1, <1>2 DEF GivenOK, Likes, Told, UndosOf
<1> QED
  BY <1>5, <1>6, <1>7, <1>8, <1>9, <1>10, <1>11 DEF SourcesInv

LEMMA FaveChanged ==
  ASSUME fave \in [Pieces -> [Readers -> Nat]], NEW i \in Pieces, NEW u \in Readers, NEW n \in Nat,
         fave' = [fave EXCEPT ![i][u] = n]
  PROVE  /\ fave' \in [Pieces -> [Readers -> Nat]] /\ fave'[i][u] = n
         /\ \A j \in Pieces, v \in Readers : <<j, v>> # <<i, u>> => fave'[j][v] = fave[j][v]
<1>1. fave' = [fave EXCEPT ![i] = [fave[i] EXCEPT ![u] = n]]
  OBVIOUS
<1>2. fave[i] \in [Readers -> Nat]
  OBVIOUS
<1> QED
  BY <1>1, <1>2

\* A like that is written is one more, and one that goes is one less.
LEMMA LikingAdded ==
  ASSUME fave \in [Pieces -> [Readers -> Nat]], NEW i \in Pieces, NEW u \in Readers,
         NEW n \in Nat \ {0}, fave[i][u] = 0, fave' = [fave EXCEPT ![i][u] = n],
         IsFiniteSet(Likings)
  PROVE  IsFiniteSet(Likings') /\ Cardinality(Likings') = Cardinality(Likings) + 1
<1>1. Likings' = Likings \cup {<<i, u>>} /\ <<i, u>> \notin Likings
  BY FaveChanged DEF Likings
<1> QED
  BY <1>1, FS_AddElement

LEMMA LikingRemoved ==
  ASSUME fave \in [Pieces -> [Readers -> Nat]], NEW i \in Pieces, NEW u \in Readers,
         fave[i][u] # 0, fave' = [fave EXCEPT ![i][u] = 0], IsFiniteSet(Likings)
  PROVE  /\ IsFiniteSet(Likings') /\ Cardinality(Likings') = Cardinality(Likings) - 1
         /\ Cardinality(Likings) \in Nat
<1>1. Likings' = Likings \ {<<i, u>>} /\ <<i, u>> \in Likings
  BY FaveChanged DEF Likings
<1> QED
  BY <1>1, FS_RemoveElement, FS_CardinalityType

LEMMA IssuedTypes ==
  ASSUME IdsOK
  PROVE  Cardinality(Likings) \in Nat /\ Undone \in Nat /\ Issued \in Nat
         /\ Issued = Cardinality(Likings) + Undone /\ Undone <= Issued
<1>1. Cardinality(Likings) \in Nat /\ Undone \in Nat
  BY FS_CardinalityType DEF IdsOK, Undone
<1> QED
  BY <1>1 DEF Issued

LEMMA WriteLikeKeeps ==
  ASSUME SourcesInv, NEW c \in Clients, WriteLike(c)
  PROVE  SourcesInv'
<1> DEFINE a == asking[c]
           l == [is |-> "like", id |-> FreshFave, user |-> a.user, via |-> a.via, item |-> a.item]
<1>1. /\ a.at = "like" /\ asking' = [asking EXCEPT ![c] = NoAsk]
      /\ \/ fave' = fave /\ errands' = errands
         \/ /\ fave[a.item][a.user] = 0 /\ FreshFave <= MaxFaves
            /\ fave' = [fave EXCEPT ![a.item][a.user] = FreshFave] /\ errands' = errands \cup {l}
      /\ UNCHANGED <<source, placed, undoRows, wanted, fetches, reported, given, strayed,
                     altered, sightings, halted>>
  BY DEF WriteLike
<1>2. SourcesTypes /\ IdsOK /\ LikesOK /\ UndosOK /\ PlacesOK /\ OwnersOK /\ GivenOK
  BY DEF SourcesInv
<1>3. a.user \in Readers /\ a.via \in Sources /\ a.item \in Pieces
  BY <1>1, <1>2 DEF SourcesTypes, Askings, NoAsk
<1>4. FreshFave = Issued + 1 /\ Issued \in Nat /\ Undone \in Nat
  BY <1>2, IssuedTypes DEF FreshFave, Issued, Undone
<1>5. l \in Errands /\ l.is = "like" /\ l.id = FreshFave /\ l.user = a.user /\ l.via = a.via
      /\ l.item = a.item
  BY <1>3, <1>4 DEF Errands
<1>6. Undone' = Undone
  BY <1>1 DEF Undone
<1>a. /\ placed[a.item] = a.via \/ a.item \in strayed
      /\ Takes(a.via) \/ a.via \in altered
  <2>1. a # NoAsk
    BY <1>1 DEF NoAsk
  <2> QED
    BY <1>1, <1>2, <2>1 DEF PlacesOK, OwnersOK
<1> HIDE DEF a, l
<1>7. \/ fave' = fave /\ errands' = errands /\ Issued' = Issued /\ Likings' = Likings
      \/ /\ fave[a.item][a.user] = 0 /\ FreshFave <= MaxFaves /\ errands' = errands \cup {l}
         /\ fave' = [fave EXCEPT ![a.item][a.user] = FreshFave] /\ Issued' = Issued + 1
         /\ IsFiniteSet(Likings')
  <2>1. CASE fave' = fave /\ errands' = errands
    BY <1>6, <2>1 DEF Issued, Likings
  <2>2. CASE /\ fave[a.item][a.user] = 0 /\ FreshFave <= MaxFaves /\ errands' = errands \cup {l}
             /\ fave' = [fave EXCEPT ![a.item][a.user] = FreshFave]
    <3>1. IsFiniteSet(Likings') /\ Cardinality(Likings') = Cardinality(Likings) + 1
      <4>1. FreshFave \in Nat \ {0}
        BY <1>4
      <4> QED
        BY <1>2, <1>3, <2>2, <4>1, LikingAdded DEF SourcesTypes, IdsOK
    <3> QED
      BY <1>2, <1>6, <2>2, <3>1, IssuedTypes DEF Issued
  <2> QED
    BY <1>1, <2>1, <2>2 DEF a, l
<1>b. asking'[c] = NoAsk /\ \A d \in Clients \ {c} : asking'[d] = asking[d]
  BY <1>1, <1>2 DEF SourcesTypes
<1>c. errands \subseteq errands' /\ errands' \subseteq errands \cup {l}
  BY <1>7
<1>d. /\ \A i \in Pieces, u \in Readers : fave'[i][u] = fave[i][u] \/ (fave[i][u] = 0 /\ fave'[i][u] = Issued + 1)
      /\ fave' \in [Pieces -> [Readers -> Nat]] /\ Issued <= Issued' /\ Issued' <= Issued + 1
      /\ l \in errands' \ errands => fave'[l.item][l.user] = l.id /\ Issued' = Issued + 1
      /\ \A i \in Pieces, u \in Readers : fave'[i][u] <= Issued'
      /\ Issued' <= MaxFaves /\ IsFiniteSet(Likings') /\ Issued' \in Nat
  <2>1. CASE fave' = fave /\ errands' = errands /\ Issued' = Issued /\ Likings' = Likings
    BY <1>2, <1>4, <2>1 DEF SourcesTypes, IdsOK
  <2>2. CASE /\ fave[a.item][a.user] = 0 /\ FreshFave <= MaxFaves
             /\ fave' = [fave EXCEPT ![a.item][a.user] = FreshFave] /\ Issued' = Issued + 1
             /\ IsFiniteSet(Likings')
    <3>1. /\ fave' \in [Pieces -> [Readers -> Nat]] /\ fave'[a.item][a.user] = FreshFave
          /\ \A j \in Pieces, v \in Readers : <<j, v>> # <<a.item, a.user>> => fave'[j][v] = fave[j][v]
      BY <1>2, <1>3, <1>4, <2>2, FaveChanged DEF SourcesTypes
    <3>2. \A j \in Pieces, v \in Readers : fave[j][v] <= Issued /\ fave[j][v] \in Nat
      BY <1>2 DEF IdsOK, SourcesTypes
    <3> QED
      BY <1>3, <1>4, <1>5, <2>2, <3>1, <3>2
  <2> QED
    BY <1>7, <2>1, <2>2
<1>8. SourcesTypes'
  <2>1. NoAsk \in Askings
    BY DEF Askings
  <2> QED
    BY <1>1, <1>2, <1>5, <1>c, <1>d, <2>1 DEF SourcesTypes
<1>9. IdsOK'
  <2>1. ASSUME NEW r \in undoRows
        PROVE  r.id \in 1..Undone' /\ r.like \in 1..Issued' /\ fave'[r.item][r.user] # r.like
    <3>1. /\ r.id \in 1..Undone /\ r.like \in 1..Issued /\ fave[r.item][r.user] # r.like
          /\ r.item \in Pieces /\ r.user \in Readers
      BY <1>2 DEF IdsOK, SourcesTypes, UndoRecords
    <3> QED
      BY <1>4, <1>6, <1>d, <3>1
  <2> QED
    BY <1>1, <1>2, <1>6, <1>d, <2>1 DEF IdsOK
<1>10. LikesOK'
  <2> SUFFICES ASSUME NEW m \in Likes'
               PROVE  m.id \in 1..Issued' /\ (fave'[m.item][m.user] = m.id \/ UndosOf(m) # {})
    BY <1>1 DEF LikesOK, UndosOf
  <2>1. CASE m \in Likes
    <3>1. m.id \in 1..Issued /\ (fave[m.item][m.user] = m.id \/ UndosOf(m) # {})
          /\ m.item \in Pieces /\ m.user \in Readers
      BY <1>2, <2>1 DEF LikesOK, SourcesTypes, Likes, Told, Errands
    <3> QED
      BY <1>4, <1>d, <3>1
  <2>2. CASE m = l /\ l \notin Likes
    <3>1. l \in errands' \ errands
      BY <1>1, <1>5, <2>2 DEF Likes, Told
    <3> QED
      BY <1>4, <1>5, <1>d, <2>2, <3>1
  <2> QED
    BY <1>1, <1>c, <2>1, <2>2 DEF Likes, Told
<1>11. UndosOK'
  <2>1. Underway' = Underway
    BY <1>1, <1>5, <1>c DEF Underway
  <2>2. ASSUME NEW d \in Clients
        PROVE  /\ Undoes(d) => asking'[d] = asking[d]
               /\ Undoes(d)' => asking'[d] = asking[d]
    BY <1>1, <1>b DEF Undoes, NoAsk, a
  <2> QED
    BY <1>1, <1>2, <2>1, <2>2, UndosLeft
<1>12. PlacesOK'
  <2>1. \A e \in Told' : placed[e.item] = e.via \/ e.item \in strayed
    BY <1>1, <1>2, <1>5, <1>a, <1>c DEF PlacesOK, Told
  <2>2. \A d \in Clients : asking'[d] # NoAsk => asking'[d] = asking[d] /\ asking[d] # NoAsk
    BY <1>b
  <2> QED
    BY <1>1, <1>2, <2>1, <2>2 DEF PlacesOK
<1>13. OwnersOK'
  <2>1. \A m \in Likes' : Takes(m.via) \/ m.via \in altered
    BY <1>1, <1>2, <1>5, <1>a, <1>c DEF OwnersOK, Likes, Told
  <2>2. \A d \in Clients : asking'[d].at = "like" => asking'[d] = asking[d]
    BY <1>b DEF NoAsk
  <2>3. \A t \in Sources : Takes(t)' <=> Takes(t)
    BY <1>1 DEF Takes
  <2>4. \A d \in Clients : asking'[d].at = "like" => Takes(asking'[d].via) \/ asking'[d].via \in altered
    BY <1>2, <2>2 DEF OwnersOK
  <2> QED
    BY <1>1, <1>2, <2>1, <2>4 DEF OwnersOK, Takes
<1>14. GivenOK'
  <2>1. UndosOf(l) = {}
    <3>1. \A r \in undoRows : r.like # l.id
      BY <1>2, <1>4, <1>5 DEF IdsOK
    <3> QED
      BY <3>1 DEF UndosOf
  <2>2. \A m \in Likes' : m \in Likes \/ m = l
    BY <1>1, <1>c DEF Likes, Told
  <2> QED
    BY <1>1, <1>2, <2>1, <2>2 DEF GivenOK, UndosOf
<1> QED
  BY <1>8, <1>9, <1>10, <1>11, <1>12, <1>13, <1>14 DEF SourcesInv

LEMMA UnlikeKeeps ==
  ASSUME SourcesInv, NEW c \in Clients, NEW u \in Readers, NEW s \in Sources, NEW i \in Pieces,
         Unlike(c, u, s, i)
  PROVE  SourcesInv'
<1> DEFINE n == Undone + 1
           r == [id |-> n, like |-> fave[i][u], item |-> i, user |-> u]
           a == [at |-> "undo", user |-> u, via |-> s, item |-> i, id |-> n]
<1>1. /\ asking[c] = NoAsk /\ placed[i] = s /\ fave[i][u] # 0
      /\ undoRows' = undoRows \cup {r} /\ asking' = [asking EXCEPT ![c] = a]
      /\ fave' = [fave EXCEPT ![i][u] = 0]
      /\ UNCHANGED <<source, placed, errands, wanted, fetches, reported, given, strayed,
                     altered, sightings, halted>>
  BY DEF Unlike, Undone
<1>2. SourcesTypes /\ IdsOK /\ LikesOK /\ UndosOK /\ PlacesOK /\ OwnersOK /\ GivenOK
  BY DEF SourcesInv
<1>3. Undone \in Nat /\ Issued \in Nat /\ n \in Nat /\ Cardinality(Likings) \in Nat
      /\ fave[i][u] \in 1..Issued
  <2>1. fave[i][u] \in Nat /\ fave[i][u] <= Issued
    BY <1>2 DEF SourcesTypes, IdsOK
  <2> QED
    BY <1>1, <1>2, <2>1, IssuedTypes
<1>4. r \in UndoRecords /\ r.id = n /\ r.like = fave[i][u] /\ r.item = i /\ r.user = u
  BY <1>3 DEF UndoRecords
<1>5. a \in Askings /\ a.at = "undo" /\ a.via = s /\ a.item = i /\ a.id = n
  BY <1>3 DEF Askings
<1>6. \A q \in undoRows : q.id \in 1..Undone /\ q \in UndoRecords
  BY <1>2 DEF IdsOK, SourcesTypes
<1> HIDE DEF r, a
<1>7. r \notin undoRows
  BY <1>3, <1>4, <1>6
<1> HIDE DEF n
<1>8. IsFiniteSet(undoRows') /\ Undone' = Undone + 1
  BY <1>1, <1>2, <1>7, FS_AddElement DEF IdsOK, Undone
<1>9. IsFiniteSet(Likings') /\ Issued' = Issued
  <2>1. IsFiniteSet(Likings') /\ Cardinality(Likings') = Cardinality(Likings) - 1
    BY <1>1, <1>2, LikingRemoved DEF SourcesTypes, IdsOK
  <2> QED
    BY <1>2, <1>3, <1>8, <2>1 DEF Issued
<1>a. asking'[c] = a /\ \A d \in Clients \ {c} : asking'[d] = asking[d]
  BY <1>1, <1>2 DEF SourcesTypes
<1>b. /\ fave' \in [Pieces -> [Readers -> Nat]] /\ fave'[i][u] = 0
      /\ \A j \in Pieces, v \in Readers : <<j, v>> # <<i, u>> => fave'[j][v] = fave[j][v]
  BY <1>1, <1>2, FaveChanged DEF SourcesTypes
<1>c. n = Undone + 1
  BY DEF n
<1>10. SourcesTypes'
  BY <1>1, <1>2, <1>4, <1>5, <1>b DEF SourcesTypes
<1>11. IdsOK'
  <2>1. \A j \in Pieces, v \in Readers : fave'[j][v] <= Issued'
    BY <1>2, <1>3, <1>9, <1>b DEF IdsOK
  <2>2. ASSUME NEW q \in undoRows'
        PROVE  q.id \in 1..Undone' /\ q.like \in 1..Issued' /\ fave'[q.item][q.user] # q.like
    <3>1. CASE q = r
      BY <1>3, <1>4, <1>8, <1>9, <1>b, <1>c, <3>1
    <3>2. CASE q \in undoRows
      <4>1. /\ q.id \in 1..Undone /\ q.like \in 1..Issued /\ fave[q.item][q.user] # q.like
            /\ q.item \in Pieces /\ q.user \in Readers
        BY <1>2, <3>2 DEF IdsOK, SourcesTypes, UndoRecords
      <4> QED
        BY <1>3, <1>8, <1>9, <1>b, <4>1
    <3> QED
      BY <1>1, <3>1, <3>2
  <2>3. \A q \in undoRows : q.id # r.id /\ ~(q.like = r.like /\ q.item = r.item /\ q.user = r.user)
    BY <1>2, <1>3, <1>4, <1>6, <1>c DEF IdsOK
  <2>4. \A p, q \in undoRows' :
          p.id = q.id \/ (p.like = q.like /\ p.item = q.item /\ p.user = q.user) => p = q
    BY <1>1, <1>2, <2>3 DEF IdsOK
  <2>5. given' \subseteq 1..Undone'
    BY <1>1, <1>2, <1>3, <1>8 DEF IdsOK
  <2>6. Issued' <= MaxFaves
    BY <1>2, <1>9 DEF IdsOK
  <2> QED
    BY <1>8, <1>9, <2>1, <2>2, <2>4, <2>5, <2>6 DEF IdsOK
<1>12. LikesOK'
  <2> SUFFICES ASSUME NEW m \in Likes
               PROVE  m.id \in 1..Issued' /\ (fave'[m.item][m.user] = m.id \/ UndosOf(m)' # {})
    BY <1>1 DEF LikesOK, Likes, Told
  <2>1. m.id \in 1..Issued /\ (fave[m.item][m.user] = m.id \/ UndosOf(m) # {})
        /\ m.item \in Pieces /\ m.user \in Readers
    BY <1>2 DEF LikesOK, SourcesTypes, Likes, Told, Errands
  <2>2. CASE UndosOf(m) # {}
    BY <1>1, <1>9, <2>1, <2>2 DEF UndosOf
  <2>3. CASE fave[m.item][m.user] = m.id
    <3>1. CASE <<m.item, m.user>> = <<i, u>>
      <4>1. r \in UndosOf(m)'
        BY <1>1, <1>4, <2>3, <3>1 DEF UndosOf
      <4> QED
        BY <1>9, <2>1, <4>1
    <3>2. CASE <<m.item, m.user>> # <<i, u>>
      BY <1>9, <1>b, <2>1, <2>3, <3>2
    <3> QED
      BY <3>1, <3>2
  <2> QED
    BY <2>1, <2>2, <2>3
<1>13. UndosOK'
  <2>1. Underway' = Underway
    BY <1>1 DEF Underway
  <2>2. \A e \in Underway : \E q \in undoRows : q.id = e.id /\ q.item = e.item
    BY <1>2 DEF UndosOK
  <2>3. ASSUME NEW d \in Clients
        PROVE  /\ Undoes(d)' => d = c \/ (d # c /\ Undoes(d) /\ asking'[d] = asking[d])
               /\ Undoes(d) => d # c /\ Undoes(d)' /\ asking'[d] = asking[d]
    BY <1>1, <1>a DEF Undoes, NoAsk
  <2>4. ASSUME NEW d \in Clients, Undoes(d)'
        PROVE  \E q \in undoRows' : q.id = asking'[d].id /\ q.item = asking'[d].item
    <3>1. CASE d = c
      BY <1>1, <1>4, <1>5, <1>a, <3>1
    <3>2. CASE d # c
      BY <1>1, <1>2, <2>3, <2>4, <3>2 DEF UndosOK
    <3> QED
      BY <3>1, <3>2
  <2>5. ASSUME NEW q \in undoRows'
        PROVE  \/ halted \/ q.id \in given
               \/ \E e \in Underway : e.id = q.id
               \/ \E d \in Clients : Undoes(d)' /\ asking'[d].id = q.id
    <3>1. CASE q = r
      <4>1. Undoes(c)' /\ asking'[c].id = q.id
        BY <1>4, <1>5, <1>a, <3>1 DEF Undoes
      <4> QED
        BY <4>1
    <3>2. CASE q \in undoRows
      <4>1. CASE \E d \in Clients : Undoes(d) /\ asking[d].id = q.id
        BY <2>3, <4>1
      <4> QED
        BY <1>2, <3>2, <4>1 DEF UndosOK
    <3> QED
      BY <1>1, <3>1, <3>2
  <2> QED
    BY <1>1, <2>1, <2>2, <2>4, <2>5 DEF UndosOK
<1>14. PlacesOK'
  BY <1>1, <1>2, <1>5, <1>a DEF PlacesOK, Told
<1>15. OwnersOK'
  BY <1>1, <1>2, <1>5, <1>a DEF OwnersOK, Likes, Told, Takes
<1>16. GivenOK'
  <2>1. r.id \notin given
    BY <1>2, <1>3, <1>4, <1>c DEF IdsOK
  <2> QED
    BY <1>1, <1>2, <2>1 DEF GivenOK, Likes, Told, UndosOf
<1> QED
  BY <1>10, <1>11, <1>12, <1>13, <1>14, <1>15, <1>16 DEF SourcesInv

LEMMA TellUndoKeeps ==
  ASSUME SourcesInv, NEW c \in Clients, TellUndo(c)
  PROVE  SourcesInv'
<1> DEFINE a == asking[c]
           e0 == [is |-> "undo", id |-> a.id, user |-> a.user, via |-> a.via, item |-> a.item]
<1>1. /\ a.at = "undo" /\ asking' = [asking EXCEPT ![c] = NoAsk]
      /\ \/ errands' = errands \cup {e0} /\ given' = given
         \/ /\ ~(placed[a.item] = a.via /\ Takes(a.via))
            /\ given' = given \cup {a.id} /\ errands' = errands
      /\ UNCHANGED <<source, placed, fave, undoRows, wanted, fetches, reported, strayed,
                     altered, sightings, halted>>
  BY DEF TellUndo, Reachable, Takes
<1>2. SourcesTypes /\ IdsOK /\ LikesOK /\ UndosOK /\ PlacesOK /\ OwnersOK /\ GivenOK
  BY DEF SourcesInv
<1>3. a.user \in Readers /\ a.via \in Sources /\ a.item \in Pieces /\ a.id \in Nat /\ a # NoAsk
  BY <1>1, <1>2 DEF SourcesTypes, Askings, NoAsk
<1>4. PICK r \in undoRows : r.id = a.id /\ r.item = a.item
  BY <1>1, <1>2 DEF UndosOK, Undoes
<1>5. e0 \in Errands /\ e0.is = "undo" /\ e0.id = a.id /\ e0.via = a.via /\ e0.item = a.item
  BY <1>3 DEF Errands
<1>6. placed[a.item] = a.via \/ a.item \in strayed
  BY <1>2, <1>3 DEF PlacesOK
<1> HIDE DEF e0
<1>7. asking'[c] = NoAsk /\ \A d \in Clients \ {c} : asking'[d] = asking[d]
  BY <1>1, <1>2 DEF SourcesTypes
<1>8. Likes' = Likes /\ Likings' = Likings /\ Issued' = Issued /\ Undone' = Undone
  BY <1>1, <1>5 DEF Likes, Told, Likings, Issued, Undone
<1>9. SourcesTypes'
  <2>1. NoAsk \in Askings
    BY DEF Askings
  <2> QED
    BY <1>1, <1>2, <1>5, <2>1 DEF SourcesTypes
<1>10. IdsOK'
  <2>1. given' \subseteq 1..Undone
    BY <1>1, <1>2, <1>4 DEF IdsOK
  <2> QED
    BY <1>1, <1>2, <1>8, <2>1 DEF IdsOK
<1>11. LikesOK'
  BY <1>1, <1>2, <1>8 DEF LikesOK, UndosOf
<1>12. UndosOK'
  <2>1. Underway \subseteq Underway' /\ \A e \in Underway' : e \in Underway \/ e = e0
    BY <1>1 DEF Underway
  <2>2. \A e \in Underway' : \E q \in undoRows : q.id = e.id /\ q.item = e.item
    BY <1>2, <1>4, <1>5, <2>1 DEF UndosOK
  <2>3. ASSUME NEW d \in Clients
        PROVE  /\ Undoes(d)' => d # c /\ Undoes(d) /\ asking'[d] = asking[d]
               /\ Undoes(d) => d = c \/ (Undoes(d)' /\ asking'[d] = asking[d])
    BY <1>7 DEF Undoes, NoAsk
  <2>4. ASSUME NEW d \in Clients, Undoes(d)'
        PROVE  \E q \in undoRows : q.id = asking'[d].id /\ q.item = asking'[d].item
    BY <1>2, <2>3, <2>4 DEF UndosOK
  <2>5. ASSUME NEW q \in undoRows
        PROVE  \/ halted \/ q.id \in given'
               \/ \E e \in Underway' : e.id = q.id
               \/ \E d \in Clients : Undoes(d)' /\ asking'[d].id = q.id
    <3>1. CASE \E d \in Clients : Undoes(d) /\ asking[d].id = q.id
      <4>1. PICK d \in Clients : Undoes(d) /\ asking[d].id = q.id
        BY <3>1
      <4>2. CASE d # c
        BY <2>3, <4>1, <4>2
      <4>3. CASE d = c
        <5>1. e0 \in Underway' \/ a.id \in given'
          BY <1>1, <1>5 DEF Underway
        <5> QED
          BY <1>5, <4>1, <4>3, <5>1
      <4> QED
        BY <4>2, <4>3
    <3>2. CASE \E e \in Underway : e.id = q.id
      BY <2>1, <3>2
    <3>3. CASE q.id \in given \/ halted
      BY <1>1, <3>3
    <3> QED
      BY <1>2, <3>1, <3>2, <3>3 DEF UndosOK
  <2> QED
    BY <1>1, <2>2, <2>4, <2>5 DEF UndosOK
<1>13. PlacesOK'
  <2>1. \A e \in Told' : placed[e.item] = e.via \/ e.item \in strayed
    BY <1>1, <1>2, <1>5, <1>6 DEF PlacesOK, Told
  <2> QED
    BY <1>1, <1>2, <1>7, <2>1 DEF PlacesOK
<1>14. OwnersOK'
  <2>1. \A d \in Clients : asking'[d].at = "like" => asking'[d] = asking[d]
    BY <1>7 DEF NoAsk
  <2>2. \A d \in Clients : asking'[d].at = "like" => Takes(asking'[d].via) \/ asking'[d].via \in altered
    BY <1>2, <2>1 DEF OwnersOK
  <2> QED
    BY <1>1, <1>2, <1>8, <2>2 DEF OwnersOK, Takes
<1>15. GivenOK'
  <2> SUFFICES ASSUME NEW l \in Likes, NEW q \in UndosOf(l), q.id \in given'
               PROVE  l.item \in strayed \/ l.via \in altered
    BY <1>1, <1>8 DEF GivenOK, UndosOf
  <2>1. CASE q.id \in given
    BY <1>2, <2>1 DEF GivenOK
  <2>2. CASE q.id = a.id /\ ~(placed[a.item] = a.via /\ Takes(a.via))
    <3>1. l.item = a.item
      BY <1>2, <1>4, <2>2 DEF UndosOf, IdsOK
    <3>2. /\ placed[l.item] = l.via \/ l.item \in strayed
          /\ Takes(l.via) \/ l.via \in altered
      BY <1>2 DEF PlacesOK, OwnersOK, Likes
    <3> QED
      BY <1>6, <2>2, <3>1, <3>2
  <2> QED
    BY <1>1, <2>1, <2>2
<1> QED
  BY <1>9, <1>10, <1>11, <1>12, <1>13, <1>14, <1>15 DEF SourcesInv

LEMMA RunErrandKeeps ==
  ASSUME SourcesInv, NEW e \in errands, RunErrand(e)
  PROVE  SourcesInv'
<1>1. /\ Told' = Told /\ errands' \subseteq errands /\ reported' = reported \cup {e}
      /\ UNCHANGED <<source, placed, fave, undoRows, asking, wanted, fetches, given, strayed,
                     altered, sightings, halted>>
  BY DEF RunErrand, Told
<1>2. SourcesTypes /\ IdsOK /\ LikesOK /\ UndosOK /\ PlacesOK /\ OwnersOK /\ GivenOK
  BY DEF SourcesInv
<1>3. /\ Likes' = Likes /\ Underway' = Underway
      /\ Likings' = Likings /\ Issued' = Issued /\ Undone' = Undone
  BY <1>1 DEF Likes, Underway, Told, Likings, Issued, Undone
<1>4. SourcesTypes'
  BY <1>1, <1>2 DEF SourcesTypes
<1>5. IdsOK' /\ LikesOK' /\ GivenOK'
  BY <1>1, <1>2, <1>3 DEF IdsOK, LikesOK, GivenOK, UndosOf
<1>6. UndosOK'
  BY <1>1, <1>2, <1>3, UndosLeft
<1>7. PlacesOK' /\ OwnersOK'
  BY <1>1, <1>2, <1>3 DEF PlacesOK, OwnersOK, Takes
<1> QED
  BY <1>4, <1>5, <1>6, <1>7 DEF SourcesInv

LEMMA ServerHaltsKeeps == SourcesInv /\ ServerHalts => SourcesInv'
<1> SUFFICES ASSUME SourcesInv, ServerHalts PROVE SourcesInv'
  OBVIOUS
<1>1. /\ errands' = {} /\ asking' = [c \in Clients |-> NoAsk] /\ wanted' = {}
      /\ halted' = (halted \/ (\E e \in errands : e.is = "undo")
                           \/ (\E c \in Clients : asking[c].at = "undo"))
      /\ UNCHANGED <<source, placed, fave, undoRows, fetches, reported, given, strayed,
                     altered, sightings>>
  BY DEF ServerHalts
<1>2. SourcesTypes /\ IdsOK /\ LikesOK /\ UndosOK /\ PlacesOK /\ OwnersOK /\ GivenOK
  BY DEF SourcesInv
<1>3. Told' = reported /\ Told' \subseteq Told
  BY <1>1 DEF Told
<1>4. Likes' \subseteq Likes /\ Likings' = Likings /\ Issued' = Issued /\ Undone' = Undone
  BY <1>1, <1>3 DEF Likes, Likings, Issued, Undone
<1>5. \A c \in Clients : asking'[c] = NoAsk
  BY <1>1
<1>6. SourcesTypes'
  <2>1. asking' \in [Clients -> Askings]
    BY <1>1 DEF Askings
  <2> QED
    BY <1>1, <1>2, <2>1 DEF SourcesTypes
<1>7. IdsOK' /\ LikesOK' /\ GivenOK'
  BY <1>1, <1>2, <1>4 DEF IdsOK, LikesOK, GivenOK, UndosOf
<1>8. UndosOK'
  <2>1. Underway' \subseteq Underway
    BY <1>1 DEF Underway
  <2>2. \A c \in Clients : ~Undoes(c)'
    BY <1>5 DEF Undoes, NoAsk
  <2>3. ASSUME NEW r \in undoRows
        PROVE  halted' \/ r.id \in given \/ \E e \in Underway' : e.id = r.id
    <3>1. CASE halted \/ \E c \in Clients : Undoes(c)
      BY <1>1, <3>1 DEF Undoes
    <3>2. CASE \E e \in Underway : e.id = r.id
      <4>1. PICK e \in Underway : e.id = r.id
        BY <3>2
      <4>2. CASE e \in errands
        BY <1>1, <4>1, <4>2 DEF Underway
      <4>3. CASE e \in reported
        BY <1>1, <4>1, <4>3 DEF Underway
      <4> QED
        BY <4>1, <4>2, <4>3 DEF Underway
    <3> QED
      BY <1>2, <3>1, <3>2 DEF UndosOK
  <2> QED
    BY <1>1, <1>2, <2>1, <2>2, <2>3 DEF UndosOK
<1>9. PlacesOK' /\ OwnersOK'
  BY <1>1, <1>2, <1>3, <1>4, <1>5 DEF PlacesOK, OwnersOK, Takes, NoAsk
<1> QED
  BY <1>6, <1>7, <1>8, <1>9 DEF SourcesInv

LEMMA SourcesKept == SourcesInv /\ [SourcesNext]_sourceVars => SourcesInv'
<1> SUFFICES ASSUME SourcesInv, [SourcesNext]_sourceVars PROVE SourcesInv'
  OBVIOUS
<1>1. ASSUME NEW s \in Sources, WantItems(s) PROVE SourcesInv'
  <2>1. /\ wanted' = wanted \ {s} /\ fetches' = fetches \cup {s}
        /\ UNCHANGED <<source, placed, fave, undoRows, asking, errands, reported, given,
                       strayed, altered, sightings, halted>>
    BY <1>1 DEF WantItems
  <2>2. SourcesTypes'
    BY <2>1 DEF SourcesInv, SourcesTypes
  <2>3. PlacesOK' /\ OwnersOK' /\ GivenOK'
    BY <2>1 DEF SourcesInv, PlacesOK, OwnersOK, GivenOK, Likes, Told, Takes, UndosOf
  <2> QED
    BY <2>1, <2>2, <2>3, LikesLeft DEF SourcesInv
<1>2. ASSUME NEW s \in Sources, NEW page \in SUBSET Pieces, FetchItems(s, page) PROVE SourcesInv'
  BY <1>2, PlaceKeeps DEF FetchItems
<1>3. ASSUME NEW s \in Sources, NEW i \in Pieces, LookUpItem(s, i) PROVE SourcesInv'
  <2>1. {i} \in SUBSET Pieces
    OBVIOUS
  <2> QED
    BY <1>3, <2>1, PlaceKeeps DEF LookUpItem
<1>4. CASE UNCHANGED sourceVars
  <2>1. UNCHANGED <<source, placed, fave, undoRows, asking, errands, wanted, fetches,
                    reported, given, strayed, altered, sightings, halted>>
    BY <1>4 DEF sourceVars
  <2>2. SourcesTypes'
    BY <2>1 DEF SourcesInv, SourcesTypes
  <2>3. PlacesOK' /\ OwnersOK' /\ GivenOK'
    BY <2>1 DEF SourcesInv, PlacesOK, OwnersOK, GivenOK, Likes, Told, Takes, UndosOf
  <2> QED
    BY <2>1, <2>2, <2>3, LikesLeft DEF SourcesInv
<1> QED
  BY <1>1, <1>2, <1>3, <1>4, IngestSourceKeeps, AskLikeKeeps, WriteLikeKeeps, UnlikeKeeps,
     TellUndoKeeps, RunErrandKeeps, ServerHaltsKeeps DEF SourcesNext

\* The rows of sources, items, likes and undos are what they are declared to be.
THEOREM SourcesTypeCorrect == SourcesSpec => []SourcesTypeOK
<1>1. SourcesInv => SourcesTypeOK
  <2> SUFFICES ASSUME SourcesInv PROVE SourcesTypeOK
    OBVIOUS
  <2>1. SourcesTypes /\ IdsOK
    BY DEF SourcesInv
  <2>2. Issued \in Nat /\ Undone \in Nat /\ Undone <= MaxFaves /\ Issued <= MaxFaves
    BY <2>1, IssuedTypes, SourcesBounds DEF IdsOK
  <2>3. fave \in [Pieces -> [Readers -> 0..MaxFaves]]
    <3>1. \A i \in Pieces, u \in Readers : fave[i][u] \in 0..MaxFaves
      BY <2>1, <2>2, SourcesBounds DEF SourcesTypes, IdsOK
    <3>2. \A i \in Pieces : fave[i] \in [Readers -> 0..MaxFaves]
      BY <2>1, <3>1 DEF SourcesTypes
    <3> QED
      BY <2>1, <3>2 DEF SourcesTypes
  <2>4. \A r \in undoRows : /\ r.id \in 1..MaxFaves /\ r.like \in 1..MaxFaves /\ r.item \in Pieces
                            /\ r.user \in Readers
    BY <2>1, <2>2, SourcesBounds DEF SourcesTypes, IdsOK, UndoRecords
  <2>5. given \subseteq 1..MaxFaves
    BY <2>1, <2>2, SourcesBounds DEF IdsOK
  <2>6. \A c \in Clients : asking[c].at \in {"none", "like", "undo"}
    BY <2>1 DEF SourcesTypes, Askings, NoAsk
  <2>7. \A e \in errands \cup reported :
          e.is \in {"like", "undo"} /\ e.via \in Sources /\ e.item \in Pieces /\ e.user \in Readers
    BY <2>1 DEF SourcesTypes, Errands
  <2> QED
    BY <2>1, <2>3, <2>4, <2>5, <2>6, <2>7 DEF SourcesTypeOK, SourcesTypes, SourceRows
<1> QED
  BY <1>1, SourcesInitInv, SourcesKept, PTL DEF SourcesSpec

\* A Like that an owner is reported of is still there, or one undo row takes it
\* back and the same owner is reported of that, whatever overlaps.
THEOREM LikesAreRetracted == SourcesSpec => []LikesRetracted
<1>1. SourcesInv => LikesRetracted
  <2> SUFFICES ASSUME SourcesInv, NEW l \in {e \in reported : e.is = "like"}
               PROVE  IF fave[l.item][l.user] = l.id
                      THEN UndosOf(l) = {}
                      ELSE \E r \in UndosOf(l) :
                        /\ UndosOf(l) = {r}
                        /\ \A e \in Underway : e.id = r.id => e.via = l.via \/ l.item \in strayed
                        /\ \/ halted \/ \E e \in Underway : e.id = r.id
                           \/ \E c \in Clients : asking[c].at = "undo" /\ asking[c].id = r.id
                           \/ r.id \in given /\ (l.item \in strayed \/ l.via \in altered)
    BY DEF LikesRetracted
  <2>1. IdsOK /\ LikesOK /\ UndosOK /\ PlacesOK /\ GivenOK
    BY DEF SourcesInv
  <2>2. l \in Likes /\ l \in Told
    BY DEF Likes, Told
  <2>3. CASE fave[l.item][l.user] = l.id
    <3>1. \A r \in undoRows : r.like = l.id /\ r.item = l.item => r.user # l.user
      BY <2>1, <2>3 DEF IdsOK
    <3>2. UndosOf(l) = {}
      BY <3>1 DEF UndosOf
    <3> QED
      BY <2>3, <3>2
  <2>4. CASE fave[l.item][l.user] # l.id
    <3>1. PICK r \in UndosOf(l) : TRUE
      BY <2>1, <2>2, <2>4 DEF LikesOK
    <3>2. r \in undoRows /\ r.item = l.item
      BY <3>1 DEF UndosOf
    <3>3. UndosOf(l) = {r}
      BY <2>1, <3>1 DEF UndosOf, IdsOK
    <3>4. ASSUME NEW e \in Underway, e.id = r.id
          PROVE  e.via = l.via \/ l.item \in strayed
      <4>1. e.item = l.item
        BY <2>1, <3>2, <3>4 DEF UndosOK, IdsOK
      <4>2. e \in Told
        BY DEF Underway, Told
      <4> QED
        BY <2>1, <2>2, <4>1, <4>2 DEF PlacesOK
    <3>5. \/ halted \/ \E e \in Underway : e.id = r.id
          \/ \E c \in Clients : asking[c].at = "undo" /\ asking[c].id = r.id
          \/ r.id \in given /\ (l.item \in strayed \/ l.via \in altered)
      BY <2>1, <2>2, <3>1, <3>2 DEF UndosOK, Undoes, GivenOK
    <3> QED
      BY <2>4, <3>1, <3>3, <3>4, <3>5
  <2> QED
    BY <2>3, <2>4
<1> QED
  BY <1>1, SourcesInitInv, SourcesKept, PTL DEF SourcesSpec

-----------------------------------------------------------------------------
(***************************************************************************)
(* Votes in polls, and what the servers of the polls are told of them.     *)
(***************************************************************************)
Asked == [at : {"vote", "heard"}, voter : Electors, poll : PollRows, chosen : SUBSET AllChoices,
          author : BOOLEAN]
Changes == [at : {"change"}, voter : Electors, poll : PollRows, chosen : SUBSET AllChoices,
            author : BOOLEAN, gone : [PollRows -> SUBSET AllChoices]]
Tells == [at : {"tell"}, voter : Electors, poll : PollRows, removed : SUBSET AllChoices,
          added : SUBSET AllChoices]
Requests == {NoBallot} \cup Asked \cup Changes \cup Tells

PollsTypes ==
  /\ options \in [PollRows -> SUBSET AllChoices] /\ severed \subseteq PollRows /\ plural \subseteq PollRows
  /\ votes \in [PollRows -> [Electors -> SUBSET AllChoices]]
  /\ ballot \in [Hands -> Requests]
  /\ tally \in [FarPolls -> [Voters -> [AllChoices -> Int]]]
  /\ reached \subseteq FarPolls /\ spent \subseteq AllChoices /\ untold \subseteq Tellable
  /\ refreshes \in 0..MaxRefreshes /\ cast \in 0..MaxCast

\* A poll has options of its own only, and none that were removed.
OptionsOK ==
  /\ \A p \in PollRows : options[p] \subseteq Choices[p] /\ options[p] \cap spent = {}
  /\ \A p \in OwnPolls : Choices[p] \cap spent = {}

\* Only local users vote in polls kept elsewhere, only strangers by inbox, and only
\* the authors of polls kept elsewhere are told.
VotersOK == \A r \in Hands :
  /\ ballot[r].at # "none" /\ ballot[r].poll \in FarPolls => ballot[r].voter \in Voters
  /\ ballot[r].at = "heard" => ballot[r].voter \in Strangers
  /\ ballot[r].at \in {"vote", "heard", "change"} /\ ballot[r].author => ballot[r].poll \in FarPolls
  /\ ballot[r].at = "tell" => ballot[r].poll \in FarPolls

\* What a transaction has deleted is still there for the others, and no other one has
\* deleted it; a local user takes back rows of the poll only, and none that is asked for.
Changing(r) == ballot[r].at = "change"
LocksOK == \A r \in Hands : Changing(r) =>
  /\ \A q \in PollRows : ballot[r].gone[q] \subseteq votes[q][ballot[r].voter]
  /\ \A x \in Hands \ {r} : Changing(x) /\ ballot[x].voter = ballot[r].voter =>
       \A q \in PollRows : ballot[x].gone[q] \cap ballot[r].gone[q] = {}
  /\ ballot[r].voter \in Voters =>
       /\ ballot[r].gone[ballot[r].poll] \cap ballot[r].chosen = {}
       /\ \A q \in PollRows \ {ballot[r].poll} : ballot[r].gone[q] = {}

\* A poll that was removed.
Gone(p) == options[p] = {} /\ Choices[p] \cap spent # {}

\* The jobs that will tell of an option.
Telling(r) == ballot[r].at = "tell"
Jobs(p, u) == {r \in Hands : Telling(r) /\ ballot[r].poll = p /\ ballot[r].voter = u}
Adding(p, u, o) == {r \in Jobs(p, u) : o \in ballot[r].added}
Removing(p, u, o) == {r \in Jobs(p, u) : o \in ballot[r].removed}

TalliesOK ==
  \A p \in FarPolls, u \in Voters, o \in AllChoices :
    ~Gone(p) /\ o \notin spent /\ <<p, u, o>> \notin untold =>
      tally[p][u][o] + Owed(p, u, o) = IF o \in votes[p][u] THEN 1 ELSE 0

PollsInv == PollsTypes /\ OptionsOK /\ VotersOK /\ LocksOK /\ TalliesOK

LEMMA PollsBounds ==
  /\ OwnPolls \cap FarPolls = {} /\ Voters \cap Strangers = {} /\ IsFiniteSet(Hands)
  /\ MaxCast \in Nat /\ MaxRefreshes \in Nat /\ Plural \subseteq PollRows
  /\ \A b \in Ballots : b \subseteq AllChoices
BY PollsAssumption

LEMMA ChoicesAreChoices == \A p \in PollRows : Choices[p] \subseteq AllChoices
BY DEF AllChoices

\* The jobs of one person and poll are finitely many.
LEMMA OwedIs ==
  ASSUME NEW p, NEW u, NEW o
  PROVE  /\ Owed(p, u, o) = Cardinality(Adding(p, u, o)) - Cardinality(Removing(p, u, o))
         /\ IsFiniteSet(Adding(p, u, o)) /\ IsFiniteSet(Removing(p, u, o))
         /\ Cardinality(Adding(p, u, o)) \in Nat /\ Cardinality(Removing(p, u, o)) \in Nat
<1>1. Adding(p, u, o) \subseteq Hands /\ Removing(p, u, o) \subseteq Hands
  BY DEF Adding, Removing, Jobs
<1>2. IsFiniteSet(Adding(p, u, o)) /\ IsFiniteSet(Removing(p, u, o))
  BY <1>1, PollsBounds, FS_Subset
<1>3. Cardinality(Adding(p, u, o)) \in Nat /\ Cardinality(Removing(p, u, o)) \in Nat
  BY <1>2, FS_CardinalityType
<1>4. Owed(p, u, o) = Cardinality(Adding(p, u, o)) - Cardinality(Removing(p, u, o))
  BY DEF Owed, Adding, Removing, Jobs, Telling
<1> QED
  BY <1>2, <1>3, <1>4

\* The same in the next state.
LEMMA OwedWillBe ==
  ASSUME NEW p, NEW u, NEW o
  PROVE  /\ Owed(p, u, o)' = Cardinality(Adding(p, u, o)') - Cardinality(Removing(p, u, o)')
         /\ IsFiniteSet(Adding(p, u, o)') /\ IsFiniteSet(Removing(p, u, o)')
         /\ Cardinality(Adding(p, u, o)') \in Nat /\ Cardinality(Removing(p, u, o)') \in Nat
<1>1. Adding(p, u, o)' \subseteq Hands /\ Removing(p, u, o)' \subseteq Hands
  BY DEF Adding, Removing, Jobs
<1>2. IsFiniteSet(Adding(p, u, o)') /\ IsFiniteSet(Removing(p, u, o)')
  BY <1>1, PollsBounds, FS_Subset
<1>3. Cardinality(Adding(p, u, o)') \in Nat /\ Cardinality(Removing(p, u, o)') \in Nat
  BY <1>2, FS_CardinalityType
<1>4. Owed(p, u, o)' = Cardinality(Adding(p, u, o)') - Cardinality(Removing(p, u, o)')
  BY DEF Owed, Adding, Removing, Jobs, Telling
<1> QED
  BY <1>2, <1>3, <1>4

\* What is owed where no job comes or goes that is about the option.
LEMMA OwedLeft ==
  ASSUME NEW p, NEW u, NEW o,
         \A r \in Hands : \/ ~Telling(r) /\ ~Telling(r)'
                          \/ ballot'[r] = ballot[r]
                          \/ Telling(r) /\ ~Telling(r)' /\ <<p, u, o>> \notin Lost(r)
  PROVE  Owed(p, u, o)' = Owed(p, u, o)
<1>1. ASSUME NEW r \in Hands, Telling(r), ballot[r].poll = p, ballot[r].voter = u,
             o \in ballot[r].removed \cup ballot[r].added
      PROVE  <<p, u, o>> \in Lost(r)
  BY <1>1 DEF Lost, Notices, Telling
<1>2. ASSUME NEW r \in Hands
      PROVE  (r \in Adding(p, u, o)) <=> (r \in Adding(p, u, o)')
  <2>1. CASE ballot'[r] = ballot[r]
    BY <2>1 DEF Adding, Jobs, Telling
  <2>2. CASE ballot'[r] # ballot[r]
    BY <1>1, <2>2 DEF Adding, Jobs
  <2> QED
    BY <2>1, <2>2
<1>3. ASSUME NEW r \in Hands
      PROVE  (r \in Removing(p, u, o)) <=> (r \in Removing(p, u, o)')
  <2>1. CASE ballot'[r] = ballot[r]
    BY <2>1 DEF Removing, Jobs, Telling
  <2>2. CASE ballot'[r] # ballot[r]
    BY <1>1, <2>2 DEF Removing, Jobs
  <2> QED
    BY <2>1, <2>2
<1>4. /\ Adding(p, u, o) \subseteq Hands /\ Adding(p, u, o)' \subseteq Hands
      /\ Removing(p, u, o) \subseteq Hands /\ Removing(p, u, o)' \subseteq Hands
  BY DEF Adding, Removing, Jobs
<1>5. Adding(p, u, o)' = Adding(p, u, o) /\ Removing(p, u, o)' = Removing(p, u, o)
  BY <1>2, <1>3, <1>4
<1> QED
  BY <1>5, OwedIs, OwedWillBe

\* A job that is spawned is owed for its poll and voter, and for nobody else.
LEMMA OwedJoins ==
  ASSUME NEW r \in Hands, ~Telling(r), Telling(r)',
         \A x \in Hands \ {r} : ballot'[x] = ballot[x],
         NEW p, NEW u, NEW o
  PROVE  Owed(p, u, o)' = Owed(p, u, o) +
           (IF ballot'[r].poll = p /\ ballot'[r].voter = u THEN Sign(o, ballot'[r]) ELSE 0)
<1> DEFINE mine == ballot'[r].poll = p /\ ballot'[r].voter = u
<1>1. Jobs(p, u)' = IF mine THEN Jobs(p, u) \cup {r} ELSE Jobs(p, u)
  BY DEF Jobs, Telling
<1>2. r \notin Jobs(p, u) /\ \A x \in Jobs(p, u) : ballot'[x] = ballot[x]
  BY DEF Jobs
<1>3. Adding(p, u, o)' = IF mine /\ o \in ballot'[r].added THEN Adding(p, u, o) \cup {r} ELSE Adding(p, u, o)
  BY <1>1, <1>2 DEF Adding
<1>4. Removing(p, u, o)' = IF mine /\ o \in ballot'[r].removed THEN Removing(p, u, o) \cup {r}
                           ELSE Removing(p, u, o)
  BY <1>1, <1>2 DEF Removing
<1>5. r \notin Adding(p, u, o) /\ r \notin Removing(p, u, o)
  BY <1>2 DEF Adding, Removing
<1>6. Cardinality(Adding(p, u, o)') = Cardinality(Adding(p, u, o)) + (IF mine /\ o \in ballot'[r].added THEN 1 ELSE 0)
  <2>1. Cardinality(Adding(p, u, o) \cup {r}) = Cardinality(Adding(p, u, o)) + 1
    BY <1>5, OwedIs, FS_AddElement
  <2> QED
    BY <1>3, <2>1, OwedIs
<1>7. Cardinality(Removing(p, u, o)') = Cardinality(Removing(p, u, o)) + (IF mine /\ o \in ballot'[r].removed THEN 1 ELSE 0)
  <2>1. Cardinality(Removing(p, u, o) \cup {r}) = Cardinality(Removing(p, u, o)) + 1
    BY <1>5, OwedIs, FS_AddElement
  <2> QED
    BY <1>4, <2>1, OwedIs
<1> QED
  BY <1>6, <1>7, OwedIs, OwedWillBe DEF Sign

\* A job that has told of an option owes the others.
LEMMA OwedShrinks ==
  ASSUME NEW r \in Hands, Telling(r), NEW o,
         Telling(r)' => /\ ballot'[r].poll = ballot[r].poll /\ ballot'[r].voter = ballot[r].voter
                        /\ ballot'[r].added = ballot[r].added \ {o}
                        /\ ballot'[r].removed = ballot[r].removed \ {o},
         ~Telling(r)' => ballot[r].added \cup ballot[r].removed \subseteq {o},
         \A x \in Hands \ {r} : ballot'[x] = ballot[x],
         NEW p, NEW u, NEW n
  PROVE  Owed(p, u, n)' = Owed(p, u, n) -
           (IF ballot[r].poll = p /\ ballot[r].voter = u /\ n = o THEN Sign(o, ballot[r]) ELSE 0)
<1> DEFINE mine == ballot[r].poll = p /\ ballot[r].voter = u /\ n = o
<1>1. \A x \in Hands \ {r} : /\ (x \in Adding(p, u, n)) <=> (x \in Adding(p, u, n)')
                             /\ (x \in Removing(p, u, n)) <=> (x \in Removing(p, u, n)')
  BY DEF Adding, Removing, Jobs, Telling
<1>2. /\ (r \in Adding(p, u, n)') <=> (r \in Adding(p, u, n) /\ n # o)
      /\ (r \in Removing(p, u, n)') <=> (r \in Removing(p, u, n) /\ n # o)
  BY DEF Adding, Removing, Jobs
<1>3. /\ Adding(p, u, n) \subseteq Hands /\ Adding(p, u, n)' \subseteq Hands
      /\ Removing(p, u, n) \subseteq Hands /\ Removing(p, u, n)' \subseteq Hands
  BY DEF Adding, Removing, Jobs
<1>4. /\ Adding(p, u, n)' = IF n = o THEN Adding(p, u, n) \ {r} ELSE Adding(p, u, n)
      /\ Removing(p, u, n)' = IF n = o THEN Removing(p, u, n) \ {r} ELSE Removing(p, u, n)
  BY <1>1, <1>2, <1>3
<1>5. n = o => /\ r \in Adding(p, u, n) <=> (mine /\ o \in ballot[r].added)
               /\ r \in Removing(p, u, n) <=> (mine /\ o \in ballot[r].removed)
  BY DEF Adding, Removing, Jobs
<1>6. CASE n # o
  BY <1>4, <1>6, OwedIs, OwedWillBe
<1>7. CASE n = o
  <2>1. Cardinality(Adding(p, u, n)') = Cardinality(Adding(p, u, n)) - (IF r \in Adding(p, u, n) THEN 1 ELSE 0)
    <3>1. CASE r \in Adding(p, u, n)
      BY <1>4, <1>7, <3>1, OwedIs, FS_RemoveElement
    <3>2. CASE r \notin Adding(p, u, n)
      <4>1. Adding(p, u, n)' = Adding(p, u, n)
        BY <1>4, <3>2
      <4> QED
        BY <3>2, <4>1, OwedIs
    <3> QED
      BY <3>1, <3>2
  <2>2. Cardinality(Removing(p, u, n)') = Cardinality(Removing(p, u, n)) - (IF r \in Removing(p, u, n) THEN 1 ELSE 0)
    <3>1. CASE r \in Removing(p, u, n)
      BY <1>4, <1>7, <3>1, OwedIs, FS_RemoveElement
    <3>2. CASE r \notin Removing(p, u, n)
      <4>1. Removing(p, u, n)' = Removing(p, u, n)
        BY <1>4, <3>2
      <4> QED
        BY <3>2, <4>1, OwedIs
    <3> QED
      BY <3>1, <3>2
  <2> QED
    BY <1>5, <1>7, <2>1, <2>2, OwedIs, OwedWillBe DEF Sign
<1> QED
  BY <1>6, <1>7

LEMMA PollsInitInv == PollsInit => PollsInv
<1> SUFFICES ASSUME PollsInit PROVE PollsInv
  OBVIOUS
<1>1. \A r \in Hands : ballot[r] = NoBallot /\ ballot[r].at = "none"
  BY DEF PollsInit, NoBallot
<1>2. PollsTypes
  <2>1. ballot \in [Hands -> Requests]
    BY DEF PollsInit, Requests
  <2>2. options \in [PollRows -> SUBSET AllChoices]
    BY ChoicesAreChoices DEF PollsInit
  <2>6. reached \subseteq FarPolls /\ spent = {} /\ untold = {}
    BY DEF PollsInit
  <2>3. tally \in [FarPolls -> [Voters -> [AllChoices -> Int]]]
    BY DEF PollsInit
  <2>4. votes \in [PollRows -> [Electors -> SUBSET AllChoices]]
    BY DEF PollsInit
  <2>5. 0 \in 0..MaxRefreshes /\ 0 \in 0..MaxCast
    BY PollsBounds
  <2> QED
    BY <2>1, <2>2, <2>3, <2>4, <2>5, <2>6, PollsBounds DEF PollsInit, PollsTypes
<1>3. OptionsOK
  BY DEF PollsInit, OptionsOK
<1>4. VotersOK /\ LocksOK
  BY <1>1 DEF VotersOK, LocksOK, Changing
<1>5. TalliesOK
  <2> SUFFICES ASSUME NEW p \in FarPolls, NEW u \in Voters, NEW o \in AllChoices
               PROVE  tally[p][u][o] + Owed(p, u, o) = IF o \in votes[p][u] THEN 1 ELSE 0
    BY DEF TalliesOK
  <2>1. tally[p][u][o] = 0 /\ o \notin votes[p][u]
    BY DEF PollsInit, PollRows, Electors
  <2>2. Adding(p, u, o) = {} /\ Removing(p, u, o) = {}
    BY <1>1 DEF Adding, Removing, Jobs, Telling
  <2>3. Owed(p, u, o) = 0
    BY <2>2, OwedIs, FS_EmptySet
  <2> QED
    BY <2>1, <2>3
<1> QED
  BY <1>2, <1>3, <1>4, <1>5 DEF PollsInv

\* Where no job comes or goes, and no vote of a local user in a poll kept elsewhere,
\* but for those that a delivery is lost for.
LEMMA TalliesLeft ==
  ASSUME TalliesOK, tally' = tally, spent' = spent, untold \subseteq untold',
         \A q \in FarPolls : options'[q] = options[q],
         \A r \in Hands : \/ ~Telling(r) /\ ~Telling(r)'
                          \/ ballot'[r] = ballot[r]
                          \/ Telling(r) /\ ~Telling(r)' /\ Lost(r) \subseteq untold',
         \A q \in FarPolls, v \in Voters, o \in AllChoices :
           \/ o \in votes'[q][v] <=> o \in votes[q][v]
           \/ <<q, v, o>> \in untold'
  PROVE  TalliesOK'
<1> SUFFICES ASSUME NEW p \in FarPolls, NEW u \in Voters, NEW o \in AllChoices,
                    ~Gone(p)', o \notin spent', <<p, u, o>> \notin untold'
             PROVE  tally[p][u][o] + Owed(p, u, o)' = IF o \in votes'[p][u] THEN 1 ELSE 0
  BY DEF TalliesOK
<1>1. ~Gone(p) /\ o \notin spent /\ <<p, u, o>> \notin untold
  BY DEF Gone
<1>2. Owed(p, u, o)' = Owed(p, u, o)
  BY OwedLeft
<1>3. o \in votes'[p][u] <=> o \in votes[p][u]
  OBVIOUS
<1> QED
  BY <1>1, <1>2, <1>3 DEF TalliesOK

\* Where no vote changes, and no transaction begins.
LEMMA LocksLeft ==
  ASSUME LocksOK, votes' = votes, \A r \in Hands : Changing(r)' => ballot'[r] = ballot[r]
  PROVE  LocksOK'
<1>1. \A r \in Hands : Changing(r)' => Changing(r) /\ ballot'[r] = ballot[r]
  BY DEF Changing
<1> QED
  BY <1>1 DEF LocksOK

LEMMA VotersLeft ==
  ASSUME VotersOK, \A r \in Hands : ballot'[r] = ballot[r] \/ ballot'[r] = NoBallot
  PROVE  VotersOK'
BY DEF VotersOK, NoBallot

LEMMA CreatePollKeeps ==
  ASSUME PollsInv, NEW p \in OwnPolls, NEW clash \in BOOLEAN, CreatePoll(p, clash)
  PROVE  PollsInv'
<1>1. /\ options' = options \/ options' = [options EXCEPT ![p] = Choices[p]]
      /\ UNCHANGED <<severed, plural, votes, ballot, tally, reached, spent, untold, refreshes, cast>>
  BY DEF CreatePoll
<1>2. PollsTypes /\ OptionsOK /\ VotersOK /\ LocksOK /\ TalliesOK
  BY DEF PollsInv
<1>3. p \in PollRows /\ p \notin FarPolls /\ FarPolls \subseteq PollRows
  BY PollsBounds DEF PollRows
<1>4. \A q \in PollRows : options'[q] = options[q] \/ (q = p /\ options'[q] = Choices[q])
  BY <1>1, <1>2, <1>3 DEF PollsTypes
<1>5. PollsTypes'
  <2>1. options' \in [PollRows -> SUBSET AllChoices]
    BY <1>1, <1>2, <1>3, ChoicesAreChoices DEF PollsTypes
  <2> QED
    BY <1>1, <1>2, <2>1 DEF PollsTypes
<1>6. OptionsOK'
  BY <1>1, <1>2, <1>4 DEF OptionsOK
<1>7. TalliesOK'
  BY <1>1, <1>2, <1>3, <1>4, TalliesLeft
<1> QED
  BY <1>1, <1>2, <1>5, <1>6, <1>7, LocksLeft, VotersLeft DEF PollsInv

\* A request that reads the poll changes nothing else.
LEMMA AskingKeeps ==
  ASSUME PollsInv, NEW r \in Hands, NEW b \in Asked, ballot[r] = NoBallot,
         b.poll \in FarPolls => b.voter \in Voters, b.at = "heard" => b.voter \in Strangers,
         b.author => b.poll \in FarPolls,
         ballot' = [ballot EXCEPT ![r] = b], cast < MaxCast, cast' = cast + 1,
         UNCHANGED <<options, severed, plural, votes, tally, reached, spent, untold, refreshes>>
  PROVE  PollsInv'
<1>1. PollsTypes /\ OptionsOK /\ VotersOK /\ LocksOK /\ TalliesOK
  BY DEF PollsInv
<1>2. ballot'[r] = b /\ \A x \in Hands \ {r} : ballot'[x] = ballot[x]
  BY <1>1 DEF PollsTypes
<1>3. b.at \in {"vote", "heard"} /\ ballot[r].at = "none"
  BY DEF Asked, NoBallot
<1>4. PollsTypes'
  <2>1. cast' \in 0..MaxCast
    BY <1>1, PollsBounds DEF PollsTypes
  <2>2. ballot' \in [Hands -> Requests]
    BY <1>1 DEF PollsTypes, Requests
  <2> QED
    BY <1>1, <2>1, <2>2 DEF PollsTypes
<1>5. OptionsOK'
  BY <1>1 DEF OptionsOK
<1>6. VotersOK'
  BY <1>1, <1>2, <1>3 DEF VotersOK
<1>7. LocksOK'
  <2>1. \A x \in Hands : Changing(x)' => ballot'[x] = ballot[x]
    BY <1>2, <1>3 DEF Changing
  <2> QED
    BY <1>1, <2>1, LocksLeft
<1>8. TalliesOK'
  <2>1. \A x \in Hands : Telling(x) \/ Telling(x)' => ballot'[x] = ballot[x]
    BY <1>2, <1>3 DEF Telling
  <2> QED
    BY <1>1, <2>1, TalliesLeft
<1> QED
  BY <1>4, <1>5, <1>6, <1>7, <1>8 DEF PollsInv

LEMMA OpenVoteKeeps ==
  ASSUME PollsInv, NEW r \in Hands, NEW u \in Voters, NEW p \in PollRows, NEW chosen \in Ballots,
         OpenVote(r, u, p, chosen)
  PROVE  PollsInv'
<1> DEFINE b == [at |-> "vote", voter |-> u, poll |-> p, chosen |-> chosen, author |-> p \in reached]
<1>1. b \in Asked
  BY PollsBounds DEF Asked, Electors
<1>2. b.at = "vote" /\ b.voter = u /\ (b.author => b.poll \in FarPolls)
  BY DEF PollsInv, PollsTypes
<1> QED
  BY <1>1, <1>2, AskingKeeps DEF OpenVote

LEMMA HearVoteKeeps ==
  ASSUME PollsInv, NEW r \in Hands, NEW u \in Strangers, NEW p \in OwnPolls, NEW o \in AllChoices,
         HearVote(r, u, p, o)
  PROVE  PollsInv'
<1> DEFINE b == [at |-> "heard", voter |-> u, poll |-> p, chosen |-> {o}, author |-> FALSE]
<1>1. b \in Asked
  BY DEF Asked, Electors, PollRows
<1>2. b.at = "heard" /\ b.voter = u /\ b.poll = p /\ p \notin FarPolls /\ ~b.author
  BY PollsBounds
<1> QED
  BY <1>1, <1>2, AskingKeeps DEF HearVote

LEMMA LockedRows ==
  ASSUME NEW x \in Hands, Changing(x), NEW q \in PollRows
  PROVE  ballot[x].gone[q] \subseteq Locked(ballot[x].voter, q)
BY DEF Locked, Changing

LEMMA DeleteVotesKeeps ==
  ASSUME PollsInv, NEW r \in Hands, DeleteVotes(r)
  PROVE  PollsInv'
<1> DEFINE u == ballot[r].voter
           p == ballot[r].poll
           chosen == ballot[r].chosen
           gone == IF ballot[r].at = "vote" THEN TakenBack(u, p, chosen) ELSE TakenByInbox(u, p)
           b == [at |-> "change", voter |-> u, poll |-> p, chosen |-> chosen,
                 author |-> ballot[r].author, gone |-> gone]
<1>1. /\ ballot[r].at \in {"vote", "heard"}
      /\ \A q \in PollRows : Locked(u, q) \cap gone[q] = {}
      /\ ballot' = [ballot EXCEPT ![r] = b]
      /\ UNCHANGED <<options, severed, plural, votes, tally, reached, spent, untold, refreshes, cast>>
  BY DEF DeleteVotes
<1>2. PollsTypes /\ OptionsOK /\ VotersOK /\ LocksOK /\ TalliesOK
  BY DEF PollsInv
<1>3. u \in Electors /\ p \in PollRows /\ chosen \in SUBSET AllChoices /\ ballot[r].author \in BOOLEAN
  BY <1>1, <1>2 DEF PollsTypes, Requests, Asked, Changes, Tells, NoBallot
<1>4. \A q \in PollRows : gone[q] \subseteq votes[q][u]
  BY DEF TakenBack, TakenByInbox
<1>5. gone \in [PollRows -> SUBSET AllChoices]
  <2>1. \A q \in PollRows : votes[q][u] \subseteq AllChoices
    BY <1>2, <1>3 DEF PollsTypes
  <2>2. CASE ballot[r].at = "vote"
    BY <2>1, <2>2 DEF TakenBack
  <2>3. CASE ballot[r].at # "vote"
    BY <2>1, <2>3 DEF TakenByInbox
  <2> QED
    BY <2>2, <2>3
<1>6. u \in Voters => gone[p] \cap chosen = {} /\ \A q \in PollRows \ {p} : gone[q] = {}
  <2>1. CASE ballot[r].at = "vote"
    BY <1>3, <2>1 DEF TakenBack
  <2>2. CASE ballot[r].at = "heard"
    BY <1>2, <2>2, PollsBounds DEF VotersOK
  <2> QED
    BY <1>1, <2>1, <2>2
<1>7. b \in Changes
  BY <1>3, <1>5 DEF Changes
<1>8. b.at = "change" /\ b.voter = u /\ b.poll = p /\ b.chosen = chosen /\ b.gone = gone
      /\ b.author = ballot[r].author
  OBVIOUS
<1> HIDE DEF gone, b
<1>9. ballot'[r] = b /\ \A x \in Hands \ {r} : ballot'[x] = ballot[x]
  BY <1>1, <1>2 DEF PollsTypes
<1>10. PollsTypes'
  BY <1>1, <1>2, <1>7 DEF PollsTypes, Requests
<1>11. OptionsOK'
  BY <1>1, <1>2 DEF OptionsOK
<1>12. VotersOK'
  BY <1>1, <1>2, <1>8, <1>9 DEF VotersOK
<1>13. TalliesOK'
  <2>1. \A x \in Hands : Telling(x) \/ Telling(x)' => ballot'[x] = ballot[x]
    BY <1>1, <1>8, <1>9 DEF Telling
  <2> QED
    BY <1>1, <1>2, <2>1, TalliesLeft
<1>14. LocksOK'
  <2>1. ASSUME NEW x \in Hands \ {r}, Changing(x), ballot[x].voter = u, NEW q \in PollRows
        PROVE  ballot[x].gone[q] \cap gone[q] = {}
    BY <1>1, <2>1, LockedRows
  <2>2. ASSUME NEW y \in Hands, Changing(y)'
        PROVE  /\ \A q \in PollRows : ballot'[y].gone[q] \subseteq votes[q][ballot'[y].voter]
               /\ \A x \in Hands \ {y} : Changing(x)' /\ ballot'[x].voter = ballot'[y].voter =>
                    \A q \in PollRows : ballot'[x].gone[q] \cap ballot'[y].gone[q] = {}
               /\ ballot'[y].voter \in Voters =>
                    /\ ballot'[y].gone[ballot'[y].poll] \cap ballot'[y].chosen = {}
                    /\ \A q \in PollRows \ {ballot'[y].poll} : ballot'[y].gone[q] = {}
    <3>1. CASE y = r
      BY <1>4, <1>6, <1>8, <1>9, <2>1, <3>1 DEF Changing
    <3>2. CASE y # r
      <4>1. ballot'[y] = ballot[y] /\ Changing(y)
        BY <1>9, <2>2, <3>2 DEF Changing
      <4>2. ASSUME NEW x \in Hands \ {y}, Changing(x)', ballot'[x].voter = ballot[y].voter,
                   NEW q \in PollRows
            PROVE  ballot'[x].gone[q] \cap ballot[y].gone[q] = {}
        <5>1. CASE x = r
          BY <1>8, <1>9, <2>1, <3>2, <4>1, <4>2, <5>1
        <5>2. CASE x # r
          BY <1>2, <1>9, <4>1, <4>2, <5>2 DEF LocksOK, Changing
        <5> QED
          BY <5>1, <5>2
      <4> QED
        BY <1>2, <4>1, <4>2 DEF LocksOK
    <3> QED
      BY <3>1, <3>2
  <2> QED
    BY <1>1, <2>2 DEF LocksOK
<1> QED
  BY <1>10, <1>11, <1>12, <1>13, <1>14 DEF PollsInv

\* A request that ends with nothing to tell, and no vote changed.
LEMMA EndingKeeps ==
  ASSUME PollsInv, NEW r \in Hands, ~Telling(r), ballot' = [ballot EXCEPT ![r] = NoBallot],
         UNCHANGED <<options, severed, plural, votes, tally, reached, spent, untold, refreshes, cast>>
  PROVE  PollsInv'
<1>1. PollsTypes /\ OptionsOK /\ VotersOK /\ LocksOK /\ TalliesOK
  BY DEF PollsInv
<1>2. ballot'[r] = NoBallot /\ \A x \in Hands \ {r} : ballot'[x] = ballot[x]
  BY <1>1 DEF PollsTypes
<1>3. PollsTypes' /\ OptionsOK'
  BY <1>1 DEF PollsTypes, OptionsOK, Requests
<1>4. VotersOK'
  BY <1>1, <1>2, VotersLeft
<1>5. LocksOK'
  BY <1>1, <1>2, LocksLeft DEF Changing, NoBallot
<1>6. TalliesOK'
  <2>1. \A x \in Hands : Telling(x) \/ Telling(x)' => ballot'[x] = ballot[x]
    BY <1>2 DEF Telling, NoBallot
  <2> QED
    BY <1>1, <2>1, TalliesLeft
<1> QED
  BY <1>3, <1>4, <1>5, <1>6 DEF PollsInv

\* A transaction that commits changes a user's votes for an option by what its job
\* will tell of it.
LEMMA InsertVotesKeeps ==
  ASSUME PollsInv, NEW r \in Hands, InsertVotes(r)
  PROVE  PollsInv'
<1> DEFINE u == ballot[r].voter
           p == ballot[r].poll
           chosen == ballot[r].chosen
           gone == ballot[r].gone
           removed == UNION {gone[q] : q \in PollRows}
           silent == ~(ballot[r].author /\ removed \cup chosen # {})
           job == [at |-> "tell", voter |-> u, poll |-> p, removed |-> removed, added |-> chosen]
           missed == Notices(p, u, removed, chosen) \cap Tellable
           new == [q \in PollRows |->
                     [votes[q] EXCEPT ![u] = (votes[q][u] \ gone[q]) \cup (IF q = p THEN chosen ELSE {})]]
<1>1. Changing(r) /\ ~Telling(r)
  BY DEF InsertVotes, Changing, Telling
<1>2. PollsTypes /\ OptionsOK /\ VotersOK /\ LocksOK /\ TalliesOK
  BY DEF PollsInv
<1>3. UNCHANGED <<options, severed, plural, tally, reached, spent, refreshes, cast>>
  BY DEF InsertVotes
<1>4. \/ ballot' = [ballot EXCEPT ![r] = NoBallot] /\ votes' = votes /\ untold' = untold
      \/ /\ ~Fails(u, p, chosen, gone) /\ votes' = new
         /\ ballot' = [ballot EXCEPT ![r] = IF silent THEN NoBallot ELSE job]
         /\ untold' = IF silent THEN untold \cup missed ELSE untold
  BY DEF InsertVotes
<1>5. CASE ballot' = [ballot EXCEPT ![r] = NoBallot] /\ votes' = votes /\ untold' = untold
  BY <1>1, <1>3, <1>5, EndingKeeps
<1>6. CASE /\ ~Fails(u, p, chosen, gone) /\ votes' = new
           /\ ballot' = [ballot EXCEPT ![r] = IF silent THEN NoBallot ELSE job]
           /\ untold' = IF silent THEN untold \cup missed ELSE untold
  <2>1. /\ u \in Electors /\ p \in PollRows /\ chosen \in SUBSET AllChoices
        /\ gone \in [PollRows -> SUBSET AllChoices]
    BY <1>1, <1>2 DEF PollsTypes, Requests, Asked, Changes, Tells, NoBallot, Changing
  <2>2. /\ \A q \in PollRows : gone[q] \subseteq votes[q][u]
        /\ u \in Voters => gone[p] \cap chosen = {} /\ \A q \in PollRows \ {p} : gone[q] = {}
    BY <1>1, <1>2 DEF LocksOK
  <2>3. \A o \in chosen : o \notin votes[p][u] \ gone[p]
    BY <1>6 DEF Fails
  <2>4. /\ \A q \in PollRows, v \in Electors \ {u} : votes'[q][v] = votes[q][v]
        /\ \A q \in PollRows :
             votes'[q][u] = (votes[q][u] \ gone[q]) \cup (IF q = p THEN chosen ELSE {})
    BY <1>2, <1>6, <2>1 DEF PollsTypes
  <2>5. votes' \in [PollRows -> [Electors -> SUBSET AllChoices]]
    <3>1. ASSUME NEW q \in PollRows
          PROVE  [votes[q] EXCEPT ![u] = (votes[q][u] \ gone[q]) \cup (IF q = p THEN chosen ELSE {})]
                   \in [Electors -> SUBSET AllChoices]
      BY <1>2, <2>1 DEF PollsTypes
    <3> QED
      BY <1>6, <3>1
  <2>6. /\ job \in Tells /\ job.at = "tell" /\ job.voter = u /\ job.poll = p
        /\ job.removed = removed /\ job.added = chosen
    BY <2>1 DEF Tells
  <2>13. missed \subseteq Tellable /\ removed \subseteq AllChoices
    BY <2>1
  <2>14. p \in FarPolls => u \in Voters
    BY <1>1, <1>2 DEF VotersOK, Changing
  <2>15. u \in Voters => removed = gone[p]
    BY <2>1, <2>2
  <2> HIDE DEF job, new, removed
  <2>7. /\ ballot'[r] = IF silent THEN NoBallot ELSE job
        /\ \A x \in Hands \ {r} : ballot'[x] = ballot[x]
    BY <1>2, <1>6 DEF PollsTypes
  <2>8. PollsTypes'
    <3>1. ballot' \in [Hands -> Requests]
      BY <1>2, <1>6, <2>6 DEF PollsTypes, Requests
    <3> QED
      BY <1>2, <1>3, <1>6, <2>5, <2>13, <3>1 DEF PollsTypes
  <2>9. OptionsOK'
    BY <1>2, <1>3 DEF OptionsOK
  <2>10. VotersOK'
    <3>1. ballot[r].at = "change" /\ (ballot[r].author => p \in FarPolls)
      BY <1>1, <1>2 DEF VotersOK, Changing
    <3> QED
      BY <1>2, <2>6, <2>7, <2>14, <3>1 DEF VotersOK, NoBallot
  <2>11. LocksOK'
    <3>1. \A x \in Hands : Changing(x)' => x # r /\ Changing(x) /\ ballot'[x] = ballot[x]
      BY <2>6, <2>7 DEF Changing, NoBallot
    <3>2. ASSUME NEW x \in Hands \ {r}, Changing(x), NEW q \in PollRows
          PROVE  ballot[x].gone[q] \subseteq votes'[q][ballot[x].voter]
      <4>1. ballot[x].gone[q] \subseteq votes[q][ballot[x].voter] /\ ballot[x].voter \in Electors
        BY <1>2, <3>2 DEF LocksOK, PollsTypes, Requests, Asked, Changes, Tells, NoBallot, Changing
      <4>2. CASE ballot[x].voter = u
        <5>1. ballot[x].gone[q] \cap gone[q] = {}
          BY <1>1, <1>2, <3>2, <4>2 DEF LocksOK
        <5> QED
          BY <2>4, <4>1, <4>2, <5>1
      <4>3. CASE ballot[x].voter # u
        BY <2>4, <4>1, <4>3
      <4> QED
        BY <4>2, <4>3
    <3> QED
      BY <1>2, <3>1, <3>2 DEF LocksOK
  <2>12. TalliesOK'
    <3>1. CASE silent
      <4>1. \A x \in Hands : (~Telling(x) /\ ~Telling(x)') \/ ballot'[x] = ballot[x]
        BY <1>1, <2>7, <3>1 DEF Telling, NoBallot
      <4>2. ASSUME NEW q \in FarPolls, NEW v \in Voters, NEW o \in AllChoices,
                   ~(o \in votes'[q][v] <=> o \in votes[q][v])
            PROVE  <<q, v, o>> \in untold'
        <5>1. q \in PollRows /\ v \in Electors
          BY DEF PollRows, Electors
        <5>2. v = u
          BY <2>4, <4>2, <5>1
        <5>3. votes'[q][u] = (votes[q][u] \ gone[q]) \cup (IF q = p THEN chosen ELSE {})
          BY <2>4, <5>1
        <5>4. q = p
          BY <2>2, <4>2, <5>1, <5>2, <5>3
        <5>5. o \in removed \cup chosen
          BY <2>15, <4>2, <5>2, <5>3, <5>4
        <5>6. <<q, v, o>> \in missed
          BY <5>2, <5>4, <5>5 DEF Notices, Tellable
        <5> HIDE DEF missed
        <5> QED
          BY <1>6, <3>1, <5>6
      <4>3. untold \subseteq untold'
        BY <1>6
      <4> QED
        BY <1>2, <1>3, <4>1, <4>2, <4>3, TalliesLeft
    <3>2. CASE ~silent
      <4>1. ballot'[r] = job /\ Telling(r)' /\ p \in FarPolls /\ untold' = untold
        BY <1>1, <1>2, <1>6, <2>6, <2>7, <3>2 DEF Telling, Changing, VotersOK
      <4>2. u \in Voters
        BY <2>14, <4>1
      <4>3. job.removed = gone[p]
        BY <2>6, <2>15, <4>2
      <4> SUFFICES ASSUME NEW q \in FarPolls, NEW v \in Voters, NEW o \in AllChoices,
                          ~Gone(q), o \notin spent, <<q, v, o>> \notin untold
                   PROVE  tally[q][v][o] + Owed(q, v, o)' = IF o \in votes'[q][v] THEN 1 ELSE 0
        BY <1>3, <4>1 DEF TalliesOK, Gone
      <4>4. tally[q][v][o] + Owed(q, v, o) = IF o \in votes[q][v] THEN 1 ELSE 0
        BY <1>2 DEF TalliesOK
      <4>5. Owed(q, v, o)' = Owed(q, v, o) + (IF p = q /\ u = v THEN Sign(o, job) ELSE 0)
        BY <1>1, <2>6, <2>7, <4>1, OwedJoins
      <4>6. tally[q][v][o] \in Int /\ Owed(q, v, o) \in Int /\ Sign(o, job) \in Int
        BY <1>2, OwedIs DEF PollsTypes, Sign
      <4>7. q \in PollRows /\ v \in Electors
        BY DEF PollRows, Electors
      <4>8. CASE p = q /\ u = v
        <5>1. votes'[q][v] = (votes[q][v] \ gone[p]) \cup chosen
          BY <2>4, <4>7, <4>8
        <5>2. gone[p] \subseteq votes[q][v] /\ gone[p] \cap chosen = {} /\ chosen \cap (votes[q][v] \ gone[p]) = {}
          BY <2>1, <2>2, <2>3, <4>2, <4>8
        <5>3. Sign(o, job) = (IF o \in chosen THEN 1 ELSE 0) - (IF o \in gone[p] THEN 1 ELSE 0)
          BY <2>6, <4>3 DEF Sign
        <5>4. (IF o \in votes'[q][v] THEN 1 ELSE 0) = (IF o \in votes[q][v] THEN 1 ELSE 0) + Sign(o, job)
          BY <5>1, <5>2, <5>3
        <5> QED
          BY <4>4, <4>5, <4>6, <4>8, <5>4
      <4>9. CASE ~(p = q /\ u = v)
        <5>1. votes'[q][v] = votes[q][v]
          <6>1. CASE v # u
            BY <2>4, <4>7, <6>1
          <6>2. CASE v = u
            <7>1. gone[q] = {} /\ q # p
              BY <2>2, <4>2, <4>7, <4>9, <6>2
            <7>2. votes'[q][u] = (votes[q][u] \ gone[q]) \cup (IF q = p THEN chosen ELSE {})
              BY <2>4, <4>7
            <7> QED
              BY <6>2, <7>1, <7>2
          <6> QED
            BY <6>1, <6>2
        <5> QED
          BY <4>4, <4>5, <4>6, <4>9, <5>1
      <4> QED
        BY <4>8, <4>9
    <3> QED
      BY <3>1, <3>2
  <2> QED
    BY <2>8, <2>9, <2>10, <2>11, <2>12 DEF PollsInv
<1> QED
  BY <1>4, <1>5, <1>6

LEMMA TellAuthorKeeps ==
  ASSUME PollsInv, NEW r \in Hands, NEW n \in AllChoices, TellAuthor(r, n)
  PROVE  PollsInv'
<1> DEFINE job == ballot[r]
           rest == [job EXCEPT !.removed = @ \ {n}, !.added = @ \ {n}]
           ends == rest.removed \cup rest.added = {}
<1>1. /\ Telling(r) /\ ballot' = [ballot EXCEPT ![r] = IF ends THEN NoBallot ELSE rest]
      /\ tally' = [tally EXCEPT ![job.poll][job.voter][n] = @ + Sign(n, job)]
      /\ UNCHANGED <<options, severed, plural, votes, reached, spent, untold, refreshes, cast>>
  BY DEF TellAuthor, Telling
<1>2. PollsTypes /\ OptionsOK /\ VotersOK /\ LocksOK /\ TalliesOK
  BY DEF PollsInv
<1>3. job \in Tells
  BY <1>1, <1>2 DEF PollsTypes, Requests, Asked, Changes, NoBallot, Telling
<1>4. job.poll \in FarPolls /\ job.voter \in Voters
  BY <1>1, <1>2 DEF VotersOK, Telling
<1>5. /\ rest \in Tells /\ rest.at = "tell" /\ rest.poll = job.poll /\ rest.voter = job.voter
      /\ rest.added = job.added \ {n} /\ rest.removed = job.removed \ {n}
  BY <1>3 DEF Tells
<1>6. ends => job.added \cup job.removed \subseteq {n}
  BY <1>5
<1> HIDE DEF rest, ends
<1>7. ballot'[r] = (IF ends THEN NoBallot ELSE rest) /\ \A x \in Hands \ {r} : ballot'[x] = ballot[x]
  BY <1>1, <1>2 DEF PollsTypes
<1>8. (Telling(r)' <=> ~ends) /\ ~Changing(r) /\ ~Changing(r)'
  BY <1>1, <1>5, <1>7 DEF Telling, Changing, NoBallot
<1> HIDE DEF job
<1>9. Sign(n, job) \in Int
  BY DEF Sign
<1>10. \A q \in FarPolls, v \in Voters, o \in AllChoices :
         tally'[q][v][o] = tally[q][v][o]
           + (IF job.poll = q /\ job.voter = v /\ o = n THEN Sign(n, job) ELSE 0)
  <2> SUFFICES ASSUME NEW q \in FarPolls, NEW v \in Voters, NEW o \in AllChoices
               PROVE  tally'[q][v][o] = tally[q][v][o]
                        + (IF job.poll = q /\ job.voter = v /\ o = n THEN Sign(n, job) ELSE 0)
    OBVIOUS
  <2>1. tally[q] \in [Voters -> [AllChoices -> Int]] /\ tally[q][v] \in [AllChoices -> Int] /\ tally[q][v][o] \in Int
    BY <1>2 DEF PollsTypes
  <2>2. CASE job.poll = q /\ job.voter = v /\ o = n
    BY <1>1, <1>2, <2>1, <2>2 DEF PollsTypes
  <2>3. CASE ~(job.poll = q /\ job.voter = v /\ o = n)
    BY <1>1, <1>2, <2>1, <2>3 DEF PollsTypes
  <2> QED
    BY <2>2, <2>3
<1>11. PollsTypes'
  <2>1. tally' \in [FarPolls -> [Voters -> [AllChoices -> Int]]]
    <3> DEFINE p == job.poll
               u == job.voter
               told == [tally[p][u] EXCEPT ![n] = @ + Sign(n, job)]
    <3>1. told \in [AllChoices -> Int]
      <4>1. tally[p][u] \in [AllChoices -> Int] /\ tally[p][u][n] + Sign(n, job) \in Int
        BY <1>2, <1>4, <1>9 DEF PollsTypes
      <4> QED
        BY <4>1
    <3>2. tally' = [tally EXCEPT ![p] = [tally[p] EXCEPT ![u] = told]]
      BY <1>1
    <3>3. [tally[p] EXCEPT ![u] = told] \in [Voters -> [AllChoices -> Int]]
      BY <1>2, <1>4, <3>1 DEF PollsTypes
    <3> HIDE DEF told
    <3> QED
      BY <1>2, <3>2, <3>3 DEF PollsTypes
  <2>2. ballot' \in [Hands -> Requests]
    BY <1>1, <1>2, <1>5 DEF PollsTypes, Requests
  <2> QED
    BY <1>1, <1>2, <2>1, <2>2 DEF PollsTypes
<1>12. OptionsOK'
  BY <1>1, <1>2 DEF OptionsOK
<1>13. VotersOK'
  BY <1>2, <1>4, <1>5, <1>7 DEF VotersOK, NoBallot
<1>14. LocksOK'
  <2>1. \A x \in Hands : Changing(x)' => ballot'[x] = ballot[x]
    BY <1>7, <1>8
  <2> QED
    BY <1>1, <1>2, <2>1, LocksLeft
<1>15. TalliesOK'
  <2> SUFFICES ASSUME NEW q \in FarPolls, NEW v \in Voters, NEW o \in AllChoices,
                      ~Gone(q), o \notin spent, <<q, v, o>> \notin untold
               PROVE  tally'[q][v][o] + Owed(q, v, o)' = IF o \in votes[q][v] THEN 1 ELSE 0
    BY <1>1 DEF TalliesOK, Gone
  <2>1. tally[q][v][o] + Owed(q, v, o) = IF o \in votes[q][v] THEN 1 ELSE 0
    BY <1>2 DEF TalliesOK
  <2>2. Owed(q, v, o)' = Owed(q, v, o)
          - (IF job.poll = q /\ job.voter = v /\ o = n THEN Sign(n, job) ELSE 0)
    BY <1>1, <1>5, <1>6, <1>7, <1>8, OwedShrinks DEF job
  <2>3. tally[q][v][o] \in Int /\ Owed(q, v, o) \in Int
    BY <1>2, OwedIs DEF PollsTypes
  <2>4. tally'[q][v][o] = tally[q][v][o]
          + (IF job.poll = q /\ job.voter = v /\ o = n THEN Sign(n, job) ELSE 0)
    BY <1>10
  <2> QED
    BY <1>9, <2>1, <2>2, <2>3, <2>4
<1> QED
  BY <1>11, <1>12, <1>13, <1>14, <1>15 DEF PollsInv

\* What is lost are votes in polls kept elsewhere.
LEMMA LostTypes == ASSUME PollsInv, NEW r \in Hands PROVE Lost(r) \subseteq Tellable
<1>1. CASE ~Telling(r)
  BY <1>1 DEF Lost, Telling
<1>2. CASE Telling(r)
  <2>1. PollsTypes /\ VotersOK
    BY DEF PollsInv
  <2>2. ballot[r] \in Tells
    BY <1>2, <2>1 DEF PollsTypes, Requests, Asked, Changes, NoBallot, Telling
  <2>3. ballot[r].poll \in FarPolls /\ ballot[r].voter \in Voters
    BY <1>2, <2>1 DEF VotersOK, Telling
  <2>4. ballot[r].removed \cup ballot[r].added \subseteq AllChoices
    BY <2>2 DEF Tells
  <2> QED
    BY <2>3, <2>4 DEF Lost, Notices, Tellable
<1> QED
  BY <1>1, <1>2

\* Requests that end and leave their notices untold.
LEMMA LosingKeeps ==
  ASSUME PollsInv, NEW ended \in SUBSET Hands,
         ballot' = [r \in Hands |-> IF r \in ended THEN NoBallot ELSE ballot[r]],
         untold' = untold \cup UNION {Lost(r) : r \in ended},
         UNCHANGED <<options, severed, plural, votes, tally, reached, spent, refreshes, cast>>
  PROVE  PollsInv'
<1>1. PollsTypes /\ OptionsOK /\ VotersOK /\ LocksOK /\ TalliesOK
  BY DEF PollsInv
<1>2. /\ \A r \in Hands : ballot'[r] = ballot[r] \/ (r \in ended /\ ballot'[r] = NoBallot)
      /\ NoBallot.at = "none"
  BY DEF NoBallot
<1>3. PollsTypes' /\ OptionsOK'
  <2>1. ballot' \in [Hands -> Requests]
    BY <1>1 DEF PollsTypes, Requests
  <2>2. untold' \subseteq Tellable
    BY <1>1, LostTypes DEF PollsTypes
  <2> QED
    BY <1>1, <2>1, <2>2 DEF PollsTypes, OptionsOK
<1>4. VotersOK' /\ LocksOK'
  BY <1>1, <1>2, VotersLeft, LocksLeft DEF Changing
<1>5. TalliesOK'
  <2>1. \A r \in ended : Lost(r) \subseteq untold'
    OBVIOUS
  <2>2. \A r \in Hands : \/ ~Telling(r) /\ ~Telling(r)'
                         \/ ballot'[r] = ballot[r]
                         \/ Telling(r) /\ ~Telling(r)' /\ Lost(r) \subseteq untold'
    BY <1>2, <2>1 DEF Telling
  <2>3. untold \subseteq untold'
    OBVIOUS
  <2> QED
    BY <1>1, <2>2, <2>3, TalliesLeft
<1> QED
  BY <1>3, <1>4, <1>5 DEF PollsInv

LEMMA TellFailsKeeps ==
  ASSUME PollsInv, NEW r \in Hands, TellFails(r)
  PROVE  PollsInv'
<1>1. ballot' = [x \in Hands |-> IF x \in {r} THEN NoBallot ELSE ballot[x]]
  BY DEF TellFails, PollsInv, PollsTypes
<1>2. untold' = untold \cup UNION {Lost(x) : x \in {r}}
  BY DEF TellFails
<1> QED
  BY <1>1, <1>2, LosingKeeps DEF TellFails

LEMMA ServerStopsKeeps == PollsInv /\ ServerStops => PollsInv'
<1> SUFFICES ASSUME PollsInv, ServerStops PROVE PollsInv'
  OBVIOUS
<1>1. ballot' = [x \in Hands |-> IF x \in Hands THEN NoBallot ELSE ballot[x]]
  BY DEF ServerStops
<1> QED
  BY <1>1, LosingKeeps DEF ServerStops

\* A document takes votes only for options that go, and none that a transaction holds.
LEMMA RefreshPollKeeps ==
  ASSUME PollsInv, NEW p \in FarPolls, NEW names \in SUBSET AllChoices,
         NEW many \in BOOLEAN, NEW ended \in BOOLEAN, RefreshPoll(p, names, many, ended)
  PROVE  PollsInv'
<1> DEFINE lost == options[p] \ names
<1>1. /\ names \subseteq Choices[p] \ spent /\ refreshes < MaxRefreshes
      /\ options[p] = {} => names # {} /\ Choices[p] \cap spent = {}
      /\ \A q \in PollRows, u \in Electors : Locked(u, q) \cap lost = {}
      /\ names = {} => \A u \in Electors : Locked(u, p) = {}
      /\ options' = [options EXCEPT ![p] = names]
      /\ votes' = [q \in PollRows |-> [u \in Electors |->
                     IF q = p /\ names = {} THEN {} ELSE votes[q][u] \ lost]]
      /\ plural' \in {plural \cup {p}, plural \ {p}} /\ severed' \in {severed \cup {p}, severed \ {p}}
      /\ spent' = spent \cup lost
      /\ refreshes' = refreshes + 1 /\ UNCHANGED <<ballot, tally, reached, untold, cast>>
  BY DEF RefreshPoll
<1>2. PollsTypes /\ OptionsOK /\ VotersOK /\ LocksOK /\ TalliesOK
  BY DEF PollsInv
<1>3. p \in PollRows /\ FarPolls \subseteq PollRows /\ Voters \subseteq Electors
  BY DEF PollRows, Electors
<1>4. options'[p] = names /\ \A q \in PollRows \ {p} : options'[q] = options[q]
  BY <1>1, <1>2, <1>3 DEF PollsTypes
<1>5. \A q \in PollRows, u \in Electors :
        votes'[q][u] = IF q = p /\ names = {} THEN {} ELSE votes[q][u] \ lost
  BY <1>1
<1>6. PollsTypes'
  <2>1. votes' \in [PollRows -> [Electors -> SUBSET AllChoices]]
    <3>1. \A q \in PollRows, u \in Electors : votes[q][u] \subseteq AllChoices
      BY <1>2 DEF PollsTypes
    <3>2. \A q \in PollRows, u \in Electors : votes'[q][u] \in SUBSET AllChoices
      BY <1>5, <3>1
    <3> QED
      BY <1>1, <3>2
  <2>2. refreshes' \in 0..MaxRefreshes
    BY <1>1, <1>2, PollsBounds DEF PollsTypes
  <2>3. options' \in [PollRows -> SUBSET AllChoices]
    BY <1>1, <1>2 DEF PollsTypes
  <2>4. severed' \subseteq PollRows /\ plural' \subseteq PollRows
    BY <1>1, <1>2, <1>3 DEF PollsTypes
  <2>5. spent' \subseteq AllChoices
    BY <1>1, <1>2, <1>3 DEF PollsTypes
  <2> QED
    BY <1>1, <1>2, <2>1, <2>2, <2>3, <2>4, <2>5 DEF PollsTypes
<1>7. OptionsOK'
  <2>1. \A q \in PollRows \ {p} : Choices[q] \cap Choices[p] = {}
    BY <1>3, PollsAssumption
  <2>2. lost \subseteq Choices[p]
    BY <1>2, <1>3 DEF OptionsOK
  <2>3. \A q \in PollRows \ {p} : options[q] \cap lost = {} /\ Choices[q] \cap lost = {}
    BY <1>2, <2>1, <2>2 DEF OptionsOK
  <2>5. \A q \in OwnPolls : q \in PollRows \ {p}
    BY PollsBounds DEF PollRows
  <2>4. names \cap lost = {}
    OBVIOUS
  <2> HIDE DEF lost
  <2> QED
    BY <1>1, <1>2, <1>4, <2>3, <2>4, <2>5 DEF OptionsOK
<1>8. VotersOK'
  BY <1>1, <1>2, VotersLeft
<1>9. LocksOK'
  <2>1. ASSUME NEW r \in Hands, Changing(r), NEW q \in PollRows
        PROVE  ballot[r].gone[q] \subseteq votes'[q][ballot[r].voter]
    <3>1. ballot[r].voter \in Electors
      BY <1>2, <2>1 DEF PollsTypes, Requests, Asked, Changes, Tells, NoBallot, Changing
    <3>2. ballot[r].gone[q] \subseteq Locked(ballot[r].voter, q)
      BY <2>1, LockedRows
    <3>3. ballot[r].gone[q] \subseteq votes[q][ballot[r].voter]
      BY <1>2, <2>1 DEF LocksOK
    <3>4. Locked(ballot[r].voter, q) \cap lost = {}
      BY <1>1, <3>1
    <3>5. CASE q = p /\ names = {}
      BY <1>1, <3>1, <3>2, <3>5
    <3>6. CASE ~(q = p /\ names = {})
      <4>1. votes'[q][ballot[r].voter] = votes[q][ballot[r].voter] \ lost
        BY <1>5, <3>1, <3>6
      <4> HIDE DEF lost
      <4> QED
        BY <3>2, <3>3, <3>4, <4>1
    <3> QED
      BY <3>5, <3>6
  <2>2. \A r \in Hands : Changing(r)' = Changing(r)
    BY <1>1 DEF Changing
  <2> QED
    BY <1>1, <1>2, <2>1, <2>2 DEF LocksOK
<1>10. TalliesOK'
  <2> SUFFICES ASSUME NEW q \in FarPolls, NEW u \in Voters, NEW o \in AllChoices,
                      ~Gone(q)', o \notin spent', <<q, u, o>> \notin untold
               PROVE  tally[q][u][o] + Owed(q, u, o)' = IF o \in votes'[q][u] THEN 1 ELSE 0
    BY <1>1 DEF TalliesOK
  <2>1. o \notin lost /\ o \notin spent /\ q \in PollRows /\ u \in Electors
    BY <1>1, <1>3
  <2>2. CASE q = p
    <3>1. ~Gone(p)
      BY <1>1, <2>2 DEF Gone
    <3>2. names # {}
      <4>1. ASSUME names = {} PROVE Choices[p] \cap spent' # {} /\ options'[p] = {}
        <5>1. lost = options[p] /\ options[p] # {}
          BY <1>1, <4>1
        <5>2. options[p] \subseteq Choices[p]
          BY <1>2, <1>3 DEF OptionsOK
        <5> QED
          BY <1>1, <1>4, <4>1, <5>1, <5>2
      <4> QED
        BY <2>2, <4>1 DEF Gone
    <3>3. votes'[q][u] = votes[q][u] \ lost
      BY <1>5, <2>1, <3>2
    <3> QED
      BY <1>1, <1>2, <2>1, <2>2, <3>1, <3>3, OwedLeft DEF TalliesOK
  <2>3. CASE q # p
    <3>1. ~Gone(q)
      BY <1>1, <1>4, <2>1, <2>3 DEF Gone
    <3>2. votes'[q][u] = votes[q][u] \ lost
      BY <1>5, <2>1, <2>3
    <3> QED
      BY <1>1, <1>2, <2>1, <3>1, <3>2, OwedLeft DEF TalliesOK
  <2> QED
    BY <2>2, <2>3
<1> QED
  BY <1>6, <1>7, <1>8, <1>9, <1>10 DEF PollsInv

LEMMA PollsKept == PollsInv /\ [PollsNext]_pollVars => PollsInv'
<1> SUFFICES ASSUME PollsInv, [PollsNext]_pollVars PROVE PollsInv'
  OBVIOUS
<1>1. ASSUME severed' \subseteq PollRows, reached' \subseteq FarPolls,
             UNCHANGED <<options, plural, votes, ballot, tally, spent, untold, refreshes, cast>>
      PROVE  PollsInv'
  <2>1. PollsTypes /\ OptionsOK /\ VotersOK /\ LocksOK /\ TalliesOK
    BY DEF PollsInv
  <2>2. PollsTypes' /\ OptionsOK'
    BY <1>1, <2>1 DEF PollsTypes, OptionsOK
  <2> QED
    BY <1>1, <2>1, <2>2, VotersLeft, LocksLeft, TalliesLeft DEF PollsInv
<1>2. ASSUME NEW p \in PollRows, PollEnds(p) PROVE PollsInv'
  BY <1>1, <1>2 DEF PollEnds, PollsInv, PollsTypes
<1>3. ASSUME NEW p \in FarPolls, AuthorChanges(p) PROVE PollsInv'
  BY <1>1, <1>3 DEF AuthorChanges, PollsInv, PollsTypes
<1>4. CASE UNCHANGED pollVars
  BY <1>1, <1>4 DEF pollVars, PollsInv, PollsTypes
<1> QED
  BY <1>2, <1>3, <1>4, CreatePollKeeps, OpenVoteKeeps, HearVoteKeeps, DeleteVotesKeeps, InsertVotesKeeps,
     TellAuthorKeeps, TellFailsKeeps, RefreshPollKeeps, ServerStopsKeeps DEF PollsNext

\* The rows of polls, their options and votes are what they are declared to be.
THEOREM PollsTypeCorrect == PollsSpec => []PollsTypeOK
<1>1. PollsInv => PollsTypeOK
  <2> SUFFICES ASSUME PollsInv PROVE PollsTypeOK
    OBVIOUS
  <2>1. PollsTypes
    BY DEF PollsInv
  <2>2. \A r \in Hands : ballot[r].at \in {"none", "vote", "heard", "change", "tell"}
    BY <2>1 DEF PollsTypes, Requests, Asked, Changes, Tells, NoBallot
  <2> QED
    BY <2>1, <2>2 DEF PollsTypes, PollsTypeOK
<1> QED
  BY <1>1, PollsInitInv, PollsKept, PTL DEF PollsSpec

\* The server of a poll is told of exactly the votes a user has in it, whatever
\* requests of that user overlap, retract one another, fail or meet a new document.
THEOREM VotesAreTold == PollsSpec => []VotesTold
<1>1. PollsInv => VotesTold
  <2> SUFFICES ASSUME PollsInv, NEW p \in FarPolls, NEW u \in Voters, NEW o \in AllChoices,
                      options[p] # {}, Exists(o), <<p, u, o>> \notin untold
               PROVE  tally[p][u][o] + Owed(p, u, o) = IF o \in votes[p][u] THEN 1 ELSE 0
    BY DEF VotesTold
  <2>1. OptionsOK /\ TalliesOK
    BY DEF PollsInv
  <2>2. o \notin spent /\ ~Gone(p)
    BY <2>1 DEF Exists, OptionsOK, Gone
  <2> QED
    BY <2>1, <2>2 DEF TalliesOK
<1> QED
  BY <1>1, PollsInitInv, PollsKept, PTL DEF PollsSpec

-----------------------------------------------------------------------------
(***************************************************************************)
(* Lists served in pages: what is so of the rows, and of a walk.           *)
(***************************************************************************)
ListRows == [id : 1..MaxRows, at : Times, sub : {0, 1}, score : {0, 1}, sticky : {0, 1}, gone : BOOLEAN]
Cursors == {Start} \cup {Skip(n) : n \in Nat} \cup {At(r) : r \in ListRows} \cup {Before(t) : t \in Int}
Walks == [pc : {"idle", "walking", "done", "refused"}, limit : Nat, cursor : Cursors,
          shown : [1..MaxRows -> 0..MaxServed], served : 0..MaxServed, steady : SUBSET (1..MaxRows),
          calm : BOOLEAN, tied : BOOLEAN, cuts : SUBSET Int, changes : 0..MaxChanges]

ListingTypes == list \in Lists /\ stored \subseteq ListRows /\ walk \in Walks

\* Rows are told apart by their ids, which are handed out in order, and
\* communities by their names.
RowsOK ==
  /\ IsFiniteSet(stored) /\ Cardinality(stored) <= MaxRows
  /\ \A r \in stored : r.id <= Cardinality(stored)
  /\ \A r, s \in stored : r.id = s.id => r = s
  /\ list = "communities alphabetic" => \A r, s \in stored : r.at = s.at /\ r.sub = s.sub => r = s

\* Nobody relies on a row that is gone, or was shown one that never was.
ShownOK ==
  /\ \A i \in walk.steady : \E r \in stored : r.id = i /\ ~r.gone
  /\ \A i \in 1..MaxRows : /\ walk.shown[i] <= walk.served
                           /\ walk.shown[i] > 0 => \E r \in stored : r.id = i

\* A walk that is at its start has shown nothing, and goes on by the cursors of
\* its list.  Only broken lists refuse it.
CursorOK ==
  /\ walk.pc = "idle" => walk = Idle
  /\ walk.pc = "refused" => list \in Broken
  /\ walk.pc \in {"idle", "walking"} /\ walk.cursor = Start => \A i \in 1..MaxRows : walk.shown[i] = 0
  /\ walk.cursor.kind \in {"start"} \cup IF list \in Offset THEN {"skip"}
                                      ELSE IF list \in Outbox THEN {"before"} ELSE {"at"}

\* The rows ahead of the cursor have been shown, the others have not.
Passed(r) == walk.cursor.kind = "at" /\ KeyLess(SortKey(r), SortKey(walk.cursor.row))
InOrder ==
  \A r \in stored : r.id \in walk.steady =>
    /\ walk.pc = "walking" => walk.shown[r.id] = IF Passed(r) THEN 1 ELSE 0
    /\ walk.pc = "done" => walk.shown[r.id] = 1

\* Comments stay where they are; no two of one time have met.
CommentsOK ==
  list \in Comments =>
    /\ walk.cursor.kind = "at" =>
         \E x \in stored : x.id = walk.cursor.row.id /\ x.at = walk.cursor.row.at
    /\ walk.pc # "idle" /\ ~walk.tied => \A r, s \in stored : r.at = s.at => r = s

PositionOK == list \in Positioned \cup Comments /\ Dependable => InOrder

\* The rows that were skipped are the first ones, and have been shown.
OffsetOK ==
  list \in Offset /\ walk.calm /\ ~walk.tied /\ walk.pc # "idle" =>
    /\ \A r, s \in Visible : SortKey(r) = SortKey(s) => r = s
    /\ Dependable =>
         /\ \A r \in Visible : walk.shown[r.id] <= 1
         /\ walk.pc = "walking" =>
              {r \in Visible : walk.shown[r.id] = 1} \in Firsts(Visible, Skipped(walk.cursor))
         /\ walk.pc = "done" => \A r \in Visible : walk.shown[r.id] = 1

\* What is later than the outbox's cursor has been shown, or shares its second
\* with the end of a page.
Met(r) ==
  walk.shown[r.id] <= 1 /\ (walk.shown[r.id] = 0 => Second(r.at) \in walk.cuts)
OutboxOK ==
  list \in Outbox =>
    /\ walk.pc # "idle" => walk.limit > 0
    /\ \A r \in stored : r.id \in walk.steady =>
         /\ walk.pc = "done" => Met(r)
         /\ walk.pc = "walking" /\ walk.cursor.kind = "before" =>
              IF r.at < walk.cursor.t THEN walk.shown[r.id] = 0 ELSE Met(r)

ListingInv ==
  ListingTypes /\ RowsOK /\ ShownOK /\ CursorOK /\ CommentsOK /\ PositionOK /\ OffsetOK /\ OutboxOK

\* A set of naturals that is not empty has a least one.
LEMMA LeastNatural ==
  ASSUME NEW T, T \subseteq Nat, T # {}
  PROVE  \E x \in T : \A y \in T : x <= y
<1> DEFINE R == {ss \in Nat \X Nat : ss[1] < ss[2]}
<1>1. IsWellFoundedOn(R, Nat)
  BY NatLessThanWellFounded DEF OpToRel
<1> HIDE DEF R
<1>2. \E x \in T : \A y \in T : ~(<<y, x>> \in R)
  BY <1>1, WFMin
<1>3. PICK x \in T : \A y \in T : ~(<<y, x>> \in R)
  BY <1>2
<1>4. \A y \in T : ~(y < x)
  BY <1>3 DEF R
<1> QED
  BY <1>4

(***************************************************************************)
(* The order of the rows.                                                  *)
(***************************************************************************)
Less(r, s) == KeyLess(SortKey(r), SortKey(s))

LEMMA KeysCompared ==
  /\ \A a, b \in Int : KeyLess(<<a>>, <<b>>) <=> a < b
  /\ \A a1, a2, b1, b2 \in Int :
       KeyLess(<<a1, a2>>, <<b1, b2>>) <=> a1 < b1 \/ (a1 = b1 /\ a2 < b2)
  /\ \A a1, a2, a3, b1, b2, b3 \in Int :
       KeyLess(<<a1, a2, a3>>, <<b1, b2, b3>>)
         <=> a1 < b1 \/ (a1 = b1 /\ (a2 < b2 \/ (a2 = b2 /\ a3 < b3)))
<1>1. ASSUME NEW a \in Int, NEW b \in Int PROVE KeyLess(<<a>>, <<b>>) <=> a < b
  <2> DEFINE p == <<a>>
             q == <<b>>
  <2>1. DOMAIN p = {1} /\ 1..(1 - 1) = {} /\ p[1] = a /\ q[1] = b
    OBVIOUS
  <2> HIDE DEF p, q
  <2>2. KeyLess(p, q) <=> p[1] < q[1]
    BY <2>1 DEF KeyLess
  <2> QED
    BY <2>1, <2>2 DEF p, q
<1>2. ASSUME NEW a1 \in Int, NEW a2 \in Int, NEW b1 \in Int, NEW b2 \in Int
      PROVE  KeyLess(<<a1, a2>>, <<b1, b2>>) <=> a1 < b1 \/ (a1 = b1 /\ a2 < b2)
  <2>1. DOMAIN <<a1, a2>> = {1, 2} /\ 1..(1 - 1) = {} /\ 1..(2 - 1) = {1}
    OBVIOUS
  <2> QED
    BY <2>1 DEF KeyLess
<1>3. ASSUME NEW a1 \in Int, NEW a2 \in Int, NEW a3 \in Int, NEW b1 \in Int, NEW b2 \in Int, NEW b3 \in Int
      PROVE  KeyLess(<<a1, a2, a3>>, <<b1, b2, b3>>)
               <=> a1 < b1 \/ (a1 = b1 /\ (a2 < b2 \/ (a2 = b2 /\ a3 < b3)))
  <2>1. /\ DOMAIN <<a1, a2, a3>> = {1, 2, 3}
        /\ 1..(1 - 1) = {} /\ 1..(2 - 1) = {1} /\ 1..(3 - 1) = {1, 2}
    OBVIOUS
  <2> QED
    BY <2>1 DEF KeyLess
<1> QED
  BY <1>1, <1>2, <1>3

\* The columns that rows are ordered by, the first one first; 0 for those that
\* a list has not.
Column1(r) ==
  CASE list = "posts new sticky" -> -r.sticky
    [] list \in {"posts new", "post likes"} -> -r.at
    [] list = "modlog" -> -r.id
    [] list = "communities old" -> r.id
    [] list = "communities alphabetic" -> r.at
    [] list \in {"communities numbered", "communities ranked", "posts top"} -> -r.score
    [] list = "posts hot" -> -(r.score + r.at)
    [] OTHER -> -r.at
Column2(r) ==
  CASE list = "posts new sticky" -> -r.at
    [] list \in {"posts new", "post likes", "posts top"} -> -r.id
    [] list = "communities alphabetic" -> r.sub
    [] list \in {"communities numbered", "communities ranked"} -> r.at
    [] OTHER -> 0
Column3(r) ==
  CASE list = "posts new sticky" -> -r.id
    [] list \in {"communities numbered", "communities ranked"} -> r.sub
    [] OTHER -> 0

LEMMA RowsAre ==
  ASSUME NEW r \in ListRows
  PROVE  /\ r.id \in Nat /\ r.at \in Nat /\ r.sub \in {0, 1} /\ r.score \in {0, 1}
         /\ r.sticky \in {0, 1} /\ r.gone \in BOOLEAN
<1>1. /\ r.id \in 1..MaxRows /\ r.at \in Times /\ r.sub \in {0, 1} /\ r.score \in {0, 1}
      /\ r.sticky \in {0, 1} /\ r.gone \in BOOLEAN
  BY DEF ListRows
<1>2. r.at \in Nat
  BY <1>1, ListingAssumption
<1>3. r.id \in Nat
  BY <1>1
<1> QED
  BY <1>1, <1>2, <1>3

LEMMA ColumnsAre ==
  ASSUME NEW r \in ListRows
  PROVE  Column1(r) \in Int /\ Column2(r) \in Int /\ Column3(r) \in Int
<1> DEFINE id == r.id
           at == r.at
           sub == r.sub
           score == r.score
           sticky == r.sticky
<1>1. id \in Int /\ at \in Int /\ sub \in Int /\ score \in Int /\ sticky \in Int
  BY RowsAre
<1>2. /\ Column1(r) \in {-sticky, -at, -id, id, at, -score, -(score + at)}
      /\ Column2(r) \in {-at, -id, sub, at, 0}
      /\ Column3(r) \in {-id, sub, 0}
  BY DEF Column1, Column2, Column3
<1> HIDE DEF id, at, sub, score, sticky
<1>3. /\ {-sticky, -at, -id, id, at, -score, -(score + at)} \subseteq Int
      /\ {-at, -id, sub, at, 0} \subseteq Int /\ {-id, sub, 0} \subseteq Int
  BY <1>1
<1> QED
  BY <1>2, <1>3

LEMMA LessIs ==
  ASSUME list \in AllLists, NEW r \in ListRows, NEW s \in ListRows
  PROVE  /\ Less(r, s) <=> \/ Column1(r) < Column1(s)
                           \/ /\ Column1(r) = Column1(s)
                              /\ \/ Column2(r) < Column2(s)
                                 \/ Column2(r) = Column2(s) /\ Column3(r) < Column3(s)
         /\ SortKey(r) = SortKey(s) <=>
              Column1(r) = Column1(s) /\ Column2(r) = Column2(s) /\ Column3(r) = Column3(s)
<1> DEFINE Three == {"posts new sticky", "communities numbered", "communities ranked"}
           Two == {"posts new", "post likes", "communities alphabetic", "posts top"}
<1>1. /\ Column1(r) \in Int /\ Column2(r) \in Int /\ Column3(r) \in Int
      /\ Column1(s) \in Int /\ Column2(s) \in Int /\ Column3(s) \in Int
  BY ColumnsAre
<1>2. CASE list \in Three
  <2>1. /\ SortKey(r) = <<Column1(r), Column2(r), Column3(r)>>
        /\ SortKey(s) = <<Column1(s), Column2(s), Column3(s)>>
    BY <1>2 DEF SortKey, Column1, Column2, Column3
  <2> QED
    BY <1>1, <2>1, KeysCompared DEF Less
<1>3. CASE list \in Two
  <2>1. /\ SortKey(r) = <<Column1(r), Column2(r)>> /\ SortKey(s) = <<Column1(s), Column2(s)>>
        /\ Column3(r) = 0 /\ Column3(s) = 0
    BY <1>3 DEF SortKey, Column1, Column2, Column3, ByPosition
  <2> QED
    BY <1>1, <2>1, KeysCompared DEF Less
<1>4. CASE list \notin Two \cup Three
  <2>1. /\ SortKey(r) = <<Column1(r)>> /\ SortKey(s) = <<Column1(s)>>
        /\ Column2(r) = 0 /\ Column2(s) = 0 /\ Column3(r) = 0 /\ Column3(s) = 0
    BY <1>4 DEF SortKey, Column1, Column2, Column3
  <2>2. SortKey(r) = SortKey(s) <=> Column1(r) = Column1(s)
    BY <2>1
  <2>3. Less(r, s) <=> Column1(r) < Column1(s)
    BY <1>1, <2>1, KeysCompared DEF Less
  <2> QED
    BY <1>1, <2>1, <2>2, <2>3
<1> QED
  BY <1>2, <1>3, <1>4

LEMMA LessOrders ==
  ASSUME list \in AllLists
  PROVE  /\ \A r \in ListRows : ~Less(r, r)
         /\ \A r, s \in ListRows : SortKey(r) # SortKey(s) => Less(r, s) \/ Less(s, r)
         /\ \A r, s, x \in ListRows : Less(r, s) /\ ~Less(x, s) => Less(r, x)
<1>1. ASSUME NEW r \in ListRows PROVE ~Less(r, r)
  BY <1>1, LessIs, ColumnsAre
<1>2. ASSUME NEW r \in ListRows, NEW s \in ListRows, SortKey(r) # SortKey(s)
      PROVE  Less(r, s) \/ Less(s, r)
  BY <1>2, LessIs, ColumnsAre
<1>3. ASSUME NEW r \in ListRows, NEW s \in ListRows, NEW x \in ListRows, Less(r, s), ~Less(x, s)
      PROVE  Less(r, x)
  <2>1. /\ Column1(r) \in Int /\ Column2(r) \in Int /\ Column3(r) \in Int
        /\ Column1(s) \in Int /\ Column2(s) \in Int /\ Column3(s) \in Int
        /\ Column1(x) \in Int /\ Column2(x) \in Int /\ Column3(x) \in Int
    BY ColumnsAre
  <2> QED
    BY <1>3, <2>1, LessIs
<1> QED
  BY <1>1, <1>2, <1>3

(***************************************************************************)
(* The rows that a statement reads, and the page they make.                *)
(***************************************************************************)
LEMMA FirstsAre ==
  ASSUME NEW S, IsFiniteSet(S), NEW n \in Nat, NEW F \in Firsts(S, n)
  PROVE  /\ F \subseteq S /\ IsFiniteSet(F) /\ Cardinality(F) \in Nat /\ Cardinality(F) <= n
         /\ Cardinality(F) < n => F = S
         /\ F # S => Cardinality(F) = n
         /\ \A a \in F, b \in S \ F : ~Less(b, a)
<1>1. /\ F \in SUBSET S /\ Cardinality(F) = IF n < Cardinality(S) THEN n ELSE Cardinality(S)
      /\ \A a \in F, b \in S \ F : ~Less(b, a)
  BY DEF Firsts, Less
<1>2. /\ IsFiniteSet(F) /\ Cardinality(S) \in Nat /\ Cardinality(F) \in Nat
      /\ Cardinality(S) = Cardinality(F) => S = F
  BY <1>1, FS_Subset, FS_CardinalityType
<1> QED
  BY <1>1, <1>2

LEMMA FirstsOfNone ==
  ASSUME NEW S, IsFiniteSet(S), NEW F \in Firsts(S, 0)
  PROVE  F = {}
<1>1. IsFiniteSet(F) /\ Cardinality(F) \in Nat /\ Cardinality(F) <= 0
  BY FirstsAre
<1> QED
  BY <1>1, FS_EmptySet

\* Where no two keys are equal, the first rows are certain.
LEMMA FirstsUnique ==
  ASSUME list \in AllLists, NEW S \in SUBSET ListRows, IsFiniteSet(S), NEW n \in Nat,
         NEW F \in Firsts(S, n), NEW G \in Firsts(S, n),
         \A r, s \in S : SortKey(r) = SortKey(s) => r = s
  PROVE  F = G
<1>1. /\ F \subseteq S /\ \A a \in F, b \in S \ F : ~Less(b, a)
      /\ G \subseteq S /\ \A a \in G, b \in S \ G : ~Less(b, a)
      /\ IsFiniteSet(F) /\ IsFiniteSet(G)
  BY FirstsAre
<1>2. Cardinality(F) = Cardinality(G)
  BY DEF Firsts
<1>3. ~(\E a \in F \ G, b \in G \ F : TRUE)
  <2> SUFFICES ASSUME NEW a \in F \ G, NEW b \in G \ F PROVE FALSE
    OBVIOUS
  <2>1. ~Less(a, b) /\ ~Less(b, a) /\ a \in ListRows /\ b \in ListRows /\ a # b
    BY <1>1
  <2>2. SortKey(a) = SortKey(b)
    BY <2>1, LessOrders
  <2> QED
    BY <1>1, <2>1, <2>2
<1>4. F \subseteq G \/ G \subseteq F
  BY <1>3
<1> QED
  BY <1>1, <1>2, <1>4, FS_Subset

\* What is shown of the rows that were read, and the row that names the next
\* page: nothing that is left is ahead of either.
LEMMA CutIs ==
  ASSUME list \in AllLists, NEW S \in SUBSET ListRows, IsFiniteSet(S), NEW n \in Nat,
         NEW W \in Firsts(S, n + 1), NEW I \in Firsts(W, n)
  PROVE  /\ W \subseteq S /\ I \subseteq W
         /\ I = W => I = S
         /\ I # W => Cardinality(I) = n
         /\ \A a \in I, b \in S \ I : ~Less(b, a)
         /\ \A e \in W \ I, b \in S \ I : ~Less(b, e)
<1>1. n + 1 \in Nat
  OBVIOUS
<1>2. /\ W \subseteq S /\ IsFiniteSet(W) /\ Cardinality(W) \in Nat /\ Cardinality(W) <= n + 1
      /\ Cardinality(W) < n + 1 => W = S
      /\ \A a \in W, b \in S \ W : ~Less(b, a)
  BY <1>1, FirstsAre
<1>3. /\ I \subseteq W /\ IsFiniteSet(I) /\ Cardinality(I) \in Nat /\ Cardinality(I) <= n
      /\ I # W => Cardinality(I) = n
      /\ \A a \in I, b \in W \ I : ~Less(b, a)
  BY <1>2, FirstsAre
<1>4. I = W => I = S
  BY <1>2, <1>3
<1>5. \A a \in I, b \in S \ I : ~Less(b, a)
  BY <1>2, <1>3
<1>6. ASSUME NEW e \in W \ I PROVE W \ I = {e}
  <2>1. /\ IsFiniteSet(W \ I) /\ Cardinality(W \ I) = Cardinality(W) - Cardinality(W \cap I)
        /\ Cardinality(W \ I) \in Nat
    BY <1>2, FS_Difference, FS_CardinalityType
  <2>2. W \cap I = I
    BY <1>3
  <2>3. Cardinality(W \ I) <= 1
    BY <1>2, <1>3, <1>6, <2>1, <2>2
  <2>4. Cardinality(W \ I) # 0
    BY <2>1, FS_EmptySet
  <2>5. Cardinality(W \ I) = 1
    BY <2>1, <2>3, <2>4
  <2> QED
    BY <2>1, <2>5, FS_Singleton
<1>7. ASSUME NEW e \in W \ I, NEW b \in S \ I PROVE ~Less(b, e)
  <2>1. CASE b = e
    BY <1>2, <2>1, LessOrders
  <2>2. CASE b # e
    BY <1>2, <1>6, <2>2
  <2> QED
    BY <2>1, <2>2
<1> QED
  BY <1>2, <1>3, <1>4, <1>5, <1>7

LEMMA CursorsAre ==
  ASSUME NEW c \in Cursors
  PROVE  /\ c.kind \in {"start", "skip", "at", "before"}
         /\ c.kind = "start" <=> c = Start
         /\ c.kind = "skip" => c.n \in Nat /\ c = Skip(c.n)
         /\ c.kind = "at" => c.row \in ListRows /\ c = At(c.row)
         /\ c.kind = "before" => c.t \in Int /\ c = Before(c.t)
         /\ Skipped(c) \in Nat /\ (c.kind # "skip" => Skipped(c) = 0)
<1>1. CASE c = Start
  BY <1>1 DEF Start, Skipped
<1>2. CASE \E n \in Nat : c = Skip(n)
  BY <1>2 DEF Skip, Skipped, Start
<1>3. CASE \E r \in ListRows : c = At(r)
  BY <1>3 DEF At, Skipped, Start
<1>4. CASE \E t \in Int : c = Before(t)
  BY <1>4 DEF Before, Skipped, Start
<1> QED
  BY <1>1, <1>2, <1>3, <1>4 DEF Cursors

\* A position is resumed at by what is not ahead of it.
LEMMA ResumesIs ==
  ASSUME list \in AllLists, NEW row \in ListRows, NEW r \in ListRows,
         \/ list \in Positioned
         \/ list \in Comments /\ (r.at = row.at => r.id = row.id)
  PROVE  Resumes(At(row), r) <=> ~Less(r, row)
<1> DEFINE Later == r.at > row.at \/ (r.at = row.at /\ r.id > row.id)
<1>1. /\ r.id \in Nat /\ r.at \in Nat /\ r.sub \in {0, 1} /\ r.sticky \in {0, 1}
      /\ row.id \in Nat /\ row.at \in Nat /\ row.sub \in {0, 1} /\ row.sticky \in {0, 1}
  BY RowsAre
<1>2. KeyLess(ByPosition(r), ByPosition(row)) <=> Later
  <2>1. -r.at \in Int /\ -r.id \in Int /\ -row.at \in Int /\ -row.id \in Int
    BY <1>1
  <2>2. KeyLess(<<-r.at, -r.id>>, <<-row.at, -row.id>>)
          <=> -r.at < -row.at \/ (-r.at = -row.at /\ -r.id < -row.id)
    BY <2>1, KeysCompared
  <2>3. -r.at < -row.at \/ (-r.at = -row.at /\ -r.id < -row.id) <=> Later
    BY <1>1
  <2> QED
    BY <2>2, <2>3 DEF ByPosition
<1>3. At(row).kind = "at" /\ At(row).row = row
  BY DEF At
<1>4. CASE list = "communities old"
  <2>0. /\ Column1(r) = r.id /\ Column2(r) = 0 /\ Column3(r) = 0
        /\ Column1(row) = row.id /\ Column2(row) = 0 /\ Column3(row) = 0
    BY <1>4 DEF Column1, Column2, Column3
  <2>1. Less(r, row) <=> r.id < row.id
    BY <1>1, <2>0, LessIs
  <2>2. Resumes(At(row), r) <=> r.id >= row.id
    BY <1>3, <1>4 DEF Resumes
  <2> QED
    BY <1>1, <2>1, <2>2
<1>5. CASE list = "modlog"
  <2>0. /\ Column1(r) = -r.id /\ Column2(r) = 0 /\ Column3(r) = 0
        /\ Column1(row) = -row.id /\ Column2(row) = 0 /\ Column3(row) = 0
    BY <1>5 DEF Column1, Column2, Column3
  <2>1. Less(r, row) <=> -r.id < -row.id
    BY <1>1, <2>0, LessIs
  <2>2. Resumes(At(row), r) <=> r.id <= row.id
    BY <1>3, <1>5 DEF Resumes
  <2> QED
    BY <1>1, <2>1, <2>2
<1>6. CASE list = "communities alphabetic"
  <2>0. /\ Column1(r) = r.at /\ Column2(r) = r.sub /\ Column3(r) = 0
        /\ Column1(row) = row.at /\ Column2(row) = row.sub /\ Column3(row) = 0
    BY <1>6 DEF Column1, Column2, Column3
  <2>1. Less(r, row) <=> r.at < row.at \/ (r.at = row.at /\ r.sub < row.sub)
    BY <1>1, <2>0, LessIs
  <2>2. Resumes(At(row), r) <=> IF row.sub = 0 THEN r.at >= row.at ELSE ~Less(r, row)
    BY <1>3, <1>6 DEF Resumes, Less
  <2> QED
    BY <1>1, <2>1, <2>2
<1>7. CASE list = "posts new sticky"
  <2>0. /\ Column1(r) = -r.sticky /\ Column2(r) = -r.at /\ Column3(r) = -r.id
        /\ Column1(row) = -row.sticky /\ Column2(row) = -row.at /\ Column3(row) = -row.id
    BY <1>7 DEF Column1, Column2, Column3
  <2>1. Less(r, row) <=> \/ -r.sticky < -row.sticky
                         \/ -r.sticky = -row.sticky /\ \/ -r.at < -row.at
                                                       \/ -r.at = -row.at /\ -r.id < -row.id
    BY <1>1, <2>0, LessIs
  <2>2. Resumes(At(row), r) <=> IF row.sticky = 1 THEN r.sticky = 0 \/ ~Later
                                ELSE r.sticky = 0 /\ ~Later
    BY <1>2, <1>3, <1>7 DEF Resumes
  <2> QED
    BY <1>1, <2>1, <2>2
<1>8. CASE list \in {"posts new", "post likes"}
  <2>0. /\ Column1(r) = -r.at /\ Column2(r) = -r.id /\ Column3(r) = 0
        /\ Column1(row) = -row.at /\ Column2(row) = -row.id /\ Column3(row) = 0
    BY <1>8 DEF Column1, Column2, Column3
  <2>1. Less(r, row) <=> -r.at < -row.at \/ (-r.at = -row.at /\ -r.id < -row.id)
    BY <1>1, <2>0, LessIs
  <2>2. Resumes(At(row), r) <=> ~Later
    BY <1>2, <1>3, <1>8 DEF Resumes
  <2> QED
    BY <1>1, <2>1, <2>2
<1>9. CASE list \in Comments
  <2>0. /\ Column1(r) = -r.at /\ Column2(r) = 0 /\ Column3(r) = 0
        /\ Column1(row) = -row.at /\ Column2(row) = 0 /\ Column3(row) = 0
    BY <1>9 DEF Column1, Column2, Column3, Comments
  <2>1. Less(r, row) <=> -r.at < -row.at
    BY <1>1, <2>0, LessIs
  <2>2. Resumes(At(row), r) <=> ~Later
    BY <1>2, <1>3, <1>9 DEF Resumes, Comments
  <2>3. r.at = row.at => r.id = row.id
    BY <1>9 DEF Comments, Positioned
  <2> QED
    BY <1>1, <2>1, <2>2, <2>3
<1> QED
  BY <1>4, <1>5, <1>6, <1>7, <1>8, <1>9 DEF Positioned

LEMMA ReadLimits ==
  ASSUME NEW limit \in Nat
  PROVE  /\ ReadLimit(limit) \in Nat
         /\ ReadLimit(limit) > limit => ReadLimit(limit) = limit + 1
<1> DEFINE m == (limit + 1) % 256
<1>1. m \in Nat /\ (m > limit => m = limit + 1) /\ limit + 1 \in Nat
  OBVIOUS
<1>2. ReadLimit(limit) = m \/ ReadLimit(limit) = limit + 1
  BY DEF ReadLimit
<1> HIDE DEF m
<1> QED
  BY <1>1, <1>2

LEMMA RowsSeen ==
  ASSUME ListingTypes, RowsOK
  PROVE  /\ list \in AllLists /\ Visible \subseteq stored /\ stored \subseteq ListRows
         /\ \A S \in SUBSET stored : IsFiniteSet(S) /\ Cardinality(S) \in Nat
         /\ \A c : Eligible(c) \subseteq Visible
<1>1. list \in AllLists
  BY ListingAssumption DEF ListingTypes
<1>2. \A S \in SUBSET stored : IsFiniteSet(S) /\ Cardinality(S) \in Nat
  BY FS_Subset, FS_CardinalityType DEF RowsOK
<1> QED
  BY <1>1, <1>2 DEF ListingTypes, Visible, Eligible

LEMMA PagesAre ==
  ASSUME NEW rows, NEW c, NEW limit, NEW p \in PagesOf(rows, c, limit)
  PROVE  \E items \in Firsts(rows, limit) :
           /\ p.items = items
           /\ items = rows => p.next = Start
           /\ items # rows => \E extra \in rows \ items : p.next = NextPage(c, limit, extra)
<1>1. PICK items \in Firsts(rows, limit) :
        p \in IF items = rows THEN {[items |-> items, next |-> Start]}
              ELSE {[items |-> items, next |-> NextPage(c, limit, extra)] : extra \in rows \ items}
  BY DEF PagesOf
<1>2. CASE items = rows
  BY <1>1, <1>2
<1>3. CASE items # rows
  <2>1. PICK extra \in rows \ items : p = [items |-> items, next |-> NextPage(c, limit, extra)]
    BY <1>1, <1>3
  <2>2. p.items = items /\ p.next = NextPage(c, limit, extra)
    BY <2>1
  <2> QED
    BY <1>3, <2>2
<1> QED
  BY <1>2, <1>3

LEMMA WindowsAre ==
  ASSUME NEW c, NEW n, NEW W \in Windows(c, n)
  PROVE  \E A \in Firsts(Eligible(c), Skipped(c)) : W \in Firsts(Eligible(c) \ A, n)
BY DEF Windows

LEMMA PageTypes ==
  ASSUME NEW c, NEW limit, list \notin Outbox, NEW p \in PagesAt(c, limit)
  PROVE  /\ p.items \subseteq Eligible(c)
         /\ p.next # Start => \E extra \in Eligible(c) : p.next = NextPage(c, limit, extra)
<1>1. ASSUME NEW rows \in SUBSET Eligible(c), p \in PagesOf(rows, c, limit)
      PROVE  /\ p.items \subseteq Eligible(c)
             /\ p.next # Start => \E extra \in Eligible(c) : p.next = NextPage(c, limit, extra)
  <2>1. PICK items \in Firsts(rows, limit) :
           /\ p.items = items
           /\ items = rows => p.next = Start
           /\ items # rows => \E extra \in rows \ items : p.next = NextPage(c, limit, extra)
    BY <1>1, PagesAre
  <2>2. items \subseteq rows
    BY DEF Firsts
  <2> QED
    BY <2>1, <2>2
<1>2. \A W \in Windows(c, ReadLimit(limit)) : W \subseteq Eligible(c)
  BY WindowsAre DEF Firsts
<1>3. CASE list = "replies"
  <2>1. PICK W \in Windows(c, ReadLimit(limit)) : p \in PagesOf({r \in W : ~r.gone}, c, limit)
    BY <1>3 DEF PagesAt, Outbox
  <2>2. {r \in W : ~r.gone} \in SUBSET Eligible(c)
    BY <1>2
  <2> QED
    BY <1>1, <2>1, <2>2
<1>4. CASE list # "replies"
  <2>1. PICK W \in Windows(c, ReadLimit(limit)) : p \in PagesOf(W, c, limit)
    BY <1>4 DEF PagesAt
  <2>2. W \in SUBSET Eligible(c)
    BY <1>2
  <2> QED
    BY <1>1, <2>1, <2>2
<1> QED
  BY <1>3, <1>4

\* A page, when the list is one that can be relied on.
LEMMA PageIs ==
  ASSUME ListingTypes, RowsOK, NEW c, NEW limit \in Nat, list \notin Outbox,
         ReadLimit(limit) > limit, list = "replies" => \A r \in stored : ~r.gone,
         NEW p \in PagesAt(c, limit)
  PROVE  \E A \in Firsts(Eligible(c), Skipped(c)) : \E W \in Firsts(Eligible(c) \ A, limit + 1) :
         \E I \in Firsts(W, limit) :
           /\ p.items = I
           /\ I = W => p.next = Start
           /\ I # W => \E extra \in W \ I : p.next = NextPage(c, limit, extra)
<1>1. \E W \in Windows(c, limit + 1) : p \in PagesOf(W, c, limit)
  <2>1. ReadLimit(limit) = limit + 1
    BY ReadLimits
  <2>2. CASE list = "replies"
    <3>1. PICK W \in Windows(c, limit + 1) : p \in PagesOf({r \in W : ~r.gone}, c, limit)
      BY <2>1, <2>2 DEF PagesAt, Outbox
    <3>2. W \subseteq stored
      BY RowsSeen, WindowsAre DEF Firsts
    <3>3. {r \in W : ~r.gone} = W
      BY <2>2, <3>2
    <3> QED
      BY <3>1, <3>3
  <2>3. CASE list # "replies"
    BY <2>1, <2>3 DEF PagesAt
  <2> QED
    BY <2>2, <2>3
<1>2. PICK W \in Windows(c, limit + 1) : p \in PagesOf(W, c, limit)
  BY <1>1
<1> QED
  BY <1>2, PagesAre, WindowsAre

(***************************************************************************)
(* Rows that come, go and move.                                            *)
(***************************************************************************)
LEMMA ListingInitInv == ListingInit => ListingInv
<1> SUFFICES ASSUME ListingInit PROVE ListingInv
  OBVIOUS
<1>1. list \in Lists /\ stored = {} /\ walk = Idle
  BY DEF ListingInit
<1>2. /\ walk.pc = "idle" /\ walk.cursor = Start /\ walk.cursor.kind = "start" /\ walk.steady = {}
      /\ walk.shown = [i \in 1..MaxRows |-> 0] /\ walk.served = 0
  BY <1>1 DEF Idle, Start
<1>3. walk \in Walks
  <2>1. Start \in Cursors /\ 0 \in 0..MaxServed /\ 0 \in 0..MaxChanges /\ 1 \in Nat
    BY ListingAssumption DEF Cursors
  <2>2. [i \in 1..MaxRows |-> 0] \in [1..MaxRows -> 0..MaxServed]
    BY <2>1
  <2> QED
    BY <1>1, <2>1, <2>2 DEF Walks, Idle
<1>4. ListingTypes
  BY <1>1, <1>3 DEF ListingTypes
<1>5. RowsOK
  BY <1>1, FS_EmptySet, ListingAssumption DEF RowsOK
<1>6. ShownOK /\ CursorOK
  BY <1>1, <1>2 DEF ShownOK, CursorOK
<1>7. CommentsOK /\ PositionOK /\ OffsetOK /\ OutboxOK
  BY <1>1, <1>2 DEF CommentsOK, PositionOK, OffsetOK, OutboxOK, InOrder
<1> QED
  BY <1>4, <1>5, <1>6, <1>7 DEF ListingInv

LEMMA OrderStays ==
  ASSUME UNCHANGED list
  PROVE  /\ \A r : SortKey(r)' = SortKey(r)
         /\ \A n : ReadLimit(n)' = ReadLimit(n)
<1>1. ASSUME NEW r PROVE SortKey(r)' = SortKey(r)
  BY DEF SortKey, ByPosition
<1> QED
  BY <1>1 DEF ReadLimit

LEMMA WalkAfterChange ==
  ASSUME ListingTypes, NEW q, Changed(q)
  PROVE  /\ UNCHANGED list /\ walk' \in Walks
         /\ walk'.pc = walk.pc /\ walk'.limit = walk.limit /\ walk'.cursor = walk.cursor
         /\ walk'.shown = walk.shown /\ walk'.served = walk.served /\ walk'.cuts = walk.cuts
         /\ \/ walk.pc = "idle" /\ UNCHANGED walk
            \/ /\ walk.pc = "walking" /\ walk'.steady = walk.steady \ {q.id} /\ walk'.calm = FALSE
               /\ walk'.tied = (walk.tied \/ Tie(q))
<1>1. CASE walk.pc = "idle" /\ UNCHANGED walk
  BY <1>1 DEF Changed, ListingTypes
<1>2. CASE walk.pc # "idle"
  <2> DEFINE tied == walk.tied \/ Tie(q)
  <2>1. /\ walk.pc = "walking" /\ walk.changes < MaxChanges /\ UNCHANGED list
        /\ walk' = [walk EXCEPT !.changes = walk.changes + 1, !.calm = FALSE,
                                !.steady = walk.steady \ {q.id}, !.tied = tied]
    BY <1>2 DEF Changed
  <2>2. walk \in Walks
    BY DEF ListingTypes
  <2>3. tied \in BOOLEAN
    OBVIOUS
  <2> HIDE DEF tied
  <2>4. /\ walk'.pc = walk.pc /\ walk'.limit = walk.limit /\ walk'.cursor = walk.cursor
        /\ walk'.shown = walk.shown /\ walk'.served = walk.served /\ walk'.cuts = walk.cuts
        /\ walk'.steady = walk.steady \ {q.id} /\ walk'.calm = FALSE /\ walk'.tied = tied
    BY <2>1, <2>2 DEF Walks
  <2>5. walk.changes + 1 \in 0..MaxChanges
    BY <2>1, <2>2, ListingAssumption DEF Walks
  <2>6. walk' \in Walks
    BY <2>1, <2>2, <2>3, <2>5 DEF Walks
  <2> QED
    BY <2>1, <2>4, <2>6 DEF tied
<1> QED
  BY <1>1, <1>2 DEF Changed

\* One row has changed to r: what is so of a walk stays so, as nobody relies on r.
LEMMA WalkKeeps ==
  ASSUME ListingInv, NEW q, Changed(q), stored' \subseteq ListRows, RowsOK',
         NEW r \in stored', q.id = r.id, q.at = r.at,
         \A x \in stored' : x = r \/ x \in stored,
         \A x \in stored : x.id # r.id => x \in stored',
         list \in Comments =>
           \A x \in stored : \E y \in stored' : y.id = x.id /\ y.at = x.at /\ (x.gone => y.gone)
  PROVE  ListingInv'
<1> USE DEF ListingInv
<1>1. /\ UNCHANGED list /\ walk' \in Walks
      /\ walk'.pc = walk.pc /\ walk'.limit = walk.limit /\ walk'.cursor = walk.cursor
      /\ walk'.shown = walk.shown /\ walk'.served = walk.served /\ walk'.cuts = walk.cuts
      /\ \/ walk.pc = "idle" /\ UNCHANGED walk
         \/ /\ walk.pc = "walking" /\ walk'.steady = walk.steady \ {q.id} /\ walk'.calm = FALSE
            /\ walk'.tied = (walk.tied \/ Tie(q))
  BY WalkAfterChange
<1>2. ListingTypes'
  BY <1>1 DEF ListingTypes
<1>3. /\ \A n \in walk'.steady : n \in walk.steady
      /\ \A x \in stored' : x.id \in walk'.steady => x \in stored
  <2>1. walk.pc = "idle" => walk.steady = {}
    BY DEF CursorOK, Idle
  <2> QED
    BY <1>1, <2>1
<1>4. ShownOK'
  <2>1. \A x \in stored : \E y \in stored' : y.id = x.id
    OBVIOUS
  <2>2. ASSUME NEW i \in walk'.steady PROVE \E x \in stored' : x.id = i /\ ~x.gone
    <3>1. PICK x \in stored : x.id = i /\ ~x.gone
      BY <1>3, <2>2 DEF ShownOK
    <3>2. i # r.id
      <4>1. walk.pc = "walking" /\ walk'.steady = walk.steady \ {q.id}
        BY <1>1, <2>2 DEF CursorOK, Idle
      <4> QED
        BY <2>2, <4>1
    <3> QED
      BY <3>1, <3>2
  <2>3. ASSUME NEW i \in 1..MaxRows
        PROVE  /\ walk'.shown[i] <= walk'.served
               /\ walk'.shown[i] > 0 => \E x \in stored' : x.id = i
    BY <1>1, <2>1 DEF ShownOK
  <2> QED
    BY <2>2, <2>3 DEF ShownOK
<1>5. CursorOK'
  BY <1>1 DEF CursorOK
<1>6. CommentsOK'
  <2> SUFFICES ASSUME list \in Comments PROVE CommentsOK'
    BY <1>1 DEF CommentsOK
  <2>1. walk'.cursor.kind = "at" =>
          \E x \in stored' : x.id = walk'.cursor.row.id /\ x.at = walk'.cursor.row.at
    BY <1>1 DEF CommentsOK
  <2>2. ASSUME walk'.pc # "idle", ~walk'.tied, NEW x \in stored', NEW y \in stored', x.at = y.at
        PROVE  x = y
    <3>1. walk.pc = "walking" /\ ~walk.tied /\ ~Tie(q)
      BY <1>1, <2>2
    <3>2. \A u, v \in stored : u.at = v.at => u = v
      BY <3>1 DEF CommentsOK
    <3>3. \A u \in stored : u # q => SortKey(u) # SortKey(q)
      BY <3>1 DEF Tie
    <3>4. \A u : SortKey(u) = <<-u.at>>
      BY DEF SortKey, Comments
    <3>5. \A u \in stored' : u.at = r.at => u = r
      <4> SUFFICES ASSUME NEW u \in stored', u.at = r.at, u # r PROVE FALSE
        OBVIOUS
      <4>1. u \in stored /\ u.at = q.at
        OBVIOUS
      <4>2. u = q
        BY <3>3, <3>4, <4>1
      <4> QED
        BY <4>2 DEF RowsOK
    <3> QED
      BY <2>2, <3>2, <3>5
  <2> QED
    BY <1>1, <2>1, <2>2 DEF CommentsOK
<1>7. Dependable' => Dependable
  <2>1. \A n : ReadLimit(n)' = ReadLimit(n)
    BY <1>1, OrderStays
  <2>2. list \in Comments /\ (\A x \in stored' : ~x.gone) => \A x \in stored : ~x.gone
    OBVIOUS
  <2>3. (walk'.calm => walk.calm) /\ (~walk'.tied => ~walk.tied)
    BY <1>1
  <2> QED
    BY <1>1, <2>1, <2>2, <2>3 DEF Dependable, Comments
<1>8. PositionOK'
  <2> SUFFICES ASSUME list \in Positioned \cup Comments, Dependable PROVE InOrder'
    BY <1>1, <1>7 DEF PositionOK
  <2>1. InOrder
    BY DEF PositionOK
  <2>2. \A x : Passed(x)' = Passed(x)
    BY <1>1, OrderStays DEF Passed
  <2> QED
    BY <1>1, <1>3, <2>1, <2>2 DEF InOrder
<1>9. OffsetOK'
  BY <1>1 DEF OffsetOK
<1>10. OutboxOK'
  BY <1>1, <1>3 DEF OutboxOK, Met
<1> QED
  BY <1>2, <1>4, <1>5, <1>6, <1>8, <1>9, <1>10

LEMMA InsertKeeps ==
  ASSUME ListingInv, NEW at \in Times, NEW sub \in 0..1, NEW score \in 0..1, NEW sticky \in 0..1,
         InsertRow(at, sub, score, sticky)
  PROVE  ListingInv'
<1> DEFINE r == ListRow(Cardinality(stored) + 1, at, sub, score, sticky)
<1>1. Cardinality(stored) < MaxRows /\ stored' = stored \cup {r} /\ Changed(r)
  BY DEF InsertRow
<1>0. list = "communities alphabetic" => \A x \in stored : ~(x.at = at /\ x.sub = sub)
  BY DEF InsertRow
<1>2. /\ r.id = Cardinality(stored) + 1 /\ r.at = at /\ r.sub = sub /\ r.gone = FALSE
      /\ r.score = score /\ r.sticky = sticky
  BY DEF ListRow
<1>3. Cardinality(stored) \in Nat /\ IsFiniteSet(stored) /\ stored \subseteq ListRows
  BY RowsSeen DEF ListingInv, RowsOK
<1>4. r \in ListRows
  <2>1. MaxRows \in Nat
    BY ListingAssumption
  <2>2. Cardinality(stored) + 1 \in 1..MaxRows
    BY <1>1, <1>3, <2>1
  <2>3. sub \in {0, 1} /\ score \in {0, 1} /\ sticky \in {0, 1}
    OBVIOUS
  <2> QED
    BY <2>2, <2>3 DEF ListRows, ListRow
<1> HIDE DEF r
<1>5. \A x \in stored : x.id \in Nat /\ x.id <= Cardinality(stored) /\ x.id # r.id
  <2> SUFFICES ASSUME NEW x \in stored
               PROVE  x.id \in Nat /\ x.id <= Cardinality(stored) /\ x.id # r.id
    OBVIOUS
  <2>1. x.id \in Nat
    BY <1>3, RowsAre
  <2>2. x.id <= Cardinality(stored)
    BY DEF ListingInv, RowsOK
  <2> QED
    BY <1>2, <1>3, <2>1, <2>2
<1>6. IsFiniteSet(stored') /\ Cardinality(stored') = Cardinality(stored) + 1
  BY <1>1, <1>3, <1>5, FS_AddElement
<1>7. UNCHANGED list
  BY <1>1, WalkAfterChange DEF ListingInv
<1>8. RowsOK'
  <2>1. ASSUME NEW x \in stored' PROVE x.id <= Cardinality(stored')
    <3>1. x.id \in Nat /\ x.id <= Cardinality(stored) + 1
      BY <1>1, <1>2, <1>3, <1>5
    <3> QED
      BY <1>6, <3>1
  <2>2. \A x, y \in stored' : x.id = y.id => x = y
    BY <1>1, <1>5 DEF ListingInv, RowsOK
  <2>3. list = "communities alphabetic" => \A x, y \in stored' : x.at = y.at /\ x.sub = y.sub => x = y
    BY <1>0, <1>1, <1>2 DEF ListingInv, RowsOK
  <2>4. Cardinality(stored') <= MaxRows
    <3>1. MaxRows \in Nat
      BY ListingAssumption
    <3>2. Cardinality(stored) + 1 <= MaxRows
      BY <1>1, <1>3, <3>1
    <3> QED
      BY <1>6, <3>2
  <2> QED
    BY <1>6, <1>7, <2>1, <2>2, <2>3, <2>4 DEF RowsOK
<1>9. stored' \subseteq ListRows /\ r \in stored'
  BY <1>1, <1>3, <1>4
<1> QED
  BY <1>1, <1>8, <1>9, WalkKeeps

\* A row that is another in what it says only.
LEMMA SwapKeeps ==
  ASSUME ListingInv, NEW o \in stored, NEW r \in ListRows, stored' = (stored \ {o}) \cup {r},
         r.id = o.id, r.at = o.at, r.sub = o.sub, o.gone => r.gone,
         NEW q, Changed(q), q.id = r.id, q.at = r.at
  PROVE  ListingInv'
<1>1. Cardinality(stored) \in Nat /\ IsFiniteSet(stored) /\ stored \subseteq ListRows
  BY RowsSeen DEF ListingInv, RowsOK
<1>2. r \notin stored \ {o}
  BY DEF ListingInv, RowsOK
<1>3. IsFiniteSet(stored') /\ Cardinality(stored') = Cardinality(stored)
  <2>1. /\ IsFiniteSet(stored \ {o}) /\ Cardinality(stored \ {o}) = Cardinality(stored) - 1
    BY <1>1, FS_RemoveElement
  <2>2. IsFiniteSet(stored') /\ Cardinality(stored') = Cardinality(stored \ {o}) + 1
    BY <1>2, <2>1, FS_AddElement
  <2> QED
    BY <1>1, <2>1, <2>2
<1>4. UNCHANGED list
  BY WalkAfterChange DEF ListingInv
<1>5. RowsOK'
  <2>0. /\ \A x, y \in stored : x.id = y.id => x = y
        /\ \A x \in stored' : x = r \/ (x \in stored /\ x # o)
    BY DEF ListingInv, RowsOK
  <2>1. \A x \in stored' : x.id <= Cardinality(stored')
    BY <1>3 DEF ListingInv, RowsOK
  <2>2. \A x, y \in stored' : x.id = y.id => x = y
    BY <2>0
  <2>3. list = "communities alphabetic" => \A x, y \in stored' : x.at = y.at /\ x.sub = y.sub => x = y
    <3>1. list = "communities alphabetic" =>
            \A x, y \in stored : x.at = y.at /\ x.sub = y.sub => x = y
      BY DEF ListingInv, RowsOK
    <3>2. ASSUME list = "communities alphabetic", NEW x \in stored', NEW y \in stored',
                 x.at = y.at, x.sub = y.sub
          PROVE  x = y
      <4>1. CASE x = r
        <5>1. y # r => y = o
          BY <2>0, <3>1, <3>2, <4>1
        <5> QED
          BY <2>0, <4>1, <5>1
      <4>2. CASE y = r
        <5>1. x # r => x = o
          BY <2>0, <3>1, <3>2, <4>2
        <5> QED
          BY <2>0, <4>2, <5>1
      <4>3. CASE x # r /\ y # r
        BY <2>0, <3>1, <3>2, <4>3
      <4> QED
        BY <4>1, <4>2, <4>3
    <3> QED
      BY <3>2
  <2>4. Cardinality(stored') <= MaxRows
    BY <1>3 DEF ListingInv, RowsOK
  <2> QED
    BY <1>3, <1>4, <2>1, <2>2, <2>3, <2>4 DEF RowsOK
<1>6. /\ stored' \subseteq ListRows /\ r \in stored'
      /\ \A x \in stored' : x = r \/ x \in stored
      /\ \A x \in stored : x.id # r.id => x \in stored'
      /\ \A x \in stored : \E y \in stored' : y.id = x.id /\ y.at = x.at /\ (x.gone => y.gone)
  BY <1>1
<1> QED
  BY <1>5, <1>6, WalkKeeps

LEMMA RemoveKeeps ==
  ASSUME ListingInv, NEW o \in stored, RemoveRow(o)
  PROVE  ListingInv'
<1> DEFINE r == [o EXCEPT !.gone = TRUE]
<1>1. o \in ListRows
  BY RowsSeen DEF ListingInv
<1>2. r \in ListRows /\ r.id = o.id /\ r.at = o.at /\ r.sub = o.sub /\ r.gone
  BY <1>1 DEF ListRows
<1>3. stored' = (stored \ {o}) \cup {r} /\ Changed(o)
  BY DEF RemoveRow
<1> HIDE DEF r
<1> QED
  BY <1>2, <1>3, SwapKeeps

LEMMA MoveKeeps ==
  ASSUME ListingInv, NEW o \in stored, NEW score \in 0..1, NEW sticky \in 0..1,
         MoveRow(o, score, sticky)
  PROVE  ListingInv'
<1> DEFINE r == [o EXCEPT !.score = score, !.sticky = sticky]
<1>1. o \in ListRows
  BY RowsSeen DEF ListingInv
<1>2. r \in ListRows /\ r.id = o.id /\ r.at = o.at /\ r.sub = o.sub /\ r.gone = o.gone
  <2>1. score \in {0, 1} /\ sticky \in {0, 1}
    OBVIOUS
  <2> QED
    BY <1>1, <2>1 DEF ListRows
<1>3. stored' = (stored \ {o}) \cup {r} /\ Changed(r)
  BY DEF MoveRow
<1> HIDE DEF r
<1> QED
  BY <1>2, <1>3, SwapKeeps

LEMMA RefuseKeeps == ListingInv /\ RefusePage => ListingInv'
<1> SUFFICES ASSUME ListingInv, RefusePage PROVE ListingInv'
  OBVIOUS
<1>1. /\ walk.pc = "walking" /\ list \in Broken /\ UNCHANGED <<list, stored>>
      /\ walk' = [walk EXCEPT !.pc = "refused"] /\ walk \in Walks
  BY DEF RefusePage, ListingInv, ListingTypes
<1>2. /\ walk' \in Walks /\ walk'.pc = "refused" /\ walk'.cursor = walk.cursor
      /\ walk'.shown = walk.shown /\ walk'.served = walk.served /\ walk'.steady = walk.steady
  BY <1>1 DEF Walks
<1>3. list \notin Positioned \cup Comments \cup Offset \cup Outbox
  BY <1>1 DEF Broken, Positioned, Comments, Offset, Outbox
<1>4. ListingTypes' /\ RowsOK' /\ ShownOK'
  BY <1>1, <1>2 DEF ListingInv, ListingTypes, RowsOK, ShownOK
<1>5. CursorOK'
  BY <1>1, <1>2 DEF ListingInv, CursorOK
<1>6. CommentsOK' /\ PositionOK' /\ OffsetOK' /\ OutboxOK'
  BY <1>1, <1>3 DEF CommentsOK, PositionOK, OffsetOK, OutboxOK
<1> QED
  BY <1>4, <1>5, <1>6 DEF ListingInv

(***************************************************************************)
(* A walk begins.                                                          *)
(***************************************************************************)
LEMMA ListStays ==
  ASSUME UNCHANGED <<list, stored>>
  PROVE  /\ Visible' = Visible
         /\ \A S, n : Firsts(S, n)' = Firsts(S, n)
         /\ \A r, s : Less(r, s)' = Less(r, s)
<1>1. \A r : SortKey(r)' = SortKey(r)
  BY OrderStays
<1> QED
  BY <1>1 DEF Visible, Firsts, Less

LEMMA BeginKeeps ==
  ASSUME ListingInv, NEW limit \in Limits, BeginWalk(limit)
  PROVE  ListingInv'
<1> USE DEF ListingInv
<1> DEFINE ids == {r.id : r \in {x \in stored : ~x.gone}}
           tied == \E r \in Visible : Tie(r)
<1>1. /\ walk.pc = "idle" /\ (list \in Outbox => limit > 0) /\ UNCHANGED <<list, stored>>
      /\ walk' = [Idle EXCEPT !.pc = "walking", !.limit = limit, !.steady = ids, !.tied = tied]
  BY DEF BeginWalk
<1>2. Idle \in Walks /\ limit \in Nat
  BY <1>1, ListingAssumption DEF CursorOK, ListingTypes
<1>3. tied \in BOOLEAN /\ ids \in SUBSET (1..MaxRows)
  BY RowsSeen DEF ListRows
<1>4. (~tied => \A r \in Visible : ~Tie(r)) /\ \A i \in ids : \E r \in stored : r.id = i /\ ~r.gone
  OBVIOUS
<1> HIDE DEF ids, tied
<1>5. /\ walk' \in Walks /\ walk'.pc = "walking" /\ walk'.limit = limit /\ walk'.steady = ids
      /\ walk'.tied = tied /\ walk'.cursor = Start /\ walk'.shown = [i \in 1..MaxRows |-> 0]
      /\ walk'.served = 0
  BY <1>1, <1>2, <1>3 DEF Idle, Walks
<1>6. /\ Start.kind = "start"
      /\ \A i \in 1..MaxRows : walk'.shown[i] = 0
      /\ \A r \in stored : walk'.shown[r.id] = 0
  BY <1>5, RowsSeen DEF Start, ListRows
<1>7. ListingTypes' /\ RowsOK'
  BY <1>1, <1>5 DEF ListingTypes, RowsOK
<1>8. ShownOK' /\ CursorOK'
  BY <1>1, <1>4, <1>5, <1>6 DEF ShownOK, CursorOK
<1>9. CommentsOK'
  <2> SUFFICES ASSUME list \in Comments, ~tied, NEW r \in stored, NEW s \in stored, r.at = s.at
               PROVE  r = s
    BY <1>1, <1>5, <1>6 DEF CommentsOK
  <2>1. Visible = stored
    BY DEF Visible
  <2>2. SortKey(r) = SortKey(s)
    BY DEF SortKey, Comments
  <2> QED
    BY <1>4, <2>1, <2>2 DEF Tie
<1>10. PositionOK'
  BY <1>1, <1>5, <1>6 DEF PositionOK, InOrder, Passed
<1>11. OffsetOK'
  <2> SUFFICES ASSUME list \in Offset, ~tied
               PROVE  /\ \A r, s \in Visible : SortKey(r)' = SortKey(s)' => r = s
                      /\ \A r \in Visible : walk'.shown[r.id] <= 1
                      /\ {r \in Visible : walk'.shown[r.id] = 1} \in Firsts(Visible, Skipped(Start))
    BY <1>1, <1>5, ListStays DEF OffsetOK
  <2>1. Visible \subseteq stored /\ IsFiniteSet(Visible) /\ Cardinality(Visible) \in Nat
    BY RowsSeen
  <2>2. \A r, s \in Visible : SortKey(r)' = SortKey(s)' => r = s
    BY <1>1, <1>4, <2>1, OrderStays DEF Tie
  <2>3. \A r \in Visible : walk'.shown[r.id] = 0
    BY <1>6, <2>1
  <2>4. {r \in Visible : walk'.shown[r.id] = 1} = {} /\ Skipped(Start) = 0
    BY <1>6, <2>3 DEF Skipped
  <2>5. {} \in Firsts(Visible, 0)
    BY <2>1, FS_EmptySet DEF Firsts
  <2> QED
    BY <2>2, <2>3, <2>4, <2>5
<1>12. OutboxOK'
  BY <1>1, <1>5, <1>6 DEF OutboxOK
<1> QED
  BY <1>7, <1>8, <1>9, <1>10, <1>11, <1>12

(***************************************************************************)
(* A page is served.                                                       *)
(***************************************************************************)
LEMMA EarliestIs ==
  ASSUME NEW S \in SUBSET ListRows, S # {}
  PROVE  /\ Earliest(S) \in Nat
         /\ \E e \in S : e.at = Earliest(S)
         /\ \A r \in S : Earliest(S) <= r.at
<1> DEFINE T == {r.at : r \in S}
<1>1. T \subseteq Nat /\ T # {}
  BY RowsAre
<1>2. \E t \in T : \A r \in S : t <= r.at
  <2> HIDE DEF T
  <2>1. \E t \in T : \A u \in T : t <= u
    BY <1>1, LeastNatural
  <2>2. \A r \in S : r.at \in T
    BY DEF T
  <2> QED
    BY <2>1, <2>2
<1>3. Earliest(S) \in T /\ \A r \in S : Earliest(S) <= r.at
  BY <1>2 DEF Earliest
<1> QED
  BY <1>1, <1>3

LEMMA MultiplesApart ==
  ASSUME NEW T \in Nat \ {0}, NEW a \in Nat, NEW b \in Nat, T * a < (T * b) + T
  PROVE  a <= b
<1> SUFFICES ASSUME a > b PROVE FALSE
  OBVIOUS
<1> DEFINE k == a - (b + 1)
<1>1. k \in Nat /\ a = b + 1 + k
  OBVIOUS
<1>2. T * k \in Nat /\ T * b \in Nat
  BY <1>1
<1> HIDE DEF k
<1>3. T * a = (T * b) + T + (T * k)
  BY <1>1
<1> QED
  BY <1>2, <1>3

LEMMA SecondsAre ==
  ASSUME NEW t \in Nat
  PROVE  /\ Second(t) \in Int /\ Second(t) <= t
         /\ \A u \in Nat : Second(t) <= u /\ u <= t => Second(u) = Second(t)
<1> DEFINE T == TicksPerSecond
<1>1. T \in Nat \ {0}
  BY ListingAssumption
<1>2. \A u : Second(u) = (u \div T) * T
  BY DEF Second
<1> HIDE DEF T
<1>3. ASSUME NEW u \in Nat
      PROVE  /\ u \div T \in Nat /\ T * (u \div T) \in Nat /\ Second(u) = T * (u \div T)
             /\ T * (u \div T) <= u /\ u < (T * (u \div T)) + T
  <2> DEFINE q == u \div T
             m == u % T
  <2>1. q \in Nat /\ m \in Nat /\ m < T /\ u = (T * q) + m
    BY <1>1
  <2>2. Second(u) = q * T
    BY <1>2
  <2> HIDE DEF q, m
  <2>3. T * q \in Nat /\ q * T = T * q
    BY <1>1, <2>1
  <2>4. T * q <= u /\ u < (T * q) + T
    BY <1>1, <2>1, <2>3
  <2> QED
    BY <2>1, <2>2, <2>3, <2>4 DEF q
<1>4. ASSUME NEW u \in Nat, Second(t) <= u, u <= t PROVE Second(u) = Second(t)
  <2> DEFINE p == t \div T
             q == u \div T
  <2>1. /\ p \in Nat /\ q \in Nat /\ T * p \in Nat /\ T * q \in Nat
        /\ Second(t) = T * p /\ Second(u) = T * q
        /\ T * q <= u /\ u < (T * q) + T /\ t < (T * p) + T
    BY <1>3
  <2> HIDE DEF p, q
  <2>2. T * q < (T * p) + T /\ T * p < (T * q) + T
    BY <1>1, <1>4, <2>1
  <2>3. q <= p /\ p <= q
    BY <1>1, <2>1, <2>2, MultiplesApart
  <2> QED
    BY <2>1, <2>3
<1>5. Second(t) \in Int /\ Second(t) <= t
  BY <1>3
<1> QED
  BY <1>4, <1>5

LEMMA OutboxPageIs ==
  ASSUME ListingTypes, RowsOK, list \in Outbox, NEW c \in Cursors, c.kind # "skip",
         NEW limit \in Nat, NEW p \in PagesAt(c, limit)
  PROVE  \E I \in Firsts(Eligible(c), limit) : p = OutboxPage(I)
<1>1. Skipped(c) = 0 /\ IsFiniteSet(Eligible(c))
  BY CursorsAre, RowsSeen
<1>2. PICK I \in Windows(c, limit) : p = OutboxPage(I)
  BY DEF PagesAt, Outbox
<1>3. PICK A \in Firsts(Eligible(c), 0) : I \in Firsts(Eligible(c) \ A, limit)
  BY <1>1, <1>2, WindowsAre
<1>4. A = {}
  BY <1>1, <1>3, FirstsOfNone
<1>5. Eligible(c) \ A = Eligible(c)
  BY <1>4
<1> QED
  BY <1>2, <1>3, <1>5

\* The page p is served.
Served(p) ==
  /\ UNCHANGED <<list, stored>> /\ walk.pc = "walking"
  /\ walk'.pc = (IF p.next = Start THEN "done" ELSE "walking")
  /\ walk'.cursor = p.next /\ walk'.served = walk.served + 1
  /\ walk'.shown \in [1..MaxRows -> Nat]
  /\ \A i \in 1..MaxRows :
       walk'.shown[i] = IF \E r \in p.items : r.id = i /\ ~r.gone THEN walk.shown[i] + 1
                        ELSE walk.shown[i]
  /\ walk'.cuts = IF list \in Outbox /\ p.items # {} THEN walk.cuts \cup {Second(Earliest(p.items))}
                  ELSE walk.cuts
  /\ walk'.limit = walk.limit /\ walk'.steady = walk.steady
  /\ walk'.calm = walk.calm /\ walk'.tied = walk.tied

LEMMA ServedCursors ==
  ASSUME ListingInv, walk.pc = "walking", NEW p \in PagesAt(walk.cursor, walk.limit)
  PROVE  /\ p.items \subseteq Eligible(walk.cursor)
         /\ \/ p.next = Start
            \/ list \in Offset /\ p.next = Skip(Skipped(walk.cursor) + walk.limit)
            \/ list \in Outbox /\ p.items # {} /\ p.next = Before(Second(Earliest(p.items)))
            \/ /\ list \notin Offset \cup Outbox
               /\ \E extra \in Eligible(walk.cursor) : p.next = At(extra)
         /\ p.next \in Cursors
<1> USE DEF ListingInv
<1>1. /\ walk.cursor \in Cursors /\ walk.limit \in Nat /\ Skipped(walk.cursor) \in Nat
      /\ Eligible(walk.cursor) \subseteq ListRows
  BY CursorsAre, RowsSeen DEF ListingTypes, Walks
<1>2. CASE list \in Outbox
  <2>1. walk.cursor.kind # "skip"
    BY <1>2 DEF CursorOK, Offset, Outbox
  <2>2. PICK I \in Firsts(Eligible(walk.cursor), walk.limit) : p = OutboxPage(I)
    BY <1>1, <1>2, <2>1, OutboxPageIs
  <2>3. /\ p.items = I /\ I \subseteq Eligible(walk.cursor)
        /\ p.next = IF I = {} THEN Start ELSE Before(Second(Earliest(I)))
    BY <2>2 DEF OutboxPage, Firsts
  <2>4. I # {} => Second(Earliest(I)) \in Int
    BY <1>1, <2>3, EarliestIs, SecondsAre
  <2> QED
    BY <1>2, <2>3, <2>4 DEF Cursors
<1>3. CASE list \notin Outbox
  <2>1. /\ p.items \subseteq Eligible(walk.cursor)
        /\ p.next # Start =>
             \E extra \in Eligible(walk.cursor) : p.next = NextPage(walk.cursor, walk.limit, extra)
    BY <1>3, PageTypes
  <2>2. \A extra : NextPage(walk.cursor, walk.limit, extra)
                     = IF list \in Offset THEN Skip(Skipped(walk.cursor) + walk.limit) ELSE At(extra)
    BY DEF NextPage
  <2>3. Skipped(walk.cursor) + walk.limit \in Nat
    BY <1>1
  <2> QED
    BY <1>1, <1>3, <2>1, <2>2, <2>3 DEF Cursors
<1> QED
  BY <1>2, <1>3

LEMMA ServeIs ==
  ASSUME ListingInv, ServePage
  PROVE  walk' \in Walks /\ \E p \in PagesAt(walk.cursor, walk.limit) : Served(p)
<1> USE DEF ListingInv
<1>1. walk.pc = "walking" /\ walk.served < MaxServed /\ UNCHANGED <<list, stored>> /\ walk \in Walks
  BY DEF ServePage, ListingTypes
<1>2. PICK p \in PagesAt(walk.cursor, walk.limit) :
        walk' = [walk EXCEPT
          !.served = walk.served + 1,
          !.shown  = [i \in 1..MaxRows |->
                        IF \E r \in p.items : r.id = i /\ ~r.gone THEN walk.shown[i] + 1 ELSE walk.shown[i]],
          !.cursor = p.next,
          !.cuts   = IF list \in Outbox /\ p.items # {} THEN walk.cuts \cup {Second(Earliest(p.items))}
                     ELSE walk.cuts,
          !.pc     = IF p.next = Start THEN "done" ELSE "walking"]
  BY DEF ServePage
<1> DEFINE shown == [i \in 1..MaxRows |->
                       IF \E r \in p.items : r.id = i /\ ~r.gone THEN walk.shown[i] + 1 ELSE walk.shown[i]]
           cuts == IF list \in Outbox /\ p.items # {} THEN walk.cuts \cup {Second(Earliest(p.items))}
                   ELSE walk.cuts
           pc == IF p.next = Start THEN "done" ELSE "walking"
<1>3. /\ p.next \in Cursors /\ p.items \subseteq ListRows
  BY <1>1, ServedCursors, RowsSeen
<1>4. pc \in {"walking", "done"} /\ walk.served + 1 \in 0..MaxServed
  BY <1>1, ListingAssumption DEF Walks
<1>5. cuts \in SUBSET Int
  <2>1. p.items # {} => Second(Earliest(p.items)) \in Int
    BY <1>3, EarliestIs, SecondsAre
  <2> QED
    BY <1>1, <2>1 DEF Walks
<1>6. shown \in [1..MaxRows -> 0..MaxServed]
  <2> SUFFICES ASSUME NEW i \in 1..MaxRows
               PROVE  walk.shown[i] \in 0..MaxServed /\ walk.shown[i] + 1 \in 0..MaxServed
    OBVIOUS
  <2>1. walk.shown \in [1..MaxRows -> 0..MaxServed] /\ walk.served \in 0..MaxServed
    BY <1>1 DEF Walks
  <2>2. walk.shown[i] <= walk.served
    BY DEF ShownOK
  <2>3. MaxServed \in Nat
    BY ListingAssumption
  <2>4. walk.shown[i] \in 0..MaxServed
    BY <2>1
  <2> QED
    BY <1>1, <2>1, <2>2, <2>3, <2>4
<1>7. \A i \in 1..MaxRows :
        shown[i] = IF \E r \in p.items : r.id = i /\ ~r.gone THEN walk.shown[i] + 1 ELSE walk.shown[i]
  OBVIOUS
<1>8. walk' = [walk EXCEPT !.served = walk.served + 1, !.shown = shown, !.cursor = p.next,
                           !.cuts = cuts, !.pc = pc]
  BY <1>2
<1> HIDE DEF shown, cuts, pc
<1>9. /\ walk' \in Walks /\ walk'.served = walk.served + 1 /\ walk'.shown = shown
      /\ walk'.cursor = p.next /\ walk'.cuts = cuts /\ walk'.pc = pc
      /\ walk'.limit = walk.limit /\ walk'.steady = walk.steady
      /\ walk'.calm = walk.calm /\ walk'.tied = walk.tied
  BY <1>1, <1>3, <1>4, <1>5, <1>6, <1>8 DEF Walks
<1>10. shown \in [1..MaxRows -> Nat]
  BY <1>6
<1>11. Served(p)
  BY <1>1, <1>7, <1>9, <1>10 DEF Served, cuts, pc
<1> QED
  BY <1>9, <1>11

LEMMA KindsAre ==
  /\ Start.kind = "start" /\ \A n : Skip(n).kind = "skip" /\ Skip(n).n = n
  /\ \A r : At(r).kind = "at" /\ At(r).row = r
  /\ \A t : Before(t).kind = "before" /\ Before(t).t = t
BY DEF Start, Skip, At, Before

LEMMA CountsAre ==
  ASSUME ListingTypes
  PROVE  walk.served \in Nat /\ \A i \in 1..MaxRows : walk.shown[i] \in Nat
<1>1. walk.shown \in [1..MaxRows -> 0..MaxServed] /\ walk.served \in 0..MaxServed
  BY DEF ListingTypes, Walks
<1>2. \A i \in 1..MaxRows : walk.shown[i] \in 0..MaxServed
  BY <1>1
<1> QED
  BY <1>1, <1>2

LEMMA ServedTypes ==
  ASSUME ListingInv, walk' \in Walks, NEW p \in PagesAt(walk.cursor, walk.limit), Served(p)
  PROVE  ListingTypes' /\ RowsOK' /\ ShownOK' /\ CursorOK'
<1> USE DEF ListingInv
<1>1. UNCHANGED <<list, stored>> /\ walk.pc = "walking"
  BY DEF Served
<1>2. /\ p.items \subseteq stored
      /\ \/ p.next = Start
         \/ list \in Offset /\ p.next.kind = "skip"
         \/ list \in Outbox /\ p.next.kind = "before"
         \/ list \notin Offset \cup Outbox /\ p.next.kind = "at"
  <2>1. p.items \subseteq Eligible(walk.cursor)
    BY <1>1, ServedCursors
  <2>2. Eligible(walk.cursor) \subseteq stored
    BY RowsSeen
  <2>3. list \in Outbox => list \notin Offset
    BY DEF Outbox, Offset
  <2> QED
    BY <1>1, <2>1, <2>2, <2>3, ServedCursors, KindsAre
<1>3. ListingTypes' /\ RowsOK'
  BY <1>1 DEF ListingTypes, RowsOK
<1>4. ASSUME NEW i \in 1..MaxRows
      PROVE  /\ walk'.shown[i] <= walk'.served
             /\ walk'.shown[i] > 0 => \E r \in stored' : r.id = i
  <2>1. /\ walk.shown[i] \in Nat /\ walk.served \in Nat
    BY CountsAre
  <2>2. walk.shown[i] <= walk.served /\ (walk.shown[i] > 0 => \E r \in stored : r.id = i)
    BY DEF ShownOK
  <2>3. /\ walk'.served = walk.served + 1
        /\ walk'.shown[i] = IF \E r \in p.items : r.id = i /\ ~r.gone THEN walk.shown[i] + 1
                            ELSE walk.shown[i]
    BY DEF Served
  <2>4. CASE \E r \in p.items : r.id = i /\ ~r.gone
    BY <1>1, <1>2, <2>1, <2>2, <2>3, <2>4
  <2>5. CASE ~(\E r \in p.items : r.id = i /\ ~r.gone)
    BY <1>1, <2>1, <2>2, <2>3, <2>5
  <2> QED
    BY <2>4, <2>5
<1>5. ShownOK'
  BY <1>1, <1>4 DEF ShownOK, Served
<1>6. CursorOK'
  <2>1. /\ walk'.cursor = p.next /\ UNCHANGED list
        /\ walk'.pc = IF p.next = Start THEN "done" ELSE "walking"
    BY DEF Served
  <2>2. walk'.pc # "idle" /\ (walk'.pc = "walking" => walk'.cursor # Start)
    BY <2>1
  <2>3. list \in Outbox => list \notin Offset
    BY DEF Outbox, Offset
  <2>4. walk'.cursor.kind \in {"start"} \cup IF list \in Offset THEN {"skip"}
                                          ELSE IF list \in Outbox THEN {"before"} ELSE {"at"}
    <3>1. CASE p.next = Start
      BY <2>1, <3>1, KindsAre
    <3>2. CASE p.next # Start
      BY <1>2, <2>1, <2>3, <3>2
    <3> QED
      BY <3>1, <3>2
  <2> QED
    BY <2>1, <2>2, <2>4 DEF CursorOK
<1> QED
  BY <1>3, <1>5, <1>6

\* What the client has seen of a row that it relies on.
LEMMA ShownIs ==
  ASSUME ListingInv, NEW p \in PagesAt(walk.cursor, walk.limit), Served(p),
         NEW r \in stored, ~r.gone
  PROVE  /\ walk.shown[r.id] \in Nat
         /\ walk'.shown[r.id] = IF r \in p.items THEN walk.shown[r.id] + 1 ELSE walk.shown[r.id]
<1> USE DEF ListingInv
<1>1. r.id \in 1..MaxRows /\ p.items \subseteq stored
  <2>1. p.items \subseteq Eligible(walk.cursor)
    BY ServedCursors DEF Served
  <2> QED
    BY <2>1, RowsSeen DEF ListRows
<1>2. walk.shown[r.id] \in Nat
  BY <1>1, CountsAre
<1>3. (\E x \in p.items : x.id = r.id /\ ~x.gone) <=> r \in p.items
  BY <1>1 DEF RowsOK
<1> QED
  BY <1>1, <1>2, <1>3 DEF Served

\* A row that the client relies on is there, and seen by the statements.
LEMMA SteadyIs ==
  ASSUME ListingInv, NEW r \in stored, r.id \in walk.steady
  PROVE  ~r.gone /\ r \in Visible /\ r \in ListRows
BY RowsSeen DEF ListingInv, ShownOK, RowsOK, Visible

LEMMA ServedComments ==
  ASSUME ListingInv, NEW p \in PagesAt(walk.cursor, walk.limit), Served(p)
  PROVE  CommentsOK'
<1> USE DEF ListingInv
<1> SUFFICES ASSUME list \in Comments PROVE CommentsOK'
  BY DEF Served, CommentsOK
<1>1. UNCHANGED <<list, stored>> /\ walk.pc = "walking" /\ walk'.cursor = p.next /\ walk'.tied = walk.tied
  BY DEF Served
<1>2. walk'.cursor.kind = "at" =>
        \E x \in stored : x.id = walk'.cursor.row.id /\ x.at = walk'.cursor.row.at
  <2>1. list \notin Offset \cup Outbox
    BY DEF Comments, Offset, Outbox
  <2>2. p.next = Start \/ \E extra \in stored : p.next = At(extra)
    BY <1>1, <2>1, ServedCursors, RowsSeen
  <2> QED
    BY <1>1, <2>2, KindsAre
<1> QED
  BY <1>1, <1>2 DEF CommentsOK

\* Where the cursor is a position, what is read is what has not been passed.
LEMMA EligibleIs ==
  ASSUME ListingInv, list \in Positioned \cup Comments, Dependable, walk.pc = "walking",
         NEW r \in Visible
  PROVE  r \in Eligible(walk.cursor) <=> ~Passed(r)
<1> USE DEF ListingInv
<1>1. /\ walk.cursor \in Cursors /\ walk.cursor.kind \in {"start", "at"}
      /\ r \in stored /\ r \in ListRows /\ list \in AllLists
  <2>1. list \notin Offset \cup Outbox
    BY DEF Positioned, Comments, Offset, Outbox
  <2>2. walk.cursor \in Cursors
    BY DEF ListingTypes, Walks
  <2> QED
    BY <2>1, <2>2, RowsSeen DEF CursorOK
<1>2. CASE walk.cursor.kind = "start"
  BY <1>2 DEF Eligible, Resumes, Passed
<1>3. CASE walk.cursor.kind = "at"
  <2> DEFINE row == walk.cursor.row
  <2>1. row \in ListRows /\ walk.cursor = At(row)
    BY <1>1, <1>3, CursorsAre
  <2>2. Passed(r) <=> Less(r, row)
    BY <1>3 DEF Passed, Less
  <2>3. list \in Comments => (r.at = row.at => r.id = row.id)
    <3> SUFFICES ASSUME list \in Comments, r.at = row.at PROVE r.id = row.id
      OBVIOUS
    <3>1. PICK x \in stored : x.id = row.id /\ x.at = row.at
      BY <1>3 DEF CommentsOK
    <3>2. ~walk.tied
      BY DEF Dependable, Comments, Positioned, Offset
    <3>3. r = x
      BY <1>1, <3>1, <3>2 DEF CommentsOK
    <3> QED
      BY <3>1, <3>3
  <2>4. Resumes(At(row), r) <=> ~Less(r, row)
    <3> HIDE DEF row
    <3> QED
      BY <1>1, <2>1, <2>3, ResumesIs
  <2> QED
    BY <2>1, <2>2, <2>4 DEF Eligible
<1> QED
  BY <1>1, <1>2, <1>3

\* In such an order, the row that names the next page is apart from all others.
LEMMA RowsDiffer ==
  ASSUME ListingInv, list \in Positioned \cup Comments, Dependable, walk.pc = "walking",
         NEW r \in stored, NEW s \in stored, SortKey(r) = SortKey(s)
  PROVE  r = s
<1> USE DEF ListingInv
<1>1. /\ list \in AllLists /\ r \in ListRows /\ s \in ListRows
      /\ \A x, y \in stored : x.id = y.id => x = y
  BY RowsSeen DEF RowsOK
<1>2. /\ r.id \in Nat /\ r.at \in Nat /\ r.sub \in {0, 1} /\ s.id \in Nat /\ s.at \in Nat /\ s.sub \in {0, 1}
  BY <1>1, RowsAre
<1>3. Column1(r) = Column1(s) /\ Column2(r) = Column2(s) /\ Column3(r) = Column3(s)
  BY <1>1, LessIs
<1>4. CASE list = "communities alphabetic"
  <2>1. r.at = s.at /\ r.sub = s.sub
    BY <1>3, <1>4 DEF Column1, Column2
  <2> QED
    BY <1>4, <2>1 DEF RowsOK
<1>5. CASE list = "communities old"
  <2>1. r.id = s.id
    BY <1>3, <1>5 DEF Column1
  <2> QED
    BY <1>1, <2>1
<1>6. CASE list = "modlog"
  <2>1. -r.id = -s.id
    BY <1>3, <1>6 DEF Column1
  <2> QED
    BY <1>1, <1>2, <2>1
<1>7. CASE list \in {"posts new", "post likes"}
  <2>1. -r.id = -s.id
    BY <1>3, <1>7 DEF Column2
  <2> QED
    BY <1>1, <1>2, <2>1
<1>8. CASE list = "posts new sticky"
  <2>1. -r.id = -s.id
    BY <1>3, <1>8 DEF Column3
  <2> QED
    BY <1>1, <1>2, <2>1
<1>9. CASE list \in Comments
  <2>1. Column1(r) = -r.at /\ Column1(s) = -s.at
    BY <1>9 DEF Column1, Comments
  <2>2. -r.at = -s.at
    BY <1>3, <2>1
  <2>3. ~walk.tied
    BY <1>9 DEF Dependable, Comments, Positioned, Offset
  <2> QED
    BY <1>2, <1>9, <2>2, <2>3 DEF CommentsOK
<1> QED
  BY <1>4, <1>5, <1>6, <1>7, <1>8, <1>9 DEF Positioned

LEMMA DependableStays ==
  ASSUME NEW p, Served(p)
  PROVE  Dependable' <=> Dependable
<1>1. /\ UNCHANGED <<list, stored>> /\ walk'.limit = walk.limit
      /\ walk'.calm = walk.calm /\ walk'.tied = walk.tied
  BY DEF Served
<1>2. \A n : ReadLimit(n)' = ReadLimit(n)
  BY <1>1, OrderStays
<1> QED
  BY <1>1, <1>2 DEF Dependable

LEMMA ServedInOrder ==
  ASSUME ListingInv, NEW p \in PagesAt(walk.cursor, walk.limit), Served(p)
  PROVE  PositionOK'
<1> USE DEF ListingInv
<1>1. /\ UNCHANGED <<list, stored>> /\ walk.pc = "walking" /\ walk'.cursor = p.next
      /\ walk'.pc = (IF p.next = Start THEN "done" ELSE "walking") /\ walk'.steady = walk.steady
  BY DEF Served
<1> SUFFICES ASSUME list \in Positioned \cup Comments, Dependable,
                    NEW r \in stored, r.id \in walk.steady
             PROVE  /\ p.next # Start => walk'.shown[r.id] = IF Passed(r)' THEN 1 ELSE 0
                    /\ p.next = Start => walk'.shown[r.id] = 1
  BY <1>1, DependableStays DEF PositionOK, InOrder
<1> DEFINE E == Eligible(walk.cursor)
           n == walk.limit
<1>2. list \notin Offset \cup Outbox
  BY DEF Positioned, Comments, Offset, Outbox
<1>3. /\ ReadLimit(n) > n /\ (list = "replies" => \A x \in stored : ~x.gone)
      /\ n \in Nat /\ walk.cursor \in Cursors
  BY DEF Dependable, Positioned, Comments, Offset, ListingTypes, Walks
<1>4. /\ E \in SUBSET ListRows /\ E \subseteq stored /\ IsFiniteSet(E) /\ list \in AllLists
      /\ Skipped(walk.cursor) = 0
  <2>1. walk.cursor.kind # "skip"
    BY <1>2 DEF CursorOK
  <2> QED
    BY <1>3, <2>1, RowsSeen, CursorsAre
<1> HIDE DEF E, n
<1> DEFINE Cut(w, i) == /\ p.items = i
                        /\ i = w => p.next = Start
                        /\ i # w => \E extra \in w \ i : p.next = At(extra)
<1>5. \E w \in Firsts(E, n + 1) : \E i \in Firsts(w, n) : Cut(w, i)
  <2>1. PICK A \in Firsts(E, 0) : \E w \in Firsts(E \ A, n + 1) : \E i \in Firsts(w, n) :
          /\ p.items = i
          /\ i = w => p.next = Start
          /\ i # w => \E extra \in w \ i : p.next = NextPage(walk.cursor, n, extra)
    <3>1. \E A \in Firsts(Eligible(walk.cursor), Skipped(walk.cursor)) :
            \E w \in Firsts(Eligible(walk.cursor) \ A, walk.limit + 1) : \E i \in Firsts(w, walk.limit) :
              /\ p.items = i
              /\ i = w => p.next = Start
              /\ i # w => \E extra \in w \ i : p.next = NextPage(walk.cursor, walk.limit, extra)
      BY <1>2, <1>3, PageIs DEF n
    <3> QED
      BY <1>4, <3>1 DEF E, n
  <2>2. A = {}
    BY <1>4, <2>1, FirstsOfNone
  <2>3. E \ A = E
    BY <2>2
  <2>4. \A extra : NextPage(walk.cursor, n, extra) = At(extra)
    BY <1>2 DEF NextPage
  <2> QED
    BY <2>1, <2>3, <2>4
<1>5a. PICK W \in Firsts(E, n + 1) : \E i \in Firsts(W, n) : Cut(W, i)
  BY <1>5
<1>5b. PICK I \in Firsts(W, n) : Cut(W, I)
  BY <1>5a
<1>6. /\ W \subseteq E /\ I \subseteq W /\ (I = W => I = E)
      /\ \A e \in W \ I, b \in E \ I : ~Less(b, e)
      /\ \A a \in I, b \in E \ I : ~Less(b, a)
  BY <1>3, <1>4, <1>5a, <1>5b, CutIs
<1>7. /\ ~r.gone /\ r \in Visible /\ r \in ListRows
      /\ r \in E <=> ~Passed(r)
      /\ walk.shown[r.id] = IF Passed(r) THEN 1 ELSE 0
      /\ walk'.shown[r.id] = IF r \in I THEN walk.shown[r.id] + 1 ELSE walk.shown[r.id]
  BY <1>1, <1>5b, SteadyIs, EligibleIs, ShownIs DEF E, PositionOK, InOrder
<1>8. CASE I = W
  BY <1>5b, <1>6, <1>7, <1>8
<1>9. CASE I # W
  <2>1. PICK e \in W \ I : p.next = At(e)
    BY <1>5b, <1>9
  <2>2. p.next # Start /\ e \in E /\ e \in stored /\ e \in ListRows
    BY <1>4, <1>6, <2>1, KindsAre
  <2>3. Passed(r)' <=> Less(r, e)
    <3>1. SortKey(r)' = SortKey(r) /\ SortKey(e)' = SortKey(e)
      BY <1>1, OrderStays
    <3>2. walk'.cursor.kind = "at" /\ walk'.cursor.row = e
      BY <1>1, <2>1, KindsAre
    <3> QED
      BY <3>1, <3>2 DEF Passed, Less
  <2>4. CASE r \in I
    <3>1. ~Less(e, r) /\ r # e
      BY <1>6, <2>1, <2>2, <2>4
    <3>2. SortKey(r) # SortKey(e)
      BY <1>1, <2>2, <3>1, RowsDiffer
    <3>3. Less(r, e)
      BY <1>4, <1>7, <2>2, <3>1, <3>2, LessOrders
    <3> QED
      BY <1>6, <1>7, <2>2, <2>3, <2>4, <3>3
  <2>5. CASE r \in E \ I
    <3>1. ~Less(r, e)
      BY <1>6, <2>1, <2>5
    <3> QED
      BY <1>7, <2>2, <2>3, <2>5, <3>1
  <2>6. CASE r \notin E
    <3>1. Passed(r) /\ r \notin I
      BY <1>6, <1>7, <2>6
    <3>2. /\ walk.cursor.kind = "at" /\ walk.cursor.row \in ListRows
          /\ Less(r, walk.cursor.row)
      BY <1>3, <3>1, CursorsAre DEF Passed, Less
    <3>3. ~Less(e, walk.cursor.row)
      <4>1. e \in Visible
        BY <2>2, RowsSeen DEF E
      <4>2. ~Passed(e)
        BY <1>1, <2>2, <4>1, EligibleIs DEF E
      <4> QED
        BY <3>2, <4>2 DEF Passed, Less
    <3>4. Less(r, e)
      BY <1>4, <1>7, <2>2, <3>2, <3>3, LessOrders
    <3> QED
      BY <1>7, <2>2, <2>3, <3>1, <3>4
  <2> QED
    BY <2>4, <2>5, <2>6
<1> QED
  BY <1>8, <1>9

\* Where the cursor is a number of rows, these are the ones that were shown, as
\* long as nothing changes.
LEMMA ServedOffset ==
  ASSUME ListingInv, NEW p \in PagesAt(walk.cursor, walk.limit), Served(p)
  PROVE  OffsetOK'
<1> USE DEF ListingInv
<1>1. /\ UNCHANGED <<list, stored>> /\ walk.pc = "walking" /\ walk'.cursor = p.next
      /\ walk'.pc = (IF p.next = Start THEN "done" ELSE "walking")
      /\ walk'.calm = walk.calm /\ walk'.tied = walk.tied
  BY DEF Served
<1>2. /\ Visible' = Visible /\ \A S, m : Firsts(S, m)' = Firsts(S, m) /\ \A r : SortKey(r)' = SortKey(r)
  BY <1>1, ListStays, OrderStays
<1> DEFINE n == walk.limit
           k == Skipped(walk.cursor)
           Seen == {r \in Visible : walk.shown[r.id] = 1}
           SeenNow == {r \in Visible : walk'.shown[r.id] = 1}
           Kept == /\ \A r \in Visible : walk'.shown[r.id] <= 1
                   /\ p.next # Start => SeenNow \in Firsts(Visible, Skipped(p.next))
                   /\ p.next = Start => \A r \in Visible : walk'.shown[r.id] = 1
<1>3. ASSUME list \in Offset, walk.calm, ~walk.tied
      PROVE  \A r, s \in Visible : SortKey(r) = SortKey(s) => r = s
  BY <1>1, <1>3 DEF OffsetOK
<1>4. ASSUME list \in Offset, walk.calm, ~walk.tied, Dependable
      PROVE  Kept
  <2>1. /\ ReadLimit(n) > n /\ list # "replies" /\ list \notin Outbox /\ list \notin Comments
        /\ n \in Nat /\ walk.cursor \in Cursors
    BY <1>4 DEF Dependable, Offset, Comments, Outbox, ListingTypes, Walks
  <2>2. /\ Visible \in SUBSET ListRows /\ IsFiniteSet(Visible) /\ list \in AllLists
        /\ Cardinality(Visible) \in Nat
    BY RowsSeen
  <2>3. k \in Nat /\ Eligible(walk.cursor) = Visible
    <3>1. walk.cursor.kind \in {"start", "skip"}
      BY <1>4 DEF CursorOK
    <3> QED
      BY <2>1, <3>1, CursorsAre DEF Skipped, Eligible, Resumes
  <2>4. Seen \in Firsts(Visible, k)
    BY <1>1, <1>4 DEF OffsetOK
  <2>5. \A r \in Visible : walk.shown[r.id] \in Nat /\ walk.shown[r.id] <= 1 /\ ~r.gone
                           /\ walk'.shown[r.id] = IF r \in p.items THEN walk.shown[r.id] + 1
                                                  ELSE walk.shown[r.id]
    BY <1>1, <1>4, <2>1, ShownIs DEF OffsetOK, Visible
  <2> DEFINE Cut(w, i) == /\ p.items = i
                          /\ i = w => p.next = Start
                          /\ i # w => p.next = Skip(k + n)
  <2>6. \E A \in Firsts(Visible, k) : \E w \in Firsts(Visible \ A, n + 1) : \E i \in Firsts(w, n) : Cut(w, i)
    <3>1. \E A \in Firsts(Eligible(walk.cursor), Skipped(walk.cursor)) :
            \E w \in Firsts(Eligible(walk.cursor) \ A, walk.limit + 1) : \E i \in Firsts(w, walk.limit) :
              /\ p.items = i
              /\ i = w => p.next = Start
              /\ i # w => \E extra \in w \ i : p.next = NextPage(walk.cursor, walk.limit, extra)
      BY <2>1, PageIs DEF n
    <3>2. \A extra : NextPage(walk.cursor, walk.limit, extra) = Skip(k + n)
      BY <1>4 DEF NextPage
    <3> QED
      BY <2>3, <3>1, <3>2
  <2> HIDE DEF n, k
  <2>7. \A A \in Firsts(Visible, k) : A = Seen
    BY <1>3, <1>4, <2>2, <2>3, <2>4, FirstsUnique
  <2>8. PICK W \in Firsts(Visible \ Seen, n + 1) : \E i \in Firsts(W, n) : Cut(W, i)
    BY <2>6, <2>7
  <2>9. PICK I \in Firsts(W, n) : Cut(W, I)
    BY <2>8
  <2>10. /\ Visible \ Seen \in SUBSET ListRows /\ IsFiniteSet(Visible \ Seen)
    BY <2>2, FS_Subset
  <2>11. /\ W \subseteq Visible \ Seen /\ I \subseteq W
         /\ I = W => I = Visible \ Seen
         /\ I # W => Cardinality(I) = n
         /\ \A a \in I, b \in (Visible \ Seen) \ I : ~Less(b, a)
    BY <2>1, <2>2, <2>10, CutIs
  <2>12. \A r \in Visible : walk'.shown[r.id] = IF r \in Seen \cup I THEN 1 ELSE 0
    <3> SUFFICES ASSUME NEW r \in Visible PROVE walk'.shown[r.id] = IF r \in Seen \cup I THEN 1 ELSE 0
      OBVIOUS
    <3>1. /\ walk.shown[r.id] \in Nat /\ walk.shown[r.id] <= 1
          /\ walk'.shown[r.id] = IF r \in I THEN walk.shown[r.id] + 1 ELSE walk.shown[r.id]
      BY <2>5, <2>9
    <3>2. walk.shown[r.id] = 0 \/ walk.shown[r.id] = 1
      BY <3>1
    <3>3. r \in I => r \notin Seen
      BY <2>11
    <3> QED
      BY <3>1, <3>2, <3>3
  <2>13. SeenNow = Seen \cup I
    BY <2>11, <2>12
  <2>14. ASSUME I # W PROVE Seen \cup I \in Firsts(Visible, k + n)
    <3>1. Seen # Visible /\ Seen \subseteq Visible /\ Seen \cap I = {} /\ I \subseteq Visible
      BY <2>11, <2>14
    <3>2. Cardinality(Seen) = k /\ \A a \in Seen, b \in Visible \ Seen : ~Less(b, a)
      BY <2>2, <2>3, <2>4, <3>1, FirstsAre
    <3>3. IsFiniteSet(Seen) /\ IsFiniteSet(I) /\ Cardinality(I) = n
      BY <2>2, <2>11, <2>14, <3>1, FS_Subset
    <3>4. Cardinality(Seen \cup I) = k + n
      <4>1. Cardinality({}) = 0
        BY FS_EmptySet
      <4>2. Cardinality(Seen \cup I) = Cardinality(Seen) + Cardinality(I) - Cardinality(Seen \cap I)
        BY <3>3, FS_Union
      <4>3. Cardinality(Seen \cap I) = 0
        BY <3>1, <4>1
      <4>4. n \in Nat
        BY <2>1 DEF n
      <4> QED
        BY <2>3, <3>2, <3>3, <4>2, <4>3, <4>4
    <3>5. Cardinality(Seen \cup I) <= Cardinality(Visible)
      BY <2>2, <3>1, FS_Subset
    <3>6. \A a \in Seen \cup I, b \in Visible \ (Seen \cup I) : ~Less(b, a)
      BY <2>11, <3>2
    <3>7. k + n \in Int /\ Cardinality(Visible) \in Int
      BY <2>1, <2>2, <2>3 DEF n
    <3>8. Cardinality(Seen \cup I) = IF k + n < Cardinality(Visible) THEN k + n ELSE Cardinality(Visible)
      BY <3>4, <3>5, <3>7
    <3> QED
      BY <3>1, <3>6, <3>8 DEF Firsts, Less
  <2>15. CASE I = W
    <3>1. p.next = Start /\ Visible = Seen \cup I
      BY <2>9, <2>11, <2>15
    <3> QED
      BY <2>12, <3>1
  <2>16. CASE I # W
    <3>1. p.next = Skip(k + n) /\ p.next # Start /\ Skipped(p.next) = k + n
      BY <2>9, <2>16, KindsAre DEF Skipped
    <3>2. \A r \in Visible : walk'.shown[r.id] <= 1
      BY <2>12
    <3> HIDE DEF SeenNow
    <3> QED
      BY <2>13, <2>14, <2>16, <3>1, <3>2
  <2> QED
    BY <2>15, <2>16
<1>5. Dependable' <=> Dependable
  BY DependableStays
<1>6. walk'.pc = "walking" <=> p.next # Start
  BY <1>1
<1>7. Skipped(walk.cursor)' = Skipped(p.next)
  BY <1>1 DEF Skipped
<1>8. Seen' = SeenNow
  BY <1>2
<1> QED
  BY <1>1, <1>2, <1>3, <1>4, <1>5, <1>6, <1>7, <1>8 DEF OffsetOK

\* What an outbox has not shown yet is before its cursor, or was in a second in
\* which a page ended.
LEMMA ServedOutbox ==
  ASSUME ListingInv, NEW p \in PagesAt(walk.cursor, walk.limit), Served(p)
  PROVE  OutboxOK'
<1> USE DEF ListingInv
<1> SUFFICES ASSUME list \in Outbox PROVE OutboxOK'
  BY DEF Served, OutboxOK
<1> DEFINE c == walk.cursor
           E == Eligible(c)
<1>1. /\ UNCHANGED <<list, stored>> /\ walk.pc = "walking" /\ walk'.cursor = p.next
      /\ walk'.pc = (IF p.next = Start THEN "done" ELSE "walking")
      /\ walk'.limit = walk.limit /\ walk'.steady = walk.steady
      /\ walk'.cuts = IF p.items # {} THEN walk.cuts \cup {Second(Earliest(p.items))} ELSE walk.cuts
  BY DEF Served
<1>2. /\ walk.limit \in Nat /\ walk.limit > 0 /\ c \in Cursors /\ c.kind \in {"start", "before"}
  <2>1. list \notin Offset
    BY DEF Outbox, Offset
  <2> QED
    BY <1>1, <2>1 DEF OutboxOK, CursorOK, ListingTypes, Walks
<1>3. /\ E \in SUBSET ListRows /\ IsFiniteSet(E) /\ list \in AllLists /\ E \subseteq stored
  BY RowsSeen
<1>4. PICK I \in Firsts(E, walk.limit) : p = OutboxPage(I)
  BY <1>2, OutboxPageIs
<1>5. /\ p.items = I
      /\ I = {} => p.next = Start
      /\ I # {} => p.next = Before(Second(Earliest(I)))
  BY <1>4 DEF OutboxPage
<1>6. /\ I \subseteq E /\ IsFiniteSet(I) /\ (Cardinality(I) < walk.limit => I = E)
      /\ \A a \in I, b \in E \ I : ~Less(b, a)
  BY <1>2, <1>3, FirstsAre
<1>7. ASSUME NEW r \in stored, r.id \in walk.steady
      PROVE  /\ p.next = Start => Met(r)'
             /\ p.next # Start => IF r.at < p.next.t THEN walk'.shown[r.id] = 0 ELSE Met(r)'
  <2>1. /\ ~r.gone /\ r \in Visible /\ r \in ListRows /\ r.at \in Nat
        /\ walk'.shown[r.id] = IF r \in I THEN walk.shown[r.id] + 1 ELSE walk.shown[r.id]
    BY <1>5, <1>7, SteadyIs, ShownIs, RowsAre
  <2>2. r \in E <=> (c.kind = "start" \/ r.at < c.t)
    BY <1>2, <2>1 DEF Eligible, Resumes
  <2>3. r \in E => walk.shown[r.id] = 0
    <3>1. CASE c.kind = "start"
      <4>1. c = Start /\ r.id \in 1..MaxRows
        BY <1>2, <2>1, <3>1, CursorsAre DEF ListRows
      <4> QED
        BY <1>1, <4>1 DEF CursorOK
    <3>2. CASE c.kind = "before"
      BY <1>1, <1>7, <2>2, <3>2 DEF OutboxOK
    <3> QED
      BY <1>2, <3>1, <3>2
  <2>4. r \notin E => c.kind = "before" /\ ~(r.at < c.t) /\ c.t \in Int /\ Met(r)
    BY <1>1, <1>2, <1>7, <2>2, CursorsAre DEF OutboxOK
  <2>5. Met(r)' <=> walk'.shown[r.id] <= 1 /\ (walk'.shown[r.id] = 0 => Second(r.at) \in walk'.cuts)
    BY DEF Met
  <2>6. r \notin E => Met(r)'
    BY <1>1, <1>6, <2>1, <2>4, <2>5 DEF Met
  <2>7. CASE I = {}
    <3>1. E = {}
      BY <1>2, <1>6, <2>7, FS_EmptySet
    <3> QED
      BY <1>5, <2>6, <2>7, <3>1
  <2>8. CASE I # {}
    <3> DEFINE e == Earliest(I)
    <3>1. /\ e \in Nat /\ \E a \in I : a.at = e
          /\ \A a \in I : e <= a.at
      BY <1>3, <1>6, <2>8, EarliestIs
    <3> HIDE DEF e
    <3>2. /\ Second(e) \in Int /\ Second(e) <= e
          /\ (Second(e) <= r.at /\ r.at <= e => Second(r.at) = Second(e))
      BY <2>1, <3>1, SecondsAre
    <3>3. p.next # Start /\ p.next.t = Second(e) /\ Second(e) \in walk'.cuts
      BY <1>1, <1>5, <2>8, KindsAre DEF e
    <3>4. CASE r \in I
      <4>1. e <= r.at /\ walk'.shown[r.id] = 1
        BY <1>6, <2>1, <2>3, <3>1, <3>4
      <4>2. ~(r.at < Second(e))
        BY <2>1, <3>1, <3>2, <4>1
      <4> QED
        BY <2>5, <3>3, <4>1, <4>2
    <3>5. CASE r \in E \ I
      <4>1. PICK a \in I : a.at = e
        BY <3>1
      <4>2. ~Less(r, a) /\ a \in ListRows
        BY <1>3, <1>6, <3>5, <4>1
      <4>3. ~(-r.at < -a.at)
        <5>1. Column1(r) = -r.at /\ Column1(a) = -a.at
          BY DEF Column1, Outbox
        <5> QED
          BY <1>3, <2>1, <4>2, <5>1, LessIs
      <4>4. r.at <= e
        BY <2>1, <3>1, <4>1, <4>3
      <4>5. walk'.shown[r.id] = 0
        BY <2>1, <2>3, <3>5
      <4>6. ~(r.at < Second(e)) => Second(r.at) = Second(e)
        BY <2>1, <3>1, <3>2, <4>4
      <4> QED
        BY <2>5, <3>3, <4>5, <4>6
    <3>6. CASE r \notin E
      <4>1. PICK a \in I : a.at = e
        BY <3>1
      <4>2. a.at < c.t
        BY <1>6, <2>4, <3>6, <4>1 DEF Eligible, Resumes
      <4>3. ~(r.at < Second(e))
        BY <2>1, <2>4, <3>1, <3>2, <3>6, <4>1, <4>2
      <4> QED
        BY <2>6, <3>3, <3>6, <4>3
    <3> QED
      BY <3>4, <3>5, <3>6
  <2> QED
    BY <2>7, <2>8
<1> QED
  BY <1>1, <1>2, <1>7 DEF OutboxOK

LEMMA ServeKeeps ==
  ListingInv /\ ServePage => ListingInv'
<1> SUFFICES ASSUME ListingInv, ServePage PROVE ListingInv'
  OBVIOUS
<1>1. walk' \in Walks
  BY ServeIs
<1>2. PICK p \in PagesAt(walk.cursor, walk.limit) : Served(p)
  BY ServeIs
<1>3. ListingTypes' /\ RowsOK' /\ ShownOK' /\ CursorOK'
  BY <1>1, <1>2, ServedTypes
<1>4. CommentsOK' /\ PositionOK' /\ OffsetOK' /\ OutboxOK'
  BY <1>2, ServedComments, ServedInOrder, ServedOffset, ServedOutbox
<1> QED
  BY <1>3, <1>4 DEF ListingInv

LEMMA ListingUnchanged ==
  ASSUME ListingInv, UNCHANGED <<list, stored>>, UNCHANGED walk
  PROVE  ListingInv'
<1> USE DEF ListingInv
<1>1. /\ \A r : SortKey(r)' = SortKey(r)
      /\ \A n : ReadLimit(n)' = ReadLimit(n)
      /\ Visible' = Visible
      /\ \A S, n : Firsts(S, n)' = Firsts(S, n)
  BY OrderStays, ListStays
<1>2. ListingTypes' /\ RowsOK' /\ ShownOK' /\ CursorOK' /\ CommentsOK'
  BY DEF ListingTypes, RowsOK, ShownOK, CursorOK, CommentsOK
<1>3. Dependable' <=> Dependable
  BY <1>1 DEF Dependable
<1>4. PositionOK'
  <2>1. \A r : Passed(r)' <=> Passed(r)
    BY <1>1 DEF Passed
  <2> QED
    BY <1>3, <2>1 DEF PositionOK, InOrder
<1>5. OffsetOK'
  <2>1. Skipped(walk.cursor)' = Skipped(walk.cursor)
    BY DEF Skipped
  <2> QED
    BY <1>1, <1>3, <2>1 DEF OffsetOK
<1>6. OutboxOK'
  BY DEF OutboxOK, Met
<1> QED
  BY <1>2, <1>4, <1>5, <1>6

LEMMA ListingKept == ListingInv /\ [ListingNext]_listingVars => ListingInv'
<1> SUFFICES ASSUME ListingInv, [ListingNext]_listingVars PROVE ListingInv'
  OBVIOUS
<1>1. ASSUME NEW at \in Times, NEW sub \in 0..1, NEW score \in 0..1, NEW sticky \in 0..1,
             InsertRow(at, sub, score, sticky)
      PROVE  ListingInv'
  BY <1>1, InsertKeeps
<1>2. ASSUME NEW r \in stored, RemoveRow(r)
      PROVE  ListingInv'
  BY <1>2, RemoveKeeps
<1>3. ASSUME NEW r \in stored, NEW score \in 0..1, NEW sticky \in 0..1, MoveRow(r, score, sticky)
      PROVE  ListingInv'
  BY <1>3, MoveKeeps
<1>4. ASSUME NEW limit \in Limits, BeginWalk(limit)
      PROVE  ListingInv'
  BY <1>4, BeginKeeps
<1>5. CASE ServePage
  BY <1>5, ServeKeeps
<1>6. CASE RefusePage
  BY <1>6, RefuseKeeps
<1>7. CASE UNCHANGED listingVars
  <2>1. UNCHANGED <<list, stored>> /\ UNCHANGED walk
    BY <1>7 DEF listingVars
  <2> QED
    BY <2>1, ListingUnchanged
<1> QED
  BY <1>1, <1>2, <1>3, <1>4, <1>5, <1>6, <1>7 DEF ListingNext

(***************************************************************************)
(* Whatever lists are walked, with whatever limits, and however many rows  *)
(* come, go and move: rows and walks are what they are declared to be      *)
(* (handlers of routes/api/posts/mod.rs, communities.rs, users.rs).        *)
(***************************************************************************)
THEOREM ListingTypeCorrect == ListingSpec => []ListingTypeOK
<1>1. ListingInv => ListingTypeOK
  <2> SUFFICES ASSUME ListingInv PROVE ListingTypeOK
    OBVIOUS
  <2> USE DEF ListingInv
  <2>1. list \in Lists /\ walk \in Walks /\ stored \subseteq ListRows
    BY DEF ListingTypes
  <2>2. \A r \in stored : r.id \in 1..MaxRows /\ r.at \in Times /\ r.gone \in BOOLEAN
    BY <2>1 DEF ListRows
  <2>3. /\ walk.pc \in {"idle", "walking", "done", "refused"}
        /\ walk.shown \in [1..MaxRows -> 0..MaxServed]
        /\ walk.cursor \in Cursors
    BY <2>1 DEF Walks
  <2>4. walk.steady \cup {i \in 1..MaxRows : walk.shown[i] > 0} \subseteq {r.id : r \in stored}
    BY DEF ShownOK
  <2> QED
    BY <2>1, <2>2, <2>3, <2>4, CursorsAre DEF ListingTypeOK
<1> QED
  BY <1>1, ListingInitInv, ListingKept, PTL DEF ListingSpec

(***************************************************************************)
(* A walk from page to page shows every row that was in the list all the   *)
(* while, once, whenever its cursor is a position in a total order, or     *)
(* nothing changes under one that counts rows (SortType::handle_page,      *)
(* CommunitiesSortType::handle_page).                                      *)
(***************************************************************************)
THEOREM WalksShowEachOnce == ListingSpec => []WalkShowsEachOnce
<1>1. ListingInv => WalkShowsEachOnce
  <2> SUFFICES ASSUME ListingInv, Dependable, NEW i \in walk.steady
               PROVE  walk.shown[i] <= 1 /\ (walk.pc = "done" => walk.shown[i] = 1)
    BY DEF WalkShowsEachOnce
  <2> USE DEF ListingInv
  <2>1. PICK r \in stored : r.id = i /\ ~r.gone
    BY DEF ShownOK
  <2>2. r \in Visible /\ r.id \in 1..MaxRows /\ r \in ListRows
    BY <2>1, SteadyIs DEF ListRows
  <2>3. walk.pc # "idle" /\ walk.pc # "refused"
    <3>1. walk.pc = "idle" => walk.steady = {}
      BY DEF CursorOK, Idle
    <3>2. list \notin Broken
      BY DEF Broken, Dependable, Positioned, Offset
    <3> QED
      BY <3>1, <3>2 DEF CursorOK
  <2>4. CASE walk.pc \in {"walking", "done"}
    <3>1. CASE list \in Positioned \cup Comments
      BY <2>1, <2>4, <3>1 DEF PositionOK, InOrder
    <3>2. CASE list \in Offset
      <4>1. walk.calm /\ ~walk.tied
        BY <3>2 DEF Dependable, Positioned, Offset
      <4> QED
        BY <2>1, <2>2, <2>4, <3>2, <4>1 DEF OffsetOK
    <3> QED
      BY <3>1, <3>2 DEF Dependable, Comments
  <2> QED
    BY <2>3, <2>4 DEF ListingTypes, Walks
<1> QED
  BY <1>1, ListingInitInv, ListingKept, PTL DEF ListingSpec

(***************************************************************************)
(* Whoever follows an outbox to its end misses only activities of a second *)
(* in which some page ended, and is shown none of them twice               *)
(* (TimestampOrLatest, handler_users_outbox_page_get).                     *)
(***************************************************************************)
THEOREM OutboxesMissOneSecond == ListingSpec => []OutboxMissesOneSecond
<1>1. ListingInv => OutboxMissesOneSecond
  <2> SUFFICES ASSUME ListingInv, list \in Outbox PROVE OutboxMissesOneSecond
    BY DEF OutboxMissesOneSecond
  <2> USE DEF ListingInv
  <2>1. ASSUME NEW r \in stored, r.id \in walk.steady
        PROVE  walk.shown[r.id] <= 1 /\ (walk.pc = "done" => Met(r))
    <3>1. walk.pc # "refused" /\ r.id \in 1..MaxRows
      BY <2>1, SteadyIs DEF ListRows, CursorOK, Broken, Outbox
    <3>2. CASE walk.pc = "idle"
      BY <3>1, <3>2 DEF CursorOK, Idle
    <3>3. CASE walk.pc = "done"
      BY <2>1, <3>3 DEF OutboxOK, Met
    <3>4. CASE walk.pc = "walking"
      <4>1. walk.cursor \in Cursors /\ walk.cursor.kind \in {"start", "before"}
        BY DEF ListingTypes, Walks, CursorOK, Offset, Outbox
      <4>2. CASE walk.cursor.kind = "before"
        BY <2>1, <3>4, <4>2 DEF OutboxOK, Met
      <4>3. CASE walk.cursor.kind = "start"
        BY <3>1, <3>4, <4>1, <4>3, CursorsAre DEF CursorOK
      <4> QED
        BY <4>1, <4>2, <4>3
    <3> QED
      BY <3>1, <3>2, <3>3, <3>4 DEF ListingTypes, Walks
  <2> QED
    BY <2>1 DEF OutboxMissesOneSecond, ShownOK, Met
<1> QED
  BY <1>1, ListingInitInv, ListingKept, PTL DEF ListingSpec
=============================================================================
