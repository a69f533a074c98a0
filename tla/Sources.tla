------------------------------ MODULE Sources ------------------------------
(***************************************************************************)
(* Sources that local users read and follow, libraries and the feeds of    *)
(* actors (collection_target), with the items known of them and what users *)
(* make of an item: likes, and taking them back                            *)
(* (src/src/routes/api/mod.rs, src/src/apub_util/ingest.rs,                *)
(* src/src/tasks.rs).  The follows of a source are in Follow.              *)
(*                                                                         *)
(* An item has one row whatever source shows it, and the row names the     *)
(* source it was seen in last, whose owner gets what users do to it.       *)
(***************************************************************************)
EXTENDS Integers, FiniteSets

CONSTANTS
  Sources,      \* sources, each with an owner of its own
  Familiar,     \* those that are known already, and take likes
  Pieces,       \* items, as their id names them
  Readers,      \* local users
  Clients,      \* requests that are handled at once
  Documents,    \* documents of a source: what its software takes, its inbox, its items
  MaxFaves,     \* bound: likes that are written
  MaxSightings  \* bound: times that the documents of sources are ingested

ASSUME SourcesAssumption ==
  /\ Documents \subseteq [likes : BOOLEAN, inbox : BOOLEAN, paged : BOOLEAN]
  /\ "nowhere" \notin Sources
  /\ Familiar \subseteq Sources /\ MaxFaves \in Nat /\ MaxSightings \in Nat

VARIABLES
  source,     \* source[s] : its row
  placed,     \* placed[i] : the source an item's row names
  fave,       \* fave[i][u] : the id of a user's like, 0 when there is none
  undoRows,   \* the rows that record likes that were taken back
  asking,     \* asking[c] : what a request has read, and has still to do
  errands,    \* jobs that were spawned and have not enqueued their task
  wanted,     \* sources whose items a spawned job wants read
  fetches,    \* sources with a task that reads its items
  reported,       \* what owners are reported of likes: the jobs that have enqueued their task
  given,      \* undo rows for which none ever will be, as the request failed
  strayed,    \* items that have been shown by more than one source
  altered,    \* sources whose row has changed
  sightings,  \* documents of sources ingested
  halted      \* the server stopped while something was only in memory

sourceVars == <<source, placed, fave, undoRows, asking, errands, wanted, fetches,
                reported, given, strayed, altered, sightings, halted>>

Nowhere == "nowhere"
NoAsk == [at |-> "none"]
Likings == {f \in Pieces \X Readers : fave[f[1]][f[2]] # 0}

SourcesInit ==
  /\ source = [s \in Sources |->
       [kept |-> s \in Familiar, likes |-> s \in Familiar, inbox |-> s \in Familiar]]
  /\ placed = [i \in Pieces |-> Nowhere] /\ fave = [i \in Pieces |-> [u \in Readers |-> 0]]
  /\ undoRows = {} /\ asking = [c \in Clients |-> NoAsk]
  /\ errands = {} /\ wanted = {} /\ fetches = {}
  /\ reported = {} /\ given = {} /\ strayed = {} /\ altered = {}
  /\ sightings = 0 /\ halted = FALSE

-----------------------------------------------------------------------------
\* The documents of sources, and their items.

\* The document of a library or actor, looked up or found by a crawl: the row is
\* written anew, and a job is spawned if the items have an address.  What its
\* software takes, and whether the owner's inbox is known, come with it.
IngestSource(s, doc) ==
  LET seen == [kept |-> TRUE, likes |-> doc.likes, inbox |-> doc.inbox]
  IN  /\ sightings < MaxSightings /\ sightings' = sightings + 1
      /\ source' = [source EXCEPT ![s] = seen]
      /\ altered' = IF source[s].kept /\ source[s] # seen THEN altered \cup {s} ELSE altered
      /\ wanted' = IF doc.paged THEN wanted \cup {s} ELSE wanted
  /\ UNCHANGED <<placed, fave, undoRows, asking, errands, fetches, reported, given,
                 strayed, halted>>

\* spawn_enqueue_fetch_collection_target_preview: a task, if there is none.
WantItems(s) ==
  /\ s \in wanted /\ wanted' = wanted \ {s}
  /\ fetches' = fetches \cup {s}
  /\ UNCHANGED <<source, placed, fave, undoRows, asking, errands, reported, given,
                 strayed, altered, sightings, halted>>

\* An item's row is written: it names the source it is seen in now.
Place(seen, s) ==
  /\ placed' = [i \in Pieces |-> IF i \in seen THEN s ELSE placed[i]]
  /\ strayed' = strayed \cup {i \in seen : placed[i] \notin {s, Nowhere}}

\* FetchCollectionTargetPreview::perform: its first items, in one transaction.
FetchItems(s, page) ==
  /\ s \in fetches /\ fetches' = fetches \ {s}
  /\ Place(page, s)
  /\ UNCHANGED <<source, fave, undoRows, asking, errands, wanted, reported, given,
                 altered, sightings, halted>>

\* cache_explicit_source_object_lookup: one object that somebody looked up.
LookUpItem(s, i) ==
  /\ source[s].kept /\ Place({i}, s)
  /\ UNCHANGED <<source, fave, undoRows, asking, errands, wanted, fetches, reported,
                 given, altered, sightings, halted>>

-----------------------------------------------------------------------------
\* Requests about an item s/i.

Asks(c, at, u, s, i) == [at |-> at, user |-> u, via |-> s, item |-> i]

\* COLLECTION_TARGET_ITEM_VOTE_DELIVERY_TARGET_SQL, and the checks of the handlers.
Reachable(s, i) == placed[i] = s /\ source[s].inbox

\* A like: what the row says is read here and used later.
AskLike(c, u, s, i) ==
  /\ asking[c] = NoAsk /\ Reachable(s, i) /\ source[s].likes
  /\ Cardinality(Likings) + Cardinality(undoRows) < MaxFaves
  /\ asking' = [asking EXCEPT ![c] = Asks(c, "like", u, s, i)]
  /\ UNCHANGED <<source, placed, fave, undoRows, errands, wanted, fetches, reported,
                 given, strayed, altered, sightings, halted>>

\* As FreshFave, with the address of the like itself: one for each user and item.
StableFave == 1

\* The id of a like is new each time.
FreshFave == Cardinality(Likings) + Cardinality(undoRows) + 1

\* INSERT ... ON CONFLICT DO NOTHING, and the job.
WriteLike(c) ==
  /\ asking[c].at = "like"
  /\ LET a == asking[c]
     IN  IF fave[a.item][a.user] # 0 THEN UNCHANGED <<fave, errands>>
         ELSE /\ FreshFave <= MaxFaves
              /\ fave' = [fave EXCEPT ![a.item][a.user] = FreshFave]
              /\ errands' = errands \cup {[is |-> "like", id |-> FreshFave, user |-> a.user,
                                           via |-> a.via, item |-> a.item]}
  /\ asking' = [asking EXCEPT ![c] = NoAsk]
  /\ UNCHANGED <<source, placed, undoRows, wanted, fetches, reported, given, strayed,
                 altered, sightings, halted>>

\* The like goes, and a row records it, in one transaction; who is to be told is
\* read after that.
Unlike(c, u, s, i) ==
  /\ asking[c] = NoAsk /\ placed[i] = s /\ fave[i][u] # 0
  /\ LET n == Cardinality(undoRows) + 1
     IN  /\ undoRows' = undoRows \cup {[id |-> n, like |-> fave[i][u], item |-> i,
                                        user |-> u]}
         /\ asking' = [asking EXCEPT ![c] = [at |-> "undo", user |-> u, via |-> s, item |-> i, id |-> n]]
  /\ fave' = [fave EXCEPT ![i][u] = 0]
  /\ UNCHANGED <<source, placed, errands, wanted, fetches, reported, given, strayed,
                 altered, sightings, halted>>

\* A row that is not there now, an owner without an inbox, and software that takes
\* no likes end the request, and nothing tells of the undo any more.
TellUndo(c) ==
  /\ asking[c].at = "undo" /\ asking' = [asking EXCEPT ![c] = NoAsk]
  /\ LET a == asking[c]
     IN  IF Reachable(a.via, a.item) /\ source[a.via].likes
         THEN /\ errands' = errands \cup {[is |-> "undo", id |-> a.id, user |-> a.user,
                                           via |-> a.via, item |-> a.item]}
              /\ UNCHANGED given
         ELSE given' = given \cup {a.id} /\ UNCHANGED errands
  /\ UNCHANGED <<source, placed, fave, undoRows, wanted, fetches, reported, strayed,
                 altered, sightings, halted>>

-----------------------------------------------------------------------------
\* Spawned jobs run in any order; what becomes of their tasks is the part of the
\* task queue, and of the deliveries of Votes.
RunErrand(e) ==
  /\ e \in errands /\ errands' = errands \ {e}
  /\ reported' = reported \cup {e}
  /\ UNCHANGED <<source, placed, fave, undoRows, asking, wanted, fetches, given, strayed,
                 altered, sightings, halted>>

\* Requests and jobs are kept in memory only.
ServerHalts ==
  /\ errands # {} \/ \E c \in Clients : asking[c] # NoAsk
  /\ halted' = (halted \/ (\E e \in errands : e.is = "undo")
                      \/ (\E c \in Clients : asking[c].at = "undo"))
  /\ errands' = {} /\ asking' = [c \in Clients |-> NoAsk] /\ wanted' = {}
  /\ UNCHANGED <<source, placed, fave, undoRows, fetches, reported, given, strayed,
                 altered, sightings>>

SourcesNext ==
  \/ \E s \in Sources : \/ \E doc \in Documents : IngestSource(s, doc)
                        \/ WantItems(s)
                        \/ \E page \in SUBSET Pieces : FetchItems(s, page)
                        \/ \E i \in Pieces : LookUpItem(s, i)
  \/ \E c \in Clients, u \in Readers, s \in Sources, i \in Pieces :
       AskLike(c, u, s, i) \/ Unlike(c, u, s, i)
  \/ \E c \in Clients : WriteLike(c) \/ TellUndo(c)
  \/ \E e \in errands : RunErrand(e)
  \/ ServerHalts

SourcesSpec == SourcesInit /\ [][SourcesNext]_sourceVars
-----------------------------------------------------------------------------
\* The types of the variables.
SourcesTypeOK ==
  /\ source \in [Sources -> [kept : BOOLEAN, likes : BOOLEAN, inbox : BOOLEAN]]
  /\ placed \in [Pieces -> Sources \cup {Nowhere}]
  /\ fave \in [Pieces -> [Readers -> 0..MaxFaves]]
  /\ \A r \in undoRows : /\ r.id \in 1..MaxFaves /\ r.like \in 1..MaxFaves /\ r.item \in Pieces
                          /\ r.user \in Readers
  /\ \A c \in Clients : asking[c].at \in {"none", "like", "undo"}
  /\ \A e \in errands \cup reported :
       e.is \in {"like", "undo"} /\ e.via \in Sources /\ e.item \in Pieces /\ e.user \in Readers
  /\ wanted \subseteq Sources /\ fetches \subseteq Sources
  /\ given \subseteq 1..MaxFaves /\ strayed \subseteq Pieces /\ altered \subseteq Sources
  /\ sightings \in 0..MaxSightings /\ halted \in BOOLEAN

UndosOf(l) == {r \in undoRows : r.like = l.id /\ r.item = l.item /\ r.user = l.user}
Underway == {e \in errands \cup reported : e.is = "undo"}

\* A Like that an owner is reported of is either still there, or taken back: then one
\* undo names it, and the same owner is reported of that, however requests overlap and
\* jobs are reordered.  The exceptions are a stop of the server, an item that has
\* moved to another source, whose owner then gets the Undo or nobody does, and a
\* source whose row has changed in the meantime.
LikesRetracted ==
  \A l \in {e \in reported : e.is = "like"} :
    IF fave[l.item][l.user] = l.id
    THEN UndosOf(l) = {}
    ELSE \E r \in UndosOf(l) :
      /\ UndosOf(l) = {r}
      /\ \A e \in Underway : e.id = r.id => e.via = l.via \/ l.item \in strayed
      /\ \/ halted \/ \E e \in Underway : e.id = r.id
         \/ \E c \in Clients : asking[c].at = "undo" /\ asking[c].id = r.id
         \/ r.id \in given /\ (l.item \in strayed \/ l.via \in altered)
=============================================================================
