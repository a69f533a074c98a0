-------------------------- MODULE FederationProofs --------------------------
(***************************************************************************)
(* Proofs about modules Directory and Inbox.                               *)
(*                                                                         *)
(* Directory, for any communities, sources, names of software, lists and   *)
(* limits: every step of a crawl is a step of HostDirectory or none.  What *)
(* a crawl carries until it stores it is part of the invariant: whatever   *)
(* it found passed the tests, and it stores something only if it found     *)
(* communities, or knows the software that has no communities.             *)
(*                                                                         *)
(* Inbox, for any activities, lanes and numbers of deliveries: that an     *)
(* approval has its grounds and that nothing is forwarded twice follow     *)
(* from InboxInv, which says of every lane what it has read and not yet    *)
(* written.  FaithfulWhenOrderly needs OrderlyInv besides: what was sent   *)
(* explains how its server has the post and the reply (SentOK), and what   *)
(* has arrived of it shows in the rows or is in a lane's hands             *)
(* (OrderlyOK).                                                            *)
(***************************************************************************)
EXTENDS Inbox, Directory, SequenceTheorems, FiniteSetTheorems, TLAPS

-----------------------------------------------------------------------------
(***************************************************************************)
(* The crawl of a server.                                                  *)
(***************************************************************************)
ListNames == {Endpoints[i] : i \in 1..Len(Endpoints)}
               \cup {"fedigroups-directory", "hubzilla", "friendica", "mbin-compatible",
                     "gancio", "nodeinfo"}

Reachable == Lively \ (Foreign \ Endpointed)

CrawlStates ==
  [at : {"idle", "info", "lists", "sources", "store", "spawn"},
   known : Brands \cup {Unnamed}, info : Brands \cup {Unnamed}, todo : Seq(ListNames),
   groups : SUBSET Reachable, feeds : SUBSET Feeds, brand : Labels, first : BOOLEAN]

\* Communities are carried by a crawl that is about to store them only; one that
\* stores none knows what software it stores the sources of.
CrawlOK ==
  /\ crawl \in CrawlStates
  /\ crawl.at # "store" => crawl.groups = {}
  /\ crawl.at = "store" => crawl.groups # {} \/ crawl.brand # Unnamed

DirectoryInv ==
  /\ label \in Labels
  /\ listed \subseteq Groups /\ targets \subseteq Feeds /\ previews \subseteq targets
  /\ crawl.at = "spawn" => crawl.feeds \subseteq targets
  /\ CrawlOK

LEMMA LabelsNamed ==
  /\ Brands \subseteq Labels /\ Unnamed \in Labels /\ Unnamed \notin Brands
  /\ Unsure \subseteq Labels
  /\ ListNames \ {"nodeinfo"} \subseteq Labels
BY DirectoryAssumption DEF Labels, Unsure, Unnamed, ListNames

\* What is listed of a list lives, and answers if it is of another server.
LEMMA ActiveReachable ==
  ASSUME NEW s, NEW lost, NEW counted
  PROVE  Active(s, lost, counted) \subseteq Reachable
BY DEF Active, Validated, Reachable

\* The lists of a crawl have names that the upsert of the host can be given.
LEMMA PlanNames ==
  ASSUME NEW known, NEW info
  PROVE  Plan(known, info) \in Seq(ListNames)
<1>1. \A c, l : l \in ListNames => When(c, l) \in Seq(ListNames)
  BY DEF When
<1>2. Endpoints \in Seq(ListNames)
  BY DirectoryAssumption DEF ListNames
<1>3. \A s, t : s \in Seq(ListNames) /\ t \in Seq(ListNames) => s \o t \in Seq(ListNames)
  OBVIOUS
<1>4. {"fedigroups-directory", "hubzilla", "friendica", "mbin-compatible", "gancio",
       "nodeinfo"} \subseteq ListNames
  BY DEF ListNames
<1>5. <<"friendica">> \in Seq(ListNames) /\ <<"gancio">> \in Seq(ListNames)
  BY <1>4
<1> QED
  BY <1>1, <1>2, <1>3, <1>4, <1>5 DEF Plan

LEMMA SourcesAreFeeds ==
  ASSUME NEW brand, NEW acts \in SUBSET Feeds, NEW lost \in SUBSET Feeds,
         NEW p \in [1..4 -> {[up |-> TRUE, has |-> S] : S \in SUBSET Feeds}
                              \cup {[up |-> FALSE, has |-> {}]}]
  PROVE  /\ ReadSources(brand, acts, p, lost).has \subseteq Feeds
         /\ ReadSources(brand, acts, p, lost).has # {} => brand \in SourceBrands
<1>1. \A i \in 1..4 : p[i].has \subseteq Feeds /\ Answered(p, i) \subseteq Feeds
  BY DEF Answered
<1>2. \A found, failed : OrMissing(found, failed).has \subseteq found
  BY DEF OrMissing
<1>3. /\ Wordpress(acts, p, lost).has \subseteq Feeds
      /\ Funkwhale(p, lost).has \subseteq Feeds
      /\ Owncast(p, lost).has \subseteq Feeds
      /\ Castopod(p, {}, lost).has \subseteq Feeds
      /\ Writefreely(p, lost).has \subseteq Feeds
      /\ Contact(acts, p, lost).has \subseteq Feeds
  <2>1. Wordpress(acts, p, lost).has \subseteq Feeds
    BY <1>1, <1>2 DEF Wordpress
  <2>2. Funkwhale(p, lost).has \subseteq Feeds
    BY <1>1, <1>2 DEF Funkwhale
  <2>3. Owncast(p, lost).has \subseteq Feeds
    BY <1>1 DEF Owncast
  <2>4. Castopod(p, {}, lost).has \subseteq Feeds
    BY <1>1, <1>2 DEF Castopod
  <2>5. Writefreely(p, lost).has \subseteq Feeds
    BY <1>1, <1>2 DEF Writefreely
  <2>6. Contact(acts, p, lost).has \subseteq Feeds
    BY <1>1 DEF Contact
  <2> QED
    BY <2>1, <2>2, <2>3, <2>4, <2>5, <2>6
<1> QED
  BY <1>3 DEF ReadSources, SourceBrands

LEMMA DirectoryInitInv == DirectoryInit => DirectoryInv
<1> SUFFICES ASSUME DirectoryInit PROVE DirectoryInv
  OBVIOUS
<1>1. NoCrawl \in CrawlStates
  BY LabelsNamed DEF NoCrawl, CrawlStates
<1> QED
  BY <1>1, LabelsNamed DEF DirectoryInit, DirectoryInv, CrawlOK, NoCrawl

\* A crawl goes on: the tables are left alone.
LEMMA CrawlGoesOn ==
  ASSUME DirectoryInv, NEW c, Go(c), c \in CrawlStates, c.at # "spawn",
         c.at # "store" => c.groups = {},
         c.at = "store" => c.groups # {} \/ c.brand # Unnamed
  PROVE  DirectoryInv'
BY DEF DirectoryInv, CrawlOK, Go

LEMMA AskListKeeps == DirectoryInv /\ AskList => DirectoryInv'
<1> SUFFICES ASSUME DirectoryInv, AskList PROVE DirectoryInv'
  OBVIOUS
<1>a. crawl \in CrawlStates /\ crawl.at = "lists" /\ crawl.todo # <<>> /\ crawl.groups = {}
  BY DEF DirectoryInv, CrawlOK, AskList
<1> DEFINE list == Head(crawl.todo)
<1>1. PICK read, lost, told :
        LET active == Active(read.has, lost, told)
        IN  IF active = {} THEN Go([crawl EXCEPT !.todo = Tail(@)])
            ELSE Go([crawl EXCEPT !.todo = <<>>, !.at = "store", !.groups = active,
                                  !.brand = BrandOf(list)])
  BY DEF AskList
<1>2. list \in ListNames /\ Tail(crawl.todo) \in Seq(ListNames) /\ <<>> \in Seq(ListNames)
  BY <1>a DEF CrawlStates
<1>3. BrandOf(list) \in Labels
  BY <1>2, LabelsNamed DEF BrandOf, Unsure
<1> DEFINE active == Active(read.has, lost, told)
           on == [crawl EXCEPT !.todo = Tail(@)]
           stop == [crawl EXCEPT !.todo = <<>>, !.at = "store", !.groups = active,
                                 !.brand = BrandOf(list)]
<1>4. CASE active = {}
  <2>1. Go(on)
    BY <1>1, <1>4
  <2>2. on \in CrawlStates /\ on.at = "lists" /\ on.groups = {}
    BY <1>a, <1>2 DEF CrawlStates
  <2> QED
    BY <2>1, <2>2, CrawlGoesOn
<1>5. CASE active # {}
  <2>1. Go(stop)
    BY <1>1, <1>5
  <2>2. active \subseteq Lively \ (Foreign \ Endpointed)
    BY ActiveReachable DEF Reachable
  <2>3. stop \in CrawlStates /\ stop.at = "store" /\ stop.groups # {}
    BY <1>a, <1>2, <1>3, <1>5, <2>2 DEF CrawlStates, Reachable
  <2> QED
    BY <2>1, <2>3, CrawlGoesOn
<1> QED
  BY <1>4, <1>5

LEMMA AskSourcesKeeps == DirectoryInv /\ AskSources => DirectoryInv'
<1> SUFFICES ASSUME DirectoryInv, AskSources PROVE DirectoryInv'
  OBVIOUS
<1>a. crawl \in CrawlStates /\ crawl.at = "sources" /\ crawl.groups = {}
  BY DEF DirectoryInv, CrawlOK, AskSources
<1>1. PICK info \in Brands \cup {Unnamed}, acts \in SUBSET Feeds, lost \in SUBSET Feeds,
           p \in [1..4 -> {[up |-> TRUE, has |-> S] : S \in SUBSET Feeds}
                            \cup {[up |-> FALSE, has |-> {}]}] :
        LET brand == IF crawl.known # Unnamed THEN crawl.known
                     ELSE IF info # Unnamed THEN info ELSE Static
            found == ReadSources(brand, acts, p, lost)
        IN  IF found.up /\ found.has # {}
            THEN Go([crawl EXCEPT !.at = "store", !.feeds = found.has, !.brand = brand])
            ELSE Go(IF crawl.first THEN [crawl EXCEPT !.at = "info"] ELSE NoCrawl)
  BY DEF AskSources
<1> DEFINE brand == IF crawl.known # Unnamed THEN crawl.known
                    ELSE IF info # Unnamed THEN info ELSE Static
           found == ReadSources(brand, acts, p, lost)
<1>2. brand \in Labels
  BY <1>a, LabelsNamed, DirectoryAssumption DEF CrawlStates, Unnamed
<1>3. CASE found.up /\ found.has # {}
  <2> DEFINE c == [crawl EXCEPT !.at = "store", !.feeds = found.has, !.brand = brand]
  <2>1. Go(c)
    BY <1>1, <1>3
  <2>2. found.has \subseteq Feeds /\ brand # Unnamed
    BY <1>3, SourcesAreFeeds DEF SourceBrands, Unnamed
  <2>3. c \in CrawlStates /\ c.at = "store" /\ c.brand = brand
    BY <1>a, <1>2, <2>2 DEF CrawlStates
  <2> QED
    BY <2>1, <2>2, <2>3, CrawlGoesOn
<1>4. CASE ~(found.up /\ found.has # {})
  <2> DEFINE c == IF crawl.first THEN [crawl EXCEPT !.at = "info"] ELSE NoCrawl
  <2>1. Go(c)
    BY <1>1, <1>4
  <2>2. [crawl EXCEPT !.at = "info"] \in CrawlStates
        /\ [crawl EXCEPT !.at = "info"].at = "info" /\ [crawl EXCEPT !.at = "info"].groups = {}
    BY <1>a DEF CrawlStates
  <2>3. NoCrawl \in CrawlStates /\ NoCrawl.at = "idle" /\ NoCrawl.groups = {}
    BY LabelsNamed DEF CrawlStates, NoCrawl
  <2>4. c \in CrawlStates /\ c.at \in {"info", "idle"} /\ c.groups = {}
    BY <2>2, <2>3
  <2> QED
    BY <2>1, <2>4, CrawlGoesOn
<1> QED
  BY <1>3, <1>4

LEMMA DirectoryKept == DirectoryInv /\ [DirectoryNext]_directoryVars => DirectoryInv'
<1> SUFFICES ASSUME DirectoryInv, [DirectoryNext]_directoryVars PROVE DirectoryInv'
  OBVIOUS
<1>a. crawl \in CrawlStates
  BY DEF DirectoryInv, CrawlOK
<1>b. NoCrawl \in CrawlStates /\ NoCrawl.at = "idle" /\ NoCrawl.groups = {}
  BY LabelsNamed DEF NoCrawl, CrawlStates
<1>1. CASE BeginCrawl
  <2> DEFINE known == IF label \in Brands THEN label ELSE Unnamed
             first == known \in SourceBrands
             c == [NoCrawl EXCEPT !.known = known, !.first = first,
                                  !.at = IF first THEN "sources" ELSE "info"]
  <2>1. Go(c)
    BY <1>1 DEF BeginCrawl
  <2>2. known \in Brands \cup {Unnamed} /\ first \in BOOLEAN
        /\ (IF first THEN "sources" ELSE "info") \in {"sources", "info"}
    OBVIOUS
  <2> HIDE DEF known, first
  <2>3. c \in CrawlStates /\ c.at \in {"sources", "info"} /\ c.groups = {}
    BY <1>b, <2>2 DEF CrawlStates, NoCrawl
  <2> QED
    BY <2>1, <2>3, CrawlGoesOn
<1>2. CASE AskNodeInfo
  <2>1. PICK info \in Brands \cup {Unnamed} :
          Go([crawl EXCEPT !.info = info, !.at = "lists", !.todo = Plan(crawl.known, info)])
    BY <1>2 DEF AskNodeInfo
  <2> DEFINE c == [crawl EXCEPT !.info = info, !.at = "lists", !.todo = Plan(crawl.known, info)]
  <2>2. crawl.groups = {}
    BY <1>2 DEF AskNodeInfo, DirectoryInv, CrawlOK
  <2>3. c \in CrawlStates /\ c.at = "lists" /\ c.groups = {}
    BY <1>a, <2>2, PlanNames DEF CrawlStates
  <2> QED
    BY <2>1, <2>3, CrawlGoesOn
<1>3. CASE ListsFail
  <2> DEFINE c == IF crawl.first THEN NoCrawl ELSE [crawl EXCEPT !.at = "sources", !.todo = <<>>]
  <2>1. Go(c) /\ crawl.groups = {}
    BY <1>3 DEF ListsFail, DirectoryInv, CrawlOK
  <2> DEFINE d == [crawl EXCEPT !.at = "sources", !.todo = <<>>]
  <2>a. <<>> \in Seq(ListNames)
    OBVIOUS
  <2>2. d \in CrawlStates /\ d.at = "sources" /\ d.groups = {}
    BY <1>a, <2>1, <2>a DEF CrawlStates
  <2>3. c \in CrawlStates /\ c.at \in {"idle", "sources"} /\ c.groups = {}
    BY <1>b, <2>2
  <2> QED
    BY <2>1, <2>3, CrawlGoesOn
<1>4. CASE Store
  <2>1. /\ listed' = Stored(crawl) /\ targets' = targets \cup crawl.feeds
        /\ label' = crawl.brand /\ previews' = previews
        /\ crawl' = [NoCrawl EXCEPT !.at = "spawn", !.feeds = crawl.feeds]
    BY <1>4 DEF Store
  <2>2. crawl' \in CrawlStates /\ crawl'.at = "spawn" /\ crawl'.groups = {}
        /\ crawl'.feeds = crawl.feeds
    BY <1>a, <1>b, <2>1 DEF CrawlStates, NoCrawl
  <2>3. Stored(crawl) \subseteq Groups
    BY <1>a, DirectoryAssumption DEF Stored, CrawlStates, Reachable, Groups, DirectoryInv
  <2> QED
    BY <1>a, <2>1, <2>2, <2>3 DEF DirectoryInv, CrawlOK, CrawlStates
<1>5. CASE Spawn
  BY <1>5, <1>b DEF Spawn, DirectoryInv, CrawlOK
<1>6. CASE CrawlDies
  BY <1>6, <1>b, CrawlGoesOn DEF CrawlDies
<1>7. CASE HearOf \/ Mentioned
  BY <1>7, LabelsNamed DEF HearOf, Mentioned, SeedBrands, FriendicaServers, OwncastServers,
     DiscourseForums, Peers, DirectoryInv, CrawlOK
<1>8. CASE UNCHANGED directoryVars
  BY <1>8 DEF directoryVars, DirectoryInv, CrawlOK
<1> QED
  BY <1>1, <1>2, <1>3, <1>4, <1>5, <1>6, <1>7, <1>8, AskListKeeps, AskSourcesKeeps
     DEF DirectoryNext

\* Crawls and hearsay leave the tables of discovery and what a crawl carries of their
\* types; a preview is enqueued for sources that have a row (the second
\* transaction of DiscoverServerCommunities::perform and the loop after it).
THEOREM DirectoryTypeCorrect == DirectorySpec => []DirectoryTypeOK
<1>1. DirectoryInv => DirectoryTypeOK
  BY LabelsNamed, DirectoryAssumption
     DEF DirectoryInv, CrawlOK, CrawlStates, DirectoryTypeOK, Reachable, Groups
<1> QED
  BY <1>1, DirectoryInitInv, DirectoryKept, PTL DEF DirectorySpec

LEMMA StoreReplacesOrKeeps ==
  ASSUME DirectoryInv, Store
  PROVE  Promise!Replace \/ Promise!Keep
<1>a. crawl \in CrawlStates /\ label' = crawl.brand /\ listed' = Stored(crawl)
      /\ crawl.at = "store"
  BY DEF DirectoryInv, CrawlOK, Store
<1>1. CASE crawl.groups = {}
  <2>1. listed' = listed
    BY <1>a, <1>1 DEF Stored
  <2>2. label' \in Labels \ {Unnamed}
    BY <1>a, <1>1 DEF CrawlStates, DirectoryInv, CrawlOK
  <2> QED
    BY <2>1, <2>2 DEF Promise!Keep
<1>2. CASE crawl.groups # {}
  <2>1. listed' = (listed \ Own) \cup crawl.groups
    BY <1>a, <1>2 DEF Stored
  <2>2. crawl.groups \subseteq Lively \ (Foreign \ Endpointed)
    BY <1>a DEF CrawlStates, Reachable
  <2>3. label' \in (Labels \ {Unnamed}) \cup Unsure
    BY <1>a DEF CrawlStates, Unsure
  <2> QED
    BY <1>2, <2>1, <2>2, <2>3 DEF Promise!Replace
<1> QED
  BY <1>1, <1>2

LEMMA CrawlStepSimulated ==
  ASSUME DirectoryInv, [DirectoryNext]_directoryVars
  PROVE  [Promise!Hear \/ Promise!Replace \/ Promise!Keep]_<<listed, label>>
<1>1. CASE Store
  BY <1>1, StoreReplacesOrKeeps
<1>2. CASE HearOf \/ Mentioned
  <2>1. label \in Unsure /\ label' \in Labels \ {Unnamed} /\ listed' = listed
    BY <1>2, LabelsNamed DEF HearOf, Mentioned, SeedBrands, FriendicaServers, OwncastServers,
       DiscourseForums, Peers, Unsure
  <2> QED
    BY <2>1 DEF Promise!Hear
<1>3. CASE BeginCrawl \/ AskNodeInfo \/ AskList \/ ListsFail \/ AskSources \/ CrawlDies
  BY <1>3 DEF BeginCrawl, AskNodeInfo, AskList, ListsFail, AskSources, CrawlDies, Go
<1>4. CASE Spawn \/ UNCHANGED directoryVars
  BY <1>4 DEF Spawn, directoryVars
<1> QED
  BY <1>1, <1>2, <1>3, <1>4 DEF DirectoryNext

\* Directory implements HostDirectory: a crawl replaces what a server had by
\* communities that live and answer, or leaves all of it, wherever it fails or stops
\* and whatever the lists, the limits and the server's answers are
\* (DiscoverServerCommunities::perform).
THEOREM CrawlsKeepPromise == DirectorySpec => CrawlReplacesOrKeeps
<1>1. DirectoryInit => Promise!Init
  BY DEF DirectoryInit, Promise!Init, Unsure
<1> QED
  BY <1>1, DirectoryInitInv, DirectoryKept, CrawlStepSimulated, PTL
     DEF DirectorySpec, CrawlReplacesOrKeeps, Promise!Spec

-----------------------------------------------------------------------------
(***************************************************************************)
(* The inbox: types, rows, approvals and forwards, in any order.           *)
(***************************************************************************)
Ids == Announces \cup {"create", "createReply", "announceReply", "post", "reply"}
Authors == Ids \cup {"nobody"}
RowStates == {"none", "live", "tombstone"}
Works == {IdleLane} \cup [pc : {"post", "reply"}, by : Authors, approves : BOOLEAN]
                    \cup [pc : {"parent"}, by : Authors]
ActivityKinds == {"Create", "Announce", "Add", "Undo", "Remove", "Reply", "Delete"}
Activities == [kind : ActivityKinds, id : Ids]
PostRows == [row : RowStates, approved : BOOLEAN, by : Authors, rejected : BOOLEAN]
Origins == [post : {"none", "live", "deleted"}, reply : {"none", "live", "deleted"},
            standing : Announces \cup {"nobody", "outbox"}]
Forwards == [jobs : Nat, sent : Nat, lost : Nat]
Tallies == [reply : Forwards, delete : Forwards]

InboxTypes ==
  /\ hosted \in BOOLEAN /\ tracked \in BOOLEAN
  /\ origin \in Origins
  /\ sent \in Seq(Activities) /\ Len(sent) <= MaxSent
  /\ communityRow \in {"none", "live", "deleted"}
  /\ postRow \in PostRows
  /\ replyRow \in RowStates
  /\ work \in [Lanes -> Works]
  /\ forwarded \in Tallies
  /\ applied \in 0..Len(sent) /\ strays \in 0..MaxWorks

\* The rows of the three tables refer to one another.
RowsOK ==
  /\ postRow.row = "none" => postRow = NoPost /\ replyRow = "none"
  /\ communityRow = "none" => postRow.row = "none"

\* The approval that a post stands by is one that was not taken back.
GroundsOK == postRow.approved => postRow.by \in grounds

\* What is owed shows in the rows of a hosted community, which are not cleaned up, so
\* ForwardedOnce is inductive.
InboxInv == InboxTypes /\ RowsOK /\ GroundsOK /\ ForwardedOnce

LEMMA InboxBounds == MaxSent \in Nat /\ MaxWorks \in Nat
BY InboxAssumption

LEMMA InboxInitInv == InboxInit => InboxInv
<1> SUFFICES ASSUME InboxInit PROVE InboxInv
  OBVIOUS
<1>1. sent \in Seq(Activities) /\ Len(sent) = 0
  BY DEF InboxInit
<1>2. NoPost \in PostRows /\ IdleLane \in Works
  BY DEF NoPost, PostRows, Authors, RowStates, Works
<1>a. origin \in Origins
  BY DEF InboxInit, Origins
<1>b. work \in [Lanes -> Works] /\ forwarded \in Tallies
  BY <1>2 DEF InboxInit, Tallies, Forwards, NoForward
<1>c. applied \in 0..Len(sent) /\ strays \in 0..MaxWorks /\ Len(sent) <= MaxSent
  BY <1>1, InboxBounds DEF InboxInit
<1>d. hosted \in BOOLEAN /\ tracked \in BOOLEAN
  BY DEF InboxInit
<1>e. communityRow = "live" /\ postRow \in PostRows /\ replyRow \in RowStates
  BY <1>2 DEF InboxInit, RowStates
<1>3. InboxTypes
  BY <1>1, <1>a, <1>b, <1>c, <1>d, <1>e DEF InboxTypes
<1>4. RowsOK /\ GroundsOK
  BY DEF InboxInit, RowsOK, GroundsOK, NoPost
<1>5. ForwardedOnce
  BY DEF InboxInit, ForwardedOnce, EverSpawned, NoForward, NoPost
<1> QED
  BY <1>3, <1>4, <1>5 DEF InboxInv

\* The other server only appends to what it has sent.
LEMMA ActivitySent ==
  ASSUME sent \in Seq(Activities), NEW a \in Activities, Send(a)
  PROVE  /\ sent' \in Seq(Activities)
         /\ Len(sent) \in Nat /\ Len(sent') = Len(sent) + 1 /\ Len(sent') <= MaxSent
         /\ sent'[Len(sent')] = a
         /\ \A k \in DOMAIN sent : sent'[k] = sent[k]
<1>1. sent' = Append(sent, a) /\ Len(sent) < MaxSent
  BY DEF Send
<1>2. Append(sent, a) \in Seq(Activities) /\ Len(Append(sent, a)) = Len(sent) + 1
  OBVIOUS
<1>3. \A k \in 1..Len(sent) + 1 :
        Append(sent, a)[k] = IF k \in 1..Len(sent) THEN sent[k] ELSE a
  OBVIOUS
<1>4. Len(sent) \in Nat /\ DOMAIN sent = 1..Len(sent)
  OBVIOUS
<1>5. Len(sent) + 1 <= MaxSent
  BY <1>1, <1>4, InboxBounds
<1>6. sent'[Len(sent) + 1] = a
  BY <1>1, <1>3, <1>4
<1>7. \A k \in DOMAIN sent : sent'[k] = sent[k]
  BY <1>1, <1>3, <1>4
<1>8. Len(sent') = Len(sent) + 1 /\ sent' \in Seq(Activities)
  BY <1>1, <1>2
<1> QED
  BY <1>4, <1>5, <1>6, <1>7, <1>8

Sending ==
  \/ Publish \/ SendUndo \/ SendRemove \/ WriteReply
  \/ \E a \in Announces : SendAnnounce(a)
  \/ \E thing \in {"post", "reply"} : SendDelete(thing)

LEMMA SendingTypes ==
  ASSUME InboxTypes, Sending
  PROVE  /\ HereUnchanged
         /\ origin' \in Origins
         /\ \/ sent' = sent
            \/ \E a \in Activities : Send(a)
<1> USE DEF InboxTypes, Activities, ActivityKinds, Ids, Activity, Origins
<1>1. CASE Publish
  BY <1>1 DEF Publish
<1>2. CASE SendUndo
  BY <1>2 DEF SendUndo
<1>3. CASE SendRemove
  BY <1>3 DEF SendRemove
<1>4. CASE WriteReply
  BY <1>4 DEF WriteReply
<1>5. ASSUME NEW a \in Announces, SendAnnounce(a)
      PROVE  /\ HereUnchanged
             /\ origin' = [origin EXCEPT !.standing = a]
             /\ \E b \in Activities : Send(b)
  BY <1>5 DEF SendAnnounce
<1>6. ASSUME NEW thing \in {"post", "reply"}, SendDelete(thing)
      PROVE  /\ HereUnchanged
             /\ origin' = [origin EXCEPT ![thing] = "deleted"]
             /\ \E b \in Activities : Send(b)
  BY <1>6 DEF SendDelete
<1> QED
  BY <1>1, <1>2, <1>3, <1>4, <1>5, <1>6 DEF Sending

LEMMA SendingKeeps == InboxInv /\ Sending => InboxInv'
<1> SUFFICES ASSUME InboxInv, Sending PROVE InboxInv'
  OBVIOUS
<1>1. UNCHANGED <<hosted, communityRow, tracked, postRow, replyRow, work, forwarded, grounds,
                  applied, strays>>
  BY SendingTypes DEF InboxInv, HereUnchanged
<1>2. /\ sent' \in Seq(Activities) /\ Len(sent') <= MaxSent
      /\ Len(sent') >= Len(sent) /\ Len(sent) \in Nat /\ Len(sent') \in Nat
  <2>1. CASE sent' = sent
    BY <2>1 DEF InboxInv, InboxTypes
  <2>2. CASE \E a \in Activities : Send(a)
    <3>1. PICK a \in Activities : Send(a)
      BY <2>2
    <3> QED
      BY <3>1, ActivitySent DEF InboxInv, InboxTypes
  <2> QED
    BY <2>1, <2>2, SendingTypes DEF InboxInv
<1>3. InboxTypes'
  BY <1>1, <1>2, SendingTypes DEF InboxInv, InboxTypes
<1> QED
  BY <1>1, <1>3 DEF InboxInv, RowsOK, GroundsOK, ForwardedOnce, EverSpawned

LEMMA StrayTypes == ASSUME InboxTypes, Stray PROVE strays' \in 0..MaxWorks
BY InboxBounds DEF InboxTypes, Stray

LEMMA TurnTypes ==
  ASSUME InboxTypes, NEW i, Turn(i)
  PROVE  /\ i \in DOMAIN sent /\ i \in 1..Len(sent) /\ sent[i] \in Activities
         /\ applied' \in 0..Len(sent) /\ strays' \in 0..MaxWorks
<1>1. i \in DOMAIN sent /\ sent \in Seq(Activities) /\ applied \in 0..Len(sent)
      /\ strays \in 0..MaxWorks
  BY DEF Turn, InboxTypes
<1>2. DOMAIN sent = 1..Len(sent) /\ Len(sent) \in Nat
  BY <1>1
<1>3. sent[i] \in Activities
  BY <1>1
<1>4. CASE i = applied + 1 /\ \A l \in Lanes : work[l] = IdleLane
  BY <1>1, <1>2, <1>3, <1>4 DEF Turn
<1>5. CASE ~(i = applied + 1 /\ \A l \in Lanes : work[l] = IdleLane)
  BY <1>1, <1>2, <1>3, <1>5, StrayTypes DEF Turn
<1> QED
  BY <1>4, <1>5

\* The type invariant after a task has taken one of its steps.
LEMMA TaskTypes ==
  ASSUME InboxTypes, hosted' = hosted, tracked' \in BOOLEAN, origin' = origin, sent' = sent,
         communityRow' \in {"none", "live", "deleted"}, postRow' \in PostRows,
         replyRow' \in RowStates, work' \in [Lanes -> Works], forwarded' \in Tallies,
         applied' \in 0..Len(sent), strays' \in 0..MaxWorks
  PROVE  InboxTypes'
<1>1. hosted' \in BOOLEAN
  BY DEF InboxTypes
<1> QED
  BY <1>1 DEF InboxTypes

\* The upsert leaves the state of a row that is there, and the approval it writes
\* has its ground.
LEMMA PostStored ==
  ASSUME InboxInv, NEW w, w.by \in Authors, w.approves \in BOOLEAN, StorePost(w)
  PROVE  /\ postRow' \in PostRows
         /\ postRow'.row = IF postRow.row = "none" THEN "live" ELSE postRow.row
         /\ postRow'.approved => postRow'.by \in grounds'
<1> USE DEF PostRows, RowStates
<1>a. postRow \in PostRows /\ (postRow.approved => postRow.by \in grounds)
  BY DEF InboxInv, InboxTypes, GroundsOK
<1>b. Approving(w) \in BOOLEAN
  BY DEF Approving
<1>c. grounds' = IF Approving(w) THEN grounds \cup {w.by} ELSE grounds
  BY DEF StorePost
<1>1. CASE postRow.row = "none"
  <2>1. postRow' = [row |-> "live", approved |-> Approving(w), by |-> w.by, rejected |-> FALSE]
    BY <1>1 DEF StorePost
  <2> QED
    BY <1>1, <1>b, <1>c, <2>1
<1>2. CASE postRow.row # "none" /\ Approving(w)
  <2>1. postRow' = [postRow EXCEPT !.approved = @ \/ Approving(w), !.by = w.by]
    BY <1>2 DEF StorePost
  <2>2. postRow' \in PostRows /\ postRow'.row = postRow.row /\ postRow'.by = w.by
    BY <1>a, <1>b, <2>1
  <2> QED
    BY <1>2, <1>c, <2>2
<1>3. CASE postRow.row # "none" /\ ~Approving(w)
  <2>1. postRow' = [postRow EXCEPT !.approved = @ \/ Approving(w), !.by = @]
    BY <1>3 DEF StorePost
  <2>2. /\ postRow' \in PostRows /\ postRow'.row = postRow.row /\ postRow'.by = postRow.by
        /\ postRow'.approved = (postRow.approved \/ Approving(w))
    BY <1>a, <1>b, <2>1
  <2> QED
    BY <1>3, <1>a, <1>c, <2>2
<1> QED
  BY <1>1, <1>2, <1>3

\* A step that writes no row of the post or the reply.
LEMMA ReadingKeeps ==
  ASSUME InboxInv, hosted' = hosted, tracked' \in BOOLEAN, origin' = origin, sent' = sent,
         UNCHANGED <<postRow, replyRow, forwarded, grounds>>,
         communityRow' \in {"none", "live", "deleted"},
         communityRow' = "none" => communityRow = "none" \/ postRow.row = "none",
         work' \in [Lanes -> Works], applied' \in 0..Len(sent), strays' \in 0..MaxWorks
  PROVE  InboxInv'
<1>1. InboxTypes'
  BY TaskTypes DEF InboxInv, InboxTypes
<1> QED
  BY <1>1 DEF InboxInv, RowsOK, GroundsOK, ForwardedOnce, EverSpawned

LEMMA WorkTypes ==
  ASSUME InboxTypes, NEW l \in Lanes, NEW w \in Works,
         StartWork(l, w) \/ work' = work
  PROVE  work' \in [Lanes -> Works]
BY DEF InboxTypes, StartWork

LEMMA PostWorks ==
  ASSUME NEW by \in Authors, NEW approves \in BOOLEAN
  PROVE  {Post(by, approves), Reply(by, approves), Parent(by), IdleLane} \subseteq Works
BY DEF Post, Reply, Parent, Works

LEMMA RefusalKeeps ==
  ASSUME InboxTypes, NEW l \in Lanes, RefuseUntracked(l)
  PROVE  /\ work' = work /\ communityRow' \in {"none", "live", "deleted"}
         /\ communityRow' = "none" => communityRow = "none" \/ postRow.row = "none"
BY DEF InboxTypes, RefuseUntracked

LEMMA TakePostKeeps ==
  ASSUME InboxInv, NEW l \in Lanes, NEW i, TakePost(l, i)
  PROVE  InboxInv'
<1>a. InboxTypes
  BY DEF InboxInv
<1>1. Turn(i) /\ UNCHANGED <<hosted, origin, sent, tracked, postRow, replyRow, forwarded, grounds>>
  BY DEF TakePost
<1>2. Approval(i) \in Authors
  BY <1>a, <1>1, TurnTypes DEF Approval, Activities, Authors
<1>3. /\ work' \in [Lanes -> Works] /\ communityRow' \in {"none", "live", "deleted"}
      /\ communityRow' = "none" => communityRow = "none" \/ postRow.row = "none"
  <2>1. CASE Admit(l, Post(Approval(i), TRUE), FALSE) /\ UNCHANGED communityRow
    BY <1>a, <1>2, <2>1, PostWorks, WorkTypes DEF Admit, InboxTypes
  <2>2. CASE RefuseUntracked(l)
    BY <1>a, <2>2, RefusalKeeps DEF InboxTypes
  <2>3. CASE UNCHANGED <<work, communityRow>>
    BY <1>a, <2>3 DEF InboxTypes
  <2> QED
    BY <2>1, <2>2, <2>3 DEF TakePost
<1> QED
  BY <1>a, <1>1, <1>3, TurnTypes, ReadingKeeps DEF InboxTypes

LEMMA TakeListedKeeps ==
  ASSUME InboxInv, NEW l \in Lanes, NEW preview \in BOOLEAN,
         TakeListed(l, preview) \/ TakeLookedUp(l) \/ TakeRefreshed(l)
  PROVE  InboxInv'
<1>a. InboxTypes
  BY DEF InboxInv
<1>1. UNCHANGED <<hosted, origin, sent, tracked, postRow, replyRow, forwarded, grounds, applied>>
  BY DEF TakeListed, TakeLookedUp, TakeRefreshed
<1>2. strays' \in 0..MaxWorks
  BY <1>a, StrayTypes DEF TakeListed, TakeLookedUp, TakeRefreshed, InboxTypes
<1>3. /\ work' \in [Lanes -> Works] /\ communityRow' \in {"none", "live", "deleted"}
      /\ communityRow' = "none" => communityRow = "none" \/ postRow.row = "none"
  <2>1. ASSUME NEW approves \in BOOLEAN, StartWork(l, Post("nobody", approves)),
               communityRow' = communityRow
        PROVE  work' \in [Lanes -> Works] /\ communityRow' \in {"none", "live", "deleted"}
    BY <1>a, <2>1, PostWorks, WorkTypes DEF InboxTypes, Authors
  <2>2. CASE RefuseUntracked(l)
    BY <1>a, <2>2, RefusalKeeps DEF InboxTypes
  <2> QED
    BY <2>1, <2>2 DEF TakeListed, TakeLookedUp, TakeRefreshed, Admit
<1> QED
  BY <1>a, <1>1, <1>2, <1>3, ReadingKeeps DEF InboxTypes

LEMMA TakeReplyKeeps ==
  ASSUME InboxInv, NEW l \in Lanes, NEW i, TakeReply(l, i)
  PROVE  InboxInv'
<1>a. InboxTypes
  BY DEF InboxInv
<1>1. /\ Turn(i)
      /\ UNCHANGED <<hosted, origin, sent, tracked, postRow, replyRow, forwarded, grounds>>
  BY DEF TakeReply
<1>2. sent[i].id \in Authors
  BY <1>a, <1>1, TurnTypes DEF Activities, Authors
<1>3. /\ work' \in [Lanes -> Works] /\ communityRow' \in {"none", "live", "deleted"}
      /\ communityRow' = "none" => communityRow = "none" \/ postRow.row = "none"
  <2>1. CASE /\ StartWork(l, Reply(sent[i].id, TRUE)) \/ StartWork(l, Parent(sent[i].id))
             /\ UNCHANGED communityRow
    BY <1>a, <1>2, <2>1, PostWorks, WorkTypes DEF InboxTypes
  <2>2. CASE RefuseUntracked(l)
    BY <1>a, <2>2, RefusalKeeps DEF InboxTypes
  <2>3. CASE UNCHANGED <<work, communityRow>>
    BY <1>a, <2>3 DEF InboxTypes
  <2> QED
    BY <2>1, <2>2, <2>3 DEF TakeReply
<1> QED
  BY <1>a, <1>1, <1>3, TurnTypes, ReadingKeeps DEF InboxTypes

LEMMA RemoteChangesKeep == InboxInv /\ (TrackChanges \/ TakeCommunityDelete) => InboxInv'
<1> SUFFICES ASSUME InboxInv, TrackChanges \/ TakeCommunityDelete PROVE InboxInv'
  OBVIOUS
<1>1. strays' \in 0..MaxWorks
  BY StrayTypes DEF InboxInv, TrackChanges, TakeCommunityDelete
<1>2. CASE TrackChanges
  BY <1>1, <1>2, ReadingKeeps DEF TrackChanges, InboxInv, InboxTypes
<1>3. CASE TakeCommunityDelete
  <2>1. tracked' \in BOOLEAN
    BY <1>3 DEF TakeCommunityDelete, InboxInv, InboxTypes
  <2> QED
    BY <1>1, <1>3, <2>1, ReadingKeeps DEF TakeCommunityDelete, InboxInv, InboxTypes
<1> QED
  BY <1>2, <1>3

\* What a lane holds between its two steps.
LEMMA WorkKinds ==
  ASSUME InboxTypes, NEW l \in Lanes
  PROVE  /\ work[l] \in Works /\ work[l].pc \in {"idle", "post", "parent", "reply"}
         /\ work[l].pc \in {"post", "reply"} => work[l].by \in Authors /\ work[l].approves \in BOOLEAN
         /\ work[l].pc = "parent" => work[l].by \in Authors
BY DEF InboxTypes, Works, IdleLane

\* The upsert of the post, for its own activity or as the parent of a reply.
LEMMA StoringKeeps ==
  ASSUME InboxInv, NEW w, w.by \in Authors, w.approves \in BOOLEAN,
         communityRow # "none", StorePost(w),
         UNCHANGED <<hosted, origin, sent, communityRow, tracked, replyRow, forwarded, applied, strays>>,
         work' \in [Lanes -> Works]
  PROVE  InboxInv'
<1>1. /\ postRow' \in PostRows
      /\ postRow'.row = IF postRow.row = "none" THEN "live" ELSE postRow.row
      /\ postRow'.approved => postRow'.by \in grounds'
  BY PostStored
<1>2. InboxTypes'
  BY <1>1, TaskTypes DEF InboxInv, InboxTypes
<1>3. RowsOK' /\ GroundsOK'
  BY <1>1 DEF RowsOK, GroundsOK
<1>4. ForwardedOnce'
  BY <1>1 DEF InboxInv, ForwardedOnce, EverSpawned
<1> QED
  BY <1>2, <1>3, <1>4 DEF InboxInv

LEMMA WritePostKeeps ==
  ASSUME InboxInv, NEW l \in Lanes, WritePost(l) \/ WriteParent(l)
  PROVE  InboxInv'
<1>a. InboxTypes
  BY DEF InboxInv
<1>1. UNCHANGED <<hosted, origin, sent, communityRow, tracked, replyRow, forwarded, applied, strays>>
  BY DEF WritePost, WriteParent
<1>2. work[l].by \in Authors
  BY <1>a, WorkKinds DEF WritePost, WriteParent
<1>3. work' \in [Lanes -> Works]
  BY <1>a, <1>2, PostWorks DEF WritePost, WriteParent, Ends, InboxTypes, Authors
<1>4. CASE communityRow = "none"
  <2>1. UNCHANGED <<postRow, grounds>>
    BY <1>4 DEF WritePost, WriteParent
  <2> QED
    BY <1>a, <1>1, <1>3, <2>1, ReadingKeeps DEF InboxTypes
<1>5. CASE communityRow # "none"
  <2>1. CASE WritePost(l)
    <3>1. StorePost(work[l]) /\ work[l].approves \in BOOLEAN
      BY <1>a, <1>5, <2>1, WorkKinds DEF WritePost
    <3> QED
      BY <1>1, <1>2, <1>3, <1>5, <3>1, StoringKeeps
  <2>2. CASE WriteParent(l)
    <3> DEFINE w == AsParent(work[l].by)
    <3>1. StorePost(w) /\ w.by \in Authors /\ w.approves \in BOOLEAN
      BY <1>2, <1>5, <2>2 DEF WriteParent, AsParent, Post, Authors
    <3> HIDE DEF w
    <3> QED
      BY <1>1, <1>3, <1>5, <3>1, StoringKeeps
  <2> QED
    BY <2>1, <2>2
<1> QED
  BY <1>4, <1>5

\* What a server owes grows by one with the job it starts, and a job that ends moves
\* what it was for.
LEMMA SpawnedMore ==
  ASSUME InboxTypes, NEW what \in {"reply", "delete"}, forwarded' = Forwarded(what)
  PROVE  /\ forwarded' \in Tallies
         /\ EverSpawned(what)' = IF hosted THEN EverSpawned(what) + 1 ELSE EverSpawned(what)
         /\ \A other \in {"reply", "delete"} : other # what => EverSpawned(other)' = EverSpawned(other)
<1>1. forwarded \in Tallies
  BY DEF InboxTypes
<1>2. CASE hosted
  <2>1. forwarded' = [forwarded EXCEPT ![what] = [forwarded[what] EXCEPT !.jobs = @ + 1]]
    BY <1>2 DEF Forwarded
  <2>2. [forwarded[what] EXCEPT !.jobs = @ + 1] \in Forwards
    BY <1>1 DEF Tallies, Forwards
  <2>3. forwarded' \in Tallies
    BY <1>1, <2>1, <2>2 DEF Tallies
  <2>4. /\ forwarded'[what].jobs = forwarded[what].jobs + 1
        /\ forwarded'[what].sent = forwarded[what].sent
        /\ forwarded'[what].lost = forwarded[what].lost
        /\ \A other \in {"reply", "delete"} : other # what => forwarded'[other] = forwarded[other]
    BY <1>1, <2>1 DEF Tallies, Forwards
  <2>5. \A k \in {"jobs", "sent", "lost"} : forwarded[what][k] \in Nat
    BY <1>1 DEF Tallies, Forwards
  <2> QED
    BY <1>2, <2>3, <2>4, <2>5 DEF EverSpawned
<1>3. CASE ~hosted
  BY <1>1, <1>3 DEF Forwarded, EverSpawned
<1> QED
  BY <1>2, <1>3

LEMMA WriteReplyKeeps ==
  ASSUME InboxInv, NEW l \in Lanes, WriteReplyRow(l)
  PROVE  InboxInv'
<1>a. InboxTypes
  BY DEF InboxInv
<1>1. UNCHANGED <<hosted, origin, sent, communityRow, tracked, postRow, grounds, applied, strays>>
  BY DEF WriteReplyRow
<1>2. work' \in [Lanes -> Works]
  BY <1>a, PostWorks DEF WriteReplyRow, Ends, InboxTypes, Authors, Works
<1>3. CASE postRow.row = "live" /\ communityRow = "live" /\ replyRow = "none"
  <2>1. replyRow' = "live"
    BY <1>3 DEF WriteReplyRow
  <2>2. forwarded' = Forwarded("reply")
    BY <1>3 DEF WriteReplyRow
  <2>3. /\ forwarded' \in Tallies /\ EverSpawned("delete")' = EverSpawned("delete")
        /\ EverSpawned("reply")' = IF hosted THEN EverSpawned("reply") + 1 ELSE EverSpawned("reply")
    BY <1>a, <2>2, SpawnedMore
  <2>4. InboxTypes'
    BY <1>a, <1>1, <1>2, <2>1, <2>3, TaskTypes DEF InboxTypes, RowStates
  <2>5. ForwardedOnce'
    BY <1>1, <1>3, <2>1, <2>3 DEF InboxInv, ForwardedOnce
  <2> QED
    BY <1>1, <1>3, <2>4, <2>5 DEF InboxInv, RowsOK, GroundsOK
<1>4. CASE ~(postRow.row = "live" /\ communityRow = "live" /\ replyRow = "none")
  <2>1. UNCHANGED <<replyRow, forwarded>>
    BY <1>4 DEF WriteReplyRow
  <2> QED
    BY <1>a, <1>1, <1>2, <2>1, ReadingKeeps DEF InboxTypes
<1> QED
  BY <1>3, <1>4

LEMMA TakeDeleteKeeps ==
  ASSUME InboxInv, NEW l \in Lanes, NEW i, TakeDelete(l, i)
  PROVE  InboxInv'
<1>a. InboxTypes /\ postRow \in PostRows /\ replyRow \in RowStates
  BY DEF InboxInv, InboxTypes
<1>1. /\ Turn(i)
      /\ UNCHANGED <<hosted, origin, sent, communityRow, tracked, work, grounds>>
      /\ forwarded' = IF <<postRow', replyRow'>> # <<postRow, replyRow>>
                      THEN Forwarded("delete") ELSE forwarded
  BY DEF TakeDelete
<1>2. /\ postRow' \in PostRows /\ replyRow' \in RowStates
      /\ \/ postRow' = postRow /\ replyRow' = replyRow
         \/ /\ postRow.row = "live" /\ postRow'.row = "tombstone" /\ replyRow' = replyRow
            /\ postRow'.approved = postRow.approved /\ postRow'.by = postRow.by
         \/ replyRow = "live" /\ replyRow' = "tombstone" /\ postRow' = postRow
  <2>1. CASE sent[i].id = "post"
    <3>1. postRow' = [postRow EXCEPT !.row = Dismissed(@)] /\ replyRow' = replyRow
      BY <2>1 DEF TakeDelete
    <3>2. CASE postRow.row = "live"
      BY <1>a, <3>1, <3>2 DEF Dismissed, PostRows, RowStates
    <3>3. CASE postRow.row # "live"
      <4>1. postRow' = [postRow EXCEPT !.row = postRow.row]
        BY <3>1, <3>3 DEF Dismissed
      <4>2. postRow' = postRow
        BY <1>a, <4>1 DEF PostRows
      <4> QED
        BY <1>a, <3>1, <4>2
    <3> QED
      BY <3>2, <3>3
  <2>2. CASE sent[i].id # "post"
    BY <1>a, <2>2 DEF TakeDelete, Dismissed, RowStates
  <2> QED
    BY <2>1, <2>2
<1>3. /\ forwarded' \in Tallies
      /\ EverSpawned("reply")' = EverSpawned("reply")
      /\ EverSpawned("delete")' = IF hosted /\ (postRow' # postRow \/ replyRow' # replyRow)
                           THEN EverSpawned("delete") + 1 ELSE EverSpawned("delete")
  <2>1. CASE postRow' = postRow /\ replyRow' = replyRow
    BY <1>a, <1>1, <2>1 DEF InboxTypes, EverSpawned
  <2>2. CASE ~(postRow' = postRow /\ replyRow' = replyRow)
    <3>1. forwarded' = Forwarded("delete")
      BY <1>1, <2>2
    <3> QED
      BY <1>a, <2>2, <3>1, SpawnedMore
  <2> QED
    BY <2>1, <2>2
<1>4. InboxTypes'
  BY <1>a, <1>1, <1>2, <1>3, TurnTypes, TaskTypes DEF InboxTypes
<1>5. ForwardedOnce'
  <2> USE DEF InboxInv, ForwardedOnce
  <2>1. CASE postRow' = postRow /\ replyRow' = replyRow
    BY <1>1, <1>3, <2>1
  <2>2. CASE postRow.row = "live" /\ postRow'.row = "tombstone" /\ replyRow' = replyRow
    BY <1>1, <1>3, <2>2
  <2>3. CASE replyRow = "live" /\ replyRow' = "tombstone" /\ postRow' = postRow
    BY <1>1, <1>3, <2>3
  <2> QED
    BY <1>2, <2>1, <2>2, <2>3
<1>6. RowsOK' /\ GroundsOK'
  BY <1>1, <1>2 DEF InboxInv, RowsOK, GroundsOK
<1> QED
  BY <1>4, <1>5, <1>6 DEF InboxInv

\* A row marked as rejected.
LEMMA RejectedRow ==
  ASSUME postRow \in PostRows
  PROVE  /\ Rejected \in PostRows /\ Rejected.row = postRow.row /\ ~Rejected.approved
         /\ Rejected.by = "nobody"
BY DEF Rejected, PostRows, Authors

LEMMA TakeUndoKeeps ==
  ASSUME InboxInv, NEW l \in Lanes, NEW i, TakeUndo(l, i) \/ TakeRemove(l, i)
  PROVE  InboxInv'
<1>a. InboxTypes /\ postRow \in PostRows
  BY DEF InboxInv, InboxTypes
<1>1. /\ Turn(i)
      /\ UNCHANGED <<hosted, origin, sent, communityRow, tracked, replyRow, work, forwarded>>
  BY DEF TakeUndo, TakeRemove
<1>2. /\ postRow' \in {postRow, Rejected} /\ postRow' \in PostRows
      /\ postRow'.row = postRow.row /\ (postRow.row = "none" => postRow' = postRow)
  <2>1. CASE postRow.row = "none"
    BY <1>a, <2>1 DEF TakeUndo, TakeRemove
  <2>2. CASE postRow.row # "none"
    <3>1. postRow' \in {postRow, Rejected}
      BY <2>2 DEF TakeUndo, TakeRemove
    <3> QED
      BY <1>a, <2>2, <3>1, RejectedRow
  <2> QED
    BY <2>1, <2>2
<1>3. InboxTypes'
  BY <1>a, <1>1, <1>2, TurnTypes, TaskTypes DEF InboxTypes
<1>4. GroundsOK'
  <2>1. CASE postRow' = Rejected
    BY <1>a, <2>1, RejectedRow DEF GroundsOK
  <2>2. CASE postRow' = postRow /\ postRow.approved
    <3>1. postRow.row # "none" /\ communityRow # "none" /\ postRow.by \in grounds
      BY <2>2 DEF InboxInv, RowsOK, GroundsOK, NoPost
    <3>2. CASE TakeUndo(l, i)
      <4>1. CASE postRow.by = sent[i].id
        BY <1>a, <2>2, <3>1, <3>2, <4>1, RejectedRow DEF TakeUndo
      <4>2. CASE postRow.by # sent[i].id
        BY <2>2, <3>1, <3>2, <4>2 DEF TakeUndo, GroundsOK
      <4> QED
        BY <4>1, <4>2
    <3>3. CASE TakeRemove(l, i)
      BY <1>a, <2>2, <3>1, <3>3, RejectedRow DEF TakeRemove
    <3> QED
      BY <3>2, <3>3
  <2>3. CASE postRow' = postRow /\ ~postRow.approved
    BY <2>3 DEF GroundsOK
  <2> QED
    BY <1>2, <2>1, <2>2, <2>3
<1>5. RowsOK' /\ ForwardedOnce'
  BY <1>1, <1>2 DEF InboxInv, RowsOK, ForwardedOnce, EverSpawned
<1> QED
  BY <1>3, <1>4, <1>5 DEF InboxInv

LEMMA CleanUpKeeps == InboxInv /\ CleanUp => InboxInv'
<1> SUFFICES ASSUME InboxInv, CleanUp PROVE InboxInv'
  OBVIOUS
<1>a. InboxTypes
  BY DEF InboxInv
<1>1. /\ UNCHANGED <<hosted, origin, sent, communityRow, tracked, work, forwarded, applied>>
      /\ ~hosted /\ postRow' = NoPost /\ replyRow' = "none"
  BY DEF CleanUp
<1>2. NoPost \in PostRows
  BY DEF NoPost, PostRows, Authors, RowStates
<1>3. InboxTypes'
  BY <1>a, <1>1, <1>2, StrayTypes, TaskTypes DEF CleanUp, InboxTypes, RowStates
<1> QED
  BY <1>1, <1>3 DEF InboxInv, RowsOK, GroundsOK, ForwardedOnce, EverSpawned, NoPost

\* A job that forwards ends, or the server stops.
LEMMA ForwardKeeps ==
  ASSUME InboxInv, NEW what \in {"reply", "delete"}, NEW fails \in BOOLEAN, Forward(what, fails)
  PROVE  InboxInv'
<1>a. InboxTypes /\ forwarded \in Tallies
  BY DEF InboxInv, InboxTypes
<1>1. UNCHANGED <<hosted, origin, sent, communityRow, tracked, postRow, replyRow, work, grounds,
                  applied, strays>>
  BY DEF Forward
<1>2. PICK was \in Forwards : was = forwarded[what] /\ was.jobs > 0
  BY <1>a DEF Tallies, Forward
<1>3. /\ was.jobs \in Nat /\ was.sent \in Nat /\ was.lost \in Nat /\ was.jobs - 1 \in Nat
      /\ was.sent + 1 \in Nat /\ was.lost + 1 \in Nat
      /\ EverSpawned(what) = was.jobs + was.sent + was.lost
  BY <1>2 DEF Forwards, EverSpawned
<1>b. ASSUME NEW fewer \in Nat, NEW more \in Nat
      PROVE  /\ [was EXCEPT !.jobs = fewer, !.lost = more] \in Forwards
             /\ [was EXCEPT !.jobs = fewer, !.sent = more] \in Forwards
  BY <1>2 DEF Forwards
<1>4. PICK f \in Forwards :
        /\ forwarded' = [forwarded EXCEPT ![what] = f]
        /\ f.jobs + f.sent + f.lost = EverSpawned(what)
  <2>1. CASE fails
    <3> DEFINE f == [was EXCEPT !.jobs = was.jobs - 1, !.lost = was.lost + 1]
    <3>1. forwarded' = [forwarded EXCEPT ![what] = f]
      BY <1>2, <2>1 DEF Forward
    <3>2. f.jobs = was.jobs - 1 /\ f.sent = was.sent /\ f.lost = was.lost + 1
      BY <1>2 DEF Forwards
    <3>4. f \in Forwards
      BY <1>3, <1>b, Zenon
    <3> HIDE DEF f
    <3>3. f.jobs + f.sent + f.lost = EverSpawned(what)
      BY <1>3, <3>2
    <3> QED
      BY <3>1, <3>3, <3>4
  <2>2. CASE ~fails
    <3> DEFINE f == [was EXCEPT !.jobs = was.jobs - 1, !.sent = was.sent + 1]
    <3>1. forwarded' = [forwarded EXCEPT ![what] = f]
      BY <1>2, <2>2 DEF Forward
    <3>2. f.jobs = was.jobs - 1 /\ f.sent = was.sent + 1 /\ f.lost = was.lost
      BY <1>2 DEF Forwards
    <3>4. f \in Forwards
      BY <1>3, <1>b, Zenon
    <3> HIDE DEF f
    <3>3. f.jobs + f.sent + f.lost = EverSpawned(what)
      BY <1>3, <3>2
    <3> QED
      BY <3>1, <3>3, <3>4
  <2> QED
    BY <2>1, <2>2
<1>5. forwarded' \in Tallies
  BY <1>a, <1>4 DEF Tallies
<1>6. \A other \in {"reply", "delete"} : EverSpawned(other)' = EverSpawned(other)
  <2>1. forwarded'[what] = f
    BY <1>a, <1>4 DEF Tallies
  <2>2. EverSpawned(what)' = EverSpawned(what)
    BY <1>4, <2>1 DEF EverSpawned
  <2>3. ASSUME NEW other \in {"reply", "delete"}, other # what
        PROVE  EverSpawned(other)' = EverSpawned(other)
    BY <1>a, <1>4, <2>3 DEF EverSpawned, Tallies
  <2> QED
    BY <2>2, <2>3
<1>7. InboxTypes'
  BY <1>a, <1>1, <1>5, TaskTypes DEF InboxTypes
<1>8. ForwardedOnce'
  BY <1>1, <1>6 DEF InboxInv, ForwardedOnce
<1> QED
  BY <1>1, <1>7, <1>8 DEF InboxInv, RowsOK, GroundsOK

LEMMA StopInboxKeeps == InboxInv /\ StopInbox => InboxInv'
<1> SUFFICES ASSUME InboxInv, StopInbox PROVE InboxInv'
  OBVIOUS
<1>a. InboxTypes /\ forwarded \in Tallies
  BY DEF InboxInv, InboxTypes
<1>1. UNCHANGED <<hosted, origin, sent, communityRow, tracked, postRow, replyRow, grounds, applied>>
  BY DEF StopInbox
<1>2. work' \in [Lanes -> Works] /\ strays' \in 0..MaxWorks
  BY <1>a, StrayTypes DEF StopInbox, Works, InboxTypes
<1>3. ASSUME NEW what \in {"reply", "delete"}
      PROVE  /\ forwarded'[what] \in Forwards
             /\ EverSpawned(what)' = EverSpawned(what)
  <2>1. \A k \in {"jobs", "sent", "lost"} : forwarded[what][k] \in Nat
    BY <1>a DEF Tallies, Forwards
  <2>2. forwarded'[what] = [jobs |-> 0, sent |-> forwarded[what].sent,
                            lost |-> forwarded[what].lost + forwarded[what].jobs]
    BY DEF StopInbox
  <2> QED
    BY <2>1, <2>2 DEF Forwards, EverSpawned
<1>4. forwarded' \in Tallies
  <2>1. forwarded' = [reply |-> forwarded'["reply"], delete |-> forwarded'["delete"]]
    BY DEF StopInbox
  <2> QED
    BY <1>3, <2>1 DEF Tallies
<1>5. InboxTypes'
  BY <1>a, <1>1, <1>2, <1>4, TaskTypes DEF InboxTypes
<1>6. ForwardedOnce'
  BY <1>1, <1>3 DEF InboxInv, ForwardedOnce
<1> QED
  BY <1>1, <1>5, <1>6 DEF InboxInv, RowsOK, GroundsOK

LEMMA InboxKept == InboxInv /\ [InboxNext]_inboxVars => InboxInv'
<1> SUFFICES ASSUME InboxInv, [InboxNext]_inboxVars PROVE InboxInv'
  OBVIOUS
<1>1. CASE UNCHANGED inboxVars
  BY <1>1, ReadingKeeps DEF inboxVars, InboxInv, InboxTypes
<1>2. CASE InboxNext
  BY <1>2, SendingKeeps, TakePostKeeps, TakeListedKeeps, TakeReplyKeeps, RemoteChangesKeep,
     WritePostKeeps, WriteReplyKeeps, TakeDeleteKeeps, TakeUndoKeeps, ForwardKeeps,
     StopInboxKeeps, CleanUpKeeps
     DEF InboxNext, Sending, TakeAnnounce, TakeAdd, TakeCreate
<1> QED
  BY <1>1, <1>2

\* Tasks in any number of lanes, in any order and however often, leave rows, tasks and
\* histories what they are declared to be, and no reply without the row of its post
\* (the inbox tasks and CLEANUP_OLD_REMOTE_POSTS_SQL).
THEOREM InboxTypeCorrect == InboxSpec => []InboxTypeOK
<1>1. InboxInv => InboxTypeOK
  BY WorkKinds DEF InboxInv, InboxTypes, RowsOK, InboxTypeOK, PostRows, RowStates
<1> QED
  BY <1>1, InboxInitInv, InboxKept, PTL DEF InboxSpec

\* A post shows as approved only on the ground of an approval that was ingested and not
\* taken back since, for any number of lanes, announcements and repetitions: the row
\* names the one it stands by, and it is that one's Undo that rejects it
\* (handle_recieved_post, ingest_undo, ingest_remove).
THEOREM ApprovalHasGrounds == InboxSpec => []ApprovedOnGrounds
<1>1. InboxInv => ApprovedOnGrounds
  BY DEF InboxInv, GroundsOK, ApprovedOnGrounds
<1> QED
  BY <1>1, InboxInitInv, InboxKept, PTL DEF InboxSpec

\* However often and in however many lanes the activities of a hosted community are
\* performed, its followers are owed the reply once and a Delete once for each row it
\* deleted, and what is owed has one job, is in the queue, or was lost with its job in
\* a stop or a failure: nothing is handed to the queue twice, and nothing goes missing
\* in another way (handle_recieved_reply, ingest_delete,
\* enqueue_forward_to_community_followers).
THEOREM ForwardsAreSingle == InboxSpec => []ForwardedOnce
<1>1. InboxInv => ForwardedOnce
  BY DEF InboxInv
<1> QED
  BY <1>1, InboxInitInv, InboxKept, PTL DEF InboxSpec

StaysDeleted ==
  /\ postRow.row = "tombstone" => postRow'.row # "live"
  /\ replyRow = "tombstone" => replyRow' # "live"

LEMMA NothingReturns == InboxInv /\ InboxNext => StaysDeleted
<1> SUFFICES ASSUME InboxInv, InboxNext PROVE StaysDeleted
  OBVIOUS
<1>a. postRow \in PostRows /\ replyRow \in RowStates
  BY DEF InboxInv, InboxTypes
<1>1. CASE UNCHANGED <<postRow, replyRow>>
  BY <1>1 DEF StaysDeleted
<1>2. ASSUME NEW l \in Lanes, WritePost(l) \/ WriteParent(l) PROVE StaysDeleted
  <2>1. replyRow' = replyRow
    BY <1>2 DEF WritePost, WriteParent
  <2>2. CASE communityRow = "none"
    BY <1>2, <2>1, <2>2 DEF WritePost, WriteParent, StaysDeleted
  <2>3. CASE communityRow # "none"
    <3>1. \E w : StorePost(w)
      BY <1>2, <2>3 DEF WritePost, WriteParent
    <3>2. postRow.row = "tombstone" => postRow'.row = "tombstone"
      BY <1>a, <3>1 DEF StorePost, PostRows
    <3> QED
      BY <2>1, <3>2 DEF StaysDeleted
  <2> QED
    BY <2>2, <2>3
<1>3. ASSUME NEW l \in Lanes, WriteReplyRow(l) PROVE StaysDeleted
  BY <1>3 DEF WriteReplyRow, StaysDeleted
<1>4. ASSUME NEW l \in Lanes, NEW i, TakeDelete(l, i) PROVE StaysDeleted
  <2>1. CASE sent[i].id = "post"
    <3>1. postRow' = [postRow EXCEPT !.row = Dismissed(@)] /\ replyRow' = replyRow
      BY <1>4, <2>1 DEF TakeDelete
    <3>2. postRow'.row = Dismissed(postRow.row)
      BY <1>a, <3>1 DEF PostRows
    <3> QED
      BY <3>1, <3>2 DEF Dismissed, StaysDeleted
  <2>2. CASE sent[i].id # "post"
    BY <1>4, <2>2 DEF TakeDelete, Dismissed, StaysDeleted
  <2> QED
    BY <2>1, <2>2
<1>5. ASSUME NEW l \in Lanes, NEW i, TakeUndo(l, i) \/ TakeRemove(l, i) PROVE StaysDeleted
  <2>1. postRow' \in {postRow, Rejected} /\ replyRow' = replyRow
    BY <1>5 DEF TakeUndo, TakeRemove
  <2> QED
    BY <1>a, <2>1, RejectedRow DEF StaysDeleted
<1>6. CASE CleanUp
  BY <1>6 DEF CleanUp, NoPost, StaysDeleted
<1>7. \/ UNCHANGED <<postRow, replyRow>> \/ CleanUp
      \/ \E l \in Lanes : WritePost(l) \/ WriteParent(l) \/ WriteReplyRow(l)
      \/ \E l \in Lanes, i \in 1..MaxSent :
           TakeDelete(l, i) \/ TakeUndo(l, i) \/ TakeRemove(l, i)
  BY DEF InboxNext, Publish, SendUndo, SendRemove, WriteReply, SendAnnounce, SendDelete,
     HereUnchanged, TakeAnnounce, TakeAdd, TakeCreate, TakePost, TakeReply, TakeListed,
     TakeLookedUp, TakeRefreshed, TrackChanges, TakeCommunityDelete, Forward, StopInbox
<1> QED
  BY <1>1, <1>2, <1>3, <1>4, <1>5, <1>6, <1>7

\* A deleted post or reply does not come back on its row, whatever was begun before the
\* Delete or is performed after it, in any number of lanes (handle_recieved_post,
\* handle_recieved_reply, ingest_delete).
THEOREM DeletesAreFinal == InboxSpec => DeleteWins
<1>1. InboxInv /\ [InboxNext]_inboxVars => [StaysDeleted]_inboxVars
  BY NothingReturns
<1> QED
  BY <1>1, InboxInitInv, InboxKept, PTL DEF InboxSpec, DeleteWins, StaysDeleted

-----------------------------------------------------------------------------
(***************************************************************************)
(* The inbox when activities come once and in order.                       *)
(***************************************************************************)
Carries(k, kinds) == sent[k].kind \in kinds
Deletes(k, thing) == sent[k].kind = "Delete" /\ sent[k].id = thing
Announcing == {"Announce", "Add"}
Posting == Announcing \cup {"Create"}
Revoking == {"Undo", "Remove"}
TakesBack(k, a) == sent[k].kind = "Remove" \/ (sent[k].kind = "Undo" /\ sent[k].id = a)

\* Which side of a community sends what.
SidesOK ==
  /\ hosted => origin.standing = "nobody"
  /\ \A k \in 1..Len(sent) :
       /\ Carries(k, Announcing) => sent[k].id \in Announces
       /\ Carries(k, Announcing) \/ Carries(k, Revoking) => ~hosted
       /\ Carries(k, {"Create"}) => hosted
       /\ Carries(k, {"Reply"}) /\ ~hosted => sent[k].id = "announceReply"
       /\ Carries(k, {"Delete"}) => sent[k].id \in {"post", "reply"}

\* What is deleted there is what a Delete was sent of, and nothing creates it after.
DeletionsOK ==
  /\ \A thing \in {"post", "reply"} :
       /\ origin[thing] = "deleted" => \E k \in 1..Len(sent) : Deletes(k, thing)
       /\ \A k \in 1..Len(sent) : Deletes(k, thing) => origin[thing] = "deleted"
  /\ \A j, k \in 1..Len(sent) :
       /\ Carries(j, Posting) /\ Deletes(k, "post") => j < k
       /\ Carries(j, {"Reply"}) /\ Deletes(k, "reply") => j < k

\* A post and a reply were sent if they exist, and the post first.
CreationsOK ==
  /\ hosted /\ origin.post # "none" => \E k \in 1..Len(sent) : Carries(k, {"Create"})
  /\ origin.reply # "none" => origin.post # "none" /\ \E k \in 1..Len(sent) : Carries(k, {"Reply"})
  /\ \A k \in 1..Len(sent) : Carries(k, Posting) => origin.post # "none"
  /\ \A k \in 1..Len(sent) : Carries(k, {"Reply"}) =>
       /\ origin.reply # "none"
       /\ hosted => \E j \in 1..Len(sent) : j < k /\ Carries(j, {"Create"})

\* An announcement stands and nothing after it takes it back, or something does.
StandingOK ==
  /\ origin.standing \in Announces =>
       /\ origin.post # "none"
       /\ \E k \in 1..Len(sent) : Carries(k, Announcing) /\ sent[k].id = origin.standing
  /\ \A k \in 1..Len(sent) : Carries(k, Announcing) =>
       IF sent[k].id = origin.standing
       THEN \A j \in 1..Len(sent) : Carries(j, Revoking) => j < k
       ELSE \E j \in 1..Len(sent) : j > k /\ TakesBack(j, sent[k].id)

SentOK == SidesOK /\ DeletionsOK /\ CreationsOK /\ StandingOK

Followed == Orderly /\ (hosted \/ tracked)

\* A lane is at what was applied last, or refreshes a post that is there.
LaneOK(l) ==
  /\ work[l].pc = "post" =>
       \/ work[l] = Post("nobody", FALSE) /\ ~hosted /\ postRow.row # "none"
       \/ /\ applied > 0 /\ Carries(applied, Posting)
          /\ work[l] = Post(Approval(applied), TRUE)
  /\ work[l].pc = "parent" => work[l].by = "announceReply" /\ ~hosted
  /\ work[l].pc = "reply" => postRow.row = "live"
  /\ work[l].pc \in {"parent", "reply"} => applied > 0 /\ Carries(applied, {"Reply"})

\* Rows are deleted by Deletes only, and by all of them.
DeletedOK ==
  /\ postRow.row = "tombstone" => \E k \in 1..applied : Deletes(k, "post")
  /\ replyRow = "tombstone" => \E k \in 1..applied : Deletes(k, "reply")
  /\ \A k \in 1..applied : Deletes(k, "post") =>
       postRow.row # "live" /\ \A l \in Lanes : work[l] = IdleLane
  /\ \A k \in 1..applied : Deletes(k, "reply") =>
       replyRow # "live" /\ \A l \in Lanes : work[l].pc \notin {"parent", "reply"}

PostShown == postRow.row = "live" /\ postRow.approved

\* What was applied and is still there is written, or about to be.
ArrivedOK ==
  origin.post = "live" => \A k \in 1..applied :
    /\ Carries(k, {"Create"}) => PostShown \/ \E l \in Lanes : work[l].pc = "post"
    /\ Carries(k, Announcing) /\ sent[k].id = origin.standing =>
         PostShown \/ \E l \in Lanes : work[l] = Post(sent[k].id, TRUE)
    /\ Carries(k, {"Reply"}) /\ origin.reply = "live" =>
         replyRow = "live" \/ \E l \in Lanes : work[l].pc \in {"parent", "reply"}

\* The announcement that a post stands by, or is about to, stands or will be taken back.
ApprovalsOK ==
  ~hosted =>
    /\ postRow.approved => postRow.by \in Announces \cup {"announceReply"}
    /\ \A a \in Announces \ {origin.standing} :
         (postRow.approved /\ postRow.by = a) \/ (\E l \in Lanes : work[l] = Post(a, TRUE)) =>
           \E j \in 1..Len(sent) : j > applied /\ TakesBack(j, a)

OrderlyOK ==
  Followed => /\ communityRow = "live"
              /\ \A l \in Lanes : LaneOK(l)
              /\ DeletedOK /\ ArrivedOK /\ ApprovalsOK

OrderlyInv == InboxInv /\ SentOK /\ OrderlyOK

Sends(a) ==
  /\ Len(sent') = Len(sent) + 1 /\ sent'[Len(sent) + 1] = a
  /\ \A k \in 1..Len(sent) : sent'[k] = sent[k]

LEMMA SendSends ==
  ASSUME InboxTypes, NEW a \in Activities, Send(a)
  PROVE  Sends(a) /\ Len(sent) \in Nat
BY ActivitySent DEF InboxTypes, Sends

\* What each step of the other server sends, and what it has afterwards.
LEMMA SendingSends ==
  ASSUME InboxTypes, Sending
  PROVE  /\ Len(sent) \in Nat /\ origin \in Origins
         /\ \/ /\ ~hosted /\ origin.post = "none" /\ sent' = sent
               /\ origin' = [origin EXCEPT !.post = "live", !.standing = "outbox"]
            \/ /\ hosted /\ origin.post = "none" /\ Sends(Activity("Create", "create"))
               /\ origin' = [origin EXCEPT !.post = "live"]
            \/ \E a \in Announces, kind \in Announcing :
                 /\ ~hosted /\ origin.post = "live" /\ origin.standing \notin Announces
                 /\ \A k \in 1..Len(sent) : sent[k].id # a
                 /\ Sends(Activity(kind, a)) /\ origin' = [origin EXCEPT !.standing = a]
            \/ /\ origin.standing \in Announces /\ Sends(Activity("Undo", origin.standing))
               /\ origin' = [origin EXCEPT !.standing = "nobody"]
            \/ /\ ~hosted /\ Sends(Activity("Remove", "post"))
               /\ origin' = [origin EXCEPT !.standing = "nobody"]
            \/ /\ origin.post = "live" /\ origin.reply = "none"
               /\ Sends(Activity("Reply", IF hosted THEN "createReply" ELSE "announceReply"))
               /\ origin' = [origin EXCEPT !.reply = "live"]
            \/ \E thing \in {"post", "reply"} :
                 /\ origin[thing] = "live" /\ Sends(Activity("Delete", thing))
                 /\ origin' = [origin EXCEPT ![thing] = "deleted"]
<1>a. sent \in Seq(Activities) /\ Len(sent) \in Nat /\ DOMAIN sent = 1..Len(sent)
      /\ origin \in Origins
  BY DEF InboxTypes
<1> USE DEF ActivityKinds, Ids, Activity, Activities, Announcing
<1>1. CASE Publish
  <2>1. CASE hosted
    <3>1. Send(Activity("Create", "create")) /\ origin.post = "none"
          /\ origin' = [origin EXCEPT !.post = "live", !.standing = @]
      BY <1>1, <2>1 DEF Publish
    <3>2. origin' = [origin EXCEPT !.post = "live"]
      BY <1>a, <3>1 DEF Origins
    <3> QED
      BY <1>a, <2>1, <3>1, <3>2, SendSends
  <2>2. CASE ~hosted
    BY <1>1, <1>a, <2>2 DEF Publish
  <2> QED
    BY <2>1, <2>2
<1>2. CASE SendUndo
  BY <1>2, <1>a, SendSends DEF SendUndo, Origins
<1>3. CASE SendRemove
  BY <1>3, <1>a, SendSends DEF SendRemove
<1>4. CASE WriteReply
  BY <1>4, <1>a, SendSends DEF WriteReply
<1>5. ASSUME NEW a \in Announces, SendAnnounce(a)
      PROVE  \E kind \in Announcing :
                 /\ ~hosted /\ origin.post = "live" /\ origin.standing \notin Announces
                 /\ \A k \in 1..Len(sent) : sent[k].id # a
                 /\ Sends(Activity(kind, a)) /\ origin' = [origin EXCEPT !.standing = a]
  <2>1. PICK kind \in Announcing : Send(Activity(kind, a))
    BY <1>5 DEF SendAnnounce
  <2>2. origin.standing \notin Announces
    BY <1>5, InboxAssumption DEF SendAnnounce
  <2> QED
    BY <1>5, <1>a, <2>1, <2>2, SendSends DEF SendAnnounce
<1>6. ASSUME NEW thing \in {"post", "reply"}, SendDelete(thing)
      PROVE  /\ origin[thing] = "live" /\ Sends(Activity("Delete", thing))
             /\ origin' = [origin EXCEPT ![thing] = "deleted"]
  BY <1>6, SendSends DEF SendDelete
<1> QED
  BY <1>a, <1>1, <1>2, <1>3, <1>4, <1>5, <1>6 DEF Sending

\* The activities sent before stay, and the one sent now is last.
LEMMA SentNow ==
  ASSUME NEW a, Len(sent) \in Nat, Sends(a)
  PROVE  /\ \A k \in 1..Len(sent') :
              (k \in 1..Len(sent) /\ sent'[k] = sent[k]) \/ (k = Len(sent) + 1 /\ sent'[k] = a)
         /\ \A k \in 1..Len(sent) : k \in 1..Len(sent') /\ sent'[k] = sent[k]
         /\ Len(sent) + 1 \in 1..Len(sent') /\ sent'[Len(sent) + 1] = a
BY DEF Sends

LEMMA SidesExtended ==
  ASSUME Len(sent) \in Nat, SidesOK, (hosted' <=> hosted), hosted => origin'.standing = "nobody",
         NEW kind, NEW id, Sends(Activity(kind, id)),
         kind \in Announcing => id \in Announces,
         kind \in Announcing \/ kind \in Revoking => ~hosted,
         kind \in {"Create"} => hosted,
         kind \in {"Reply"} /\ ~hosted => id = "announceReply",
         kind \in {"Delete"} => id \in {"post", "reply"}
  PROVE  SidesOK'
<1> DEFINE Fits(b) == /\ b.kind \in Announcing => b.id \in Announces
                      /\ b.kind \in Announcing \/ b.kind \in Revoking => ~hosted
                      /\ b.kind \in {"Create"} => hosted
                      /\ b.kind \in {"Reply"} /\ ~hosted => b.id = "announceReply"
                      /\ b.kind \in {"Delete"} => b.id \in {"post", "reply"}
<1>1. \A k \in 1..Len(sent) : Fits(sent[k])
  BY DEF SidesOK, Carries
<1>2. Fits(Activity(kind, id))
  BY DEF Activity
<1>3. \A k \in 1..Len(sent') : Fits(sent'[k])
  <2> HIDE DEF Fits
  <2> QED
    BY <1>1, <1>2, SentNow
<1> QED
  BY <1>3 DEF SidesOK, Carries

LEMMA SidesKept == ASSUME InboxTypes, Sending, SidesOK PROVE SidesOK'
<1>1. (hosted' <=> hosted) /\ Len(sent) \in Nat /\ origin \in Origins
  BY SendingTypes, SendingSends DEF HereUnchanged
<1>a. hosted => origin.standing = "nobody"
  BY DEF SidesOK
<1>b. "nobody" \notin Announces
  BY InboxAssumption
<1> USE DEF Announcing, Revoking, Origins
<1>2. CASE sent' = sent /\ ~hosted
  BY <1>1, <1>2 DEF SidesOK, Carries
<1>3. CASE hosted /\ Sends(Activity("Create", "create")) /\ origin'.standing = origin.standing
  BY <1>1, <1>a, <1>3, SidesExtended
<1>4. ASSUME NEW a \in Announces, NEW kind \in Announcing, ~hosted, Sends(Activity(kind, a))
      PROVE  SidesOK'
  BY <1>1, <1>4, SidesExtended DEF Activity
<1>5. CASE origin.standing \in Announces /\ Sends(Activity("Undo", origin.standing))
  BY <1>1, <1>a, <1>b, <1>5, SidesExtended DEF Sends
<1>6. CASE ~hosted /\ Sends(Activity("Remove", "post"))
  BY <1>1, <1>6, SidesExtended
<1>7. CASE /\ Sends(Activity("Reply", IF hosted THEN "createReply" ELSE "announceReply"))
           /\ origin'.standing = origin.standing
  BY <1>1, <1>a, <1>7, SidesExtended
<1>8. ASSUME NEW thing \in {"post", "reply"}, Sends(Activity("Delete", thing)),
             origin'.standing = origin.standing
      PROVE  SidesOK'
  BY <1>1, <1>a, <1>8, SidesExtended
<1> QED
  BY <1>1, <1>2, <1>3, <1>4, <1>5, <1>6, <1>7, <1>8, SendingSends

LEMMA DeletionsKept == ASSUME InboxTypes, Sending, DeletionsOK PROVE DeletionsOK'
<1>1. Len(sent) \in Nat /\ origin \in Origins
  BY SendingSends
<1> USE DEF DeletionsOK, Carries, Deletes, Announcing, Posting, Origins, Activity
<1>2. CASE sent' = sent /\ origin.post = "none" /\ origin' = [origin EXCEPT !.post = "live", !.standing = "outbox"]
  BY <1>1, <1>2
<1>3. CASE origin.post = "none" /\ Sends(Activity("Create", "create")) /\ origin' = [origin EXCEPT !.post = "live"]
  BY <1>1, <1>3 DEF Sends
<1>4. ASSUME NEW a \in Announces, NEW kind \in Announcing, origin.post = "live",
             Sends(Activity(kind, a)), origin' = [origin EXCEPT !.standing = a]
      PROVE  DeletionsOK'
  BY <1>1, <1>4 DEF Sends
<1>5. ASSUME NEW id, NEW kind \in {"Undo", "Remove"}, Sends(Activity(kind, id)),
             origin' = [origin EXCEPT !.standing = "nobody"]
      PROVE  DeletionsOK'
  BY <1>1, <1>5 DEF Sends
<1>6. ASSUME NEW id, Sends(Activity("Reply", id)), origin.reply = "none",
             origin' = [origin EXCEPT !.reply = "live"]
      PROVE  DeletionsOK'
  BY <1>1, <1>6 DEF Sends
<1>7. ASSUME NEW thing \in {"post", "reply"}, Sends(Activity("Delete", thing)),
             origin' = [origin EXCEPT ![thing] = "deleted"]
      PROVE  DeletionsOK'
  BY <1>1, <1>7 DEF Sends
<1> QED
  BY <1>1, <1>2, <1>3, <1>4, <1>5, <1>6, <1>7, SendingSends

LEMMA CreationsKept == ASSUME InboxTypes, Sending, CreationsOK PROVE CreationsOK'
<1>1. hosted' = hosted /\ Len(sent) \in Nat /\ origin \in Origins
  BY SendingTypes, SendingSends DEF HereUnchanged
<1> USE DEF CreationsOK, Carries, Announcing, Posting, Origins, Activity
<1>2. CASE ~hosted /\ sent' = sent /\ origin' = [origin EXCEPT !.post = "live", !.standing = "outbox"]
  BY <1>1, <1>2
<1>3. CASE Sends(Activity("Create", "create")) /\ origin' = [origin EXCEPT !.post = "live"]
  BY <1>1, <1>3 DEF Sends
<1>4. ASSUME NEW kind \in Announcing \cup {"Undo", "Remove"}, NEW id, NEW a,
             kind \in Announcing => origin.post = "live",
             Sends(Activity(kind, id)), origin' = [origin EXCEPT !.standing = a]
      PROVE  CreationsOK'
  BY <1>1, <1>4 DEF Sends
<1>6. ASSUME NEW id, Sends(Activity("Reply", id)), origin.post = "live",
             origin' = [origin EXCEPT !.reply = "live"]
      PROVE  CreationsOK'
  BY <1>1, <1>6 DEF Sends
<1>7. ASSUME NEW thing \in {"post", "reply"}, Sends(Activity("Delete", thing)),
             origin[thing] = "live", origin' = [origin EXCEPT ![thing] = "deleted"]
      PROVE  CreationsOK'
  <2>1. /\ origin'.post # "none" => origin.post # "none"
        /\ origin.post # "none" => origin'.post # "none"
        /\ origin'.reply # "none" => origin.reply # "none"
        /\ origin.reply # "none" => origin'.reply # "none"
    BY <1>1, <1>7
  <2>2. \A k \in 1..Len(sent') : sent'[k].kind \in Posting \cup {"Reply"} =>
           k \in 1..Len(sent) /\ sent'[k] = sent[k]
    BY <1>1, <1>7, SentNow
  <2>3. \A k \in 1..Len(sent) : k \in 1..Len(sent') /\ sent'[k] = sent[k]
    BY <1>1, <1>7, SentNow
  <2> QED
    BY <1>1, <2>1, <2>2, <2>3
<1> QED
  BY <1>1, <1>2, <1>3, <1>4, <1>6, <1>7, SendingSends

LEMMA StandingKept == ASSUME InboxTypes, Sending, SidesOK, StandingOK PROVE StandingOK'
<1>1. hosted' = hosted /\ Len(sent) \in Nat /\ origin \in Origins
  BY SendingTypes, SendingSends DEF HereUnchanged
<1>2. "nobody" \notin Announces /\ "outbox" \notin Announces
  BY InboxAssumption
<1> USE DEF StandingOK, Carries, TakesBack, Announcing, Revoking, Origins, Activity
<1>3. CASE ~hosted /\ sent' = sent /\ origin' = [origin EXCEPT !.post = "live", !.standing = "outbox"]
           /\ origin.post = "none"
  <2>1. origin.standing \notin Announces /\ origin'.standing = "outbox"
    BY <1>1, <1>3
  <2>2. \A k \in 1..Len(sent) : Carries(k, Announcing) => sent[k].id \in Announces
    BY DEF SidesOK
  <2> QED
    BY <1>2, <1>3, <2>1, <2>2
<1>4. ASSUME NEW kind \in {"Create", "Reply", "Delete"}, NEW id, Sends(Activity(kind, id)),
             origin'.standing = origin.standing, origin.post # "none" => origin'.post # "none"
      PROVE  StandingOK'
  <2>1. \A k \in 1..Len(sent') : sent'[k].kind \in Announcing \cup Revoking =>
           k \in 1..Len(sent) /\ sent'[k] = sent[k]
    BY <1>1, <1>4, SentNow
  <2>2. \A k \in 1..Len(sent) : k \in 1..Len(sent') /\ sent'[k] = sent[k]
    BY <1>1, <1>4, SentNow
  <2> QED
    BY <1>1, <1>4, <2>1, <2>2
<1>5. ASSUME NEW a \in Announces, NEW kind \in Announcing, origin.standing \notin Announces,
             \A k \in 1..Len(sent) : sent[k].id # a, origin.post = "live",
             Sends(Activity(kind, a)), origin' = [origin EXCEPT !.standing = a]
      PROVE  StandingOK'
  <2>1. origin'.standing = a /\ origin'.post = "live"
    BY <1>1, <1>5
  <2>2. \A k \in 1..Len(sent) : k \in 1..Len(sent') /\ sent'[k] = sent[k]
    BY <1>1, <1>5, SentNow
  <2>3. Len(sent) + 1 \in 1..Len(sent') /\ sent'[Len(sent) + 1] = Activity(kind, a)
    BY <1>1, <1>5, SentNow
  <2>4. ASSUME NEW k \in 1..Len(sent'), Carries(k, Announcing)',
               sent'[k].id # a
        PROVE  \E j \in 1..Len(sent') : j > k /\ TakesBack(j, sent[k].id)'
    <3>1. k \in 1..Len(sent) /\ sent'[k] = sent[k]
      BY <1>1, <1>5, <2>4, SentNow
    <3>2. sent[k].id \in Announces
      BY <2>4, <3>1 DEF SidesOK
    <3>3. PICK j \in 1..Len(sent) : j > k /\ TakesBack(j, sent[k].id)
      BY <1>5, <2>4, <3>1, <3>2
    <3> QED
      BY <2>2, <3>1, <3>3
  <2>5. \A k \in 1..Len(sent') : sent'[k].id = a => k = Len(sent) + 1
    BY <1>1, <1>5, SentNow
  <2>6. \A k \in 1..Len(sent') : Carries(k, Revoking)' => k < Len(sent) + 1
    BY <1>1, <1>5, SentNow
  <2> QED
    BY <2>1, <2>3, <2>4, <2>5, <2>6
<1>6. ASSUME NEW kind \in Revoking, NEW id, Sends(Activity(kind, id)),
             kind = "Remove" \/ (kind = "Undo" /\ id = origin.standing),
             origin' = [origin EXCEPT !.standing = "nobody"]
      PROVE  StandingOK'
  <2>1. origin'.standing = "nobody"
    BY <1>1, <1>6
  <2>2. \A k \in 1..Len(sent) : k \in 1..Len(sent') /\ sent'[k] = sent[k]
    BY <1>1, <1>6, SentNow
  <2>3. Len(sent) + 1 \in 1..Len(sent') /\ sent'[Len(sent) + 1] = Activity(kind, id)
    BY <1>1, <1>6, SentNow
  <2>4. ASSUME NEW k \in 1..Len(sent'), Carries(k, Announcing)'
        PROVE  /\ sent'[k].id # "nobody"
               /\ \E j \in 1..Len(sent') : j > k /\ TakesBack(j, sent[k].id)'
    <3>1. k \in 1..Len(sent) /\ sent'[k] = sent[k]
      BY <1>1, <1>6, <2>4, SentNow
    <3>2. sent[k].id \in Announces
      BY <2>4, <3>1 DEF SidesOK
    <3>3. CASE sent[k].id = origin.standing
      BY <1>1, <1>2, <1>6, <2>3, <3>1, <3>2, <3>3
    <3>4. CASE sent[k].id # origin.standing
      <4>1. PICK j \in 1..Len(sent) : j > k /\ TakesBack(j, sent[k].id)
        BY <2>4, <3>1, <3>4
      <4> QED
        BY <1>2, <2>2, <3>1, <3>2, <4>1
    <3> QED
      BY <3>3, <3>4
  <2> QED
    BY <1>2, <2>1, <2>4
<1> QED
  BY <1>1, <1>3, <1>4, <1>5, <1>6, SendingSends

LEMMA SentKept == ASSUME InboxTypes, SentOK, Sending PROVE SentOK'
BY SidesKept, DeletionsKept, CreationsKept, StandingKept DEF SentOK

LEMMA SentLeft ==
  ASSUME SentOK, UNCHANGED <<hosted, origin, sent>>
  PROVE  SentOK'
BY DEF SentOK, SidesOK, DeletionsOK, CreationsOK, StandingOK, Carries, Deletes, TakesBack

\* What the other server does to the post, the reply and the announcement that stands.
LEMMA SendingMoves ==
  ASSUME InboxTypes, SidesOK, CreationsOK, StandingOK, Sending
  PROVE  /\ \A k \in 1..Len(sent) : k \in 1..Len(sent') /\ sent'[k] = sent[k]
         /\ origin'.post = "live" /\ origin.post # "live" =>
              \A k \in 1..Len(sent) : ~Carries(k, Posting) /\ ~Carries(k, {"Reply"})
         /\ origin'.reply = "live" /\ origin.reply # "live" =>
              \A k \in 1..Len(sent) : ~Carries(k, {"Reply"})
         /\ origin'.standing \in Announces \ {origin.standing} =>
              \A k \in 1..Len(sent) : sent[k].id # origin'.standing
         /\ \A a \in Announces : a = origin.standing /\ a # origin'.standing =>
              \E j \in 1..Len(sent') : j > Len(sent) /\ TakesBack(j, a)'
<1>1. Len(sent) \in Nat /\ origin \in Origins
  BY SendingSends
<1>2. "nobody" \notin Announces /\ "outbox" \notin Announces
  BY InboxAssumption
<1>3. /\ origin.post = "none" => \A k \in 1..Len(sent) : ~Carries(k, Posting) /\ ~Carries(k, {"Reply"})
      /\ origin.reply = "none" => \A k \in 1..Len(sent) : ~Carries(k, {"Reply"})
      /\ origin.post = "none" => origin.standing \notin Announces
  BY DEF CreationsOK, StandingOK
<1> USE DEF Origins, Activity
<1>4. CASE sent' = sent /\ origin.post = "none" /\ origin' = [origin EXCEPT !.post = "live", !.standing = "outbox"]
  BY <1>1, <1>2, <1>3, <1>4
<1>5. CASE origin.post = "none" /\ Sends(Activity("Create", "create")) /\ origin' = [origin EXCEPT !.post = "live"]
  BY <1>1, <1>2, <1>3, <1>5, SentNow
<1>6. ASSUME NEW a \in Announces, NEW kind \in Announcing, origin.standing \notin Announces,
             \A k \in 1..Len(sent) : sent[k].id # a,
             Sends(Activity(kind, a)), origin' = [origin EXCEPT !.standing = a]
      PROVE  /\ \A k \in 1..Len(sent) : k \in 1..Len(sent') /\ sent'[k] = sent[k]
             /\ origin'.post = origin.post /\ origin'.reply = origin.reply
             /\ origin'.standing = a
  BY <1>1, <1>6, SentNow
<1>7. ASSUME NEW kind \in {"Undo", "Remove"}, NEW id, Sends(Activity(kind, id)),
             kind = "Remove" \/ (kind = "Undo" /\ id = origin.standing),
             origin' = [origin EXCEPT !.standing = "nobody"]
      PROVE  /\ \A k \in 1..Len(sent) : k \in 1..Len(sent') /\ sent'[k] = sent[k]
             /\ origin'.post = origin.post /\ origin'.reply = origin.reply
             /\ origin'.standing = "nobody"
             /\ \A a \in Announces : a = origin.standing =>
                  \E j \in 1..Len(sent') : j > Len(sent) /\ TakesBack(j, a)'
  <2>1. Len(sent) + 1 \in 1..Len(sent') /\ sent'[Len(sent) + 1] = Activity(kind, id)
    BY <1>1, <1>7, SentNow
  <2>2. \A a \in Announces : a = origin.standing =>
           \E j \in 1..Len(sent') : j > Len(sent) /\ TakesBack(j, a)'
    BY <1>1, <1>7, <2>1 DEF TakesBack
  <2> QED
    BY <1>1, <1>7, <2>2, SentNow
<1>8. CASE /\ Sends(Activity("Reply", IF hosted THEN "createReply" ELSE "announceReply"))
           /\ origin.post = "live" /\ origin.reply = "none"
           /\ origin' = [origin EXCEPT !.reply = "live"]
  BY <1>1, <1>3, <1>8, SentNow
<1>9. ASSUME NEW thing \in {"post", "reply"}, Sends(Activity("Delete", thing)),
             origin' = [origin EXCEPT ![thing] = "deleted"]
      PROVE  /\ \A k \in 1..Len(sent) : k \in 1..Len(sent') /\ sent'[k] = sent[k]
             /\ origin'.post = "live" => origin.post = "live"
             /\ origin'.reply = "live" => origin.reply = "live"
             /\ origin'.standing = origin.standing
  BY <1>1, <1>9, SentNow
<1> QED
  BY <1>1, <1>2, <1>4, <1>5, <1>6, <1>7, <1>8, <1>9, SendingSends

LEMMA OrderlySending == OrderlyInv /\ Sending => OrderlyOK'
<1> SUFFICES ASSUME InboxTypes, SentOK, OrderlyOK, Sending, Followed'
             PROVE  communityRow' = "live" /\ (\A l \in Lanes : LaneOK(l)')
                    /\ DeletedOK' /\ ArrivedOK' /\ ApprovalsOK'
  BY DEF OrderlyInv, InboxInv, OrderlyOK
<1>1. /\ hosted' = hosted /\ communityRow' = communityRow /\ tracked' = tracked
      /\ postRow' = postRow /\ replyRow' = replyRow /\ work' = work
      /\ applied' = applied /\ strays' = strays
  BY SendingTypes DEF HereUnchanged
<1>2. communityRow = "live" /\ (\A l \in Lanes : LaneOK(l)) /\ DeletedOK /\ ArrivedOK /\ ApprovalsOK
  BY <1>1 DEF OrderlyOK, Followed, Orderly
<1>3. Len(sent) \in Nat /\ applied \in 0..Len(sent)
  BY DEF InboxTypes
<1>a. SidesOK /\ CreationsOK /\ StandingOK
  BY DEF SentOK
<1>b. \A k \in 1..Len(sent) : k \in 1..Len(sent') /\ sent'[k] = sent[k]
  BY <1>a, SendingMoves
<1>c. \A k \in 1..applied : k \in 1..Len(sent) /\ sent'[k] = sent[k]
  BY <1>3, <1>b
<1>4. communityRow' = "live"
  BY <1>1, <1>2
<1>5. ASSUME NEW l \in Lanes PROVE LaneOK(l)'
  <2>1. applied > 0 => sent'[applied] = sent[applied]
    BY <1>3, <1>c
  <2> QED
    BY <1>1, <1>2, <1>3, <2>1 DEF LaneOK, Carries, Approval
<1>6. DeletedOK'
  BY <1>1, <1>2, <1>c DEF DeletedOK, Deletes
<1>7. ArrivedOK'
  <2> SUFFICES ASSUME origin'.post = "live", NEW k \in 1..applied
               PROVE  /\ Carries(k, {"Create"}) => PostShown \/ \E l \in Lanes : work[l].pc = "post"
                      /\ Carries(k, Announcing) /\ sent[k].id = origin'.standing =>
                           PostShown \/ \E l \in Lanes : work[l] = Post(sent[k].id, TRUE)
                      /\ Carries(k, {"Reply"}) /\ origin'.reply = "live" =>
                           replyRow = "live" \/ \E l \in Lanes : work[l].pc \in {"parent", "reply"}
    BY <1>1, <1>c DEF ArrivedOK, Carries, PostShown
  <2>1. k \in 1..Len(sent)
    BY <1>c
  <2>2. CASE origin.post # "live"
    BY <1>a, <2>1, <2>2, SendingMoves DEF Carries, Posting, Announcing
  <2>3. CASE origin.post = "live"
    <3>1. Carries(k, Announcing) => sent[k].id \in Announces
      BY <1>a, <2>1 DEF SidesOK
    <3>2. Carries(k, Announcing) /\ sent[k].id = origin'.standing => sent[k].id = origin.standing
      BY <1>a, <2>1, <3>1, SendingMoves
    <3>3. Carries(k, {"Reply"}) /\ origin'.reply = "live" => origin.reply = "live"
      BY <1>a, <2>1, SendingMoves
    <3> QED
      BY <1>2, <2>3, <3>2, <3>3 DEF ArrivedOK
  <2> QED
    BY <2>2, <2>3
<1>8. ApprovalsOK'
  <2> SUFFICES ASSUME ~hosted
               PROVE  /\ postRow.approved => postRow.by \in Announces \cup {"announceReply"}
                      /\ \A a \in Announces \ {origin'.standing} :
                           (postRow.approved /\ postRow.by = a)
                             \/ (\E l \in Lanes : work[l] = Post(a, TRUE)) =>
                             \E j \in 1..Len(sent') : j > applied /\ TakesBack(j, a)'
    BY <1>1 DEF ApprovalsOK
  <2>1. postRow.approved => postRow.by \in Announces \cup {"announceReply"}
    BY <1>2 DEF ApprovalsOK
  <2>2. ASSUME NEW a \in Announces \ {origin'.standing},
               (postRow.approved /\ postRow.by = a) \/ (\E l \in Lanes : work[l] = Post(a, TRUE))
        PROVE  \E j \in 1..Len(sent') : j > applied /\ TakesBack(j, a)'
    <3>1. CASE a = origin.standing
      BY <1>3, <1>a, <3>1, SendingMoves
    <3>2. CASE a # origin.standing
      <4>1. PICK j \in 1..Len(sent) : j > applied /\ TakesBack(j, a)
        BY <1>2, <2>2, <3>2 DEF ApprovalsOK
      <4> QED
        BY <1>b, <4>1 DEF TakesBack
    <3> QED
      BY <3>1, <3>2
  <2> QED
    BY <2>1, <2>2
<1> QED
  BY <1>4, <1>5, <1>6, <1>7, <1>8

\* Whoever gets every activity once and in order performs the next one with all lanes idle.
LEMMA InTurn ==
  ASSUME OrderlyInv, NEW i, Turn(i), Followed',
         UNCHANGED <<hosted, sent, tracked>>
  PROVE  /\ applied' = i /\ i = applied + 1 /\ i \in 1..Len(sent) /\ applied \in Nat
         /\ 1..i = 1..applied \cup {i} /\ 1..applied \subseteq 1..Len(sent)
         /\ \A l \in Lanes : work[l] = IdleLane
         /\ Followed /\ communityRow = "live"
         /\ (\A l \in Lanes : LaneOK(l)) /\ DeletedOK /\ ArrivedOK /\ ApprovalsOK
<1>1. /\ Len(sent) \in Nat /\ applied \in 0..Len(sent) /\ DOMAIN sent = 1..Len(sent)
      /\ strays \in Nat
  BY InboxBounds DEF OrderlyInv, InboxInv, InboxTypes
<1>2. applied' = i /\ i = applied + 1 /\ (\A l \in Lanes : work[l] = IdleLane) /\ strays' = strays
  BY <1>1 DEF Turn, Stray, Followed, Orderly
<1>3. Followed
  BY <1>2 DEF Followed, Orderly
<1>4. i \in 1..Len(sent) /\ applied \in Nat
  BY <1>1, <1>2 DEF Turn
<1> QED
  BY <1>1, <1>2, <1>3, <1>4 DEF OrderlyInv, OrderlyOK

LEMMA TakePostOrderly ==
  ASSUME OrderlyInv, NEW l \in Lanes, NEW i, TakePost(l, i), Carries(i, Posting)
  PROVE  OrderlyOK'
<1> SUFFICES ASSUME Followed'
             PROVE  communityRow' = "live" /\ (\A m \in Lanes : LaneOK(m)')
                    /\ DeletedOK' /\ ArrivedOK' /\ ApprovalsOK'
  BY DEF OrderlyOK
<1>1. Turn(i) /\ UNCHANGED <<hosted, origin, sent, tracked, postRow, replyRow>>
  BY DEF TakePost
<1>2. /\ applied' = i /\ i = applied + 1 /\ i \in 1..Len(sent) /\ applied \in Nat
      /\ 1..i = 1..applied \cup {i} /\ 1..applied \subseteq 1..Len(sent)
      /\ \A m \in Lanes : work[m] = IdleLane
      /\ Followed /\ communityRow = "live"
      /\ (\A m \in Lanes : LaneOK(m)) /\ DeletedOK /\ ArrivedOK /\ ApprovalsOK
  BY <1>1, InTurn
<1>3. /\ sent \in Seq(Activities) /\ work \in [Lanes -> Works] /\ hosted \in BOOLEAN
      /\ tracked \in BOOLEAN
      /\ SidesOK /\ DeletionsOK /\ StandingOK
  BY DEF OrderlyInv, InboxInv, InboxTypes, SentOK
<1>4. /\ communityRow' = communityRow
      /\ \/ work' = [work EXCEPT ![l] = Post(Approval(i), TRUE)]
         \/ origin.post # "live" /\ work' = work
  <2>1. ~EarlySkip(i)
    BY <1>2, <1>3 DEF EarlySkip, SidesOK, Followed, Carries, Announcing
  <2>2. ~RefuseUntracked(l)
    BY <1>2, <1>3 DEF RefuseUntracked, Followed
  <2> QED
    BY <1>2, <2>1, <2>2 DEF TakePost, Admit, StartWork
<1>5. \A k \in 1..applied : ~Deletes(k, "post")
  BY <1>2, <1>3 DEF DeletionsOK
<1>6. ~Deletes(i, "post") /\ ~Deletes(i, "reply") /\ ~Carries(i, {"Reply"})
      /\ \A a \in Announces : ~TakesBack(i, a)
  BY DEF Carries, Deletes, Posting, Announcing, TakesBack
<1>7. \A m \in Lanes : work'[m] = IdleLane \/ (m = l /\ work'[m] = Post(Approval(i), TRUE))
  BY <1>2, <1>3, <1>4
<1>8. ASSUME NEW m \in Lanes PROVE LaneOK(m)'
  <2>1. CASE work'[m] = IdleLane
    BY <2>1 DEF LaneOK, IdleLane
  <2>2. CASE work'[m] = Post(Approval(i), TRUE)
    <3>1. i > 0 /\ Carries(i, Posting)
      BY <1>2
    <3> QED
      BY <1>1, <1>2, <2>2, <3>1 DEF LaneOK, Post, Carries, Approval
  <2> QED
    BY <1>7, <2>1, <2>2
<1>9. DeletedOK'
  <2>1. \A k \in 1..i : ~Deletes(k, "post")
    BY <1>2, <1>5, <1>6
  <2>2. \A m \in Lanes : work'[m].pc \notin {"parent", "reply"}
    BY <1>7 DEF Post, IdleLane
  <2>3. \A k \in 1..i : Deletes(k, "reply") => replyRow # "live"
    BY <1>2, <1>6 DEF DeletedOK
  <2>4. /\ postRow.row # "tombstone"
        /\ replyRow = "tombstone" => \E k \in 1..i : Deletes(k, "reply")
    BY <1>2, <1>5 DEF DeletedOK
  <2> QED
    BY <1>1, <1>2, <2>1, <2>2, <2>3, <2>4 DEF DeletedOK, Deletes
<1>10. ArrivedOK'
  <2> SUFFICES ASSUME origin.post = "live", NEW k \in 1..i
               PROVE  /\ Carries(k, {"Create"}) => PostShown \/ \E m \in Lanes : work'[m].pc = "post"
                      /\ Carries(k, Announcing) /\ sent[k].id = origin.standing =>
                           PostShown \/ \E m \in Lanes : work'[m] = Post(sent[k].id, TRUE)
                      /\ Carries(k, {"Reply"}) /\ origin.reply = "live" =>
                           replyRow = "live" \/ \E m \in Lanes : work'[m].pc \in {"parent", "reply"}
    BY <1>1, <1>2 DEF ArrivedOK, Carries, PostShown
  <2>1. CASE k \in 1..applied
    BY <1>2, <2>1 DEF ArrivedOK, IdleLane, Post
  <2>2. CASE k = i
    <3>1. work'[l] = Post(Approval(i), TRUE)
      BY <1>3, <1>4
    <3>2. Carries(i, Announcing) => Approval(i) = sent[i].id
      BY DEF Carries, Announcing, Approval
    <3>3. work'[l].pc = "post"
      BY <3>1 DEF Post
    <3>4. Carries(i, Announcing) => work'[l] = Post(sent[i].id, TRUE)
      BY <3>1, <3>2
    <3> QED
      BY <1>6, <2>2, <3>3, <3>4
  <2> QED
    BY <1>2, <2>1, <2>2
<1>11. ApprovalsOK'
  <2> SUFFICES ASSUME ~hosted
               PROVE  /\ postRow.approved => postRow.by \in Announces \cup {"announceReply"}
                      /\ \A a \in Announces \ {origin.standing} :
                           (postRow.approved /\ postRow.by = a)
                             \/ (\E m \in Lanes : work'[m] = Post(a, TRUE)) =>
                             \E j \in 1..Len(sent) : j > i /\ TakesBack(j, a)
    BY <1>1, <1>2 DEF ApprovalsOK, TakesBack
  <2>1. postRow.approved => postRow.by \in Announces \cup {"announceReply"}
    BY <1>2 DEF ApprovalsOK
  <2>2. ASSUME NEW a \in Announces \ {origin.standing}, postRow.approved, postRow.by = a
        PROVE  \E j \in 1..Len(sent) : j > i /\ TakesBack(j, a)
    <3>1. PICK j \in 1..Len(sent) : j > applied /\ TakesBack(j, a)
      BY <1>2, <2>2 DEF ApprovalsOK
    <3> QED
      BY <1>2, <1>6, <3>1
  <2>3. ASSUME NEW a \in Announces \ {origin.standing}, NEW m \in Lanes, work'[m] = Post(a, TRUE)
        PROVE  \E j \in 1..Len(sent) : j > i /\ TakesBack(j, a)
    <3>1. a = Approval(i)
      BY <1>7, <2>3 DEF Post, IdleLane
    <3>2. Carries(i, Announcing) /\ Approval(i) = sent[i].id
      BY <1>2, <1>3 DEF SidesOK, Carries, Posting, Announcing, Approval
    <3> QED
      BY <1>2, <1>3, <3>1, <3>2 DEF StandingOK
  <2> QED
    BY <2>1, <2>2, <2>3
<1> QED
  BY <1>2, <1>4, <1>8, <1>9, <1>10, <1>11

\* When all lanes are idle, what was applied and is still there is written.
LEMMA AppliedWritten ==
  ASSUME ArrivedOK, origin.post = "live", \A l \in Lanes : work[l] = IdleLane,
         NEW k \in 1..applied
  PROVE  /\ Carries(k, {"Create"}) => PostShown
         /\ Carries(k, Announcing) /\ sent[k].id = origin.standing => PostShown
         /\ Carries(k, {"Reply"}) /\ origin.reply = "live" => replyRow = "live"
<1>1. ASSUME NEW l \in Lanes
      PROVE  work[l].pc \notin {"post", "parent", "reply"} /\ \A id : work[l] # Post(id, TRUE)
  BY DEF IdleLane, Post
<1> QED
  BY <1>1 DEF ArrivedOK

LEMMA TakeReplyOrderly ==
  ASSUME OrderlyInv, NEW l \in Lanes, NEW i, TakeReply(l, i)
  PROVE  OrderlyOK'
<1> SUFFICES ASSUME Followed'
             PROVE  communityRow' = "live" /\ (\A m \in Lanes : LaneOK(m)')
                    /\ DeletedOK' /\ ArrivedOK' /\ ApprovalsOK'
  BY DEF OrderlyOK
<1>1. Turn(i) /\ UNCHANGED <<hosted, origin, sent, tracked, postRow, replyRow>>
  BY DEF TakeReply
<1>2. /\ applied' = i /\ i = applied + 1 /\ i \in 1..Len(sent) /\ applied \in Nat
      /\ 1..i = 1..applied \cup {i} /\ 1..applied \subseteq 1..Len(sent)
      /\ \A m \in Lanes : work[m] = IdleLane
      /\ Followed /\ communityRow = "live"
      /\ (\A m \in Lanes : LaneOK(m)) /\ DeletedOK /\ ArrivedOK /\ ApprovalsOK
  BY <1>1, InTurn
<1>3. /\ sent \in Seq(Activities) /\ work \in [Lanes -> Works] /\ hosted \in BOOLEAN
      /\ tracked \in BOOLEAN /\ SidesOK /\ DeletionsOK /\ CreationsOK
  BY DEF OrderlyInv, InboxInv, InboxTypes, SentOK
<1>4. Carries(i, {"Reply"}) /\ ~Deletes(i, "post") /\ ~Deletes(i, "reply")
      /\ ~Carries(i, Announcing) /\ ~Carries(i, {"Create"})
      /\ \A a \in Announces : ~TakesBack(i, a)
  BY DEF TakeReply, Carries, Deletes, TakesBack, Announcing
<1>5. Wanted(FALSE) /\ ~RefuseUntracked(l)
  BY <1>2, <1>3 DEF Wanted, RefuseUntracked, Followed
\* The post of a hosted community came before its reply.
<1>h. hosted /\ origin.post = "live" => postRow.row = "live"
  <2>1. hosted => \E j \in 1..Len(sent) : j < i /\ Carries(j, {"Create"})
    BY <1>2, <1>3, <1>4 DEF CreationsOK
  <2>2. \A j \in 1..Len(sent) : j < i => j \in 1..applied
    BY <1>2
  <2> QED
    BY <1>2, <2>1, <2>2, AppliedWritten DEF PostShown
<1>6. /\ communityRow' = communityRow
      /\ \/ postRow.row = "live" /\ work' = [work EXCEPT ![l] = Reply(sent[i].id, TRUE)]
         \/ origin.post = "live" /\ ~hosted /\ work' = [work EXCEPT ![l] = Parent(sent[i].id)]
         \/ work' = work /\ \/ origin.reply # "live" \/ postRow.row = "tombstone"
                            \/ postRow.row = "none" /\ origin.post # "live"
  BY <1>2, <1>5, <1>h DEF TakeReply, StartWork
<1>7. \A m \in Lanes : \/ work'[m] = IdleLane
                       \/ m = l /\ work'[m] = Reply(sent[i].id, TRUE) /\ postRow.row = "live"
                       \/ m = l /\ work'[m] = Parent(sent[i].id) /\ ~hosted
  BY <1>2, <1>3, <1>6
<1>8. ASSUME NEW m \in Lanes PROVE LaneOK(m)'
  <2>1. i > 0 /\ Carries(i, {"Reply"}) /\ (~hosted => sent[i].id = "announceReply")
    BY <1>2, <1>3, <1>4 DEF SidesOK
  <2>2. CASE work'[m] = IdleLane
    BY <2>2 DEF LaneOK, IdleLane
  <2>3. CASE work'[m] = Reply(sent[i].id, TRUE) /\ postRow.row = "live"
    BY <1>1, <1>2, <2>1, <2>3 DEF LaneOK, Reply, Carries
  <2>4. CASE work'[m] = Parent(sent[i].id) /\ ~hosted
    BY <1>1, <1>2, <2>1, <2>4 DEF LaneOK, Parent, Carries
  <2> QED
    BY <1>7, <2>2, <2>3, <2>4
<1>9. DeletedOK'
  <2>1. \A k \in 1..applied : ~Deletes(k, "reply")
    BY <1>2, <1>3, <1>4 DEF DeletionsOK
  <2>2. \A k \in 1..applied : Deletes(k, "post") => postRow.row # "live" /\ origin.post # "live"
    BY <1>2, <1>3 DEF DeletedOK, DeletionsOK
  <2>3. \A k \in 1..applied : Deletes(k, "post") => \A m \in Lanes : work'[m] = IdleLane
    BY <1>2, <1>6, <2>2
  <2>4. /\ postRow.row = "tombstone" => \E k \in 1..applied : Deletes(k, "post")
        /\ replyRow # "tombstone"
    BY <1>2, <2>1 DEF DeletedOK
  <2> QED
    BY <1>1, <1>2, <1>4, <2>1, <2>2, <2>3, <2>4 DEF DeletedOK, Deletes
<1>10. ArrivedOK'
  <2> SUFFICES ASSUME origin.post = "live", NEW k \in 1..i
               PROVE  /\ Carries(k, {"Create"}) => PostShown
                      /\ Carries(k, Announcing) /\ sent[k].id = origin.standing => PostShown
                      /\ Carries(k, {"Reply"}) /\ origin.reply = "live" =>
                           replyRow = "live" \/ \E m \in Lanes : work'[m].pc \in {"parent", "reply"}
    BY <1>1, <1>2 DEF ArrivedOK, Carries, PostShown
  <2>1. ASSUME NEW j \in 1..applied
        PROVE  /\ Carries(j, {"Create"}) => PostShown
               /\ Carries(j, Announcing) /\ sent[j].id = origin.standing => PostShown
               /\ Carries(j, {"Reply"}) /\ origin.reply = "live" => replyRow = "live"
    BY <1>2, AppliedWritten
  <2>2. CASE k \in 1..applied
    BY <2>1, <2>2
  <2>3. CASE k = i
    <3>1. postRow.row # "tombstone"
      BY <1>2, <1>3 DEF DeletedOK, DeletionsOK
    <3>3. CASE work' = [work EXCEPT ![l] = Reply(sent[i].id, TRUE)]
      BY <1>3, <1>4, <2>3, <3>3 DEF Reply, Carries
    <3>4. CASE work' = [work EXCEPT ![l] = Parent(sent[i].id)]
      BY <1>3, <1>4, <2>3, <3>4 DEF Parent, Carries
    <3> QED
      BY <1>4, <1>6, <2>3, <3>1, <3>3, <3>4
  <2> QED
    BY <1>2, <2>2, <2>3
<1>11. ApprovalsOK'
  <2> SUFFICES ASSUME ~hosted
               PROVE  /\ postRow.approved => postRow.by \in Announces \cup {"announceReply"}
                      /\ \A a \in Announces \ {origin.standing} :
                           (postRow.approved /\ postRow.by = a)
                             \/ (\E m \in Lanes : work'[m] = Post(a, TRUE)) =>
                             \E j \in 1..Len(sent) : j > i /\ TakesBack(j, a)
    BY <1>1, <1>2 DEF ApprovalsOK, TakesBack
  <2>1. postRow.approved => postRow.by \in Announces \cup {"announceReply"}
    BY <1>2 DEF ApprovalsOK
  <2>2. ASSUME NEW a \in Announces \ {origin.standing}, postRow.approved, postRow.by = a
        PROVE  \E j \in 1..Len(sent) : j > i /\ TakesBack(j, a)
    <3>1. PICK j \in 1..Len(sent) : j > applied /\ TakesBack(j, a)
      BY <1>2, <2>2 DEF ApprovalsOK
    <3> QED
      BY <1>2, <1>4, <3>1
  <2>3. \A a, m : m \in Lanes => work'[m] # Post(a, TRUE)
    BY <1>7 DEF Post, IdleLane, Reply, Parent
  <2> QED
    BY <2>1, <2>2, <2>3
<1> QED
  BY <1>2, <1>6, <1>8, <1>9, <1>10, <1>11

LEMMA TakeDeleteOrderly ==
  ASSUME OrderlyInv, NEW l \in Lanes, NEW i, TakeDelete(l, i)
  PROVE  OrderlyOK'
<1> SUFFICES ASSUME Followed'
             PROVE  communityRow' = "live" /\ (\A m \in Lanes : LaneOK(m)')
                    /\ DeletedOK' /\ ArrivedOK' /\ ApprovalsOK'
  BY DEF OrderlyOK
<1>1. Turn(i) /\ UNCHANGED <<hosted, origin, sent, communityRow, tracked, work>>
  BY DEF TakeDelete
<1>2. /\ applied' = i /\ i = applied + 1 /\ i \in 1..Len(sent) /\ applied \in Nat
      /\ 1..i = 1..applied \cup {i} /\ 1..applied \subseteq 1..Len(sent)
      /\ \A m \in Lanes : work[m] = IdleLane
      /\ Followed /\ communityRow = "live"
      /\ (\A m \in Lanes : LaneOK(m)) /\ DeletedOK /\ ArrivedOK /\ ApprovalsOK
  BY <1>1, InTurn
<1>3. /\ SidesOK /\ DeletionsOK /\ postRow \in PostRows /\ replyRow \in RowStates
  BY DEF OrderlyInv, InboxInv, InboxTypes, SentOK
<1>4. ~Carries(i, Posting) /\ ~Carries(i, {"Reply"}) /\ \A a \in Announces : ~TakesBack(i, a)
  BY DEF TakeDelete, Carries, TakesBack, Posting, Announcing
<1>5. \/ /\ Deletes(i, "post") /\ ~Deletes(i, "reply")
         /\ postRow' = [postRow EXCEPT !.row = Dismissed(@)] /\ replyRow' = replyRow
      \/ /\ Deletes(i, "reply") /\ ~Deletes(i, "post")
         /\ postRow' = postRow /\ replyRow' = Dismissed(replyRow)
  BY <1>2, <1>3 DEF TakeDelete, Deletes, SidesOK, Carries
<1>6. /\ postRow'.approved = postRow.approved /\ postRow'.by = postRow.by
      /\ postRow'.row \in {postRow.row, Dismissed(postRow.row)}
      /\ Deletes(i, "post") => postRow'.row = Dismissed(postRow.row)
      /\ ~Deletes(i, "post") => postRow' = postRow
      /\ replyRow' \in {replyRow, Dismissed(replyRow)}
      /\ Deletes(i, "reply") => replyRow' = Dismissed(replyRow)
      /\ ~Deletes(i, "reply") => replyRow' = replyRow
  BY <1>3, <1>5 DEF PostRows
<1>7. ASSUME NEW m \in Lanes PROVE LaneOK(m)' /\ work'[m] = IdleLane
  <2>1. work'[m] = IdleLane
    BY <1>1, <1>2
  <2> QED
    BY <2>1 DEF LaneOK, IdleLane
<1>8. DeletedOK'
  <2>1. \A k \in 1..i : Deletes(k, "post") => postRow'.row # "live"
    BY <1>2, <1>6 DEF DeletedOK, Dismissed
  <2>2. \A k \in 1..i : Deletes(k, "reply") => replyRow' # "live"
    BY <1>2, <1>6 DEF DeletedOK, Dismissed
  <2>3. postRow'.row = "tombstone" => \E k \in 1..i : Deletes(k, "post")
    BY <1>2, <1>6 DEF DeletedOK
  <2>4. replyRow' = "tombstone" => \E k \in 1..i : Deletes(k, "reply")
    BY <1>2, <1>6 DEF DeletedOK
  <2>5. \A m \in Lanes : work'[m].pc = "idle"
    BY <1>7 DEF IdleLane
  <2> QED
    BY <1>1, <1>2, <1>7, <2>1, <2>2, <2>3, <2>4, <2>5 DEF DeletedOK, Deletes
<1>9. ArrivedOK'
  <2> SUFFICES ASSUME origin.post = "live", NEW k \in 1..i
               PROVE  /\ Carries(k, {"Create"}) => PostShown'
                      /\ Carries(k, Announcing) /\ sent[k].id = origin.standing => PostShown'
                      /\ Carries(k, {"Reply"}) /\ origin.reply = "live" => replyRow' = "live"
    BY <1>1, <1>2 DEF ArrivedOK, Carries
  <2>1. k \in 1..applied \/ k = i
    BY <1>2
  <2>2. postRow' = postRow /\ (origin.reply = "live" => replyRow' = replyRow)
    BY <1>2, <1>3, <1>6 DEF DeletionsOK
  <2>3. CASE k \in 1..applied
    BY <1>2, <2>2, <2>3, AppliedWritten DEF PostShown
  <2> QED
    BY <1>4, <2>1, <2>3 DEF Carries, Posting
<1>10. ApprovalsOK'
  <2> SUFFICES ASSUME ~hosted
               PROVE  /\ postRow.approved => postRow.by \in Announces \cup {"announceReply"}
                      /\ \A a \in Announces \ {origin.standing} :
                           (postRow.approved /\ postRow.by = a)
                             \/ (\E m \in Lanes : work'[m] = Post(a, TRUE)) =>
                             \E j \in 1..Len(sent) : j > i /\ TakesBack(j, a)
    BY <1>1, <1>2, <1>6 DEF ApprovalsOK, TakesBack
  <2>1. postRow.approved => postRow.by \in Announces \cup {"announceReply"}
    BY <1>2 DEF ApprovalsOK
  <2>2. ASSUME NEW a \in Announces \ {origin.standing}, postRow.approved, postRow.by = a
        PROVE  \E j \in 1..Len(sent) : j > i /\ TakesBack(j, a)
    <3>1. PICK j \in 1..Len(sent) : j > applied /\ TakesBack(j, a)
      BY <1>2, <2>2 DEF ApprovalsOK
    <3> QED
      BY <1>2, <1>4, <3>1
  <2>3. \A a, m : m \in Lanes => work'[m] # Post(a, TRUE)
    BY <1>7 DEF Post, IdleLane
  <2> QED
    BY <2>1, <2>2, <2>3
<1> QED
  BY <1>1, <1>2, <1>7, <1>8, <1>9, <1>10

\* An announcement that stands was not taken back by what was applied.
LEMMA TakeBackOrderly ==
  ASSUME OrderlyInv, NEW l \in Lanes, NEW i, TakeUndo(l, i) \/ TakeRemove(l, i)
  PROVE  OrderlyOK'
<1> SUFFICES ASSUME Followed'
             PROVE  communityRow' = "live" /\ (\A m \in Lanes : LaneOK(m)')
                    /\ DeletedOK' /\ ArrivedOK' /\ ApprovalsOK'
  BY DEF OrderlyOK
<1>1. Turn(i) /\ UNCHANGED <<hosted, origin, sent, communityRow, tracked, replyRow, work>>
  BY DEF TakeUndo, TakeRemove
<1>2. /\ applied' = i /\ i = applied + 1 /\ i \in 1..Len(sent) /\ applied \in Nat
      /\ 1..i = 1..applied \cup {i} /\ 1..applied \subseteq 1..Len(sent)
      /\ \A m \in Lanes : work[m] = IdleLane
      /\ Followed /\ communityRow = "live"
      /\ (\A m \in Lanes : LaneOK(m)) /\ DeletedOK /\ ArrivedOK /\ ApprovalsOK
  BY <1>1, InTurn
<1>3. /\ SidesOK /\ StandingOK /\ RowsOK /\ postRow \in PostRows
  BY DEF OrderlyInv, InboxInv, InboxTypes, SentOK
<1>4. Carries(i, Revoking) /\ ~Carries(i, {"Reply"}) /\ ~Deletes(i, "post") /\ ~Deletes(i, "reply")
      /\ ~Carries(i, Announcing) /\ ~Carries(i, {"Create"})
  BY DEF TakeUndo, TakeRemove, Carries, Revoking, Deletes, Announcing
<1>5. ~hosted
  BY <1>2, <1>3, <1>4 DEF SidesOK
<1>6. /\ postRow' = postRow \/ postRow' = Rejected
      /\ TakesBack(i, postRow.by) /\ postRow.row # "none" => postRow' = Rejected
  BY <1>2 DEF TakeUndo, TakeRemove, TakesBack
<1>7. postRow'.row = postRow.row /\ (postRow'.approved => postRow' = postRow)
  BY <1>3, <1>6 DEF Rejected, PostRows
<1>8. ASSUME NEW m \in Lanes PROVE LaneOK(m)' /\ work'[m] = IdleLane
  <2>1. work'[m] = IdleLane
    BY <1>1, <1>2
  <2> QED
    BY <2>1 DEF LaneOK, IdleLane
<1>9. DeletedOK'
  BY <1>1, <1>2, <1>4, <1>7, <1>8 DEF DeletedOK, Deletes
<1>10. ArrivedOK'
  <2> SUFFICES ASSUME origin.post = "live", NEW k \in 1..i
               PROVE  /\ ~Carries(k, {"Create"})
                      /\ ~(Carries(k, Announcing) /\ sent[k].id = origin.standing)
                      /\ Carries(k, {"Reply"}) /\ origin.reply = "live" => replyRow = "live"
    BY <1>1, <1>2 DEF ArrivedOK, Carries
  <2>1. k \in 1..Len(sent) /\ (k \in 1..applied \/ k = i) /\ ~(i < k)
    BY <1>2
  <2>2. ~Carries(k, {"Create"})
    BY <1>3, <1>5, <2>1 DEF SidesOK
  <2>3. ~(Carries(k, Announcing) /\ sent[k].id = origin.standing)
    BY <1>2, <1>3, <1>4, <2>1 DEF StandingOK
  <2>4. Carries(k, {"Reply"}) /\ origin.reply = "live" => replyRow = "live"
    BY <1>2, <1>4, <2>1, AppliedWritten
  <2> QED
    BY <2>2, <2>3, <2>4
<1>11. ApprovalsOK'
  <2> SUFFICES        /\ postRow'.approved => postRow'.by \in Announces \cup {"announceReply"}
                      /\ \A a \in Announces \ {origin.standing} :
                           (postRow'.approved /\ postRow'.by = a)
                             \/ (\E m \in Lanes : work'[m] = Post(a, TRUE)) =>
                             \E j \in 1..Len(sent) : j > i /\ TakesBack(j, a)
    BY <1>1, <1>2 DEF ApprovalsOK, TakesBack
  <2>1. postRow'.approved => postRow'.by \in Announces \cup {"announceReply"}
    BY <1>2, <1>5, <1>7 DEF ApprovalsOK
  <2>2. ASSUME NEW a \in Announces \ {origin.standing}, postRow'.approved, postRow'.by = a
        PROVE  \E j \in 1..Len(sent) : j > i /\ TakesBack(j, a)
    <3>a. postRow' = postRow /\ postRow.approved
      BY <1>7, <2>2
    <3>b. ~Rejected.approved /\ ~NoPost.approved
      BY <1>3 DEF NoPost, Rejected, PostRows
    <3>1. postRow' = postRow /\ postRow.row # "none" /\ postRow' # Rejected
      BY <1>3, <3>a, <3>b DEF RowsOK
    <3>2. PICK j \in 1..Len(sent) : j > applied /\ TakesBack(j, a)
      BY <1>2, <1>5, <2>2, <3>1 DEF ApprovalsOK
    <3>3. ~TakesBack(i, a)
      BY <1>6, <2>2, <3>1
    <3> QED
      BY <1>2, <3>2, <3>3
  <2>3. \A a, m : m \in Lanes => work'[m] # Post(a, TRUE)
    BY <1>8 DEF Post, IdleLane
  <2> QED
    BY <2>1, <2>2, <2>3
<1> QED
  BY <1>1, <1>2, <1>8, <1>9, <1>10, <1>11

\* What was applied stays, and lanes go on with what is not written yet.
LEMMA ArrivedLeft ==
  ASSUME ArrivedOK, UNCHANGED <<origin, sent, postRow, applied>>,
         replyRow = "live" => replyRow' = "live",
         \A l \in Lanes :
           /\ work[l].pc = "post" => work'[l].pc = "post"
           /\ \A id : work[l] = Post(id, TRUE) => work'[l] = Post(id, TRUE)
           /\ work[l].pc \in {"parent", "reply"} =>
                work'[l].pc \in {"parent", "reply"} \/ replyRow' = "live"
  PROVE  ArrivedOK'
<1> SUFFICES ASSUME origin.post = "live", NEW k \in 1..applied
             PROVE  /\ Carries(k, {"Create"}) => PostShown \/ \E l \in Lanes : work'[l].pc = "post"
                    /\ Carries(k, Announcing) /\ sent[k].id = origin.standing =>
                         PostShown \/ \E l \in Lanes : work'[l] = Post(sent[k].id, TRUE)
                    /\ Carries(k, {"Reply"}) /\ origin.reply = "live" =>
                         replyRow' = "live" \/ \E l \in Lanes : work'[l].pc \in {"parent", "reply"}
  BY DEF ArrivedOK, Carries, PostShown
<1>1. ASSUME Carries(k, {"Create"})
      PROVE  PostShown \/ \E l \in Lanes : work'[l].pc = "post"
  <2>1. PostShown \/ \E l \in Lanes : work[l].pc = "post"
    BY <1>1 DEF ArrivedOK
  <2> QED
    BY <2>1
<1>2. ASSUME Carries(k, Announcing), sent[k].id = origin.standing
      PROVE  PostShown \/ \E l \in Lanes : work'[l] = Post(sent[k].id, TRUE)
  <2>1. PostShown \/ \E l \in Lanes : work[l] = Post(sent[k].id, TRUE)
    BY <1>2 DEF ArrivedOK
  <2> QED
    BY <2>1
<1>3. ASSUME Carries(k, {"Reply"}), origin.reply = "live"
      PROVE  replyRow' = "live" \/ \E l \in Lanes : work'[l].pc \in {"parent", "reply"}
  <2>1. replyRow = "live" \/ \E l \in Lanes : work[l].pc \in {"parent", "reply"}
    BY <1>3 DEF ArrivedOK
  <2> QED
    BY <2>1
<1> QED
  BY <1>1, <1>2, <1>3

LEMMA TakeRefreshedOrderly ==
  ASSUME OrderlyInv, NEW l \in Lanes, TakeRefreshed(l)
  PROVE  OrderlyOK'
<1> SUFFICES ASSUME Followed'
             PROVE  communityRow' = "live" /\ (\A m \in Lanes : LaneOK(m)')
                    /\ DeletedOK' /\ ArrivedOK' /\ ApprovalsOK'
  BY DEF OrderlyOK
<1>1. /\ ~hosted /\ origin.post = "live" /\ postRow.row # "none" /\ work[l] = IdleLane
      /\ work' = [work EXCEPT ![l] = Post("nobody", FALSE)]
      /\ UNCHANGED <<hosted, origin, sent, communityRow, tracked, postRow, replyRow, applied,
                     strays>>
  BY DEF TakeRefreshed, Admit, StartWork
<1>2. communityRow = "live" /\ (\A m \in Lanes : LaneOK(m)) /\ DeletedOK /\ ArrivedOK /\ ApprovalsOK
  BY <1>1 DEF OrderlyInv, OrderlyOK, Followed, Orderly
<1>3. /\ work \in [Lanes -> Works] /\ DeletionsOK
      /\ \A k \in 1..applied : k \in 1..Len(sent)
  BY DEF OrderlyInv, InboxInv, InboxTypes, SentOK
<1>4. \A m \in Lanes \ {l} : work'[m] = work[m]
  BY <1>1, <1>3
<1>5. work'[l] = Post("nobody", FALSE)
  BY <1>1, <1>3
<1>6. ASSUME NEW m \in Lanes PROVE LaneOK(m)'
  <2>1. CASE m = l
    BY <1>1, <1>5, <2>1 DEF LaneOK, Post
  <2>2. CASE m # l
    BY <1>1, <1>2, <1>4, <2>2 DEF LaneOK, Carries, Approval
  <2> QED
    BY <2>1, <2>2
<1>7. DeletedOK'
  <2>1. \A k \in 1..applied : ~Deletes(k, "post")
    BY <1>1, <1>3 DEF DeletionsOK
  <2>2. work'[l].pc = "post"
    BY <1>5 DEF Post
  <2> QED
    BY <1>1, <1>2, <1>4, <2>1, <2>2 DEF DeletedOK, Deletes
<1>8. ArrivedOK'
  <2>1. ASSUME NEW m \in Lanes
        PROVE  /\ work[m].pc \in {"post", "parent", "reply"} => work'[m] = work[m]
               /\ \A id : work[m] = Post(id, TRUE) => work'[m] = work[m]
    BY <1>1, <1>4 DEF IdleLane, Post
  <2> QED
    BY <1>1, <1>2, <2>1, ArrivedLeft
<1>9. ApprovalsOK'
  <2>1. ASSUME NEW m \in Lanes, NEW id PROVE work'[m] = Post(id, TRUE) => work[m] = Post(id, TRUE)
    BY <1>4, <1>5 DEF Post
  <2> QED
    BY <1>1, <1>2, <2>1 DEF ApprovalsOK, TakesBack
<1> QED
  BY <1>1, <1>2, <1>6, <1>7, <1>8, <1>9

\* What a lane that writes the post makes of its row.
LEMMA StoredOrderly ==
  ASSUME postRow \in PostRows, NEW w, w.approves = TRUE, StorePost(w), postRow.row # "tombstone"
  PROVE  postRow'.row = "live" /\ postRow'.approved /\ postRow'.by = w.by
<1>1. Approving(w)
  BY DEF Approving
<1>2. CASE postRow.row = "none"
  BY <1>1, <1>2 DEF StorePost
<1>3. CASE postRow.row = "live"
  BY <1>1, <1>3 DEF StorePost, PostRows
<1> QED
  BY <1>2, <1>3 DEF PostRows, RowStates

LEMMA WriteOrderly ==
  ASSUME OrderlyInv, NEW l \in Lanes, WritePost(l) \/ WriteParent(l)
  PROVE  OrderlyOK'
<1> SUFFICES ASSUME Followed'
             PROVE  communityRow' = "live" /\ (\A m \in Lanes : LaneOK(m)')
                    /\ DeletedOK' /\ ArrivedOK' /\ ApprovalsOK'
  BY DEF OrderlyOK
<1>1. UNCHANGED <<hosted, origin, sent, communityRow, tracked, replyRow, applied, strays>>
  BY DEF WritePost, WriteParent
<1>2. communityRow = "live" /\ (\A m \in Lanes : LaneOK(m)) /\ DeletedOK /\ ArrivedOK /\ ApprovalsOK
  BY <1>1 DEF OrderlyInv, OrderlyOK, Followed, Orderly
<1>3. /\ work \in [Lanes -> Works] /\ postRow \in PostRows /\ hosted \in BOOLEAN
      /\ SidesOK /\ applied \in Nat /\ (applied > 0 => applied \in 1..Len(sent))
      /\ \A k \in 1..applied : k \in 1..Len(sent)
  BY DEF OrderlyInv, InboxInv, InboxTypes, SentOK
<1>4. work[l].pc \in {"post", "parent"}
  BY DEF WritePost, WriteParent
<1>5. /\ \A k \in 1..applied : ~Deletes(k, "post")
      /\ postRow.row # "tombstone"
  BY <1>2, <1>4 DEF DeletedOK, IdleLane
<1>6. \/ work[l].pc = "post" /\ work' = [work EXCEPT ![l] = IdleLane] /\ StorePost(work[l])
      \/ /\ work[l].pc = "parent" /\ work' = [work EXCEPT ![l] = Reply(work[l].by, TRUE)]
         /\ StorePost(AsParent(work[l].by))
  BY <1>2 DEF WritePost, WriteParent, Ends
<1>7. \A m \in Lanes \ {l} : work'[m] = work[m]
  BY <1>3, <1>6
\* A refresh changes nothing; everything else that writes the post approves it.
<1>8. \/ /\ postRow' = postRow /\ postRow.row # "none" /\ ~hosted
         /\ work[l] = Post("nobody", FALSE) /\ work'[l] = IdleLane
      \/ /\ postRow'.row = "live" /\ postRow'.approved /\ postRow'.by = Approval(applied)
         /\ applied > 0 /\ Carries(applied, Posting)
         /\ work[l] = Post(Approval(applied), TRUE) /\ work'[l] = IdleLane
      \/ /\ postRow'.row = "live" /\ postRow'.approved /\ postRow'.by = "announceReply"
         /\ applied > 0 /\ Carries(applied, {"Reply"}) /\ ~hosted
         /\ work[l].pc = "parent" /\ work'[l] = Reply("announceReply", TRUE)
  <2>1. CASE work[l].pc = "post" /\ work' = [work EXCEPT ![l] = IdleLane] /\ StorePost(work[l])
    <3>1. CASE work[l] = Post("nobody", FALSE) /\ ~hosted /\ postRow.row # "none"
      <4>1. ~Approving(work[l])
        BY <3>1 DEF Approving, Post
      <4>2. postRow' = [postRow EXCEPT !.approved = @ \/ Approving(work[l]), !.by = @]
        BY <2>1, <3>1, <4>1 DEF StorePost
      <4>3. postRow' = postRow
        BY <1>3, <4>1, <4>2 DEF PostRows
      <4> QED
        BY <1>3, <2>1, <3>1, <4>3
    <3>2. CASE applied > 0 /\ Carries(applied, Posting) /\ work[l] = Post(Approval(applied), TRUE)
      <4>1. work[l].approves = TRUE /\ work[l].by = Approval(applied)
        BY <3>2 DEF Post
      <4>2. postRow'.row = "live" /\ postRow'.approved /\ postRow'.by = work[l].by
        BY <1>3, <1>5, <2>1, <4>1, StoredOrderly
      <4> QED
        BY <1>3, <2>1, <3>2, <4>1, <4>2
    <3> QED
      BY <1>2, <2>1, <3>1, <3>2 DEF LaneOK
  <2>2. CASE /\ work[l].pc = "parent" /\ work' = [work EXCEPT ![l] = Reply(work[l].by, TRUE)]
             /\ StorePost(AsParent(work[l].by))
    <3>1. work[l].by = "announceReply" /\ ~hosted /\ applied > 0 /\ Carries(applied, {"Reply"})
      BY <1>2, <2>2 DEF LaneOK
    <3>2. AsParent(work[l].by).approves = TRUE /\ AsParent(work[l].by).by = "announceReply"
      BY <3>1 DEF AsParent, Post
    <3>3. postRow'.row = "live" /\ postRow'.approved /\ postRow'.by = "announceReply"
      BY <1>3, <1>5, <2>2, <3>2, StoredOrderly
    <3> QED
      BY <1>3, <2>2, <3>1, <3>3
  <2> QED
    BY <1>6, <2>1, <2>2
<1>9. postRow'.row # "none" /\ postRow'.row # "tombstone" /\ (postRow.row = "live" => postRow'.row = "live")
  BY <1>5, <1>8
<1>10. ASSUME NEW m \in Lanes PROVE LaneOK(m)'
  <2>1. CASE m # l
    <3>1. work'[m] = work[m] /\ LaneOK(m)
      BY <1>2, <1>7, <2>1
    <3> QED
      BY <1>1, <1>9, <3>1 DEF LaneOK, Carries, Approval
  <2>2. CASE m = l
    <3>1. CASE work'[l] = IdleLane
      BY <2>2, <3>1 DEF LaneOK, IdleLane
    <3>2. CASE postRow'.row = "live" /\ applied > 0 /\ Carries(applied, {"Reply"})
               /\ work'[l] = Reply("announceReply", TRUE)
      BY <1>1, <2>2, <3>2 DEF LaneOK, Reply, Carries
    <3> QED
      BY <1>8, <3>1, <3>2
  <2> QED
    BY <2>1, <2>2
<1>11. DeletedOK'
  <2>1. \A m \in Lanes : work'[m].pc \in {"parent", "reply"} => \E n \in Lanes : work[n].pc \in {"parent", "reply"}
    <3>1. work'[l].pc \in {"parent", "reply"} => work[l].pc = "parent"
      <4>1. CASE work'[l] = IdleLane
        BY <4>1 DEF IdleLane
      <4> QED
        BY <1>8, <4>1
    <3> QED
      BY <1>7, <3>1
  <2>2. \A k \in 1..applied : Deletes(k, "reply") =>
          replyRow # "live" /\ \A m \in Lanes : work'[m].pc \notin {"parent", "reply"}
    BY <1>2, <2>1 DEF DeletedOK
  <2>3. replyRow = "tombstone" => \E k \in 1..applied : Deletes(k, "reply")
    BY <1>2 DEF DeletedOK
  <2> QED
    BY <1>1, <1>5, <1>9, <2>2, <2>3 DEF DeletedOK, Deletes
<1>12. ArrivedOK'
  <2> SUFFICES ASSUME origin.post = "live", NEW k \in 1..applied
               PROVE  /\ Carries(k, {"Create"}) => PostShown'
                      /\ Carries(k, Announcing) /\ sent[k].id = origin.standing =>
                           PostShown' \/ \E m \in Lanes : work'[m] = Post(sent[k].id, TRUE)
                      /\ Carries(k, {"Reply"}) /\ origin.reply = "live" =>
                           replyRow = "live" \/ \E m \in Lanes : work'[m].pc \in {"parent", "reply"}
    BY <1>1 DEF ArrivedOK, Carries
  <2>1. ASSUME Carries(k, {"Reply"}), origin.reply = "live", replyRow # "live"
        PROVE  \E m \in Lanes : work'[m].pc \in {"parent", "reply"}
    <3>1. PICK m \in Lanes : work[m].pc \in {"parent", "reply"}
      BY <1>2, <2>1 DEF ArrivedOK
    <3>2. m = l => work'[l].pc = "reply"
      BY <1>8, <3>1 DEF Post, Reply
    <3> QED
      BY <1>7, <3>1, <3>2
  <2>2. CASE postRow'.row = "live" /\ postRow'.approved
    BY <2>1, <2>2 DEF PostShown
  <2>3. CASE postRow' = postRow /\ ~hosted /\ work[l] = Post("nobody", FALSE)
    <3>1. ~Carries(k, {"Create"})
      BY <1>3, <2>3 DEF SidesOK
    <3>2. \A id : work[l] # Post(id, TRUE)
      BY <2>3 DEF Post
    <3>3. PostShown' <=> PostShown
      BY <2>3 DEF PostShown
    <3>4. Carries(k, Announcing) /\ sent[k].id = origin.standing =>
            PostShown \/ \E m \in Lanes : work'[m] = Post(sent[k].id, TRUE)
      BY <1>2, <1>7, <3>2 DEF ArrivedOK
    <3> QED
      BY <2>1, <3>1, <3>3, <3>4
  <2> QED
    BY <1>8, <2>2, <2>3
<1>13. ApprovalsOK'
  <2>1. ASSUME NEW m \in Lanes, NEW id PROVE work'[m] = Post(id, TRUE) => work[m] = Post(id, TRUE)
    BY <1>7, <1>8 DEF Post, IdleLane, Reply
  <2>2. CASE postRow' = postRow
    BY <1>1, <1>2, <2>1, <2>2 DEF ApprovalsOK, TakesBack
  <2>3. CASE /\ postRow'.by = Approval(applied) /\ applied > 0 /\ Carries(applied, Posting)
             /\ work[l] = Post(Approval(applied), TRUE)
    <3>1. ~hosted => Approval(applied) \in Announces
      BY <1>3, <2>3 DEF SidesOK, Carries, Posting, Announcing, Approval
    <3>2. ASSUME ~hosted, NEW a \in Announces \ {origin.standing},
                 a = Approval(applied) \/ \E m \in Lanes : work'[m] = Post(a, TRUE)
          PROVE  \E j \in 1..Len(sent) : j > applied /\ TakesBack(j, a)
      <4>1. \E m \in Lanes : work[m] = Post(a, TRUE)
        BY <2>1, <2>3, <3>2
      <4> QED
        BY <1>2, <3>2, <4>1 DEF ApprovalsOK
    <3> QED
      BY <1>1, <2>3, <3>1, <3>2 DEF ApprovalsOK, TakesBack
  <2>4. CASE postRow'.by = "announceReply"
    <3>1. "announceReply" \notin Announces
      BY InboxAssumption
    <3> QED
      BY <1>1, <1>2, <2>1, <2>4, <3>1 DEF ApprovalsOK, TakesBack
  <2> QED
    BY <1>8, <2>2, <2>3, <2>4
<1> QED
  BY <1>1, <1>2, <1>10, <1>11, <1>12, <1>13

LEMMA WriteReplyRowOrderly ==
  ASSUME OrderlyInv, NEW l \in Lanes, WriteReplyRow(l)
  PROVE  OrderlyOK'
<1> SUFFICES ASSUME Followed'
             PROVE  communityRow' = "live" /\ (\A m \in Lanes : LaneOK(m)')
                    /\ DeletedOK' /\ ArrivedOK' /\ ApprovalsOK'
  BY DEF OrderlyOK
<1>1. /\ UNCHANGED <<hosted, origin, sent, communityRow, tracked, postRow, applied, strays>>
      /\ work[l].pc = "reply" /\ work' = [work EXCEPT ![l] = IdleLane]
  BY DEF WriteReplyRow, Ends
<1>2. communityRow = "live" /\ (\A m \in Lanes : LaneOK(m)) /\ DeletedOK /\ ArrivedOK /\ ApprovalsOK
  BY <1>1 DEF OrderlyInv, OrderlyOK, Followed, Orderly
<1>3. /\ work \in [Lanes -> Works] /\ replyRow \in RowStates /\ DeletionsOK
      /\ \A k \in 1..applied : k \in 1..Len(sent)
  BY DEF OrderlyInv, InboxInv, InboxTypes, SentOK
<1>4. postRow.row = "live"
  BY <1>1, <1>2 DEF LaneOK
<1>5. /\ \A k \in 1..applied : ~Deletes(k, "post") /\ ~Deletes(k, "reply")
      /\ replyRow # "tombstone"
  BY <1>1, <1>2 DEF DeletedOK, IdleLane
<1>6. replyRow' = "live"
  BY <1>2, <1>3, <1>4, <1>5 DEF WriteReplyRow, RowStates
<1>7. work'[l] = IdleLane /\ \A m \in Lanes \ {l} : work'[m] = work[m]
  BY <1>1, <1>3
<1>8. ASSUME NEW m \in Lanes PROVE LaneOK(m)'
  <2>1. CASE m = l
    <3>1. work'[m] = IdleLane
      BY <1>7, <2>1
    <3> QED
      BY <3>1 DEF LaneOK, IdleLane
  <2>2. CASE m # l
    BY <1>1, <1>2, <1>7, <2>2 DEF LaneOK, Carries, Approval
  <2> QED
    BY <2>1, <2>2
<1>9. DeletedOK'
  BY <1>1, <1>4, <1>5, <1>6 DEF DeletedOK, Deletes
<1>10. ArrivedOK'
  <2>1. ASSUME NEW m \in Lanes
        PROVE  /\ work[m].pc = "post" => work'[m] = work[m]
               /\ \A id : work[m] = Post(id, TRUE) => work'[m] = work[m]
    BY <1>1, <1>7 DEF Post
  <2> QED
    BY <1>1, <1>2, <1>6, <2>1, ArrivedLeft
<1>11. ApprovalsOK'
  <2>1. ASSUME NEW m \in Lanes, NEW id PROVE work'[m] = Post(id, TRUE) => work[m] = Post(id, TRUE)
    BY <1>7 DEF Post, IdleLane
  <2> QED
    BY <1>1, <1>2, <2>1 DEF ApprovalsOK, TakesBack
<1> QED
  BY <1>1, <1>2, <1>8, <1>9, <1>10, <1>11

\* Whatever comes otherwise ends the good order.
LEMMA StrayEndsOrder == ASSUME InboxTypes, Stray PROVE OrderlyOK'
<1>1. strays \in Nat /\ strays' = strays + 1
  BY InboxBounds DEF InboxTypes, Stray
<1> QED
  BY <1>1 DEF OrderlyOK, Followed, Orderly

LEMMA OrderlyInitInv == InboxInit => OrderlyInv
<1> SUFFICES ASSUME InboxInit PROVE SentOK /\ OrderlyOK
  BY InboxInitInv DEF OrderlyInv
<1>1. Len(sent) = 0 /\ applied = 0 /\ \A k \in 1..0 : FALSE
  BY DEF InboxInit
<1>2. "nobody" \notin Announces
  BY InboxAssumption
<1>3. SentOK
  BY <1>1, <1>2 DEF InboxInit, SentOK, SidesOK, DeletionsOK, CreationsOK, StandingOK
<1>4. OrderlyOK
  <2>1. ASSUME NEW l \in Lanes PROVE work[l] = IdleLane
    BY DEF InboxInit
  <2>2. ASSUME NEW l \in Lanes PROVE LaneOK(l) /\ \A id : work[l] # Post(id, TRUE)
    BY <2>1 DEF LaneOK, IdleLane, Post
  <2>3. DeletedOK /\ ArrivedOK
    BY <1>1 DEF InboxInit, DeletedOK, ArrivedOK, NoPost
  <2>4. ApprovalsOK
    BY <2>2 DEF InboxInit, ApprovalsOK, NoPost
  <2> QED
    BY <2>2, <2>3, <2>4 DEF InboxInit, OrderlyOK
<1> QED
  BY <1>3, <1>4

\* A step that is at neither rows nor tasks.
LEMMA IdleStepOrderly ==
  ASSUME OrderlyInv, UNCHANGED <<hosted, origin, sent, communityRow, tracked, postRow, replyRow, work,
                                 applied, strays>>
  PROVE  OrderlyOK'
<1> SUFFICES ASSUME Followed'
             PROVE  communityRow' = "live" /\ (\A m \in Lanes : LaneOK(m)')
                    /\ DeletedOK' /\ ArrivedOK' /\ ApprovalsOK'
  BY DEF OrderlyOK
<1>2. communityRow = "live" /\ (\A m \in Lanes : LaneOK(m)) /\ DeletedOK /\ ArrivedOK /\ ApprovalsOK
  BY DEF OrderlyInv, OrderlyOK, Followed, Orderly
<1>3. \A m \in Lanes : LaneOK(m)'
  BY <1>2 DEF LaneOK, Carries, Approval
<1>4. DeletedOK'
  BY <1>2 DEF DeletedOK, Deletes
<1>5. ArrivedOK'
  BY <1>2, ArrivedLeft
<1>6. ApprovalsOK'
  BY <1>2 DEF ApprovalsOK, TakesBack
<1> QED
  BY <1>2, <1>3, <1>4, <1>5, <1>6

LEMMA OrderlyKept == OrderlyInv /\ [InboxNext]_inboxVars => OrderlyInv'
<1> SUFFICES ASSUME OrderlyInv, [InboxNext]_inboxVars PROVE OrderlyInv'
  OBVIOUS
<1>1. InboxInv' /\ InboxTypes
  BY InboxKept DEF OrderlyInv, InboxInv
<1>2. SentOK'
  <2>1. CASE Sending
    BY <1>1, <2>1, SentKept DEF OrderlyInv
  <2>2. CASE UNCHANGED <<hosted, origin, sent>>
    BY <2>2, SentLeft DEF OrderlyInv
  <2>3. ASSUME NEW l \in Lanes, NEW i, TakePost(l, i) \/ TakeReply(l, i) \/ TakeDelete(l, i)
                                         \/ TakeUndo(l, i) \/ TakeRemove(l, i)
        PROVE  UNCHANGED <<hosted, origin, sent>>
    BY <2>3 DEF TakePost, TakeReply, TakeDelete, TakeUndo, TakeRemove
  <2>4. ASSUME NEW l \in Lanes, NEW preview \in BOOLEAN,
               TakeListed(l, preview) \/ TakeLookedUp(l) \/ TakeRefreshed(l) \/ WritePost(l)
                 \/ WriteParent(l) \/ WriteReplyRow(l)
        PROVE  UNCHANGED <<hosted, origin, sent>>
    BY <2>4 DEF TakeListed, TakeLookedUp, TakeRefreshed, WritePost, WriteParent, WriteReplyRow
  <2>5. CASE TrackChanges \/ TakeCommunityDelete \/ CleanUp \/ UNCHANGED inboxVars
    BY <2>2, <2>5 DEF TrackChanges, TakeCommunityDelete, CleanUp, inboxVars
  <2>6. Sending \/ UNCHANGED <<hosted, origin, sent>>
    BY <2>3, <2>4, <2>5
       DEF InboxNext, Sending, TakeAnnounce, TakeAdd, TakeCreate, TrackChanges,
           TakeCommunityDelete, Forward, StopInbox, CleanUp, inboxVars
  <2> QED
    BY <2>1, <2>2, <2>6
<1>3. OrderlyOK'
  <2>1. CASE Sending
    BY <2>1, OrderlySending
  <2>2. ASSUME NEW l \in Lanes, NEW i \in 1..MaxSent,
               TakeAnnounce(l, i) \/ TakeAdd(l, i) \/ TakeCreate(l, i)
        PROVE  OrderlyOK'
    <3>1. TakePost(l, i) /\ Carries(i, Posting)
      BY <2>2 DEF TakeAnnounce, TakeAdd, TakeCreate, Carries, Posting, Announcing
    <3> QED
      BY <3>1, TakePostOrderly
  <2>3. ASSUME NEW l \in Lanes, NEW preview \in BOOLEAN, TakeListed(l, preview) \/ TakeLookedUp(l)
        PROVE  OrderlyOK'
    BY <1>1, <2>3, StrayEndsOrder DEF TakeListed, TakeLookedUp
  <2>4. CASE TrackChanges \/ TakeCommunityDelete \/ CleanUp
    BY <1>1, <2>4, StrayEndsOrder DEF TrackChanges, TakeCommunityDelete, CleanUp
  <2>5. CASE UNCHANGED inboxVars
    BY <2>5, IdleStepOrderly DEF inboxVars
  <2>6. ASSUME NEW what \in {"reply", "delete"}, NEW fails \in BOOLEAN, Forward(what, fails)
        PROVE  OrderlyOK'
    BY <2>6, IdleStepOrderly DEF Forward
  <2>7. CASE StopInbox
    <3>1. CASE \A l \in Lanes : work[l] = IdleLane
      <4>1. work' = work /\ strays' = strays
        BY <1>1, <2>7, <3>1 DEF StopInbox, InboxTypes
      <4> QED
        BY <2>7, <4>1, IdleStepOrderly DEF StopInbox
    <3>2. CASE ~(\A l \in Lanes : work[l] = IdleLane)
      BY <1>1, <2>7, <3>2, StrayEndsOrder DEF StopInbox
    <3> QED
      BY <3>1, <3>2
  <2> QED
    BY <2>1, <2>2, <2>3, <2>4, <2>5, <2>6, <2>7, TakeReplyOrderly, TakeDeleteOrderly, TakeBackOrderly,
       TakeRefreshedOrderly, WriteOrderly, WriteReplyRowOrderly DEF InboxNext, Sending
<1> QED
  BY <1>1, <1>2, <1>3 DEF OrderlyInv

\* Whoever keeps following, and gets every activity once and in order, has the
\* post and the reply as the other server has them.
THEOREM FollowersSeeWhatIsThere == InboxSpec => []FaithfulWhenOrderly
<1>1. OrderlyInv => FaithfulWhenOrderly
  <2> SUFFICES ASSUME OrderlyInv, Orderly, applied = Len(sent), hosted \/ tracked,
                      \A l \in Lanes : work[l] = IdleLane
               PROVE  /\ origin.post = "deleted" => postRow.row # "live"
                      /\ origin.reply = "deleted" => replyRow # "live"
                      /\ origin.post = "live" =>
                           /\ hosted \/ origin.standing \in Announces =>
                                postRow.row = "live" /\ postRow.approved
                           /\ origin.reply = "live" => replyRow = "live"
                      /\ ~hosted /\ origin.standing = "nobody" /\ postRow.approved =>
                           postRow.by = "announceReply"
    BY DEF FaithfulWhenOrderly
  <2>1. DeletedOK /\ ArrivedOK /\ ApprovalsOK
    BY DEF OrderlyInv, OrderlyOK, Followed
  <2>2. DeletionsOK /\ CreationsOK /\ StandingOK /\ Len(sent) \in Nat
    BY DEF OrderlyInv, SentOK, InboxInv, InboxTypes
  <2>3. origin.post = "deleted" => postRow.row # "live"
    BY <2>1, <2>2 DEF DeletedOK, DeletionsOK
  <2>4. origin.reply = "deleted" => replyRow # "live"
    BY <2>1, <2>2 DEF DeletedOK, DeletionsOK
  <2>5. origin.post = "live" /\ hosted => PostShown
    BY <2>1, <2>2, AppliedWritten DEF CreationsOK
  <2>6. origin.post = "live" /\ origin.standing \in Announces => PostShown
    BY <2>1, <2>2, AppliedWritten DEF StandingOK
  <2>7. origin.post = "live" /\ origin.reply = "live" => replyRow = "live"
    BY <2>1, <2>2, AppliedWritten DEF CreationsOK
  <2>8. ASSUME ~hosted, origin.standing = "nobody", postRow.approved
        PROVE  postRow.by = "announceReply"
    <3>1. "nobody" \notin Announces
      BY InboxAssumption
    <3>2. ASSUME postRow.by \in Announces PROVE FALSE
      <4>1. PICK j \in 1..Len(sent) : j > applied
        BY <2>1, <2>8, <3>1, <3>2 DEF ApprovalsOK
      <4> QED
        BY <2>2, <4>1
    <3> QED
      BY <2>1, <2>8, <3>2 DEF ApprovalsOK
  <2> QED
    BY <2>3, <2>4, <2>5, <2>6, <2>7, <2>8 DEF PostShown
<1> QED
  BY <1>1, OrderlyInitInv, OrderlyKept, PTL DEF InboxSpec
=============================================================================
