----------------------------- MODULE Directory -----------------------------
(***************************************************************************)
(* One crawl of a remote server after another: which of its public lists   *)
(* are read and in which order, what is taken from each, how a candidate   *)
(* is tested before it is listed, and the one transaction that replaces    *)
(* what the server had (DiscoverServerCommunities in src/src/tasks.rs).    *)
(* Module Visibility has the rest of a crawl: the server's health, its     *)
(* federation policy and its suppression.                                  *)
(*                                                                         *)
(* A list or an actor that cannot be read is a choice at every request;    *)
(* the facts about a community (does its actor answer, has it two posts)   *)
(* are constants.  Of a page only the entries with an actor URL and a name *)
(* are there to begin with.                                                *)
(***************************************************************************)
EXTENDS Integers, Sequences, FiniteSets

CONSTANTS
  Own,           \* communities of the server
  Foreign,       \* communities of other servers that its lists name as well
  Endpointed,    \* those whose actor has an inbox or an outbox
  Lively,        \* those with at least SERVER_COMMUNITY_DISCOVERY_MIN_POSTS
  Flagged,       \* those marked deleted, disabled, restricted or no group
  Feeds,         \* users, libraries and channels that can be followed instead
  Brands,        \* software that the server may be or be taken for
  Static,        \* what STATIC_DISCOVERY_HOSTS says of it, or Unnamed
  LooksMbin,     \* its name says that it is an Mbin host
  Endpoints,     \* SERVER_COMMUNITY_DISCOVERY_ENDPOINTS, by their software
  Pages,         \* the pages a list may have
  MaxListed,     \* SERVER_COMMUNITY_DISCOVERY_MAX_COMMUNITIES
  ActorProbes,   \* SERVER_COMMUNITY_DISCOVERY_MAX_CROSS_HOST_ACTOR_PROBES
  OutboxProbes   \* SERVER_COMMUNITY_DISCOVERY_MAX_OUTBOX_PROBES

ASSUME DirectoryAssumption ==
  /\ Own \cap Foreign = {}
  /\ Endpointed \subseteq Own \cup Foreign /\ Lively \subseteq Own \cup Foreign
  /\ Flagged \subseteq Own \cup Foreign
  /\ Pages \subseteq Seq(Own \cup Foreign)
  /\ Static \in Brands \cup {"unnamed"} /\ "unnamed" \notin Brands
  /\ LooksMbin \in BOOLEAN
  /\ Endpoints \in Seq({Endpoints[i] : i \in 1..Len(Endpoints)})
  /\ MaxListed \in Nat /\ ActorProbes \in Nat /\ OutboxProbes \in Nat

Groups == Own \cup Foreign

\* canonical_discovery_software has no name, or no row has one yet
Unnamed == "unnamed"

\* Labels the upsert of a host that was only heard of may replace.
Unsure == {Unnamed, "nodeinfo-activitypub-actor"}

\* What a crawl may store as the software of a host: the name of the list its
\* communities came from.
Labels == Brands \cup {Endpoints[i] : i \in 1..Len(Endpoints)} \cup Unsure
           \cup {"fedigroups-directory", "hubzilla", "friendica", "mbin-compatible", "gancio"}

VARIABLES
  label,    \* community_discovery_server.software
  listed,   \* communities with an active community_discovery row
  targets,  \* rows of collection_target
  previews, \* collection targets whose preview was enqueued
  crawl     \* the crawl in progress

directoryVars == <<label, listed, targets, previews, crawl>>

NoCrawl == [at |-> "idle", known |-> Unnamed, info |-> Unnamed, todo |-> <<>>,
            groups |-> {}, feeds |-> {}, brand |-> Unnamed, first |-> FALSE]

DirectoryInit ==
  label = Unnamed /\ listed = {} /\ targets = {} /\ previews = {} /\ crawl = NoCrawl

-----------------------------------------------------------------------------
(***************************************************************************)
(* Which lists are read.                                                   *)
(***************************************************************************)

\* software_uses_collection_target_discovery
SourceBrands ==
  {"wordpress", "funkwhale", "owncast", "castopod", "writefreely", "postmarks", "bookwyrm",
   "pixelfed", "gotosocial", "misskey", "sharkey", "iceshrimp", "snac", "mitra", "wafrn"}

When(condition, list) == IF condition THEN <<list>> ELSE <<>>

\* fetch_server_communities_for_discovery: special directories first, nothing
\* after Friendica's, the endpoints of the host and of www.host, and the
\* magazine page of an Mbin host before the endpoints, of any other after.
\* Actors at www.host are the host's own (normalize_discovered_actor_host).
Plan(known, info) ==
  LET mbin == LooksMbin \/ "mbin-compatible" \in {known, info, Static}
  IN  When(Static = "fedigroups-directory", "fedigroups-directory")
        \o When("hubzilla" \in {info, Static}, "hubzilla")
        \o IF "friendica" \in {info, Static} THEN <<"friendica">>
           ELSE When(mbin, "mbin-compatible") \o Endpoints \o Endpoints
                  \o When(~mbin, "mbin-compatible")
                  \o When(info # Unnamed, "nodeinfo") \o <<"gancio">>

\* The two directories that are read page by page, and the two names of a
\* Gancio actor.
PageCount(list) == IF list \in {"hubzilla", "friendica", "gancio"} THEN 2 ELSE 1

Missing == [up |-> FALSE, has |-> <<>>]
Page(s) == [up |-> TRUE, has |-> s]

Only(s, P) == SelectSeq(s, LAMBDA g : g \in P)
First(s, n) == SubSeq(s, 1, IF n < Len(s) THEN n ELSE Len(s))

\* push_..._community: no repetition, and no more than the maximum.
Push(s, t) == First(s \o SelectSeq(t, LAMBDA g : \A i \in 1..Len(s) : s[i] # g), MaxListed)

\* fetch_hubzilla_directory_communities, fetch_friendica_directory_communities:
\* a page that fails is passed over, and an error only when no page came.
ReadPages(pages) ==
  IF \A i \in DOMAIN pages : ~pages[i].up THEN Missing
  ELSE Page(IF Len(pages) = 1 THEN pages[1].has ELSE Push(pages[1].has, pages[2].has))

\* Every channel link counts; the page was asked for public forums only.
HubzillaEntries(s) == s

\* Only the entries that say "(Group)".
FriendicaEntries(s) == Only(s, Groups \ Flagged)

\* Links to magazines of the host itself.
MbinEntries(s) == Only(s, Own)

\* Handles at the host, in three notations.
FedigroupsEntries(s) == Only(s, Own)

\* The categories of the host and their children, but no section or link, none
\* that is disabled, and none with too few posts.
NodeBbEntries(s, counted) == Only(s, {g \in Own \ Flagged : counted => g \in Lively})

\* Nothing that is deleted or that has, as the list says, too few posts.
JsonEntries(s, counted) == Only(s, {g \in Groups \ Flagged : counted => g \in Lively})

\* The Group actors that are enabled and ready, when the forum lists its actors;
\* otherwise its categories, through WebFinger and the actor, up to a number.
\* A category that cannot be looked up is left out.
DiscourseEntries(s, modern, lost, counted) ==
  LET named == JsonEntries(s, counted)
  IN  IF modern THEN named ELSE Only(First(named, ActorProbes), Endpointed \ lost)

\* Each actor is fetched; one that fails or has no endpoints is left out.
ActorEntries(s, lost) == Only(s, Endpointed \ lost)

\* The candidates of a list; `modern` and `counted` say what it reports.
ReadList(list, pages, lost, modern, counted) ==
  LET all == ReadPages(pages)
      Is(entries) == IF all.up THEN Page(First(entries, MaxListed)) ELSE Missing
  IN  CASE list = "hubzilla"             -> Is(HubzillaEntries(all.has))
        [] list = "friendica"            -> Is(FriendicaEntries(all.has))
        [] list = "mbin-compatible"      -> Is(MbinEntries(all.has))
        [] list = "fedigroups-directory" -> Is(FedigroupsEntries(all.has))
        [] list = "nodebb"               -> Is(NodeBbEntries(all.has, counted))
        [] list = "discourse" -> Is(DiscourseEntries(all.has, modern, lost, counted))
        [] list \in {"nodeinfo", "gancio"} -> Page(ActorEntries(all.has, lost))
        [] OTHER                         -> Is(JsonEntries(all.has, counted))

-----------------------------------------------------------------------------
(***************************************************************************)
(* Which candidates are listed.                                            *)
(***************************************************************************)

\* How many positions of a set come up to one of them.
Ordinal(i, positions) == Cardinality({j \in positions : j <= i})

\* The actor of a community of another server is fetched, up to a number.
Validated(s, lost) ==
  LET strangers == {i \in 1..Len(s) : s[i] \in Foreign}
  IN  {i \in 1..Len(s) : i \in strangers =>
         Ordinal(i, strangers) <= ActorProbes /\ s[i] \in Endpointed \ lost}

\* discovered_community_post_count: the count that was reported, or else of
\* the outbox, or else of the Atom timeline, of the first candidates.
\* A request that fails drops the community.
Active(s, lost, counted) ==
  LET valid == Validated(s, lost)
      tested == {i \in valid : counted \/ (Ordinal(i, valid) <= OutboxProbes /\ s[i] \notin lost)}
  IN  {s[i] : i \in {j \in tested : s[j] \in Lively}}

-----------------------------------------------------------------------------
(***************************************************************************)
(* What else a server has to follow.                                       *)
(***************************************************************************)

Answered(p, i) == IF i \in DOMAIN p /\ p[i].up THEN p[i].has ELSE {}

\* An error only when there is nothing to show for it.
OrMissing(found, failed) ==
  [up |-> ~(found = {} /\ failed), has |-> IF found = {} /\ failed THEN {} ELSE found]

\* fetch_wordpress_source_targets: the actors of NodeInfo and the users.
Wordpress(acts, p, lost) == OrMissing((acts \cup Answered(p, 1)) \ lost, ~p[1].up)

\* fetch_funkwhale_source_targets: the libraries of the first version of the
\* interface that answers; channel pages until one after the first fails.
\* A channel is complete as it is listed.
Funkwhale(p, lost) ==
  LET libraries == IF p[1].up THEN p[1].has ELSE Answered(p, 2)
      channels == Answered(p, 3) \cup Answered(p, 4)
  IN  OrMissing((libraries \ lost) \cup channels, ~p[1].up \/ ~p[3].up)

\* fetch_owncast_source_targets: the one account of the first document that
\* names one.
Owncast(p, lost) ==
  LET name == IF Answered(p, 1) # {} THEN Answered(p, 1) ELSE Answered(p, 2)
  IN  [up |-> name # {} /\ name \cap lost = {},
       has |-> IF name \cap lost = {} THEN name ELSE {}]

\* fetch_castopod_source_targets: the first list that answers; a podcast that
\* cannot be looked up (`?` on WebFinger) takes the others with it.
Castopod(p, lost, unfound) ==
  LET list == IF p[1].up THEN p[1].has ELSE IF p[2].up THEN p[2].has ELSE Answered(p, 3)
  IN  IF list \cap unfound # {} THEN [up |-> FALSE, has |-> {}]
      ELSE OrMissing(list \ lost, ~p[1].up)

\* fetch_writefreely_source_targets: reader pages until one fails.
Writefreely(p, lost) ==
  OrMissing((IF p[1].up THEN p[1].has \cup Answered(p, 2) ELSE {}) \ lost, ~p[1].up)

\* fetch_nodeinfo_source_targets and the contact account of the instance.
Contact(acts, p, lost) == [up |-> TRUE, has |-> (acts \cup Answered(p, 1)) \ lost]

\* fetch_server_sources_for_discovery
ReadSources(brand, acts, p, lost) ==
  CASE brand = "wordpress"   -> Wordpress(acts, p, lost)
    [] brand = "funkwhale"   -> Funkwhale(p, lost)
    [] brand = "owncast"     -> Owncast(p, lost)
    [] brand = "castopod"    -> Castopod(p, {}, lost)
    [] brand = "writefreely" -> Writefreely(p, lost)
    [] OTHER -> IF brand \in SourceBrands THEN Contact(acts, p, lost)
                ELSE [up |-> TRUE, has |-> {}]

-----------------------------------------------------------------------------
(***************************************************************************)
(* The crawl.                                                              *)
(***************************************************************************)

Go(c) == crawl' = c /\ UNCHANGED <<label, listed, targets, previews>>

\* Sources first when the software is known to have only those.
BeginCrawl ==
  /\ crawl = NoCrawl
  /\ LET known == IF label \in Brands THEN label ELSE Unnamed
         first == known \in SourceBrands
     IN  Go([NoCrawl EXCEPT !.known = known, !.first = first,
                            !.at = IF first THEN "sources" ELSE "info"])

\* fetch_nodeinfo_discovery: a document that cannot be had is only noted.
AskNodeInfo ==
  /\ crawl.at = "info"
  /\ \E info \in Brands \cup {Unnamed} :
       Go([crawl EXCEPT !.info = info, !.at = "lists", !.todo = Plan(crawl.known, info)])

\* What the communities of a list are stored under.
BrandOf(list) ==
  IF list # "nodeinfo" THEN list
  ELSE IF crawl.info \in Brands THEN crawl.info ELSE "nodeinfo-activitypub-actor"

\* The first list with an active community ends the search.
AskList ==
  /\ crawl.at = "lists" /\ crawl.todo # <<>>
  /\ \E pages \in [1..PageCount(Head(crawl.todo)) -> {Page(s) : s \in Pages} \cup {Missing}],
        lost \in SUBSET Groups, modern \in BOOLEAN, counted \in BOOLEAN :
       LET list == Head(crawl.todo)
           told == counted /\ list \in {Endpoints[i] : i \in 1..Len(Endpoints)}
           read == ReadList(list, pages, lost, modern, told)
           active == Active(read.has, lost, told)
       IN  IF active = {} THEN Go([crawl EXCEPT !.todo = Tail(@)])
           ELSE Go([crawl EXCEPT !.todo = <<>>, !.at = "store", !.groups = active,
                                 !.brand = BrandOf(list)])

\* No list had any, or SERVER_COMMUNITY_DISCOVERY_TASK_TIMEOUT is over: the
\* other software may have sources; a failure is recorded and the crawl ends.
ListsFail ==
  /\ crawl.at = "lists" \/ crawl.at = "info"
  /\ Go(IF crawl.first THEN NoCrawl
        ELSE [crawl EXCEPT !.at = "sources", !.todo = <<>>])

\* timed_fetch_server_sources_for_discovery asks NodeInfo again.
AskSources ==
  /\ crawl.at = "sources"
  /\ \E info \in Brands \cup {Unnamed}, acts \in SUBSET Feeds, lost \in SUBSET Feeds,
        p \in [1..4 -> {[up |-> TRUE, has |-> S] : S \in SUBSET Feeds}
                         \cup {[up |-> FALSE, has |-> {}]}] :
       LET brand == IF crawl.known # Unnamed THEN crawl.known
                    ELSE IF info # Unnamed THEN info ELSE Static
           found == ReadSources(brand, acts, p, lost)
       IN  IF found.up /\ found.has # {}
           THEN Go([crawl EXCEPT !.at = "store", !.feeds = found.has, !.brand = brand])
           ELSE Go(IF crawl.first THEN [crawl EXCEPT !.at = "info"] ELSE NoCrawl)

\* Mutant: the rows of the host are reset whatever the crawl found.
StoredAlways(c) == (listed \ Own) \cup c.groups

\* RESET_DISCOVERED_COMMUNITIES_FOR_HOST_SQL only after a list was read, and
\* only the rows of the host itself.
Stored(c) == IF c.groups = {} THEN listed ELSE (listed \ Own) \cup c.groups

\* The transaction, after the peers of an Mbin host were asked for.
Store ==
  /\ crawl.at = "store"
  /\ listed' = Stored(crawl)
  /\ targets' = targets \cup crawl.feeds
  /\ label' = crawl.brand
  /\ crawl' = [NoCrawl EXCEPT !.at = "spawn", !.feeds = crawl.feeds]
  /\ UNCHANGED previews

\* spawn_enqueue_fetch_collection_target_preview, for each source with a page
Spawn ==
  /\ crawl.at = "spawn"
  /\ previews' = previews \cup crawl.feeds
  /\ crawl' = NoCrawl
  /\ UNCHANGED <<label, listed, targets>>

\* The process dies; the task has one attempt, the next crawl is a new one.
CrawlDies == crawl # NoCrawl /\ Go(NoCrawl)

-----------------------------------------------------------------------------
(***************************************************************************)
(* What others say of the server.                                          *)
(***************************************************************************)

\* fetch_fedidb_discovery_hosts: the pages of each software until one fails,
\* and the hosts named in the code.
SeedBrands ==
  {b \in Brands : \/ b \in SourceBrands \/ b = Static
                  \/ b \in {"mbin-compatible", "nodebb", "piefed-compatible", "peertube",
                           "lotide", "hubzilla", "friendica", "bonfire"}}

\* Two directories of one software each, read if they answer.
FriendicaServers == Brands \cap {"friendica"}
OwncastServers == Brands \cap {"owncast"}

\* fetch_discourse_discover_hosts
DiscourseForums == Brands \cap {"discourse"}

\* fetch_mbin_federated_hosts: the peers of another host, if their software
\* is one of the known names.
Peers == Brands

\* UPSERT_DISCOVERED_PEER_SERVER_SQL of a seed task or of another's crawl
HearOf ==
  /\ label \in Unsure
  /\ label' \in SeedBrands \cup FriendicaServers \cup OwncastServers \cup DiscourseForums \cup Peers
  /\ UNCHANGED <<listed, targets, previews, crawl>>

\* MARK_DISCOVERED_ACTOR_HOST_VALID_SQL of another server's crawl: the name of
\* the list the community was found in, not of the software that has it.
Mentioned ==
  /\ label = Unnamed
  /\ label' \in Labels \ {Unnamed}
  /\ UNCHANGED <<listed, targets, previews, crawl>>

DirectoryNext ==
  BeginCrawl \/ AskNodeInfo \/ AskList \/ ListsFail \/ AskSources \/ Store \/ Spawn
    \/ CrawlDies \/ HearOf \/ Mentioned

DirectorySpec == DirectoryInit /\ [][DirectoryNext]_directoryVars

-----------------------------------------------------------------------------
(***************************************************************************)
(* What is checked.                                                        *)
(***************************************************************************)

DirectoryTypeOK ==
  /\ label \in Labels
  /\ listed \subseteq Groups /\ targets \subseteq Feeds /\ previews \subseteq targets
  /\ crawl.at \in {"idle", "info", "lists", "sources", "store", "spawn"}
  /\ {crawl.known, crawl.info, crawl.brand} \subseteq Labels
  /\ crawl.groups \subseteq Groups /\ crawl.feeds \subseteq Feeds /\ crawl.first \in BOOLEAN
  /\ crawl.at = "spawn" => crawl.feeds \subseteq targets

Promise == INSTANCE HostDirectory WITH
  Worthy <- Lively \ (Foreign \ Endpointed),
  Brands <- Labels \ {Unnamed}, shown <- listed, brand <- label

\* A crawl replaces what a server had or leaves all of it: no order of errors,
\* time-outs and crashes empties its list, takes another server's communities
\* off it, lists one that is idle or cannot be reached, or lets hearsay override
\* what the server itself answered.
CrawlReplacesOrKeeps == Promise!Spec
=============================================================================
