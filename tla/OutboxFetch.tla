---------------------------- MODULE OutboxFetch ----------------------------
(***************************************************************************)
(* A fetch_community_outbox task: the history of a remote community, from  *)
(* its ActivityPub outbox first and then from the web API of the software  *)
(* that serves it (FetchCommunityOutbox in src/src/tasks.rs).  A step is   *)
(* one request for a page and the entries of that page, or one other       *)
(* source.  Module TaskQueue has the attempts of a task and what becomes   *)
(* of one that fails; Inbox has the activities an entry may still be.      *)
(*                                                                         *)
(* A page or an object that cannot be had is a choice at every step; what  *)
(* the objects are to one another is constant.                             *)
(***************************************************************************)
EXTENDS Integers, Sequences, FiniteSets

CONSTANTS
  Objects,       \* posts and replies of the remote community
  NoParent,      \* the parent of an object that answers nothing
  InReplyTo,     \* what each object answers, or NoParent
  Host,          \* the host each object is on
  Addressed,     \* objects that name the community in to, cc, audience or tag
  GroupWritten,  \* objects whose attributedTo is the community
  Hidden,        \* objects that the forum's API calls hidden or deleted
  Author,        \* who wrote each object
  Faceless,      \* authors whose actor cannot be fetched
  Refused,       \* objects that ingestion turns away (blocked, gone)
  FlakyObjects,  \* objects that may fail to be fetched
  Boards,        \* objects that are Flipboard statuses
  Entries,       \* what a page of the outbox may list
  OutboxPages,   \* the pages an outbox may have
  Shelves,       \* the topics a forum's API may list
  Software,      \* whose outbox URL it is, as far as its shape tells
  MaxItems, MaxOutboxPages,          \* OUTBOX_FETCH_MAX_ITEMS and _PAGES
  PreviewItems, PreviewPages,  \* OUTBOX_FETCH_PREVIEW_MAX_ITEMS and _PAGES
  PreviewRelays                \* OUTBOX_FETCH_PREVIEW_RELAY_MAX_ITEMS

\* An Add to what is not attributed to the community is an AddElsewhere.
Wraps == {"Announce", "Create", "Add", "AddElsewhere", "Update"}

ASSUME OutboxFetchAssumption ==
  /\ NoParent \notin Objects /\ InReplyTo \in [Objects -> Objects \cup {NoParent}]
  /\ \A o \in Boards : InReplyTo[o] = NoParent
  /\ DOMAIN Host = Objects /\ DOMAIN Author = Objects
  /\ Addressed \cup GroupWritten \cup Hidden \cup Refused \cup FlakyObjects \cup Boards \subseteq Objects
  /\ Entries \subseteq [wraps : Seq(Wraps), own : BOOLEAN, bare : BOOLEAN, obj : Objects]
  /\ \A p \in OutboxPages : p = [has |-> p.has, next |-> p.next] /\ p.has \in Seq(Entries)
  /\ Shelves \subseteq Seq(Seq(Objects) \ {<<>>})
  /\ {MaxItems, MaxOutboxPages, PreviewItems, PreviewPages, PreviewRelays} \subseteq Nat

VARIABLES
  standing,   \* how the community is: "gone", "followed" or "unfollowed"
  software,   \* the software of its host
  shelf,      \* what the API of that host lists
  rowsOf,     \* the rows an object has: in post, in reply, or in both
  people,     \* faceless authors that have a row all the same
  fetch       \* the task in progress

outboxFetchVars == <<standing, software, shelf, rowsOf, people, fetch>>

NoFetch == [at |-> "idle", preview |-> FALSE, page |-> [has |-> <<>>, next |-> "none"],
            urls |-> {}, pages |-> 0, seen |-> 0, imported |-> 0, relays |-> 0,
            down |-> FALSE, asked |-> FALSE, smooth |-> FALSE, ok |-> TRUE]

OutboxFetchInit ==
  /\ standing = "followed" /\ software \in Software /\ shelf \in Shelves
  /\ rowsOf = [o \in Objects |-> {}] /\ people = {} /\ fetch = NoFetch

-----------------------------------------------------------------------------
(***************************************************************************)
(* What an entry becomes before it is ingested.  An entry is an object, or *)
(* its URL (bare), inside the activities `wraps`, the outermost first;     *)
(* `own` says whether the community is the actor of the outermost.         *)
(***************************************************************************)

Answers(o) == InReplyTo[o] # NoParent
Kind(entry) == IF entry.wraps = <<>> THEN "object" ELSE Head(entry.wraps)
Inner(entry) == [entry EXCEPT !.wraps = Tail(entry.wraps), !.own = FALSE]

\* value_type_is_known_outbox_activity_or_object, of what is inside.
Known(entry) == Len(entry.wraps) = 1 \/ entry.wraps[2] \notin {"Add", "AddElsewhere"}

\* community_outbox_note_targets_community.
Targets(entry) == entry.obj \in Addressed /\ ~entry.bare

\* get("inReplyTo") of the activity's object: only a whole object has one.
ShowsParent(entry) == Len(entry.wraps) = 1 /\ ~entry.bare /\ Answers(entry.obj)

\* The attributedTo of the activity's object is the community.
OfGroup(entry) == Len(entry.wraps) = 1 /\ ~entry.bare /\ entry.obj \in GroupWritten

\* community_outbox_create_wrapped_object and, with the same conditions, _update_.
FromCreate(entry) ==
  IF /\ Kind(entry) = "Create" /\ (entry.own \/ Targets(entry) \/ OfGroup(entry))
     /\ ~ShowsParent(entry) /\ Known(entry)
  THEN Inner(entry) ELSE entry

FromUpdate(entry) ==
  IF /\ Kind(entry) = "Update" /\ (entry.own \/ Targets(entry) \/ OfGroup(entry))
     /\ ~ShowsParent(entry) /\ Known(entry)
  THEN Inner(entry) ELSE entry

\* community_outbox_announce_wrapped_object: never a URL.
FromAnnounce(entry) ==
  IF Kind(entry) = "Announce" /\ entry.own /\ Targets(entry) /\ Known(entry)
  THEN Inner(entry) ELSE entry

\* community_outbox_add_wrapped_object.
FromAdd(entry) ==
  IF Kind(entry) = "Add" /\ entry.own /\ Known(entry) THEN Inner(entry) ELSE entry

\* value_url_has_different_host, of an object and what it answers.
AcrossHosts(o) == Answers(o) /\ Host[o] # Host[InReplyTo[o]]

Plain(o, reply) == [wraps |-> <<>>, own |-> FALSE, obj |-> o, reply |-> reply, named |-> TRUE]
AsRead(entry) == [wraps |-> entry.wraps, own |-> entry.own, obj |-> entry.obj,
                  reply |-> Answers(entry.obj), named |-> TRUE]

\* As Promoted, for every note of the group that answers something.
PromotedAlways(entry) ==
  IF entry.wraps \in {<<>>, <<"Create">>} /\ Targets(entry) /\ Answers(entry.obj)
  THEN Plain(entry.obj, FALSE) ELSE AsRead(entry)

\* community_outbox_promote_external_group_note_reply: a reply to another host
\* that names the group becomes a post of the group.
Promoted(entry) ==
  IF entry.wraps \in {<<>>, <<"Create">>} /\ Targets(entry) /\ AcrossHosts(entry.obj)
  THEN Plain(entry.obj, FALSE) ELSE AsRead(entry)

\* community_outbox_prepare_item: in this order, each once.
Prepared(entry) == Promoted(FromUpdate(FromAdd(FromAnnounce(FromCreate(entry)))))

\* community_outbox_relay_announce_object_url.
IsRelay(entry) == Kind(entry) = "Announce" /\ entry.own /\ entry.bare /\ Len(entry.wraps) = 1

-----------------------------------------------------------------------------
(***************************************************************************)
(* Ingestion, as far as this task tells its outcomes apart.                *)
(***************************************************************************)

Line[o \in Objects] == {o} \cup IF Answers(o) THEN Line[InReplyTo[o]] ELSE {}

\* remote_community_post_is_wanted, found from this outbox.
IsWanted(preview) == preview \/ standing = "followed"

\* What handle_recieved_reply fetches before it can store a reply: the part of
\* the conversation above it that is not here yet.
Unread(rows, o) ==
  {a \in Line[InReplyTo[o]] :
     \A b \in Objects : b \in Line[InReplyTo[o]] /\ a \in Line[b] => rows[b] = {}}

\* An object is accepted with the parents it needs, or not at all; `named` is
\* FALSE for one whose author was taken off.
Turned(known, lost) == Refused \cup lost \cup {o \in Objects : Author[o] \in Faceless \ known}
Above(rows, item) == IF item.reply THEN Unread(rows, item.obj) ELSE {}

Accepts(rows, item, bad) ==
  /\ Above(rows, item) \cap bad = {}
  /\ item.obj \notin (IF item.named THEN bad ELSE Refused)

\* The parents are stored as their own server shows them.
StoreObject(rows, item, bad) ==
  IF ~Accepts(rows, item, bad) THEN rows
  ELSE [x \in Objects |->
          IF x = item.obj THEN rows[x] \cup {IF item.reply THEN "comment" ELSE "post"}
          ELSE IF x \in Above(rows, item) THEN {IF Answers(x) THEN "comment" ELSE "post"}
          ELSE rows[x]]

\* A whole object is stored as it was sent; a URL, and the object of a Create or
\* of an Announce by the community that is still one, as its server shows it.
IngestEntry(rows, item, bad) ==
  IF \/ item.wraps = <<>> \/ Head(item.wraps) = "Create"
     \/ Head(item.wraps) = "Announce" /\ item.own
  THEN StoreObject(rows, item, bad) ELSE rows

\* ingest_object answers None for an activity, whatever became of its object.
\* An object that was there already is imported again.
Imports(rows, item, bad) == item.wraps = <<>> /\ Accepts(rows, item, bad)

\* A relayed object is fetched; a preview makes do with the HTML page of a
\* Flipboard status (flipboard_preview_object_from_html).
RelayItem(entry, lost, html) ==
  IF entry.obj \in lost \cap html THEN [Plain(entry.obj, FALSE) EXCEPT !.named = FALSE]
  ELSE Plain(entry.obj, Answers(entry.obj))

\* The limits of a task, and the smaller ones of a preview.
ItemLimit(preview) == IF preview THEN PreviewItems ELSE MaxItems
PageLimit(preview) == IF preview THEN PreviewPages ELSE MaxOutboxPages

\* The entries of a page: counted when read, and the relayed ones of a preview
\* ingested up to a number.  A failing entry is passed over.
EachEntry(st, entries, lost, html) ==
  LET preview == fetch.preview
      bad == IF IsWanted(preview) THEN Turned(people, lost) ELSE Objects
      Each(s, entry) ==
        LET relay == IsRelay(entry)
            item == IF relay THEN RelayItem(entry, lost, IF preview THEN html ELSE {})
                    ELSE Prepared(entry)
            spared == preview /\ relay /\ s.relays >= PreviewRelays
        IN  IF s.seen >= ItemLimit(preview) THEN s
            ELSE [rows |-> IF spared THEN s.rows ELSE IngestEntry(s.rows, item, bad),
                  seen |-> s.seen + 1,
                  imported |-> s.imported
                                 + (IF ~spared /\ Imports(s.rows, item, bad) THEN 1 ELSE 0),
                  relays |-> s.relays + (IF preview /\ relay /\ ~spared THEN 1 ELSE 0)]
      Upto[i \in 0..Len(entries)] == IF i = 0 THEN st ELSE Each(Upto[i - 1], entries[i])
  IN  Upto[Len(entries)]

-----------------------------------------------------------------------------
(***************************************************************************)
(* The walk through the outbox.                                            *)
(***************************************************************************)
TaskEnds(ok) == fetch' = [fetch EXCEPT !.at = "idle", !.page = NoFetch.page, !.urls = {}, !.ok = ok]

\* The task starts: nothing for a community that is gone, or that nobody follows
\* any more, unless it is a preview.  An Elgg preview asks the notes first.
StartFetch(preview) ==
  /\ fetch.at = "idle"
  /\ standing # "gone" /\ (preview \/ standing = "followed")
  /\ fetch' = [NoFetch EXCEPT !.preview = preview, !.smooth = TRUE,
                              !.at = IF preview /\ software = "elgg" THEN "elggFirst" ELSE "first"]
  /\ UNCHANGED <<standing, software, shelf, rowsOf, people>>

\* The entries of one page, and what follows: the next page unless a limit is
\* reached.
ReadPage(page, urls, lost, html) ==
  LET st == EachEntry([rows |-> rowsOf, seen |-> fetch.seen, imported |-> fetch.imported,
                       relays |-> fetch.relays], page.has, lost, html)
      over == fetch.pages + 1 >= PageLimit(fetch.preview) \/ st.seen >= ItemLimit(fetch.preview)
  IN  /\ rowsOf' = st.rows
      /\ fetch' = [fetch EXCEPT !.at = IF over THEN "sources" ELSE "next",
                                !.page = IF over THEN NoFetch.page ELSE page,
                                !.urls = IF over THEN {} ELSE urls, !.pages = @ + 1,
                                !.seen = st.seen, !.imported = st.imported, !.relays = st.relays,
                                !.smooth = @ /\ lost = {} /\ IsWanted(fetch.preview)]

ToSources == fetch' = [fetch EXCEPT !.at = "sources", !.page = NoFetch.page, !.urls = {}]

\* fetch_first_outbox_page: the collection itself when it has entries, else its
\* first page, embedded or behind a URL; what the page is, is one choice here.
FetchFirst(lost, html) ==
  /\ fetch.at = "first"
  /\ \/ \E page \in OutboxPages : ReadPage(page, {"outbox"}, lost, html)
     \/ lost = {} /\ html = {} /\ ToSources /\ UNCHANGED rowsOf
  /\ UNCHANGED <<standing, software, shelf, people>>

\* The request fails: noted, and the other sources are asked.
FetchFirstFails ==
  /\ fetch.at = "first"
  /\ fetch' = [fetch EXCEPT !.at = "sources", !.down = TRUE, !.smooth = FALSE]
  /\ UNCHANGED <<standing, software, shelf, rowsOf, people>>

\* fetch_next_outbox_page: embedded, or behind a URL that was not asked before.
FetchNext(lost, html) ==
  /\ fetch.at = "next"
  /\ \/ /\ fetch.page.next = "embedded"
        /\ \E page \in OutboxPages : ReadPage(page, fetch.urls, lost, html)
     \/ /\ fetch.page.next \notin {"embedded", "none"} \cup fetch.urls
        /\ \E page \in OutboxPages : ReadPage(page, fetch.urls \cup {fetch.page.next}, lost, html)
     \/ /\ fetch.page.next \in {"none"} \cup fetch.urls /\ lost \cup html = {}
        /\ ToSources /\ UNCHANGED rowsOf
  /\ UNCHANGED <<standing, software, shelf, people>>

\* outbox_next_page_error_is_fatal.
Fatal(imported) == imported = 0

FetchNextFails ==
  /\ fetch.at = "next" /\ fetch.page.next \notin {"embedded", "none"} \cup fetch.urls
  /\ IF Fatal(fetch.imported) THEN TaskEnds(FALSE)
     ELSE fetch' = [fetch EXCEPT !.at = "sources", !.page = NoFetch.page, !.urls = {},
                                 !.smooth = FALSE]
  /\ UNCHANGED <<standing, software, shelf, rowsOf, people>>

-----------------------------------------------------------------------------
(***************************************************************************)
(* The other sources.  The shapes of their outbox URLs exclude one another,*)
(* so a task asks at most one.                                             *)
(***************************************************************************)
AtMost(s, n) == SubSeq(s, 1, IF n < Len(s) THEN n ELSE Len(s))

Concat(ss) ==
  LET Upto[i \in 0..Len(ss)] == IF i = 0 THEN <<>> ELSE Upto[i - 1] \o ss[i] IN Upto[Len(ss)]

\* Those of a sequence that are wanted, in their order.
Chosen(os, wanted) ==
  LET Upto[i \in 0..Len(os)] ==
        IF i = 0 THEN <<>>
        ELSE IF os[i] \in wanted THEN Append(Upto[i - 1], os[i]) ELSE Upto[i - 1]
  IN  Upto[Len(os)]

Reversed(s) == [i \in 1..Len(s) |-> s[Len(s) + 1 - i]]

\* elgg_note_activitypub_page: notes of the group that answer nothing on their
\* own host, made posts.
ElggPages(os) ==
  LET chosen == Chosen(os, {o \in Addressed : Answers(o) => AcrossHosts(o)})
  IN  [i \in 1..Len(chosen) |-> Plain(chosen[i], FALSE)]

\* nodebb_topic_activitypub_objects: what is not deleted, under its parent or
\* the head of the topic.
NodeBbPages(os) ==
  LET chosen == Chosen(os, Objects \ Hidden)
  IN  [i \in 1..Len(chosen) |-> Plain(chosen[i], Answers(chosen[i]))]

\* discourse_topic_activitypub_objects: an answer to a hidden post has no parent
\* in the map of the visible ones, and says nothing of what it answers.
DiscoursePages(os) ==
  LET chosen == Chosen(os, Objects \ Hidden)
  IN  [i \in 1..Len(chosen) |->
         Plain(chosen[i], Answers(chosen[i]) /\ InReplyTo[chosen[i]] \notin Hidden)]

\* friendica_atom_entry_activitypub_object.
FriendicaPages(os) == [i \in 1..Len(os) |-> Plain(os[i], Answers(os[i]))]

\* mbin_entry_activitypub_pages_from_entries_response: entries, never comments.
MbinPages(os) ==
  LET chosen == Chosen(os, {o \in Objects \ Hidden : ~Answers(o)})
  IN  [i \in 1..Len(chosen) |-> Plain(chosen[i], FALSE)]

\* The topics that could be fetched, the objects of all together up to the limit.
FromTopics(pages, limit, down) ==
  AtMost(Concat([i \in 1..Len(AtMost(pages, limit)) |-> IF i \in down THEN <<>> ELSE pages[i]]),
         limit)

Heads == [i \in 1..Len(shelf) |-> shelf[i][1]]

\* What each source offers, converted; `down` are the topics that fail.  A feed
\* has the newest first and is taken from its end.
ElggOffer(limit) == AtMost(ElggPages(Concat(shelf)), limit)
NodeBbOffer(limit, down) ==
  FromTopics([i \in DOMAIN shelf |-> NodeBbPages(shelf[i])], limit, down)
DiscourseOffer(limit, down) ==
  FromTopics([i \in DOMAIN shelf |-> DiscoursePages(shelf[i])], limit, down)
FriendicaOffer(limit) == Reversed(FriendicaPages(AtMost(Concat(shelf), limit)))
MbinOffer(limit) == MbinPages(AtMost(Heads, limit))

\* The authors of the topics that could be fetched.
Writers(down) ==
  {Author[o] : o \in UNION {{shelf[i][j] : j \in DOMAIN shelf[i]} : i \in DOMAIN shelf \ down}}

\* upsert_nodebb_topic_authors, upsert_discourse_topic_authors: the API names
\* the authors, so that no actor has to be fetched.
NodeBbAuthors(down) == Writers(down) \cap Faceless
DiscourseAuthors(down) == Writers(down) \cap Faceless

\* prepare_elgg_page_authors: a page loses an author who cannot be fetched, but
\* only the first page of that author.
Prepare(items) ==
  [i \in DOMAIN items |->
     LET who == Author[items[i].obj]
     IN  IF who \in Faceless /\ \A j \in 1..(i - 1) : Author[items[j].obj] # who
         THEN [items[i] EXCEPT !.named = FALSE] ELSE items[i]]

\* The candidates are ingested one after the other, `known` being authors that
\* the API named; a strict source fails when it had some and none was accepted,
\* and one that breaks has brought these before.
Ingest(items, known, lost, strict, breaks, smooth, next) ==
  LET bad == IF IsWanted(fetch.preview) THEN Turned(people \cup known, lost) ELSE Objects
      Upto[i \in 0..Len(items)] ==
        IF i = 0 THEN rowsOf ELSE IngestEntry(Upto[i - 1], items[i], bad)
      none == \A i \in DOMAIN items : ~Imports(Upto[i - 1], items[i], bad)
  IN  /\ people' = people \cup known
      /\ rowsOf' = Upto[Len(items)]
      /\ IF breaks \/ (strict /\ items # <<>> /\ none) THEN TaskEnds(FALSE)
         ELSE fetch' = [fetch EXCEPT
                          !.at = IF items = <<>> THEN next ELSE "last",
                          !.seen = @ + Len(items), !.asked = TRUE,
                          !.smooth = @ /\ smooth /\ lost = {} /\ IsWanted(fetch.preview)]
      /\ UNCHANGED <<standing, software, shelf>>

Limit == ItemLimit(fetch.preview)

\* Elgg: at the start of a preview, which ends there when it saw something, and
\* otherwise after the outbox.
ElggIsDue == fetch.at = "elggFirst" \/ (fetch.at = "sources" /\ ~fetch.preview)
AskElgg(lost) ==
  /\ software = "elgg" /\ ElggIsDue
  /\ Ingest(Prepare(ElggOffer(Limit)), {}, lost, TRUE, FALSE, TRUE,
            IF fetch.at = "elggFirst" THEN "first" ELSE "last")

\* As ShouldRunNodeBb, but one entry of the outbox is enough.
ShouldRunNodeBbWhenEmpty(preview, seen, imported) == preview \/ seen = 0

\* should_run_nodebb_outbox_fallback.
ShouldRunNodeBb(preview, seen, imported) == preview \/ seen = 0 \/ imported = 0

NodeBbIsDue ==
  fetch.at = "sources" /\ ShouldRunNodeBb(fetch.preview, fetch.seen, fetch.imported)
\* A topic without a URL, or whose authors' rows cannot be written, ends the task
\* there (`breaks`): it and those after it are among the topics that are `down`.
LastTopicDown(down) == Len(shelf) \in down

AskNodeBb(down, lost, breaks) ==
  /\ software = "nodebb" /\ NodeBbIsDue /\ (breaks => LastTopicDown(down))
  /\ Ingest(NodeBbOffer(Limit, down), NodeBbAuthors(down), lost, TRUE, breaks, down = {}, "last")

AskDiscourse(down, lost, breaks) ==
  /\ software = "discourse" /\ fetch.at = "sources" /\ (breaks => LastTopicDown(down))
  /\ Ingest(DiscourseOffer(Limit, down), DiscourseAuthors(down), lost, TRUE, breaks, down = {},
            "last")

AskFriendica(lost) ==
  /\ software = "friendica" /\ fetch.at = "sources"
  /\ Ingest(FriendicaOffer(Limit), {}, lost, FALSE, FALSE, TRUE, "last")

MbinIsDue == fetch.at = "sources" /\ fetch.seen = 0
AskMbin(lost) ==
  /\ software = "mbin" /\ MbinIsDue
  /\ Ingest(MbinOffer(Limit), {}, lost, FALSE, FALSE, TRUE, "last")

\* A source that is asked now, if there is one.
SourceIsDue ==
  \/ software = "elgg" /\ ElggIsDue
  \/ software = "nodebb" /\ NodeBbIsDue
  \/ software = "mbin" /\ MbinIsDue
  \/ software \in {"discourse", "friendica"} /\ fetch.at = "sources"

\* It does not answer: as if it had nothing.
SourceFails ==
  /\ SourceIsDue
  /\ fetch' = [fetch EXCEPT !.at = IF @ = "elggFirst" THEN "first" ELSE "last",
                            !.smooth = FALSE]
  /\ UNCHANGED <<standing, software, shelf, rowsOf, people>>

\* The task ends: an error of the outbox counts when nothing was seen at all.
FinishFetch ==
  /\ fetch.at = "last" \/ (fetch.at = "sources" /\ ~SourceIsDue)
  /\ TaskEnds(~(fetch.down /\ fetch.seen = 0))
  /\ UNCHANGED <<standing, software, shelf, rowsOf, people>>

\* Someone follows the community, the last follower leaves, or it is deleted.
CommunityChanges(c) ==
  /\ standing # "gone" /\ c # standing /\ standing' = c
  /\ UNCHANGED <<software, shelf, rowsOf, people, fetch>>

OutboxFetchNext ==
  \/ \E preview \in BOOLEAN : StartFetch(preview)
  \/ \E lost \in SUBSET FlakyObjects, html \in {{}, Boards} :
       FetchFirst(lost, html) \/ FetchNext(lost, html)
  \/ FetchFirstFails \/ FetchNextFails
  \/ \E lost \in SUBSET FlakyObjects : AskElgg(lost) \/ AskFriendica(lost) \/ AskMbin(lost)
  \/ \E down \in SUBSET DOMAIN shelf, lost \in SUBSET FlakyObjects, breaks \in BOOLEAN :
       AskNodeBb(down, lost, breaks) \/ AskDiscourse(down, lost, breaks)
  \/ SourceFails
  \/ FinishFetch
  \/ \E c \in {"gone", "followed", "unfollowed"} : CommunityChanges(c)

OutboxFetchSpec == OutboxFetchInit /\ [][OutboxFetchNext]_outboxFetchVars

-----------------------------------------------------------------------------
(***************************************************************************)
(* Properties.                                                             *)
(***************************************************************************)

\* The types of the variables.
OutboxFetchTypeOK ==
  /\ standing \in {"gone", "followed", "unfollowed"} /\ software \in Software /\ shelf \in Shelves
  /\ rowsOf \in [Objects -> SUBSET {"post", "comment"}] /\ people \subseteq Faceless
  /\ fetch.at \in {"idle", "elggFirst", "first", "next", "sources", "last"}
  /\ {fetch.preview, fetch.down, fetch.asked, fetch.smooth, fetch.ok} \subseteq BOOLEAN
  /\ {fetch.pages, fetch.seen, fetch.imported, fetch.relays} \subseteq Nat

\* An item whose object and whose conversation above it could all be stored.
Sound(item) ==
  LET bad == Turned(people, {})
  IN  /\ item.obj \notin (IF item.named THEN bad ELSE Refused)
      /\ item.reply => Line[InReplyTo[item.obj]] \cap bad = {}

\* All that the source of this community offers to a task like the last one.
Offer ==
  CASE software = "elgg"      -> Prepare(ElggOffer(Limit))
    [] software = "nodebb"    -> NodeBbOffer(Limit, {})
    [] software = "discourse" -> DiscourseOffer(Limit, {})
    [] software = "friendica" -> FriendicaOffer(Limit)
    [] software = "mbin"      -> MbinOffer(Limit)
    [] OTHER                  -> <<>>

\* A task that ended well although nothing of the community was ever stored had
\* no source that offered anything to store, if nothing failed on its way.  (The
\* entries API of Mbin is the exception: one entry of the outbox, whatever it
\* was, and it is not asked.)
NothingWithheld ==
  (fetch.at = "idle" /\ fetch.ok /\ fetch.smooth /\ \A o \in Objects : rowsOf[o] = {})
    => \/ software = "mbin" /\ ~fetch.asked
       \/ \A i \in DOMAIN Offer : ~Sound(Offer[i])

\* A reply becomes a post of the community only when it answers another host, or,
\* in Discourse, when what it answers is hidden: no shape of an entry, no wrapper
\* around it and no forum API loses its parent otherwise.
RepliesStayReplies ==
  \A o \in Objects : "post" \in rowsOf[o] =>
    \/ ~Answers(o) \/ AcrossHosts(o)
    \/ software = "discourse" /\ InReplyTo[o] \in Hidden
=============================================================================
