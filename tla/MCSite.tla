------------------------------- MODULE MCSite -------------------------------
(* The smaller parts of the system for TLC, one behaviour for one part: they  *)
(* share no state, so the others rest in one of their initial states.         *)
EXTENDS Accounts, Listing, Threads, Moderation, Inbox, Directory, OutboxFetch, ThreadFetch,
  Polls, Sources, TLC

VARIABLE part  \* the part this behaviour is about

\* An administrator opens and closes sign-up, and communities the other way round;
\* everyone may be let in by key.
SiteSettings ==
  {s \in [open : BOOLEAN, invites : {TRUE}, all : {FALSE}, reserved : BOOLEAN] : s.reserved = s.open}

\* The pages of a list name a community of the host itself, or of others before
\* it; one endpoint has actors to look up.
CrawlPages == {<<>>, <<"far", "odd">>, <<"odd", "far", "own">>}
CrawlEndpoints == <<"lemmy-compatible", "nodebb", "discourse">>

\* A topic of two posts and one of another, late answer, to a post of another host.
HistoryParents == [head |-> "top", old |-> "top", late |-> "old", answer |-> "head", guest |-> "head"]
HistoryHosts == [o \in DOMAIN HistoryParents |-> IF o = "guest" THEN "away" ELSE "home"]
HistoryAuthors == [o \in DOMAIN HistoryParents |-> IF o \in {"answer", "late"} THEN "bob" ELSE "ann"]

Entry(ws, byGroup, url, o) == [wraps |-> ws, own |-> byGroup, bare |-> url, obj |-> o]
RelayHead == Entry(<<"Announce">>, TRUE, TRUE, "head")
RelayOld == Entry(<<"Announce">>, TRUE, TRUE, "old")
BareOld == Entry(<<>>, FALSE, TRUE, "old")
CreateAnswer == Entry(<<"Create">>, FALSE, FALSE, "answer")
AnnounceGuest == Entry(<<"Announce", "Create">>, TRUE, FALSE, "guest")
UpdateLate == Entry(<<"Update">>, TRUE, FALSE, "late")
AddHead == Entry(<<"Add">>, TRUE, FALSE, "head")
CreateOld == Entry(<<"Create">>, FALSE, FALSE, "old")
AddGuest == Entry(<<"AddElsewhere">>, TRUE, FALSE, "guest")
HistoryEntries ==
  {RelayHead, RelayOld, BareOld, CreateAnswer, AnnounceGuest, UpdateLate, AddHead, CreateOld, AddGuest}
HistoryPages ==
  {[has |-> <<RelayOld, RelayHead>>, next |-> "none"],
   [has |-> <<BareOld>>, next |-> "second"],
   [has |-> <<CreateAnswer, AnnounceGuest>>, next |-> "embedded"],
   [has |-> <<UpdateLate, AddHead>>, next |-> "outbox"],
   [has |-> <<CreateOld, AddGuest>>, next |-> "none"]}
HistoryShelves ==
  {<<>>, <<<<"head", "answer">>, <<"old", "late", "guest">>>>, <<<<"old", "late">>>>}

\* Two comments answer the first one; the second is one without a URL.
ThreadUnder ==
  [c \in {"c1", "c2", "c3", "c4", "mine"} |-> IF c \in {"c3", "mine"} THEN "c1" ELSE "post"]
ThreadsBegun == {<<>>, <<"c3", "c2", "c1">>, <<"c4", "c3", "c2", "c1">>}

Parts == {"accounts", "listing", "threads", "moderation", "inbox", "directory",
          "outbox", "thread", "polls", "sources"}

\* A poll of this server and one of another; a ballot may name any options.
PollChoices == [own |-> {"yes"}, far |-> {"red", "blue"}]
PollBallots == {{}, {"red"}, {"blue"}, {"red", "blue"}}

\* A feed's document as it was, and one of software that takes no likes now, of an
\* owner without an inbox.
SourceDocuments ==
  {[likes |-> TRUE, inbox |-> TRUE, paged |-> TRUE],
   [likes |-> FALSE, inbox |-> FALSE, paged |-> FALSE]}

SiteInit ==
  /\ part \in Parts
  /\ AccountsInit /\ ListingInit /\ ThreadsInit /\ ModerationInit /\ InboxInit /\ DirectoryInit
  /\ OutboxFetchInit /\ ThreadFetchInit /\ PollsInit /\ SourcesInit
  /\ part # "listing" => list = CHOOSE x \in Lists : TRUE
  /\ part # "inbox" => ~hosted /\ ~tracked
  /\ part # "outbox" => software = "plain" /\ shelf = <<>>
  /\ part # "thread" => platform = "other" /\ thread = <<>>
  /\ part # "polls" => reached = {} /\ \A p \in PollRows : options[p] = {}

SiteNext ==
  /\ UNCHANGED part
  /\ IF part = "accounts" THEN AccountsNext ELSE UNCHANGED accountVars
  /\ IF part = "listing" THEN ListingNext ELSE UNCHANGED listingVars
  /\ IF part = "threads" THEN ThreadsNext ELSE UNCHANGED threadVars
  /\ IF part = "moderation" THEN ModerationNext ELSE UNCHANGED moderationVars
  /\ IF part = "inbox" THEN InboxNext ELSE UNCHANGED inboxVars
  /\ IF part = "directory" THEN DirectoryNext ELSE UNCHANGED directoryVars
  /\ IF part = "outbox" THEN OutboxFetchNext ELSE UNCHANGED outboxFetchVars
  /\ IF part = "thread" THEN ThreadFetchNext ELSE UNCHANGED threadFetchVars
  /\ IF part = "polls" THEN PollsNext ELSE UNCHANGED pollVars
  /\ IF part = "sources" THEN SourcesNext ELSE UNCHANGED sourceVars

\* A bound: once decisions on a post met, or a job was lost, the last write that
\* MaxTicks has room for is checked but not followed.
SiteBound == raced \/ missed # {} \/ forward.lost => ticks < MaxTicks

\* Handlers, slots and hands, which only tell requests apart, are the same here.
SiteSymmetry == Permutations(Slots)

SiteSpec ==
  SiteInit /\ [][SiteNext]_<<part, accountVars, listingVars, threadVars, moderationVars, inboxVars,
                     directoryVars, outboxFetchVars, threadFetchVars, pollVars, sourceVars>>

\* The type invariants of the parts, each for the behaviours of its part.
SiteTypeOK ==
  /\ part \in Parts
  /\ part = "accounts" => AccountsTypeOK
  /\ part = "listing" => ListingTypeOK
  /\ part = "threads" => ThreadsTypeOK
  /\ part = "moderation" => ModerationTypeOK
  /\ part = "inbox" => InboxTypeOK
  /\ part = "directory" => DirectoryTypeOK
  /\ part = "outbox" => OutboxFetchTypeOK
  /\ part = "thread" => ThreadFetchTypeOK
  /\ part = "polls" => PollsTypeOK
  /\ part = "sources" => SourcesTypeOK
=============================================================================
