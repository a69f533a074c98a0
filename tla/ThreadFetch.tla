---------------------------- MODULE ThreadFetch ----------------------------
(***************************************************************************)
(* The tasks that read back what became of a remote post: its own object   *)
(* again, its reply collection, and its thread from the web API of the     *)
(* software that serves it (FetchRemotePostRefresh, FetchPostReplies and   *)
(* FetchPlatformPostThread in src/src/tasks.rs).  Reading a thread takes   *)
(* one request at a time while the thread changes at its server.           *)
(*                                                                         *)
(* A task of each kind is there once: the INSERT adds none while an equal  *)
(* one is pending or running.  (Two such statements of two connections may *)
(* still both insert; the second reading then repeats the first.)          *)
(***************************************************************************)
EXTENDS Integers, Sequences, FiniteSets

CONSTANTS
  Theirs,    \* comments of other servers below the post
  Mine,      \* comments of local users below the post
  Top,       \* the post itself
  Under,     \* what each comment answers: Top, or a comment that answers Top
  Unusable,  \* entries of the thread without a URL (deleted, malformed)
  Flaky,     \* comments whose object may fail to be fetched or ingested
  Begun,     \* the threads a post may have when it is first seen
  Platforms, \* what the post's URL may say of its server
  PageSize,  \* LEMMY_THREAD_COMMENT_PAGE_SIZE, PLATFORM_..., and of collections
  MaxPages,  \* LEMMY_THREAD_COMMENT_MAX_PAGES, PLATFORM_..., POST_REPLIES_FETCH_...
  MaxTries,  \* MAX_ATTEMPTS of the three tasks
  MaxWalks,  \* bound: tasks that are performed
  MaxMoves   \* bound: what happens around them

BelowPost == Theirs \cup Mine

ASSUME ThreadFetchAssumption ==
  /\ Theirs \cap Mine = {} /\ Top \notin BelowPost /\ Unusable \cup Flaky \subseteq Theirs
  /\ Under \in [BelowPost -> BelowPost \cup {Top}]
  /\ \A c \in BelowPost : Under[c] # Top => Under[Under[c]] = Top
  /\ \A s \in Begun : /\ s \in Seq(BelowPost) /\ \A i, j \in 1..Len(s) : s[i] = s[j] => i = j
                     /\ \A i \in 1..Len(s) : Under[s[i]] \in {Top} \cup {s[j] : j \in 1..Len(s)}
  /\ Platforms \subseteq {"lemmy", "piefed", "peertube", "mbin", "other"}
  /\ PageSize \in Nat \ {0} /\ MaxPages \in Nat \ {0} /\ MaxTries \in Nat \ {0}
  /\ MaxWalks \in Nat /\ MaxMoves \in Nat

Kinds == {"refresh", "replies", "thread"}
NoTask == [row |-> "none", tries |-> 0]

VARIABLES
  platform, \* the software of the post's server
  fate,     \* of the post: "tracked", "untracked" or "gone"
  thread,   \* the comments below it at its server, the newest first
  ingested, \* comments of Theirs with a reply row
  mark,     \* mark[m] : what is known of a comment of ours at that server
  like,     \* the same of our like of the post: none, sent, listed there, posted
  tasks,    \* the task of each kind
  reading,  \* the task that is performed
  readings, \* how many there were
  moves     \* what happened around them

threadFetchVars == <<platform, fate, thread, ingested, mark, like, tasks, reading, readings, moves>>

NoWalk == [kind |-> "none", at |-> "idle", page |-> 1, notes |-> 0, found |-> {}, tried |-> {},
           began |-> {}, whole |-> FALSE]

ThreadFetchInit ==
  /\ platform \in Platforms /\ fate = "tracked" /\ thread \in Begun /\ ingested = {}
  /\ mark = [m \in Mine |-> "here"] /\ like = "none"
  /\ tasks = [k \in Kinds |-> NoTask] /\ reading = NoWalk /\ readings = 0 /\ moves = 0

InThread == {thread[i] : i \in DOMAIN thread}

-----------------------------------------------------------------------------
(***************************************************************************)
(* Enqueuing.                                                              *)
(***************************************************************************)

\* platform_thread_fetch_supported.
Supported == platform # "other"

\* ENQUEUE_REMOTE_POST_REFRESH_SQL, _POST_REPLIES_FETCH_ and
\* _PLATFORM_POST_THREAD_FETCH_: a row for each kind asked for that has none.
Enqueued(ts, kinds) ==
  [k \in Kinds |-> IF k \in kinds /\ ts[k].row = "none" /\ (k = "thread" => Supported)
                   THEN [row |-> "pending", tries |-> 0] ELSE ts[k]]

\* Of a host for which PLATFORM_THREAD_FETCH_PENDING_HOST_LIMIT threads are waiting
\* (`full`), no other is read.
ThreadUnless(full) == IF full THEN {} ELSE {"thread"}

\* enqueue_parent_post_refresh_for_local_comment, when a comment was delivered.
AfterComment(ts, full) ==
  IF fate = "gone" THEN ts ELSE Enqueued(ts, {"refresh"} \cup ThreadUnless(full))

\* enqueue_parent_post_refresh_for_local_like.
AfterLike(ts, full) ==
  IF fate = "gone" THEN ts ELSE Enqueued(ts, {"refresh"} \cup ThreadUnless(full))

\* enqueue_post_background_fetches_if_present: the post was ingested (again), with
\* a reply collection that may have items (reply_collection_may_have_items).
AfterPost(ts, full) == Enqueued(ts, {"replies"} \cup ThreadUnless(full))

-----------------------------------------------------------------------------
(***************************************************************************)
(* The other server, and ours apart from the tasks.                        *)
(***************************************************************************)
Elsewhere ==
  /\ moves < MaxMoves /\ moves' = moves + 1
  /\ UNCHANGED <<platform, ingested, readings>>

\* Someone comments; a reading that is under way may or may not see it.
Appears(c) ==
  /\ c \notin InThread /\ Under[c] \in InThread \cup {Top}
  /\ c \in Mine => mark[c] # "here"
  /\ thread' = <<c>> \o thread
  /\ UNCHANGED <<fate, mark, like, tasks, reading>> /\ Elsewhere

\* A comment without answers is removed: the pages of a reading move.
Disappears(c) ==
  /\ \A d \in InThread : Under[d] # c
  /\ \E i \in DOMAIN thread :
       /\ thread[i] = c
       /\ thread' = SubSeq(thread, 1, i - 1) \o SubSeq(thread, i + 1, Len(thread))
  /\ reading' = [reading EXCEPT !.whole = FALSE]
  /\ UNCHANGED <<fate, mark, like, tasks>> /\ Elsewhere

\* The delivery of our comment, or of our like, was accepted.
Delivered(m, full) ==
  /\ mark[m] = "here" /\ mark' = [mark EXCEPT ![m] = "sent"]
  /\ tasks' = AfterComment(tasks, full)
  /\ UNCHANGED <<fate, thread, like, reading>> /\ Elsewhere

LikeDelivered(full) ==
  /\ like = "none" /\ like' = "sent" /\ tasks' = AfterLike(tasks, full)
  /\ UNCHANGED <<fate, thread, mark, reading>> /\ Elsewhere

LikeListed ==
  /\ like = "sent" /\ like' = "listed"
  /\ UNCHANGED <<fate, thread, mark, tasks, reading>> /\ Elsewhere

\* The post arrives again by another way.
PostIngested(full) ==
  /\ fate = "tracked" /\ tasks' = AfterPost(tasks, full)
  /\ UNCHANGED <<fate, thread, mark, like, reading>> /\ Elsewhere

PostChanges(p) ==
  /\ fate # "gone" /\ p # fate /\ fate' = p
  /\ UNCHANGED <<thread, mark, like, tasks, reading>> /\ Elsewhere

-----------------------------------------------------------------------------
(***************************************************************************)
(* The three tasks.                                                        *)
(***************************************************************************)

Ended(ts, kind) == [ts EXCEPT ![kind] = NoTask]

\* A failed attempt: again, or for good (module TaskQueue).
Failed(ts, kind) ==
  IF ts[kind].tries >= MaxTries THEN Ended(ts, kind) ELSE [ts EXCEPT ![kind].row = "pending"]

\* PLATFORM_POST_THREAD_IS_TRACKED_SQL, POST_REPLIES_ARE_TRACKED_SQL: nothing for
\* a post that is gone or that nobody follows any more.
TakeTask(kind) ==
  /\ reading.at = "idle" /\ readings < MaxWalks /\ tasks[kind].row = "pending"
  /\ readings' = readings + 1
  /\ IF fate # "tracked" THEN tasks' = Ended(tasks, kind) /\ UNCHANGED reading
     ELSE /\ tasks' = [tasks EXCEPT ![kind] = [row |-> "running", tries |-> tasks[kind].tries + 1]]
          /\ reading' = [NoWalk EXCEPT !.kind = kind, !.began = InThread, !.whole = TRUE,
                                    !.at = IF kind = "thread" /\ platform # "mbin" THEN "score"
                                           ELSE IF kind = "refresh" THEN "post" ELSE "page"]
  /\ UNCHANGED <<platform, fate, thread, ingested, mark, like, moves>>

EndsWell == tasks' = Ended(tasks, reading.kind)

\* mark_local_comment_seen_on_remote_thread for ours; the others are fetched and
\* ingested, `lost` failing, which is only logged.
IngestComments(cs, lost) ==
  /\ ingested' = ingested \cup ((cs \cap Theirs) \ lost)
  /\ mark' = [m \in Mine |-> IF m \in cs THEN "posted" ELSE mark[m]]

\* FetchRemotePostRefresh: the post itself, which may bring the other two tasks,
\* and then the likes at its server; not being able to read those is no error.
\* mark_local_post_likes_seen_from_activitypub_object.
LikesRead(readable) == IF readable /\ like = "listed" THEN "posted" ELSE like

Refresh(readable, full) ==
  /\ reading.at = "post"
  /\ tasks' = AfterPost(Ended(tasks, "refresh"), full)
  /\ like' = LikesRead(readable) /\ reading' = NoWalk
  /\ UNCHANGED <<platform, fate, thread, ingested, mark, readings, moves>>

\* The upvotes that Lemmy, PieFed and PeerTube report (module Votes) come first.
ScoreRead ==
  /\ reading.at = "score" /\ reading' = [reading EXCEPT !.at = "page"]
  /\ UNCHANGED <<platform, fate, thread, ingested, mark, like, tasks, readings, moves>>

\* A request fails.  A permanent answer, and any of Mbin's, ends the task well
\* (platform_thread_fetch_error_is_permanent); nothing that was found is ingested.
RequestFails(permanent) ==
  /\ reading.at \in {"post", "score", "page"}
  /\ tasks' = IF reading.kind = "thread" /\ (permanent \/ platform = "mbin")
              THEN Ended(tasks, reading.kind) ELSE Failed(tasks, reading.kind)
  /\ reading' = NoWalk
  /\ UNCHANGED <<platform, fate, thread, ingested, mark, like, readings, moves>>

NthPage(s, n) ==
  LET from == (n - 1) * PageSize
  IN  SubSeq(s, from + 1, IF from + PageSize < Len(s) THEN from + PageSize ELSE Len(s))

SetOf(s) == {s[i] : i \in DOMAIN s}
Roots(s) ==
  LET Upto[i \in 0..Len(s)] ==
        IF i = 0 THEN <<>>
        ELSE IF Under[s[i]] = Top THEN Append(Upto[i - 1], s[i]) ELSE Upto[i - 1]
  IN  Upto[Len(s)]
AnswersTo(cs) == {c \in InThread : Under[c] \in cs}

\* What a URL, or for Mbin a note by a safe author, can be made of.
Usable(cs) == cs \ Unusable

\* One page of each platform: what it gives, and whether it ends the reading.
\* As LemmyPage, but short by the comments that are of use.
LemmyPageByUse(n) ==
  LET page == Usable(SetOf(NthPage(thread, n)))
  IN  [has |-> page, short |-> Cardinality(page) < PageSize]

\* Lemmy lists all comments, and a page is short by what it lists.
LemmyPage(n) ==
  LET page == NthPage(thread, n)
  IN  [has |-> Usable(SetOf(page)), short |-> Len(page) < PageSize]

\* PieFed has the whole tree in one answer (collect_piefed_comment_urls).
PieFedPage == [has |-> Usable(InThread), short |-> TRUE]

\* PeerTube lists the threads; a page is short by the URLs taken from it
\* (collect_peertube_comment_urls).
PeerTubePage(n) ==
  LET page == Usable(SetOf(NthPage(Roots(thread), n)))
  IN  [has |-> page, short |-> Cardinality(page) < PageSize]

\* Mbin lists the threads with what is below them; a page is short by the notes
\* made of it, no note is made below a comment that makes none, and there is room
\* for as many notes as the pages have threads
\* (collect_mbin_comment_activitypub_note).
MbinPage(n) ==
  LET roots == Usable(SetOf(NthPage(Roots(thread), n)))
      notes == roots \cup Usable(AnswersTo(roots))
      room == PageSize * MaxPages - reading.notes
      kept == IF Cardinality(notes) <= room THEN notes
              ELSE CHOOSE some \in SUBSET notes : Cardinality(some) = room
  IN  [has |-> kept, short |-> Cardinality(kept) < PageSize]

\* A page of a reply collection, with its link to the next.
CollectionPage(n) ==
  [has |-> Usable(SetOf(NthPage(thread, n))), short |-> n * PageSize >= Len(thread)]

PageRead ==
  IF reading.kind = "replies" THEN CollectionPage(reading.page)
  ELSE CASE platform = "lemmy"    -> LemmyPage(reading.page)
         [] platform = "piefed"   -> PieFedPage
         [] platform = "peertube" -> PeerTubePage(reading.page)
         [] OTHER                 -> MbinPage(reading.page)

\* The other pages a reading would have had to read, had there been no limit.
CutShort(page) ==
  \/ ~page.short /\ reading.page >= MaxPages
  \/ reading.kind = "thread" /\ platform \in {"mbin", "peertube"} /\ Unusable \cap InThread # {}
  \/ /\ reading.kind = "thread" /\ platform = "mbin"
     /\ reading.notes + Cardinality(page.has) >= PageSize * MaxPages

\* The next page of a thread; its comments are ingested when all were read, but
\* PeerTube's threads are asked for one by one before.
ThreadPage ==
  /\ reading.at = "page" /\ reading.kind = "thread"
  /\ LET over == PageRead.short \/ reading.page >= MaxPages
     IN  reading' = [reading EXCEPT !.found = @ \cup PageRead.has, !.page = @ + 1,
                              !.notes = @ + Cardinality(PageRead.has),
                              !.whole = @ /\ ~CutShort(PageRead),
                              !.at = IF ~over THEN "page"
                                     ELSE IF platform = "peertube" THEN "threads" ELSE "ingest"]
  /\ UNCHANGED <<platform, fate, thread, ingested, mark, like, tasks, readings, moves>>

\* fetch_peertube_thread: a thread that fails is passed over.
PeerTubeThreads(missed) ==
  /\ reading.at = "threads" /\ missed \subseteq SetOf(Roots(thread))
  /\ reading' = [reading EXCEPT !.at = "ingest", !.whole = @ /\ missed = {},
                          !.found = @ \cup Usable(AnswersTo(reading.found \ missed))]
  /\ UNCHANGED <<platform, fate, thread, ingested, mark, like, tasks, readings, moves>>

\* ingest_comment_urls, ingest_comment_items.
IngestThread(lost) ==
  /\ reading.at = "ingest" /\ IngestComments(reading.found, lost)
  /\ reading' = [reading EXCEPT !.at = "idle", !.tried = reading.found]
  /\ EndsWell
  /\ UNCHANGED <<platform, fate, thread, like, readings, moves>>

\* FetchPostReplies ingests a page before it asks for the next.  A next URL it has
\* had already stops it, and so does POST_REPLIES_FETCH_MAX_ITEMS, met in a page of
\* which only what was `read` is ingested then.
RepliesPage(read, lost, stops) ==
  /\ reading.at = "page" /\ reading.kind = "replies"
  /\ read \subseteq PageRead.has /\ (~stops => read = PageRead.has)
  /\ IngestComments(read, lost)
  /\ LET over == PageRead.short \/ reading.page >= MaxPages \/ stops
     IN  /\ reading' = [reading EXCEPT !.tried = @ \cup read, !.page = @ + 1,
                                 !.whole = @ /\ ~CutShort(PageRead) /\ ~stops,
                                 !.at = IF over THEN "idle" ELSE "page"]
         /\ IF over THEN EndsWell ELSE UNCHANGED tasks
  /\ UNCHANGED <<platform, fate, thread, like, readings, moves>>

ThreadFetchNext ==
  \/ \E c \in BelowPost : Appears(c) \/ Disappears(c)
  \/ \E m \in Mine, full \in BOOLEAN : Delivered(m, full)
  \/ \E full \in BOOLEAN : LikeDelivered(full) \/ PostIngested(full)
  \/ LikeListed
  \/ \E p \in {"tracked", "untracked", "gone"} : PostChanges(p)
  \/ \E k \in Kinds : TakeTask(k)
  \/ \E readable, full \in BOOLEAN : Refresh(readable, full)
  \/ \E permanent \in BOOLEAN : RequestFails(permanent)
  \/ ScoreRead \/ ThreadPage
  \/ \E missed \in SUBSET (Flaky \cap InThread) : PeerTubeThreads(missed)
  \/ \E lost \in SUBSET Flaky : IngestThread(lost)
  \/ \E read \in SUBSET InThread, lost \in SUBSET Flaky, stops \in BOOLEAN :
       RepliesPage(read, lost, stops)

ThreadFetchSpec == ThreadFetchInit /\ [][ThreadFetchNext]_threadFetchVars

-----------------------------------------------------------------------------
(***************************************************************************)
(* Properties.                                                             *)
(***************************************************************************)

\* The types of the variables.
ThreadFetchTypeOK ==
  /\ platform \in Platforms /\ fate \in {"tracked", "untracked", "gone"}
  /\ InThread \subseteq BelowPost /\ ingested \subseteq Theirs
  /\ mark \in [Mine -> {"here", "sent", "posted"}]
  /\ like \in {"none", "sent", "listed", "posted"}
  /\ tasks \in [Kinds -> [row : {"none", "pending", "running"}, tries : 0..MaxTries]]
  /\ reading.at \in {"idle", "post", "score", "page", "threads", "ingest"}
  /\ reading.found \cup reading.tried \cup reading.began \subseteq BelowPost
  /\ readings \in 0..MaxWalks /\ moves \in 0..MaxMoves

\* A reading that ended well has tried every usable comment that was there when it
\* began, whatever was written meanwhile, unless something was removed, a limit or
\* a repeated URL ended it, a PeerTube thread failed, or (Mbin, PeerTube) a page
\* had an entry that is no use and so looked short.
NothingSkipped ==
  reading.at = "idle" /\ reading.whole => Usable(reading.began) \subseteq reading.tried

=============================================================================
