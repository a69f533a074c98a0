-------------------------------- MODULE Votes --------------------------------
(***************************************************************************)
(* The votes on one post: likes and unlikes of local users, Likes and      *)
(* Undos that arrive from other servers, the count the lists are sorted    *)
(* by, what other servers are told of local votes and what the rows show   *)
(* of it, and the retention statements that delete votes and posts         *)
(* (src/src/routes/api/posts/mod.rs, src/src/apub_util/ingest.rs,          *)
(* src/src/main.rs, src/src/tasks.rs, src/src/worker.rs).                  *)
(*                                                                         *)
(* PostgreSQL runs all of this at READ COMMITTED: a statement sees what    *)
(* was committed before it began, its sub-selects included, and waits for  *)
(* the row it writes.  So a transaction that votes has three steps here:   *)
(* its INSERT or DELETE (Open...), the snapshot of the recount (Recount)   *)
(* and the write of the count together with the commit (Commit...).  A     *)
(* statement on its own is a transaction of two steps: what its            *)
(* sub-selects see (Scan...) and what it then does (Apply...).             *)
(*                                                                         *)
(* Clocks are abstract: a remote post may be old enough for retention at   *)
(* any time.  Replies and their votes are not modelled; forwarding a       *)
(* remote vote to the followers of a local community is no vote of its own.*)
(***************************************************************************)
EXTENDS Integers, FiniteSets

CONSTANTS
  Local,       \* local users who vote
  Peers,       \* remote actors who vote
  Author,      \* author of the post; own votes do not count
  MaxVotes,    \* bound: Like activities of one voter
  Slots,       \* bound: transactions open at a time, single statements included
  MaxTotal,    \* bound: upvotes another platform reports
  MaxArrivals  \* bound: remote votes, undos and reports, repeated ones included

ASSUME VoterAssumption == Local \cap Peers = {} /\ IsFiniteSet(Local \cup Peers)
ASSUME BoundAssumption == MaxVotes \in Nat \ {0} /\ MaxTotal \in Nat /\ MaxArrivals \in Nat

VARIABLES
  ours,      \* the post is of a local user (post.local)
  post,      \* "present", "deleted" (a tombstone) or "gone" (no row)
  vote,      \* vote[v] : the Like id of v's post_like row, 0 without a row
  mark,      \* mark[u] : the latest of the three federation columns of u's row
  score,     \* cached_likes_for_sort
  trans,     \* trans[s] : an open transaction
  used,      \* used[u] : Like ids u has drawn
  undone,    \* undone[u] : Like ids with a local_post_like_undo row
  act,       \* act[u][id] : the task that sends a Like of a local user
  taken,     \* history: Likes of local users a remote inbox took
  arrivals   \* remote activities so far

vars == <<ours, post, vote, mark, score, trans, used, undone, act, taken, arrivals>>

Voters == Local \cup Peers
Ids    == 1..MaxVotes

Sent     == 1
Received == 2
Posted   == 3

Counted(vs) == Cardinality({v \in Voters \ {Author} : vs[v] # 0})
Larger(a, b) == IF a > b THEN a ELSE b

Closed == [pc |-> "closed"]
Nobody == "nobody"

\* A transaction of voter v that has not counted yet, and a statement, with the
\* count it took and the votes it is going to delete.
Begun(kind, v, id) ==
  [pc |-> "open", kind |-> kind, who |-> v, id |-> id, n |-> 0, doomed |-> {}]
Statement(kind, n, doomed) ==
  [pc |-> "counted", kind |-> kind, who |-> Nobody, id |-> 0, n |-> n, doomed |-> doomed]

Quiet(v) == \A s \in Slots : trans[s] # Closed => trans[s].who # v

-----------------------------------------------------------------------------
(***************************************************************************)
(* Transactions.  The unique key (post, person) makes the second of two    *)
(* transactions of one voter wait for the first: Quiet.  One that finds    *)
(* nothing to insert or delete does nothing else either, and is no step.   *)
(***************************************************************************)

Open(s, kind, v, id) ==
  /\ trans[s] = Closed
  /\ Quiet(v)
  /\ post # "gone"
  /\ IF kind = "like" THEN vote[v] = 0 ELSE vote[v] = id
  /\ trans' = [trans EXCEPT ![s] = Begun(kind, v, id)]

\* Mutant: the Like of a user always has the same id.
StableId(u) == 1

\* fresh_local_post_like_ap_id
FreshId(u) == used[u] + 1

\* The INSERT of route_unstable_posts_like.  Whether the post is deleted was
\* read before the transaction, and may have changed since.
OpenLike(s, u) ==
  /\ used[u] < MaxVotes
  /\ Open(s, "like", u, FreshId(u))
  /\ used' = [used EXCEPT ![u] = @ + 1]
  /\ UNCHANGED <<ours, post, vote, mark, score, undone, act, taken, arrivals>>

\* The DELETE of route_unstable_posts_unlike.
OpenUnlike(s, u) ==
  /\ vote[u] # 0
  /\ Open(s, "unlike", u, vote[u])
  /\ UNCHANGED <<ours, post, vote, mark, score, used, undone, act, taken, arrivals>>

Arrive == arrivals < MaxArrivals /\ arrivals' = arrivals + 1

\* ingest_like: the INSERT for a remote actor.  Activities arrive in any order,
\* and more than once.
OpenRemoteLike(s, p, id) ==
  /\ Open(s, "like", p, id)
  /\ Arrive
  /\ UNCHANGED <<ours, post, vote, mark, score, used, undone, act, taken>>

\* ingest_undo: the DELETE names the id of the Like.  The Undo of a local user
\* may come back from the server it was sent to.
OpenRemoteUndo(s, v, id) ==
  /\ v \in Local => id \in undone[v]
  /\ Open(s, "undo", v, id)
  /\ Arrive
  /\ UNCHANGED <<ours, post, vote, mark, score, used, undone, act, taken>>

\* What transaction t sees: what is committed, and its own change.
Seen(t) == [vote EXCEPT ![t.who] = IF t.kind = "like" THEN t.id ELSE 0]

\* The snapshot of recalculate_cached_post_likes.
Recount(s) ==
  /\ trans[s].pc = "open"
  /\ trans' = [trans EXCEPT ![s] = [@ EXCEPT !.pc = "counted",
                                               !.n = Counted(Seen(trans[s]))]]
  /\ UNCHANGED <<ours, post, vote, mark, score, used, undone, act, taken, arrivals>>

\* The count of a remote post is never lowered here.
Recalculated(n) == IF ours THEN n ELSE Larger(score, n)

Close(s, what) ==
  /\ trans[s] # Closed
  /\ trans[s].pc = "counted"
  /\ trans[s].kind = what
  /\ trans' = [trans EXCEPT ![s] = Closed]
  /\ score' = Recalculated(trans[s].n)
  /\ vote' = Seen(trans[s])

\* The row is there; a job sends the Like of a local user.
CommitLike(s) ==
  LET u == trans[s].who
      id == trans[s].id IN
  /\ Close(s, "like")
  /\ IF u \in Local
     THEN act' = [act EXCEPT ![u][id] = "due"] /\ mark' = [mark EXCEPT ![u] = 0]
     ELSE UNCHANGED <<act, mark>>
  /\ UNCHANGED <<ours, post, used, undone, taken, arrivals>>

\* The row is gone and the undo row is there.  The job and the task that send
\* the Undo touch no table: from now on another server may have it.
CommitUnlike(s) ==
  LET u == trans[s].who IN
  /\ Close(s, "unlike")
  /\ undone' = [undone EXCEPT ![u] = @ \cup {trans[s].id}]
  /\ mark' = [mark EXCEPT ![u] = 0]
  /\ UNCHANGED <<ours, post, used, act, taken, arrivals>>

CommitUndo(s) ==
  /\ Close(s, "undo")
  /\ mark' = IF trans[s].who \in Local THEN [mark EXCEPT ![trans[s].who] = 0] ELSE mark
  /\ UNCHANGED <<ours, post, used, undone, act, taken, arrivals>>

\* A lost connection, a dropped request or a crash.
Abort(s) ==
  /\ trans[s] # Closed
  /\ trans' = [trans EXCEPT ![s] = Closed]
  /\ UNCHANGED <<ours, post, vote, mark, score, used, undone, act, taken, arrivals>>

-----------------------------------------------------------------------------
(***************************************************************************)
(* Statements on their own.                                                *)
(***************************************************************************)

Scan(s, kind, n, doomed) ==
  /\ trans[s] = Closed /\ post # "gone"
  /\ trans' = [trans EXCEPT ![s] = Statement(kind, n, doomed)]
  /\ UNCHANGED <<ours, post, vote, mark, score, used, undone, act, taken>>

Applies(s, kind) == trans[s] # Closed /\ trans[s].kind = kind

WriteCount(s, kind) ==
  /\ Applies(s, kind)
  /\ score' = trans[s].n
  /\ trans' = [trans EXCEPT ![s] = Closed]
  /\ UNCHANGED <<ours, post, vote, mark, used, undone, act, taken, arrivals>>

\* update_remote_upvotes, with the upvotes another platform reports.
ScanReport(s, total) ==
  ~ours /\ Arrive /\ Scan(s, "report", Larger(Counted(vote), total), {})

ApplyReport(s) == WriteCount(s, "report")

\* Mutant: the janitor leaves the counts of remote posts to other platforms.
ScanRecountOurs(s) ==
  ours /\ score # Counted(vote) /\ Scan(s, "recount", Counted(vote), {}) /\ UNCHANGED arrivals

\* JANITOR_RECALCULATE_POST_LIKES_SQL finds the post: its count is wrong.
ScanRecount(s) ==
  score # Counted(vote) /\ Scan(s, "recount", Counted(vote), {}) /\ UNCHANGED arrivals

ApplyRecount(s) == WriteCount(s, "recount")

\* CLEANUP_OLD_REMOTE_POST_LIKES_SQL finds old votes of remote actors.
ScanLikes(s) ==
  LET old == {p \in Peers : vote[p] # 0} IN
  /\ ~ours /\ old # {}
  /\ Scan(s, "likes", Counted(vote), {<<p, vote[p]>> : p \in old})
  /\ UNCHANGED arrivals

\* It skips the rows that a transaction has locked.  Its own deletions are not
\* in its snapshot: the count it writes is the one from before them.
ApplyLikes(s) ==
  LET removed == {p \in Peers : <<p, vote[p]>> \in trans[s].doomed /\ Quiet(p)} IN
  /\ Applies(s, "likes")
  /\ vote' = [v \in Voters |-> IF v \in removed THEN 0 ELSE vote[v]]
  /\ score' = IF removed = {} THEN score ELSE trans[s].n
  /\ trans' = [trans EXCEPT ![s] = Closed]
  /\ UNCHANGED <<ours, post, mark, used, undone, act, taken, arrivals>>

\* CLEANUP_OLD_REMOTE_POSTS_SQL finds the post old, deleted or unfollowed, and
\* without a vote of a local user.
ScanPosts(s) ==
  /\ ~ours /\ \A u \in Local : vote[u] = 0
  /\ Scan(s, "posts", 0, {})
  /\ UNCHANGED arrivals

\* A transaction with a new vote holds the post by its foreign key, and the
\* statement skips it.  A vote committed since the snapshot goes with the post;
\* a transaction that deletes a vote meets a deadlock, and may lose it (if the
\* statement loses it, that is Abort); other statements find no row to write.
ApplyPosts(s) ==
  /\ Applies(s, "posts")
  /\ IF \A i \in Slots : trans[i] # Closed => trans[i].kind # "like"
     THEN /\ post' = "gone"
          /\ vote' = [v \in Voters |-> 0]
          /\ mark' = [u \in Local |-> 0]
          /\ trans' = [i \in Slots |-> Closed]
     ELSE /\ trans' = [trans EXCEPT ![s] = Closed]
          /\ UNCHANGED <<post, vote, mark>>
  /\ UNCHANGED <<ours, score, used, undone, act, taken, arrivals>>

\* The author or an administrator deletes the post: a tombstone.
DeletePost ==
  /\ post = "present"
  /\ post' = "deleted"
  /\ UNCHANGED <<ours, vote, mark, score, trans, used, undone, act, taken, arrivals>>

\* An administrator blocks the Like's id; nobody recounts.
BlockVote(p) ==
  /\ vote[p] # 0 /\ Quiet(p)
  /\ vote' = [vote EXCEPT ![p] = 0]
  /\ UNCHANGED <<ours, post, mark, score, trans, used, undone, act, taken, arrivals>>

-----------------------------------------------------------------------------
(***************************************************************************)
(* What other servers are told.  The job that a vote spawns reads where to *)
(* send it and enqueues a task for the inbox of the author and one for the *)
(* community's; a crash may lose the job, a task may be tried again.  So a *)
(* Like that is due is delivered any number of times, or never.            *)
(***************************************************************************)

Progress(u, id, pc) == act' = [act EXCEPT ![u][id] = pc]

\* Mutant: a column of a row that is not there.
MarkAlways(u, column) == mark' = [mark EXCEPT ![u] = Larger(@, column)]

\* mark_local_like_delivery and mark_local_like_posted name post and person:
\* they mark the row the user has by now.  No column is ever reset.
Mark(u, column) ==
  mark' = IF vote[u] # 0 THEN [mark EXCEPT ![u] = Larger(@, column)] ELSE mark

\* Mutant: a Like counts as received once it is on its way.
StartDeliveryEarly(u, id) ==
  /\ act[u][id] = "due"
  /\ \A w \in Local, i \in Ids : act[w][i] \in {"none", "due"}
  /\ Mark(u, Received)
  /\ Progress(u, id, "marked")
  /\ UNCHANGED <<ours, post, vote, score, trans, used, undone, taken, arrivals>>

\* Only the main lane performs deliveries.
StartDelivery(u, id) ==
  /\ act[u][id] = "due"
  /\ \A w \in Local, i \in Ids : act[w][i] \in {"none", "due"}
  /\ Mark(u, Sent)
  /\ Progress(u, id, "marked")
  /\ UNCHANGED <<ours, post, vote, score, trans, used, undone, taken, arrivals>>

\* The remote inbox has it; the answer may get lost.
Answered(u, id) ==
  /\ act[u][id] = "marked"
  /\ taken' = taken \cup {<<u, id>>}
  /\ Progress(u, id, "posted") \/ Progress(u, id, "due")
  /\ UNCHANGED <<ours, post, vote, mark, score, trans, used, undone, arrivals>>

Unanswered(u, id) ==
  /\ act[u][id] = "marked"
  /\ Progress(u, id, "due")
  /\ UNCHANGED <<ours, post, vote, mark, score, trans, used, undone, taken, arrivals>>

FinishDelivery(u, id) ==
  /\ act[u][id] = "posted"
  /\ Mark(u, Received)
  /\ Progress(u, id, "due")
  /\ UNCHANGED <<ours, post, vote, score, trans, used, undone, taken, arrivals>>

\* A Like of a local user comes back, by itself or in an Announce, from a
\* server that has it.
Echo(u, id) ==
  /\ <<u, id>> \in taken
  /\ Mark(u, Posted)
  /\ UNCHANGED <<ours, post, vote, score, trans, used, undone, act, taken, arrivals>>

-----------------------------------------------------------------------------
Init ==
  /\ ours \in BOOLEAN
  /\ post = "present"
  /\ vote \in [Voters -> 0..1] /\ \A u \in Local : vote[u] = 0
  /\ mark = [u \in Local |-> 0]
  /\ score = Counted(vote)
  /\ trans = [s \in Slots |-> Closed]
  /\ used = [u \in Local |-> 0]
  /\ undone = [u \in Local |-> {}]
  /\ act = [u \in Local |-> [id \in Ids |-> "none"]]
  /\ taken = {}
  /\ arrivals = 0

Transaction(s) ==
  \/ \E u \in Local : OpenLike(s, u) \/ OpenUnlike(s, u)
  \/ \E id \in Ids : \/ \E p \in Peers : OpenRemoteLike(s, p, id)
                     \/ \E v \in Voters : OpenRemoteUndo(s, v, id)
  \/ Abort(s)

Proceed(s) ==
  \/ Recount(s) \/ CommitLike(s) \/ CommitUnlike(s) \/ CommitUndo(s)
  \/ ApplyReport(s) \/ ApplyRecount(s) \/ ApplyLikes(s) \/ ApplyPosts(s)

Delivery(u, id) ==
  \/ StartDelivery(u, id) \/ Answered(u, id) \/ Unanswered(u, id) \/ FinishDelivery(u, id)
  \/ Echo(u, id)

Next ==
  \/ \E s \in Slots : Transaction(s) \/ Proceed(s)
  \/ \E s \in Slots : \/ ScanRecount(s) \/ ScanLikes(s) \/ ScanPosts(s)
                     \/ \E total \in 0..MaxTotal : ScanReport(s, total)
  \/ DeletePost \/ \E p \in Peers : BlockVote(p)
  \/ \E u \in Local, id \in Ids : Delivery(u, id)

Spec == Init /\ [][Next]_vars

\* A transaction that has begun ends, and the janitor runs every night, at times
\* when not everything else is busy too.  Nothing is assumed of deliveries.
Fairness ==
  /\ \A s \in Slots : WF_vars(Proceed(s))
  /\ SF_vars(\E s \in Slots : ScanRecount(s))
  /\ SF_vars(\E s \in Slots : ApplyRecount(s))

FairSpec == Spec /\ Fairness

-----------------------------------------------------------------------------
(***************************************************************************)
(* Properties.                                                             *)
(***************************************************************************)

Transactions ==
  [pc : {"open", "counted"}, kind : {"like", "unlike", "undo", "report", "recount", "likes", "posts"},
   who : Voters \cup {Nobody}, id : 0..MaxVotes, n : Nat, doomed : SUBSET (Peers \X Ids)]

TypeOK ==
  /\ ours \in BOOLEAN /\ post \in {"present", "deleted", "gone"}
  /\ vote \in [Voters -> 0..MaxVotes]
  /\ mark \in [Local -> 0..Posted]
  /\ score \in Nat
  /\ trans \in [Slots -> Transactions \cup {Closed}]
  /\ used \in [Local -> 0..MaxVotes]
  /\ undone \in [Local -> SUBSET Ids]
  /\ act \in [Local -> [Ids -> {"none", "due", "marked", "posted"}]]
  /\ taken \subseteq Local \X Ids
  /\ \A u \in Local : vote[u] = 0 => mark[u] = 0
  /\ arrivals \in 0..MaxArrivals

\* While there is a post, every Like of a local user that went out either has
\* its row or was taken back and has its undo row, never both: whichever
\* transactions, retention statements and Undos that come back interleave, no
\* vote of a local user vanishes, and no Like is undone twice.
VotesAccounted ==
  post # "gone" =>
    \A u \in Local, id \in Ids :
      /\ act[u][id] # "none" <=> vote[u] = id \/ id \in undone[u]
      /\ ~(vote[u] = id /\ id \in undone[u])

\* A vote shows as received or posted only if a remote inbox took a Like of
\* that user, though the columns are set by post and person alone.
ReceivedWasTaken == \A u \in Local : mark[u] >= Received => \E id \in Ids : <<u, id>> \in taken

\* The count that lists are sorted by ends up being the number of votes: a
\* recount that missed a vote committed meanwhile, a total reported by another
\* platform, a blocked vote and a clean-up are all made good by the janitor.
SortCountHeals == <>[](post = "gone" \/ score = Counted(vote))

\* The test remote_post_like_cleanup_keeps_local_likes_and_refreshes_cache says
\* that the clean-up refreshes the cached count of the votes it deletes.
CleanupRefreshesCache ==
  [][\A s \in Slots : ApplyLikes(s) /\ vote' # vote => score' = Counted(vote')]_vars

=============================================================================
