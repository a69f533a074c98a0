----------------------------- MODULE Moderation -----------------------------
(***************************************************************************)
(* A local community and one post of it: its moderators, approval and      *)
(* rejection, deletion, flags, the moderation log, and the jobs that tell  *)
(* its followers (src/src/routes/api/communities.rs, flags.rs,             *)
(* posts/mod.rs, src/src/main.rs, src/src/apub_util/mod.rs).               *)
(*                                                                         *)
(* Slots check who asks in one statement and write in another, so each  *)
(* has two steps.  Followers are told by jobs that live in memory: each    *)
(* activity has its own, which hands it to the task queue.  A job may fail, *)
(* and a stop of the server loses the jobs there are.                      *)
(***************************************************************************)
EXTENDS Naturals, FiniteSets

CONSTANTS
  People,     \* local accounts
  Founder,    \* who created the community, and wrote the post
  Admin,      \* a site administrator, who may delete anything local
  Legacy,     \* moderators from before their rows had a time
  Slots,      \* bound: requests under way at a time
  MaxTicks    \* bound: writes

ASSUME ModerationAssumption ==
  /\ Founder \in People /\ Admin \in People /\ Legacy \subseteq People \ {Founder}
  /\ MaxTicks \in Nat /\ 1 <= MaxTicks

VARIABLES
  since,      \* since[p] : p's row of community_moderator
  community,  \* the community's row
  forward,    \* its Deletes: jobs there are, handed to the queue; whether one was lost
  post,       \* the post's row
  log,        \* the latest modlog_event about the post
  flag,       \* the flag of the post, if any
  duty,       \* duty[h] : a handler between its checks and its write
  telling,    \* spawned jobs about the post
  queued,     \* queued[a] : what was last handed to the queue of activity a
  missed,     \* history: activities of the post whose last job was lost
  ticks,      \* writes so far
  raced       \* history: a decision on the post met another or another's jobs

moderationVars ==
  <<since, community, forward, post, log, flag, duty, telling, queued, missed, ticks, raced>>

NoRow   == 0            \* not a moderator
NoTime  == MaxTicks + 1 \* a moderator whose row has no time
IsMod(p) == since[p] # NoRow
Tick    == ticks < MaxTicks /\ ticks' = ticks + 1

\* What followers are told of a post: that it was announced, that it was added to
\* the community's posts, or either undone; and that it was deleted.
Announcing == {"Announce", "Add"}
Activities == Announcing \cup {"Delete"}
Job(of, undo, n) == [of |-> of, undo |-> undo, n |-> n]

\* A handler between its check and its write: for whom it was checked and whom it
\* is about are kept where the write looks at them.
Anyone == "anyone"
NoDuty == [pc |-> "none"]
Duty(pc, by, about, saw) == [pc |-> pc, by |-> by, about |-> about, saw |-> saw]
Take(h, d) == duty[h] = NoDuty /\ duty' = [duty EXCEPT ![h] = d]
Leave(h)   == duty' = [duty EXCEPT ![h] = NoDuty]

\* route_unstable_communities_create and route_unstable_posts_create: the
\* founder is a moderator, a post in a local community is approved at once and
\* its announcement spawned.
ModerationInit ==
  /\ since = [p \in People |-> IF p \in Legacy THEN NoTime ELSE IF p = Founder THEN 1 ELSE NoRow]
  /\ community = [deleted |-> FALSE, described |-> FALSE]
  /\ forward = [jobs |-> 0, sent |-> 0, lost |-> FALSE]
  /\ post = [approved |-> TRUE, rejected |-> FALSE, sticky |-> FALSE, deleted |-> FALSE]
  /\ log = "none"
  /\ flag = "none"
  /\ duty = [h \in Slots |-> NoDuty]
  /\ telling = {Job(a, FALSE, 0) : a \in Announcing}
  /\ queued = [a \in Activities |-> "nothing"]
  /\ missed = {}
  /\ ticks = 1
  /\ raced = FALSE

-----------------------------------------------------------------------------
\* route_unstable_communities_moderators_add: by a moderator, for a local user.
BeginAdd(h, by, p) ==
  /\ IsMod(by)
  /\ Take(h, Duty("add", Anyone, p, 0))
  /\ UNCHANGED <<since, community, forward, post, log, flag, telling, queued, missed, ticks, raced>>

\* Its INSERT, which fails on a row that is there.
CommitAdd(h) ==
  LET p == duty[h].about IN
  /\ duty[h].pc = "add"
  /\ IF IsMod(p) THEN UNCHANGED <<since, ticks>>
     ELSE Tick /\ since' = [since EXCEPT ![p] = ticks']
  /\ Leave(h)
  /\ UNCHANGED <<community, forward, post, log, flag, telling, queued, missed, raced>>

\* route_unstable_communities_moderators_remove reads the time of who asks.
BeginRemove(h, by, p) ==
  /\ IsMod(by)
  /\ Take(h, Duty("remove", by, p, since[by]))
  /\ UNCHANGED <<since, community, forward, post, log, flag, telling, queued, missed, ticks, raced>>

\* Mutant: the comparison of the two times is turned round.
MayRemoveElder(saw, p) == saw = NoTime \/ since[p] = NoRow \/ since[p] <= saw

\* Its transaction, which is rolled back when who is removed has been a
\* moderator for longer.
MayRemove(saw, p) == saw = NoTime \/ since[p] = NoRow \/ (since[p] # NoTime /\ since[p] >= saw)

CommitRemove(h) ==
  LET p == duty[h].about IN
  /\ duty[h].pc = "remove"
  /\ IF MayRemove(duty[h].saw, p) /\ IsMod(p)
     THEN Tick /\ since' = [since EXCEPT ![p] = NoRow]
     ELSE UNCHANGED <<since, ticks>>
  /\ Leave(h)
  /\ UNCHANGED <<community, forward, post, log, flag, telling, queued, missed, raced>>

\* route_unstable_communities_patch: require_community_exists, the check of the
\* moderator.
BeginDescribe(h, by) ==
  /\ ~community.deleted /\ IsMod(by)
  /\ Take(h, Duty("describe", Anyone, Anyone, 0))
  /\ UNCHANGED <<since, community, forward, post, log, flag, telling, queued, missed, ticks, raced>>

\* Its UPDATE.  The Update it sends to followers carries no content.
CommitDescribe(h) ==
  /\ duty[h].pc = "describe"
  /\ Tick
  /\ community' = [community EXCEPT !.described = TRUE]
  /\ Leave(h)
  /\ UNCHANGED <<since, forward, post, log, flag, telling, queued, missed, raced>>

\* route_unstable_communities_delete, by a moderator or an administrator.
BeginDelete(h, by) ==
  /\ IsMod(by) \/ by = Admin
  /\ Take(h, Duty("delete", Anyone, Anyone, 0))
  /\ UNCHANGED <<since, community, forward, post, log, flag, telling, queued, missed, ticks, raced>>

\* Mutant: the UPDATE does not look at `deleted`.
CommitDeleteAgain(h) ==
  /\ duty[h].pc = "delete"
  /\ Tick
  /\ community' = [deleted |-> TRUE, described |-> FALSE]
  /\ forward' = [forward EXCEPT !.jobs = @ + 1]
  /\ Leave(h)
  /\ UNCHANGED <<since, post, log, flag, telling, queued, missed, raced>>

\* Its UPDATE, and a job that forwards the Delete if it was this one that deleted.
CommitDelete(h) ==
  /\ duty[h].pc = "delete"
  /\ IF community.deleted THEN UNCHANGED <<community, forward, ticks>>
     ELSE /\ Tick
          /\ community' = [deleted |-> TRUE, described |-> FALSE]
          /\ forward' = [forward EXCEPT !.jobs = @ + 1]
  /\ Leave(h)
  /\ UNCHANGED <<since, post, log, flag, telling, queued, missed, raced>>

\* The job hands the Delete to the queue (enqueue_forward_to_community_followers),
\* or fails.
ForwardDelete(fails) ==
  /\ forward.jobs > 0
  /\ forward' = IF fails THEN [forward EXCEPT !.jobs = @ - 1, !.lost = TRUE]
                ELSE [forward EXCEPT !.jobs = @ - 1, !.sent = @ + 1]
  /\ UNCHANGED <<since, community, post, log, flag, duty, telling, queued, missed, ticks, raced>>

\* route_unstable_communities_posts_patch reads the post it is about to change.
BeginDecide(h, by, approve) ==
  /\ ~community.deleted /\ IsMod(by)
  /\ Take(h, Duty(IF approve THEN "approve" ELSE "reject", Anyone, Anyone,
                  IF post.approved THEN 1 ELSE 0))
  /\ UNCHANGED <<since, community, forward, post, log, flag, telling, queued, missed, ticks, raced>>

Tell(activities, undo) ==
  telling' = telling \cup {Job(a, undo, ticks') : a \in activities}
\* What h decides is told while something else about the post is still open.
Races(h) ==
  \/ \E job \in telling : job.of \in Announcing
  \/ \E g \in Slots \ {h} : duty[g].pc \in {"approve", "reject"}

\* Mutant: a rejection takes back the Announce alone.
CommitDecideHalf(h) ==
  LET approve == duty[h].pc = "approve"
      changes == approve # (duty[h].saw = 1)
  IN
  /\ duty[h].pc \in {"approve", "reject"}
  /\ Tick
  /\ post' = [post EXCEPT !.approved = approve, !.rejected = ~approve]
  /\ log' = IF changes THEN duty[h].pc ELSE log
  /\ IF changes THEN Tell(IF approve THEN Announcing ELSE {"Announce"}, ~approve)
     ELSE UNCHANGED telling
  /\ Leave(h)
  /\ raced' = (raced \/ Races(h))
  /\ UNCHANGED <<since, community, forward, flag, queued, missed>>

\* Its transaction: the decision, and an event if it is not what was read; then
\* a job for each activity (spawn_announce_community_post, or the two Undos).
CommitDecide(h) ==
  LET approve == duty[h].pc = "approve"
      changes == approve # (duty[h].saw = 1)
  IN
  /\ duty[h].pc \in {"approve", "reject"}
  /\ Tick
  /\ post' = [post EXCEPT !.approved = approve, !.rejected = ~approve]
  /\ log' = IF changes THEN duty[h].pc ELSE log
  /\ IF changes THEN Tell(Announcing, ~approve) ELSE UNCHANGED telling
  /\ Leave(h)
  /\ raced' = (raced \/ Races(h))
  /\ UNCHANGED <<since, community, forward, flag, queued, missed>>

\* The same handler with `sticky`.
Stick(by, sticky) ==
  /\ ~community.deleted /\ IsMod(by) /\ sticky # post.sticky
  /\ Tick
  /\ post' = [post EXCEPT !.sticky = sticky]
  /\ UNCHANGED <<since, community, forward, log, flag, duty, telling, queued, missed, raced>>

\* route_unstable_posts_delete, by the author or an administrator.
BeginDeletePost(h, by) ==
  /\ by \in {Founder, Admin} /\ ~post.deleted
  /\ Take(h, Duty("delete post", by, Anyone, 0))
  /\ UNCHANGED <<since, community, forward, post, log, flag, telling, queued, missed, ticks, raced>>

CommitDeletePost(h) ==
  /\ duty[h].pc = "delete post"
  /\ Tick
  /\ post' = [post EXCEPT !.deleted = TRUE]
  /\ log' = IF duty[h].by # Founder THEN "delete" ELSE log
  /\ Tell({"Delete"}, FALSE)
  /\ Leave(h)
  /\ UNCHANGED <<since, community, forward, flag, queued, missed, raced>>

\* route_unstable_posts_flags_create, to the community.
FlagPost ==
  /\ flag = "none" /\ ~post.deleted
  /\ Tick
  /\ flag' = "open"
  /\ UNCHANGED <<since, community, forward, post, log, duty, telling, queued, missed, raced>>

\* route_unstable_flags_edit: by a moderator of the post's community.
BeginDismiss(h, by) ==
  /\ flag # "none" /\ IsMod(by)
  /\ Take(h, Duty("dismiss", Anyone, Anyone, 0))
  /\ UNCHANGED <<since, community, forward, post, log, flag, telling, queued, missed, ticks, raced>>

CommitDismiss(h) ==
  /\ duty[h].pc = "dismiss"
  /\ Tick
  /\ flag' = "dismissed"
  /\ Leave(h)
  /\ UNCHANGED <<since, community, forward, post, log, telling, queued, missed, raced>>

\* A job hands its activity to the queue (enqueue_send_to_audience).
RunTelling(job) ==
  /\ telling' = telling \ {job}
  /\ queued' = [queued EXCEPT ![job.of] = IF job.undo THEN "undone" ELSE "done"]
  /\ missed' = missed \ {job.of}
  /\ UNCHANGED <<since, community, forward, post, log, flag, duty, ticks, raced>>

\* It fails, of which the log is told.
FailTelling(job) ==
  /\ telling' = telling \ {job}
  /\ missed' = missed \cup {job.of}
  /\ UNCHANGED <<since, community, forward, post, log, flag, duty, queued, ticks, raced>>

\* The server stops, and its handlers and jobs are gone.
StopServer ==
  /\ telling # {} \/ forward.jobs > 0 \/ \E h \in Slots : duty[h] # NoDuty
  /\ telling' = {}
  /\ forward' = [forward EXCEPT !.jobs = 0, !.lost = @ \/ forward.jobs > 0]
  /\ duty' = [h \in Slots |-> NoDuty]
  /\ missed' = missed \cup {job.of : job \in telling}
  /\ UNCHANGED <<since, community, post, log, flag, queued, ticks, raced>>

ModerationNext ==
  \/ \E h \in Slots, by, p \in People : BeginAdd(h, by, p)
  \/ \E h \in Slots : CommitAdd(h)
  \/ \E h \in Slots, by, p \in People : BeginRemove(h, by, p)
  \/ \E h \in Slots : CommitRemove(h)
  \/ \E h \in Slots, by \in People : BeginDescribe(h, by)
  \/ \E h \in Slots : CommitDescribe(h)
  \/ \E h \in Slots, by \in People : BeginDelete(h, by)
  \/ \E h \in Slots : CommitDelete(h)
  \/ \E h \in Slots, by \in People, approve \in BOOLEAN : BeginDecide(h, by, approve)
  \/ \E h \in Slots : CommitDecide(h)
  \/ \E by \in People, sticky \in BOOLEAN : Stick(by, sticky)
  \/ \E h \in Slots, by \in People : BeginDeletePost(h, by)
  \/ \E h \in Slots : CommitDeletePost(h)
  \/ FlagPost
  \/ \E h \in Slots, by \in People : BeginDismiss(h, by)
  \/ \E h \in Slots : CommitDismiss(h)
  \/ \E fails \in BOOLEAN : ForwardDelete(fails)
  \/ \E job \in telling : RunTelling(job) \/ FailTelling(job)
  \/ StopServer

ModerationSpec == ModerationInit /\ [][ModerationNext]_moderationVars

-----------------------------------------------------------------------------
\* Rows, duties and jobs are what they are declared to be: a duty is one of the
\* handlers' and belongs to an account, times are of the past.
ModerationTypeOK ==
  /\ \A p \in People : since[p] \in 0..ticks \/ (since[p] = NoTime /\ p \in Legacy)
  /\ community \in [deleted : BOOLEAN, described : BOOLEAN]
  /\ forward \in [jobs : Nat, sent : Nat, lost : BOOLEAN]
  /\ post \in [approved : BOOLEAN, rejected : BOOLEAN, sticky : BOOLEAN, deleted : BOOLEAN]
  /\ log \in {"none", "approve", "reject", "delete"} /\ flag \in {"none", "open", "dismissed"}
  /\ \A h \in Slots : duty[h] = NoDuty \/ ({duty[h].by, duty[h].about} \subseteq People \cup {Anyone})
  /\ \A job \in telling : job.of \in Activities /\ job.undo \in BOOLEAN /\ job.n <= ticks
  /\ queued \in [Activities -> {"nothing", "done", "undone"}] /\ missed \subseteq Activities
  /\ ticks \in 1..MaxTicks /\ raced \in BOOLEAN

FounderGoes == since[Founder] = 1 /\ since'[Founder] # 1
SeniorRemovesFounder ==
  \E h \in Slots : /\ duty[h].pc = "remove" /\ duty[h].about = Founder
                  /\ duty[h].by \in Legacy \cup {Founder}

\* Who founded a community stays its moderator until they leave, or until a
\* moderator whose row has no time removes them: whoever they add, whatever
\* those do to each other, and whichever removals are under way when rows are
\* removed and added again.
FounderStays ==
  [][FounderGoes => SeniorRemovesFounder]_moderationVars

\* However many deletions of a community overlap, its followers' Delete is handed
\* to the queue once at most; and once a community is deleted it is, or a job is
\* there to do it, unless that job failed or was lost with a stop of the server.
DeleteForwardedOnce ==
  forward.jobs + forward.sent = IF community.deleted /\ ~forward.lost THEN 1 ELSE 0

\* What was last handed to the queue of an activity is what the post is.
Matches(a) ==
  queued[a] = IF a = "Delete" THEN (IF post.deleted THEN "done" ELSE "nothing")
              ELSE IF post.approved THEN "done" ELSE "undone"

\* The moderation log agrees with the post's row, and when the jobs of an
\* activity are done, so does what was last handed to the queue of it: neither
\* the Announce nor the Add of a rejected post is left standing, nor that of an
\* approved one undone.  Decisions that meet each other or an earlier one's jobs
\* are the exception (raced), and an activity whose last job was lost (missed).
FollowersTold ==
  /\ ~raced => (log = "approve" => post.approved) /\ (log = "reject" => ~post.approved)
  /\ \A a \in Activities \ missed :
       \/ a \in Announcing /\ raced
       \/ \E job \in telling : job.of = a
       \/ Matches(a)
=============================================================================
