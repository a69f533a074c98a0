------------------------------- MODULE Follow -------------------------------
(***************************************************************************)
(* Local accounts following one remote target: a community, a collection   *)
(* target (a library behind an owner actor) or a person.                   *)
(*                                                                         *)
(* A follow is a row of community_follow, collection_target_follow or      *)
(* person_follow.  The request that inserts it spawns a detached job that  *)
(* stamps the row with an activity id and enqueues a delivery task; the    *)
(* worker performs the delivery in several statements around one POST; the *)
(* remote server may answer with an Accept or a Reject that the inbox lane *)
(* ingests, at any time after the POST.  Unfollowing deletes the row and   *)
(* inserts an undo row in one transaction, and the undo travels the same   *)
(* way.  The nightly janitor spawns again what a crash lost.               *)
(*                                                                         *)
(* The rows are keyed by (target, follower) alone: nothing in a delivery   *)
(* or an answer tells a row from the one that a later follow of the same   *)
(* account inserts.  The generation of a row, `gen`, is known to the model *)
(* only.                                                                   *)
(***************************************************************************)
EXTENDS Integers, FiniteSets

CONSTANTS
  Users,        \* local accounts
  Kind,         \* "community", "collection" or "person"
  MaxFollows,   \* bound: rows an account may insert one after the other
  Slots,        \* bound: jobs and delivery tasks alive at once
  MaxTries,     \* max_attempts of deliver_to_inbox
  MaxCrashes,   \* bound: crashes of the server and of the worker
  Answers,      \* what the remote server does with a Follow it received
  HasPosts,     \* the community has posts here, so its row is never removed
  Conventional  \* its actor id has a form from which the janitor knows the inbox

ASSUME KindAssumption    == Kind \in {"community", "collection", "person"}
ASSUME BoundsAssumption  == /\ MaxFollows \in Nat /\ MaxCrashes \in Nat
                            /\ MaxTries \in Nat \ {0}
ASSUME AnswersAssumption == Answers \subseteq {"accept", "reject", "silent"}
ASSUME PostsAssumption   == HasPosts \in BOOLEAN
ASSUME ConventionalAssumption == Conventional \in BOOLEAN

VARIABLES
  target,    \* the target's own row: "present", a tombstone ("deleted") or "gone"
  known,     \* what its row holds of it: its inbox, and its actor id
  follow,    \* follow[u] : the row of account u
  gens,      \* gens[u] : rows account u inserted so far
  undo,      \* undo[u][g] : the undo row of the g-th row of account u
  job,       \* job[s] : a spawned job, later its delivery task
  response,  \* Accepts and Rejects in the inbox, not ingested yet
  refusal,   \* progress of the ingest that refuses a post of the community
  crashes,   \* crashes so far
  lists,     \* remote: accounts the remote server counts as followers
  heard,     \* history: rows that a Follow the remote inbox took counts for
  verdict    \* history: the last answer ingested since account u asked to follow

vars == <<target, known, follow, gens, undo, job, response, refusal, crashes, lists, heard, verdict>>
remote == <<lists, heard>>

\* What a delivery needs of its target.  For a collection both belong to the
\* owner; a remote community or person always has its actor id.
Contact   == {"inbox", "actor"}
Reachable == known = Contact

Gens     == 1..MaxFollows
FollowRow == [gen : 0..MaxFollows, accepted : BOOLEAN, sent : BOOLEAN, received : BOOLEAN]
UndoRow  == [state : {"none", "live", "gone"}, sent : BOOLEAN, received : BOOLEAN]
JobPc    == {"free", "spawned", "stamped", "queued", "marked", "posted", "noted"}
Job      == [pc : JobPc, what : {"follow", "undo"}, user : Users, gen : Gens,
             tries : 0..MaxTries]
FreeJob  == [pc |-> "free"]

NoFollow == [gen |-> 0, accepted |-> FALSE, sent |-> FALSE, received |-> FALSE]
NoUndo   == [state |-> "none", sent |-> FALSE, received |-> FALSE]

TypeOK ==
  /\ target \in {"present", "deleted", "gone"}
  /\ known \subseteq Contact
  /\ follow \in [Users -> FollowRow]
  /\ gens \in [Users -> 0..MaxFollows]
  /\ undo \in [Users -> [Gens -> UndoRow]]
  /\ job \in [Slots -> Job \cup {FreeJob}]
  /\ response \subseteq Users \X BOOLEAN
  /\ refusal \in {"idle", "untracked", "unfollowed"}
  /\ crashes \in 0..MaxCrashes
  /\ lists \subseteq Users
  /\ heard \in [Users -> SUBSET Gens]
  /\ verdict \in [Users -> {"none", "accept", "reject"}]

HasRow(u) == follow[u].gen # 0
Active(s) == job[s].pc # "free"
Running(s) == job[s].pc \in {"marked", "posted", "noted"}
Queued(s)  == job[s].pc = "queued"

-----------------------------------------------------------------------------
(***************************************************************************)
(* Spawned jobs.                                                           *)
(***************************************************************************)

Spawned(what, u, g) == [pc |-> "spawned", what |-> what, user |-> u, gen |-> g, tries |-> 0]

\* spawn_task: the jobs of Js start, each in a free slot of its own.
SpawnAll(Js) ==
  \E place \in [Js -> {s \in Slots : ~Active(s)}] :
    /\ \A i, j \in Js : place[i] = place[j] => i = j
    /\ job' = [s \in Slots |-> IF \E j \in Js : place[j] = s
                               THEN CHOOSE j \in Js : place[j] = s ELSE job[s]]

Advance(s, pc) ==
  [pc |-> pc, what |-> job[s].what, user |-> job[s].user, gen |-> job[s].gen,
   tries |-> job[s].tries]

\* spawn_enqueue_send_*_follow up to the UPDATE of ap_id.  Without the target's
\* row, its inbox or its actor the job ends with an error that is only logged.
Stamp(s) ==
  /\ job[s].pc = "spawned"
  /\ job[s].what = "follow"
  /\ job' = [job EXCEPT ![s] =
               IF target # "gone" /\ Reachable THEN Advance(s, "stamped") ELSE FreeJob]
  /\ UNCHANGED <<target, known, follow, gens, undo, response, refusal, crashes, remote, verdict>>

\* A community without an inbox is fetched first, which may yield the inbox.
FetchAndStamp(s) ==
  /\ job[s].pc = "spawned"
  /\ job[s].what = "follow"
  /\ Kind = "community"
  /\ target # "gone"
  /\ "inbox" \notin known
  /\ known' = Contact
  /\ job' = [job EXCEPT ![s] = Advance(s, "stamped")]
  /\ UNCHANGED <<target, follow, gens, undo, response, refusal, crashes, remote, verdict>>

\* enqueue_task of the Follow.
EnqueueFollow(s) ==
  /\ job[s].pc = "stamped"
  /\ job' = [job EXCEPT ![s] = Advance(s, "queued")]
  /\ UNCHANGED <<target, known, follow, gens, undo, response, refusal, crashes, remote, verdict>>

\* spawn_enqueue_send_*_follow_undo: reads target and undo row with query_one,
\* which fails if either is gone; without inbox or actor nothing is enqueued.
EnqueueUndo(s) ==
  /\ job[s].pc = "spawned"
  /\ job[s].what = "undo"
  /\ job' = [job EXCEPT ![s] =
               IF /\ target # "gone"
                  /\ undo[job[s].user][job[s].gen].state = "live"
                  /\ Reachable
               THEN Advance(s, "queued") ELSE FreeJob]
  /\ UNCHANGED <<target, known, follow, gens, undo, response, refusal, crashes, remote, verdict>>

-----------------------------------------------------------------------------
(***************************************************************************)
(* Requests of the local accounts.                                         *)
(***************************************************************************)

NewFollow(g) == [gen |-> g, accepted |-> FALSE, sent |-> FALSE, received |-> FALSE]

\* INSERT ... ON CONFLICT DO NOTHING inserted the row: a job sends the Follow.
\* Tombstones, and collections whose owner has no known inbox, are refused.
FollowNew(u) ==
  /\ target = "present"
  /\ Kind = "collection" => "inbox" \in known
  /\ ~HasRow(u)
  /\ gens[u] < MaxFollows
  /\ gens' = [gens EXCEPT ![u] = @ + 1]
  /\ follow' = [follow EXCEPT ![u] = NewFollow(gens[u] + 1)]
  /\ verdict' = [verdict EXCEPT ![u] = "none"]
  /\ SpawnAll({Spawned("follow", u, gens[u] + 1)})
  /\ UNCHANGED <<target, known, undo, response, refusal, crashes, remote>>

\* The row exists and is not accepted: the same request, or for a community
\* opening its page while the row is unsent, sends the Follow again.  A person
\* is not followed twice.
FollowAgain(u) ==
  /\ target = "present"
  /\ Kind = "collection" => "inbox" \in known
  /\ HasRow(u)
  /\ ~follow[u].accepted
  /\ Kind # "person"
  /\ verdict' = [verdict EXCEPT ![u] = "none"]
  /\ SpawnAll({Spawned("follow", u, follow[u].gen)})
  /\ UNCHANGED <<target, known, follow, gens, undo, response, refusal, crashes, remote>>

NewUndo == [state |-> "live", sent |-> FALSE, received |-> FALSE]

\* Mutant: only a follow the remote server accepted is undone.
RemoveAcceptedOnly(U) ==
  /\ follow' = [u \in Users |-> IF u \in U THEN NoFollow ELSE follow[u]]
  /\ undo' = [u \in Users |-> [g \in Gens |->
                IF u \in U /\ g = follow[u].gen /\ follow[u].accepted
                THEN NewUndo ELSE undo[u][g]]]
  /\ verdict' = [u \in Users |-> IF u \in U THEN "none" ELSE verdict[u]]
  /\ SpawnAll({Spawned("undo", u, follow[u].gen) : u \in {v \in U : follow[v].accepted}})

\* The rows of the accounts in U are deleted and their undo rows inserted, in
\* one transaction; after the commit a job per undo is spawned.
Remove(U) ==
  /\ follow' = [u \in Users |-> IF u \in U THEN NoFollow ELSE follow[u]]
  /\ undo' = [u \in Users |-> [g \in Gens |->
                IF u \in U /\ g = follow[u].gen THEN NewUndo ELSE undo[u][g]]]
  /\ verdict' = [u \in Users |-> IF u \in U THEN "none" ELSE verdict[u]]
  /\ SpawnAll({Spawned("undo", u, follow[u].gen) : u \in U})

Unfollow(u) ==
  /\ HasRow(u)
  /\ Remove({u})
  /\ UNCHANGED <<target, known, gens, response, refusal, crashes, remote>>

\* unfollow_inactive: accepted follows of communities without a post here.
UnfollowInactive(u) ==
  /\ Kind = "community"
  /\ target = "present"
  /\ ~HasPosts
  /\ HasRow(u)
  /\ follow[u].accepted
  /\ Remove({u})
  /\ UNCHANGED <<target, known, gens, response, refusal, crashes, remote>>

-----------------------------------------------------------------------------
(***************************************************************************)
(* The delivery task (DeliverToInbox::perform), one statement at a time.   *)
(* Only the main lane delivers, so one delivery runs at a time; in which   *)
(* order it takes the queued ones is left open.                            *)
(***************************************************************************)

\* UPDATEs on a follow row name target and follower: they meet whatever row
\* the account has by then.
MarkFollow(u, received, accepted) ==
  follow' = [follow EXCEPT ![u] =
    IF @.gen = 0 THEN @
    ELSE [gen |-> @.gen, accepted |-> @.accepted \/ accepted, sent |-> TRUE,
          received |-> @.received \/ received]]

\* UPDATEs on an undo row name its id.
MarkUndo(u, g, received) ==
  undo' = [undo EXCEPT ![u][g] =
    IF @.state # "live" THEN @
    ELSE [state |-> "live", sent |-> TRUE, received |-> @.received \/ received]]

Mark(s, received, accepted) ==
  IF job[s].what = "follow"
  THEN MarkFollow(job[s].user, received, accepted) /\ UNCHANGED undo
  ELSE MarkUndo(job[s].user, job[s].gen, received) /\ UNCHANGED follow

\* Mutant: the row is marked accepted before the request is made.
MarkSentAccepted(s) ==
  /\ Queued(s)
  /\ \A i \in Slots : ~Running(i)
  /\ Mark(s, FALSE, TRUE)
  /\ job' = [job EXCEPT ![s] = Advance(s, "marked")]
  /\ UNCHANGED <<target, known, gens, response, refusal, crashes, remote, verdict>>

\* The main lane takes the task and marks the row as sent.
MarkSent(s) ==
  /\ Queued(s)
  /\ \A i \in Slots : ~Running(i)
  /\ Mark(s, FALSE, FALSE)
  /\ job' = [job EXCEPT ![s] = Advance(s, "marked")]
  /\ UNCHANGED <<target, known, gens, response, refusal, crashes, remote, verdict>>

\* What the remote server does with the activity it received.
RemoteProcesses(s, answer) ==
  LET u == job[s].user IN
  IF job[s].what = "undo"
  THEN lists' = lists \ {u} /\ UNCHANGED response
  ELSE /\ lists' = IF answer = "reject" THEN lists \ {u} ELSE lists \cup {u}
       /\ response' = CASE answer = "accept" -> response \cup {<<u, TRUE>>}
                        [] answer = "reject" -> response \cup {<<u, FALSE>>}
                        [] OTHER -> response

\* History: the Follow counts for the row it was sent for and for the row that
\* is there when the remote inbox takes it.
Hear(s) ==
  heard' = IF job[s].what = "follow"
           THEN [heard EXCEPT ![job[s].user] =
                   @ \cup ({job[s].gen, follow[job[s].user].gen} \ {0})]
           ELSE heard

\* The POST is answered with a success.
PostAnswered(s, answer) ==
  /\ job[s].pc = "marked"
  /\ RemoteProcesses(s, answer)
  /\ Hear(s)
  /\ job' = [job EXCEPT ![s] = Advance(s, "posted")]
  /\ UNCHANGED <<target, known, follow, gens, undo, refusal, crashes, verdict>>

\* Mutant: the attempts of a delivery are not counted against the maximum.
RetryForever(s) ==
  [pc |-> "queued", what |-> job[s].what, user |-> job[s].user, gen |-> job[s].gen,
   tries |-> job[s].tries + 1]

\* FAIL_TASK_SQL, or the reset after a crash: another attempt or none.
Retry(s) ==
  IF job[s].tries + 1 < MaxTries
  THEN [pc |-> "queued", what |-> job[s].what, user |-> job[s].user, gen |-> job[s].gen,
        tries |-> job[s].tries + 1]
  ELSE FreeJob

\* The POST fails: no connection, an error status, or a time-out.  Some answers
\* (an HTML page, a blocked domain) end the task at once.
PostFails(s) ==
  /\ job[s].pc = "marked"
  /\ \E after \in {Retry(s), FreeJob} : job' = [job EXCEPT ![s] = after]
  /\ UNCHANGED <<target, known, follow, gens, undo, response, refusal, crashes, remote, verdict>>

\* The remote server processed the activity, but its answer is lost.
AnswerLost(s, answer) ==
  /\ job[s].pc = "marked"
  /\ RemoteProcesses(s, answer)
  /\ Hear(s)
  /\ job' = [job EXCEPT ![s] = Retry(s)]
  /\ UNCHANGED <<target, known, follow, gens, undo, refusal, crashes, verdict>>

\* mark_local_*_delivery(.., true): for a collection target the same UPDATE
\* sets accepted; a community follow has another statement to go.
MarkReceived(s) ==
  /\ job[s].pc = "posted"
  /\ Mark(s, TRUE, job[s].what = "follow" /\ Kind = "collection")
  /\ job' = [job EXCEPT ![s] =
               IF job[s].what = "follow" /\ Kind = "community"
               THEN Advance(s, "noted") ELSE FreeJob]
  /\ UNCHANGED <<target, known, gens, response, refusal, crashes, remote, verdict>>

\* UPDATE community_follow SET accepted=TRUE: a 2xx answer counts as accepted.
SetAccepted(s) ==
  /\ job[s].pc = "noted"
  /\ follow' = [follow EXCEPT ![job[s].user] =
       IF @.gen = 0 THEN @
       ELSE [gen |-> @.gen, accepted |-> TRUE, sent |-> @.sent, received |-> @.received]]
  /\ job' = [job EXCEPT ![s] = FreeJob]
  /\ UNCHANGED <<target, known, gens, undo, response, refusal, crashes, remote, verdict>>

Deliver(s) ==
  \/ MarkSent(s)
  \/ \E answer \in Answers : PostAnswered(s, answer) \/ AnswerLost(s, answer)
  \/ PostFails(s) \/ MarkReceived(s) \/ SetAccepted(s)

-----------------------------------------------------------------------------
(***************************************************************************)
(* The inbox lane.                                                         *)
(***************************************************************************)

\* mark_local_follow_response: the object id, without its nonce, names target
\* and follower, so the answer counts for the row that is there now.
IngestResponse(u, accepted) ==
  /\ <<u, accepted>> \in response
  /\ response' = response \ {<<u, accepted>>}
  /\ follow' = [follow EXCEPT ![u] =
       IF @.gen = 0 \/ target = "gone" THEN @
       ELSE [gen |-> @.gen, accepted |-> accepted, sent |-> TRUE, received |-> TRUE]]
  /\ verdict' = [verdict EXCEPT ![u] =
       IF ~HasRow(u) \/ target = "gone" THEN @ ELSE IF accepted THEN "accept" ELSE "reject"]
  /\ UNCHANGED <<target, known, gens, undo, job, refusal, crashes, remote>>

\* remote_community_post_is_wanted: a post of the community arrives and
\* REMOTE_COMMUNITY_TRACKING_SQL finds no accepted local follow.
RefusePost ==
  /\ Kind = "community"
  /\ refusal = "idle"
  /\ target = "present"
  /\ \A u \in Users : ~follow[u].accepted
  /\ refusal' = "untracked"
  /\ UNCHANGED <<target, known, follow, gens, undo, job, response, crashes, remote, verdict>>

\* enqueue_local_unfollows_for_untracked_remote_community: every local follow,
\* accepted or not, is removed and undone.
RefuseUnfollow ==
  /\ refusal = "untracked"
  /\ Remove({u \in Users : HasRow(u)})
  /\ refusal' = "unfollowed"
  /\ UNCHANGED <<target, known, gens, response, crashes, remote>>

\* The community's row goes, and by ON DELETE CASCADE its undo rows with it.
DropTarget ==
  /\ target' = "gone"
  /\ undo' = [u \in Users |-> [g \in Gens |->
                IF undo[u][g].state = "live"
                THEN [state |-> "gone", sent |-> undo[u][g].sent, received |-> undo[u][g].received]
                ELSE undo[u][g]]]

\* DELETE_EMPTY_UNTRACKED_REMOTE_COMMUNITY_SQL
RefuseDelete ==
  /\ refusal = "unfollowed"
  /\ refusal' = "idle"
  /\ IF ~HasPosts /\ target = "present" /\ \A u \in Users : ~HasRow(u)
     THEN DropTarget ELSE UNCHANGED <<target, undo>>
  /\ UNCHANGED <<known, follow, gens, job, response, crashes, remote, verdict>>

-----------------------------------------------------------------------------
(***************************************************************************)
(* The scheduler.                                                          *)
(***************************************************************************)

\* CLEANUP_REMOTE_COMMUNITIES_SQL: an empty community, or its tombstone, without
\* an accepted follow is removed, its unaccepted follows too, and no undo is
\* sent for them.
CleanupCommunity ==
  /\ Kind = "community"
  /\ target # "gone"
  /\ ~HasPosts
  /\ \A u \in Users : ~follow[u].accepted
  /\ follow' = [u \in Users |-> NoFollow]
  /\ verdict' = [u \in Users |-> "none"]
  /\ DropTarget
  /\ UNCHANGED <<known, gens, job, response, refusal, crashes, remote>>

\* Mutants: the janitor repairs one of the two tables only.
UnsentFollowsNever(contact) == {}
UnsentUndosNever(contact) == {}

\* JANITOR_PENDING_COMMUNITY_FOLLOWS_SQL
UnsentFollows(contact) ==
  IF Kind # "community" \/ target # "present" \/ contact # Contact THEN {}
  ELSE {Spawned("follow", u, follow[u].gen) : u \in
          {v \in Users : HasRow(v) /\ ~follow[v].accepted /\ ~follow[v].sent}}

\* Is there a pending or running delivery of this undo?
UndoQueued(u, g) ==
  \E s \in Slots : /\ job[s].pc \notin {"free", "spawned"}
                   /\ job[s].what = "undo" /\ job[s].user = u /\ job[s].gen = g

\* JANITOR_PENDING_*_FOLLOW_UNDOS_SQL: the undo of a tombstone is sent too.
UnsentUndos(contact) ==
  IF target = "gone" \/ contact # Contact THEN {}
  ELSE {Spawned("undo", ug[1], ug[2]) : ug \in
          {vg \in Users \X Gens : /\ undo[vg[1]][vg[2]].state = "live"
                                  /\ ~undo[vg[1]][vg[2]].sent
                                  /\ ~UndoQueued(vg[1], vg[2])}}

\* JANITOR_REPAIR_CONVENTIONAL_COMMUNITY_ENDPOINTS_SQL
Repaired == IF Kind = "community" /\ Conventional THEN Contact ELSE known

\* run_janitor repairs the endpoints and spawns what the two statements find.
Janitor ==
  LET unsent == UnsentFollows(Repaired) \cup UnsentUndos(Repaired) IN
  /\ unsent # {} \/ Repaired # known
  /\ known' = Repaired
  /\ SpawnAll(unsent)
  /\ UNCHANGED <<target, follow, gens, undo, response, refusal, crashes, remote, verdict>>

\* A fetch, a discovery or an actor that writes to us fills in the target's row.
\* What is known of a community or a collection is never taken back.
LearnTarget ==
  /\ target # "gone"
  /\ \E contact \in SUBSET Contact :
       /\ Kind # "person" => known \subseteq contact
       /\ known' = contact
  /\ UNCHANGED <<target, follow, gens, undo, job, response, refusal, crashes, remote, verdict>>

\* ingest_delete of the community: its row becomes a tombstone, which keeps the
\* inbox and the rows of its followers.
RemoteDeletes ==
  /\ Kind = "community"
  /\ target = "present"
  /\ target' = "deleted"
  /\ UNCHANGED <<known, follow, gens, undo, job, response, refusal, crashes, remote, verdict>>

\* Spawned jobs die with the server process; a task that was running is queued
\* again when the worker comes back, and the attempt counts.
Crash ==
  /\ crashes < MaxCrashes
  /\ crashes' = crashes + 1
  /\ refusal' = "idle"
  /\ job' = [s \in Slots |->
       CASE job[s].pc \in {"spawned", "stamped"} -> FreeJob
         [] Running(s) -> Retry(s)
         [] OTHER -> job[s]]
  /\ UNCHANGED <<target, known, follow, gens, undo, response, remote, verdict>>

-----------------------------------------------------------------------------
Init ==
  /\ target = "present"
  /\ known \in {contact \in SUBSET Contact : Kind # "collection" => "actor" \in contact}
  /\ follow = [u \in Users |-> NoFollow]
  /\ gens = [u \in Users |-> 0]
  /\ undo = [u \in Users |-> [g \in Gens |-> NoUndo]]
  /\ job = [s \in Slots |-> FreeJob]
  /\ response = {}
  /\ refusal = "idle"
  /\ crashes = 0
  /\ lists = {}
  /\ heard = [u \in Users |-> {}]
  /\ verdict = [u \in Users |-> "none"]

JobStep(s) == Stamp(s) \/ FetchAndStamp(s) \/ EnqueueFollow(s) \/ EnqueueUndo(s)
Request(u) == FollowNew(u) \/ FollowAgain(u) \/ Unfollow(u) \/ UnfollowInactive(u)

Next ==
  \/ \E u \in Users : Request(u)
  \/ \E s \in Slots : JobStep(s) \/ Deliver(s)
  \/ \E u \in Users, accepted \in BOOLEAN : IngestResponse(u, accepted)
  \/ RefusePost \/ RefuseUnfollow \/ RefuseDelete
  \/ CleanupCommunity \/ Janitor \/ LearnTarget \/ RemoteDeletes \/ Crash

Spec == Init /\ [][Next]_vars

\* The runtime polls every spawned job, the worker performs every queued task
\* (module TaskQueue, EverySettles), and the janitor runs every night.  Nothing
\* is assumed of the remote server.
Fairness ==
  /\ \A s \in Slots : WF_vars(JobStep(s)) /\ SF_vars(Deliver(s))
  /\ SF_vars(Janitor)

FairSpec == Spec /\ Fairness

-----------------------------------------------------------------------------
(***************************************************************************)
(* Properties.                                                             *)
(***************************************************************************)

\* A follow is shown as accepted only if the remote inbox took a Follow of that
\* account at some time: crashes, retries, refollows and answers that come
\* late never make it up (DeliverToInbox::perform, mark_local_follow_response).
AcceptedWasHeard == \A u \in Users : follow[u].accepted => heard[u] # {}

\* A row whose Follow reached the remote server leaves an undo row behind when
\* it is removed, whichever of unfollow, unfollow_inactive and the refusal of
\* posts removes it, as long as the target has a row,
\* were it a tombstone.
RemovalLeavesUndo ==
  target # "gone" =>
    \A u \in Users : \A g \in heard[u] : follow[u].gen = g \/ undo[u][g].state = "live"

\* A follow of a community whose inbox and actor are known, or become known at
\* some later time, is handed to the worker: a job lost in a crash, or ended for
\* want of an inbox, is spawned again by the janitor.  Not so once the community
\* is a tombstone, which the janitor skips, nor if an answer to an earlier Follow
\* of the account has marked the row accepted before its own was sent.
EveryFollowSent ==
  \A u \in Users, g \in Gens :
    follow[u].gen = g /\ Reachable ~>
      \/ follow[u].gen # g \/ follow[u].sent
      \/ follow[u].accepted \/ target # "present"

\* The same for undo rows, whose community may be a tombstone, unless the row
\* goes with its community.
EveryUndoSent ==
  \A u \in Users, g \in Gens :
    undo[u][g].state = "live" /\ Reachable ~> undo[u][g].sent \/ undo[u][g].state = "gone"

\* A remote Reject is recorded "as received and not accepted" (ingest.rs).
RejectedNotAccepted ==
  \A u \in Users : verdict[u] = "reject" => ~follow[u].accepted

=============================================================================
