----------------------------- MODULE Visibility -----------------------------
(***************************************************************************)
(* Which remote servers and communities lotide shows as places to post:    *)
(* the crawl of a server's communities, the signed probe of a server, the  *)
(* evidence every delivery brings, and the suppression of servers that     *)
(* refuse this one (src/src/tasks.rs, discovery and janitor SQL of         *)
(* src/src/worker.rs, the guards of src/src/routes/api/communities.rs).    *)
(*                                                                         *)
(* None of the multi-statement updates here is a transaction, except the   *)
(* crawl's: a task is modelled as the list of statements it still has to   *)
(* execute, each statement an action, and a lane may stop between any two. *)
(* A task that waits in the queue and one whose first request is           *)
(* outstanding are the same here; the queue is module TaskQueue.           *)
(*                                                                         *)
(* Clocks are abstract: a refresh interval may always have elapsed, and    *)
(* whether a server's last success is recent is chosen when it matters.    *)
(* Every community_discovery row has at least two posts, since a crawl     *)
(* admits no other (discovery_count_if_active).                            *)
(***************************************************************************)
EXTENDS Integers, Sequences, FiniteSets

CONSTANTS
  Hosts,        \* remote servers
  Communities,  \* remote communities
  HostOf,       \* HostOf[c] : the host of the community's actor id
  Listed,       \* Listed[h] : what h's directory lists, with communities of other hosts
  Lemmy,        \* hosts that publish /api/v3/federated_instances
  Lanes,        \* lanes that take these tasks: "main", "discovery"
  Visitors,     \* communities local users follow and post to
  MaxOutgoing,  \* bound: activities of local users that wait at a time
  MaxChanges,   \* bound: changes of mind of the remote servers
  MaxStops      \* bound: crashes and task time-outs

ASSUME HostAssumption == /\ HostOf \in [Communities -> Hosts]
                         /\ Listed \in [Hosts -> SUBSET Communities]
                         /\ Lemmy \subseteq Hosts
ASSUME LaneAssumption == Lanes \subseteq {"main", "discovery"} /\ "main" \in Lanes
ASSUME VisitorAssumption == Visitors \subseteq Communities
ASSUME BoundAssumption == MaxOutgoing \in Nat /\ MaxChanges \in Nat /\ MaxStops \in Nat

Nobody == "nobody"

VARIABLES
  open,       \* hosts that take activities of this server (the environment)
  changes,    \* how often a host changed its mind
  stops,      \* crashes and time-outs so far
  known,      \* hosts with a community_discovery_server row
  server,     \* the columns of that row; before there is one, their defaults
  row,        \* communities with a row
  disc,       \* their community_discovery row
  posts,      \* communities with a remote post that can be liked
  follow,     \* communities with a local follow
  barredAll,  \* community_server_visibility_suppression
  barredUser, \* community_user_visibility_suppression (of the probe user)
  outgoing,   \* deliveries of local users in the task table
  job,        \* what each lane executes
  janitor     \* where run_janitor is

vars == <<open, changes, stops, known, server, row, disc, posts, follow,
          barredAll, barredUser, outgoing, job, janitor>>

\* Variables only a delivery of a local user's activity or a request touches.
users == <<follow, outgoing>>
environment == <<open, changes, stops>>
tables == <<known, server, row, disc, posts, barredAll, barredUser>>

-----------------------------------------------------------------------------
(***************************************************************************)
(* Tasks as lists of statements.                                           *)
(***************************************************************************)

BlockHost      == <<"mark_block", "deactivate", "purge">>
OpenHost       == <<"mark_open", "clear_all", "activate">>
SuppressHost   == <<"mark_suppressed", "deactivate", "purge">>
DeliveryProof  == <<"mark_delivery", "activate">>
ProbeProof     == <<"mark_probe", "clear_all", "clear_user", "activate">>

Program == [crawl |-> <<"policy", "crawl">>, probe |-> <<"policy", "target">>,
            follow |-> <<"post">>, content |-> <<"post">>]

\* `heard` is the answer the task got from the host: evidence for the
\* statements that lift a suppression.  `doomed` is the snapshot of a purge.
Idle == [kind |-> "idle", on |-> Nobody, com |-> Nobody, todo |-> <<>>,
         heard |-> "nothing", doomed |-> {}]

Task(kind, h, c) == [Idle EXCEPT !.kind = kind, !.on = h, !.com = c, !.todo = Program[kind]]

At(l, statement) == job[l].todo # <<>> /\ Head(job[l].todo) = statement

\* The lane continues with the task t, or is free when nothing is left of it.
Continue(l, t) == job' = [job EXCEPT ![l] = IF t.todo = <<>> THEN Idle ELSE t]

Finish(l) == Continue(l, [job[l] EXCEPT !.todo = Tail(@), !.doomed = {}])

\* The lane goes on with other statements than the ones it had.
Turn(l, todo, heard) == Continue(l, [job[l] EXCEPT !.todo = todo, !.heard = heard])

OnHost(h) == {c \in Communities : HostOf[c] = h}

\* Nothing is ever posted to a host without communities, a mere directory.
Homes == {HostOf[c] : c \in Communities}

Discovered(h) == {c \in OnHost(h) : disc[c] # "none"}

SetDisc(cs, status) == disc' = [c \in Communities |-> IF c \in cs THEN status ELSE disc[c]]

-----------------------------------------------------------------------------
(***************************************************************************)
(* The scheduler enqueues crawls and probes; a lane takes one task.  At    *)
(* most one pending or running task of a kind is there for a host.         *)
(***************************************************************************)

NoneRuns(kind, h) == \A l \in Lanes : ~(job[l].kind = kind /\ job[l].on = h)

\* The lane takes a task for host h.
Take(l, kind, h, c) ==
  /\ job[l] = Idle
  /\ job' = [job EXCEPT ![l] = Task(kind, h, c)]
  /\ UNCHANGED <<environment, tables, follow, janitor>>

\* ENQUEUE_DUE_COMMUNITY_DISCOVERY_SQL
StartCrawl(l, h) ==
  /\ h \in known /\ ~server[h].suppressed
  /\ barredAll \cap OnHost(h) = {}
  /\ NoneRuns("crawl", h)
  /\ Take(l, "crawl", h, Nobody)
  /\ UNCHANGED outgoing

\* Mutant: a suppressed host is never probed.
ProbeDueUnlessSuppressed(h) ==
  h \in known /\ posts \cap OnHost(h) # {} /\ ~server[h].suppressed

\* ENQUEUE_DUE_COMMUNITY_INTERACTION_PROBES_SQL: suppressed hosts as well
ProbeDue(h) == h \in known /\ posts \cap OnHost(h) # {}

StartProbe(l, h) ==
  /\ ProbeDue(h)
  /\ NoneRuns("probe", h)
  /\ Take(l, "probe", h, Nobody)
  /\ UNCHANGED outgoing

\* The discovery lane takes no deliveries.
StartDelivery(l) ==
  /\ l = "main"
  /\ \E d \in outgoing :
       /\ Take(l, d[1], HostOf[d[2]], d[2])
       /\ outgoing' = outgoing \ {d}

-----------------------------------------------------------------------------
(***************************************************************************)
(* What the remote server says.                                            *)
(***************************************************************************)

\* check_public_lemmy_federation_relation: nothing is learnt from a host that
\* publishes no lists, lists this server in none of them, or does not answer.
Policy(h) ==
  {"none"} \cup (IF h \notin Lemmy THEN {} ELSE IF h \in open THEN {"open"} ELSE {"blocked"})

ReadPolicy(l) ==
  /\ At(l, "policy")
  /\ \E p \in Policy(job[l].on) :
       CASE p = "blocked" -> Turn(l, BlockHost, "no")
         [] p = "open"    -> Turn(l, OpenHost \o Tail(job[l].todo), "yes")
         [] OTHER         -> Finish(l)
  /\ UNCHANGED <<environment, tables, users, janitor>>

Posting(l) == At(l, "like") \/ At(l, "undo") \/ At(l, "post")

\* What follows the two statements of mark_delivery_host_interaction_success.
AfterDelivery(l) ==
  CASE At(l, "like") -> <<"undo">>
    [] At(l, "undo") -> ProbeProof
    [] OTHER         -> IF job[l].kind = "follow" THEN <<"clear_follow">> ELSE <<>>

PostAccepted(l) ==
  /\ Posting(l) /\ job[l].on \in open
  /\ Turn(l, DeliveryProof \o AfterDelivery(l), "yes")
  /\ UNCHANGED <<environment, tables, users, janitor>>

\* DeliverToInbox::perform returns at `send_inbox_delivery_request(..).await?`:
\* it records nothing.  The probe classifies the error itself; the task of a
\* user's activity fails, and may be tried again.
NotDelivered(l, record, answer) ==
  /\ IF job[l].kind \in {"follow", "content"}
     THEN \E again \in BOOLEAN :
            /\ job' = [job EXCEPT ![l] = Idle]
            /\ outgoing' = IF again THEN outgoing \cup {<<job[l].kind, job[l].com>>}
                                    ELSE outgoing
     ELSE Turn(l, record, answer) /\ UNCHANGED outgoing
  /\ UNCHANGED <<environment, tables, follow, janitor>>

\* The error text names a ban or a block.
PostRefused(l) ==
  Posting(l) /\ job[l].on \notin open /\ NotDelivered(l, SuppressHost, "no")

\* A transport error, or a text the classifier takes for a diagnostic only.
PostFails(l) == Posting(l) /\ NotDelivered(l, <<"mark_transient">>, job[l].heard)

FindTarget(l) ==
  /\ At(l, "target")
  /\ \E c \in posts \cap OnHost(job[l].on) :
       Continue(l, [job[l] EXCEPT !.todo = <<"like">>, !.com = c])
  /\ UNCHANGED <<environment, tables, users, janitor>>

\* Every eligible post is gone, or the probe user has liked it already.
NoTarget(l) ==
  /\ At(l, "target")
  /\ Turn(l, <<"mark_transient">>, job[l].heard)
  /\ UNCHANGED <<environment, tables, users, janitor>>

-----------------------------------------------------------------------------
(***************************************************************************)
(* The crawl.  The directory is read without the database; everything it   *)
(* found is committed in one transaction.                                  *)
(***************************************************************************)

\* The row of a host whose communities are shown.
Shown(fails, suppressed) == [active |-> TRUE, fails |-> fails, suppressed |-> suppressed]

\* Mutant: a crawl that works clears the suppression.
ReachedAndCleared(s) == Shown(0, FALSE)

\* What a crawl that works writes of a host.
Reached(s) == Shown(0, s.suppressed)

\* `cs` are the communities found with at least two posts; none when only
\* collection targets were found, and then no community is reset.
CrawlSucceeds(l) ==
  LET h == job[l].on IN
  /\ At(l, "crawl")
  /\ \E cs \in SUBSET Listed[h] :
       LET hosts == {HostOf[c] : c \in cs} IN
       /\ known' = known \cup {h} \cup hosts
       /\ server' = [g \in Hosts |->
            IF g = h \/ (g \in hosts /\ ~server[g].suppressed)
            THEN Reached(server[g]) ELSE server[g]]
       /\ row' = row \cup cs
       /\ disc' = [c \in Communities |->
            IF c \in cs THEN "active"
            ELSE IF cs # {} /\ c \in Discovered(h) THEN "inactive" ELSE disc[c]]
  /\ Finish(l)
  /\ UNCHANGED <<environment, posts, barredAll, barredUser, users, janitor>>

\* `fails` counts the failure at hand.
Hidden(fails, sheltered) == ~sheltered /\ fails >= 3

\* A transient error does not hide a host that succeeded within seven days.
CrawlFails(l) ==
  LET h == job[l].on IN
  /\ At(l, "crawl")
  /\ known' = known \cup {h}
  /\ \E sheltered \in BOOLEAN :
       server' = [server EXCEPT
         ![h].fails = IF @ < 3 THEN @ + 1 ELSE 3,
         ![h].active = ~Hidden(server[h].fails + 1, sheltered)]
  /\ Finish(l)
  /\ UNCHANGED <<environment, row, disc, posts, barredAll, barredUser, users, janitor>>

-----------------------------------------------------------------------------
(***************************************************************************)
(* The statements.                                                         *)
(***************************************************************************)

\* A statement that writes the row of the task's host.
WriteServer(l, statement, columns) ==
  /\ At(l, statement)
  /\ known' = known \cup {job[l].on}
  /\ server' = [server EXCEPT ![job[l].on] = columns]
  /\ Finish(l)
  /\ UNCHANGED <<environment, row, disc, posts, barredAll, barredUser, users, janitor>>

Healthy == Shown(0, FALSE)

MarkBlock(l)    == WriteServer(l, "mark_block", Shown(0, TRUE))
MarkOpen(l)     == WriteServer(l, "mark_open", Healthy)
MarkDelivery(l) == WriteServer(l, "mark_delivery", Healthy)
MarkProbe(l)    == WriteServer(l, "mark_probe", Healthy)

\* This one leaves failed_checks alone.
MarkSuppressed(l) ==
  WriteServer(l, "mark_suppressed", Shown(server[job[l].on].fails, TRUE))

\* Times and an error text; no column of the model.
MarkTransient(l) == WriteServer(l, "mark_transient", server[job[l].on])

Deactivate(l) ==
  /\ At(l, "deactivate")
  /\ SetDisc(Discovered(job[l].on), "inactive")
  /\ Finish(l)
  /\ UNCHANGED <<environment, known, server, row, posts, barredAll, barredUser, users, janitor>>

Activate(l) ==
  /\ At(l, "activate")
  /\ SetDisc(Discovered(job[l].on), "active")
  /\ Finish(l)
  /\ UNCHANGED <<environment, known, server, row, posts, barredAll, barredUser, users, janitor>>

ClearAll(l) ==
  /\ At(l, "clear_all")
  /\ barredAll' = barredAll \ OnHost(job[l].on)
  /\ Finish(l)
  /\ UNCHANGED <<environment, known, server, row, disc, posts, barredUser, users, janitor>>

ClearUser(l) ==
  /\ At(l, "clear_user")
  /\ barredUser' = barredUser \ OnHost(job[l].on)
  /\ Finish(l)
  /\ UNCHANGED <<environment, known, server, row, disc, posts, barredAll, users, janitor>>

\* One statement clears all three kinds of suppression of a followed community,
\* if the community is still there.
ClearFollow(l) ==
  LET c == job[l].com IN
  /\ At(l, "clear_follow")
  /\ barredAll' = barredAll \ {c}
  /\ barredUser' = barredUser \ {c}
  /\ server' = IF c \in row THEN [server EXCEPT ![HostOf[c]].suppressed = FALSE] ELSE server
  /\ Finish(l)
  /\ UNCHANGED <<environment, known, row, disc, posts, users, janitor>>

\* DELETE_EMPTY_UNFOLLOWED_COMMUNITIES_FOR_PROBED_HOST_SQL locks nothing before
\* it deletes: its snapshot and its deletions are two steps.
PurgeScan(l) ==
  /\ At(l, "purge")
  /\ job' = [job EXCEPT ![l].todo = <<"delete">>,
                        ![l].doomed = (row \cap OnHost(job[l].on)) \ (follow \cup posts)]
  /\ UNCHANGED <<environment, tables, users, janitor>>

\* Mutant: the foreign key of community_follow gives way.
RemovedWithFollows(l) == job[l].doomed

\* A follow that came after the snapshot holds the community through its
\* foreign key, and the whole statement fails.
Removed(l) == IF job[l].doomed \cap follow = {} THEN job[l].doomed ELSE {}

\* Mutant: the posts of a community do not go with it.
PurgeLeavesPosts(l) ==
  /\ At(l, "delete")
  /\ row' = row \ Removed(l)
  /\ SetDisc(Removed(l), "none")
  /\ barredAll' = barredAll \ Removed(l)
  /\ barredUser' = barredUser \ Removed(l)
  /\ Finish(l)
  /\ UNCHANGED <<environment, known, server, posts, users, janitor>>

\* A post that came after the snapshot is deleted with its community.
PurgeApply(l) ==
  /\ At(l, "delete")
  /\ row' = row \ Removed(l)
  /\ SetDisc(Removed(l), "none")
  /\ posts' = posts \ Removed(l)
  /\ barredAll' = barredAll \ Removed(l)
  /\ barredUser' = barredUser \ Removed(l)
  /\ Finish(l)
  /\ UNCHANGED <<environment, known, server, users, janitor>>

-----------------------------------------------------------------------------
(***************************************************************************)
(* Everybody else.                                                         *)
(***************************************************************************)

\* Hosts enter the table with a seed list, as a peer of a crawled server, or
\* because they are the host of something known.
LearnHost(h) ==
  /\ h \notin known
  /\ known' = known \cup {h}
  /\ UNCHANGED <<environment, server, row, disc, posts, barredAll, barredUser, users,
                 job, janitor>>

\* A post of the community is ingested.
PostArrives(c) ==
  /\ c \in row \ posts
  /\ posts' = posts \cup {c}
  /\ UNCHANGED <<environment, known, server, row, disc, barredAll, barredUser, users,
                 job, janitor>>

Send(kind, c) ==
  /\ Cardinality(outgoing) < MaxOutgoing
  /\ outgoing' = outgoing \cup {<<kind, c>>}

\* A follow is not asked whether the community is suppressed.
Follow(c) ==
  /\ c \in row \ follow
  /\ follow' = follow \cup {c}
  /\ Send("follow", c)
  /\ UNCHANGED <<environment, tables, job, janitor>>

Unfollow(c) ==
  /\ c \in follow
  /\ follow' = follow \ {c}
  /\ Send("content", c)
  /\ UNCHANGED <<environment, tables, job, janitor>>

\* COMMUNITY_INTERACTION_SUPPRESSION_SQL
InteractionAllowed(c) ==
  c \in row \ (barredAll \cup barredUser) /\ ~server[HostOf[c]].suppressed

\* A post, comment or like of a local user.
Interact(c) ==
  /\ InteractionAllowed(c)
  /\ Send("content", c)
  /\ UNCHANGED <<environment, tables, follow, job, janitor>>

\* Mutant: the janitor does not look at suppressed hosts.
StaleNever == {}

Stale == {c \in Communities : disc[c] = "active" /\ server[HostOf[c]].suppressed}

Current == {c \in Communities : /\ disc[c] = "inactive"
                                /\ ~server[HostOf[c]].suppressed
                                /\ server[HostOf[c]].active
                                /\ server[HostOf[c]].fails < 3}

\* The two statements of run_janitor on community_discovery.
JanitorDeactivate ==
  /\ janitor = "idle" /\ janitor' = "deactivated"
  /\ SetDisc(Stale, "inactive")
  /\ UNCHANGED <<environment, known, server, row, posts, barredAll, barredUser, users, job>>

JanitorReactivate ==
  /\ janitor = "deactivated" /\ janitor' = "idle"
  /\ SetDisc(Current, "active")
  /\ UNCHANGED <<environment, known, server, row, posts, barredAll, barredUser, users, job>>

\* A remote administrator blocks this server, or lifts the block.
ChangeMind(h) ==
  /\ h \in Homes
  /\ changes < MaxChanges
  /\ changes' = changes + 1
  /\ open' = IF h \in open THEN open \ {h} ELSE open \cup {h}
  /\ UNCHANGED <<stops, tables, users, job, janitor>>

\* Tasks end between two statements: a time-out ends one, a crash all of them.
\* A crash ends the janitor's pass too; a delivery may be tried again.
Stop(ls) ==
  /\ stops < MaxStops
  /\ stops' = stops + 1
  /\ \E l \in ls : job[l] # Idle
  /\ job' = [l \in Lanes |-> IF l \in ls THEN Idle ELSE job[l]]
  /\ janitor' = IF ls = Lanes THEN "idle" ELSE janitor
  /\ \E again \in BOOLEAN :
       outgoing' = IF again THEN outgoing \cup {<<job[l].kind, job[l].com>> :
                                   l \in {m \in ls : job[m].kind \in {"follow", "content"}}}
                            ELSE outgoing
  /\ UNCHANGED <<open, changes, tables, follow>>

-----------------------------------------------------------------------------
\* Suppressions of communities are there from versions that recorded them.
Init ==
  /\ open \in SUBSET Homes
  /\ changes = 0
  /\ stops = 0
  /\ row \in SUBSET Communities
  /\ known = {HostOf[c] : c \in row}
  /\ server = [h \in Hosts |-> Healthy]
  /\ disc = [c \in Communities |-> "none"]
  /\ posts = {}
  /\ follow = {}
  /\ barredAll \in SUBSET row
  /\ barredUser = barredAll
  /\ outgoing = {}
  /\ job = [l \in Lanes |-> Idle]
  /\ janitor = "idle"

Start(l) == \/ \E h \in Hosts : StartCrawl(l, h) \/ StartProbe(l, h)
            \/ StartDelivery(l)

Answer(l) == PostAccepted(l) \/ PostRefused(l) \/ PostFails(l)

Statement(l) ==
  \/ MarkBlock(l) \/ MarkOpen(l) \/ MarkDelivery(l) \/ MarkProbe(l)
  \/ MarkSuppressed(l) \/ MarkTransient(l) \/ Deactivate(l) \/ Activate(l)
  \/ ClearAll(l) \/ ClearUser(l) \/ ClearFollow(l) \/ PurgeScan(l) \/ PurgeApply(l)

Crawl(l) == CrawlSucceeds(l) \/ CrawlFails(l)
Target(l) == FindTarget(l) \/ NoTarget(l)

Step(l) == ReadPolicy(l) \/ Target(l) \/ Answer(l) \/ Crawl(l) \/ Statement(l)

Next ==
  \/ \E l \in Lanes : Start(l) \/ Step(l)
  \/ \E h \in Hosts : LearnHost(h) \/ ChangeMind(h)
  \/ \E c \in Communities : PostArrives(c)
  \/ \E c \in Visitors : Follow(c) \/ Unfollow(c) \/ Interact(c)
  \/ JanitorDeactivate \/ JanitorReactivate
  \/ \E ls \in SUBSET Lanes : Stop(ls)

Spec == Init /\ [][Next]_vars

-----------------------------------------------------------------------------
(***************************************************************************)
(* Fairness.                                                               *)
(***************************************************************************)

ProbeFinds(h)     == \E l \in Lanes : job[l].on = h /\ FindTarget(l)
Taken(h, activity) == \E l \in Lanes : job[l].on = h /\ At(l, activity) /\ PostAccepted(l)

\* The worker performs what it has taken and the janitor runs every night; a
\* host's probe, due every three or seven days, is not overtaken for ever
\* (module TaskQueue); its posts are not always all liked, and a host that
\* takes activities is not out of reach at every single Like, or Undo.
Fairness ==
  /\ \A l \in Lanes : WF_vars(Step(l))
  /\ WF_vars(JanitorDeactivate) /\ WF_vars(JanitorReactivate)
  /\ \A h \in Hosts :
       /\ SF_vars(\E l \in Lanes : StartProbe(l, h))
       /\ SF_vars(ProbeFinds(h))
       /\ SF_vars(Taken(h, "like")) /\ SF_vars(Taken(h, "undo"))

FairSpec == Spec /\ Fairness

-----------------------------------------------------------------------------
(***************************************************************************)
(* Properties.                                                             *)
(***************************************************************************)

Status == {"none", "active", "inactive"}

Columns == [active : BOOLEAN, fails : 0..3, suppressed : BOOLEAN]

Steps == {"policy", "crawl", "target", "like", "undo", "post", "purge", "delete",
          "mark_block", "mark_open", "mark_suppressed", "mark_transient", "mark_delivery",
          "mark_probe", "activate", "deactivate", "clear_all", "clear_user", "clear_follow"}

TaskType == [kind : DOMAIN Program \cup {"idle"}, on : Hosts \cup {Nobody},
             com : Communities \cup {Nobody}, todo : Seq(Steps),
             heard : {"nothing", "yes", "no"}, doomed : SUBSET Communities]

TypeOK ==
  /\ open \subseteq Hosts /\ known \subseteq Hosts
  /\ changes \in 0..MaxChanges /\ stops \in 0..MaxStops
  /\ server \in [Hosts -> Columns]
  /\ row \subseteq Communities /\ posts \subseteq row
  /\ barredAll \subseteq row /\ barredUser \subseteq row
  /\ disc \in [Communities -> Status]
  /\ \A c \in Communities : disc[c] # "none" => c \in row
  /\ follow \subseteq row
  /\ outgoing \subseteq {"follow", "content"} \X Communities
  /\ job \in [Lanes -> TaskType]
  /\ janitor \in {"idle", "deactivated"}

\* A suppression is lifted only by a task that has itself heard the host say
\* yes, in its public lists or by taking an activity: never by a crawl that
\* finds the host's communities, on that host or in another's directory, nor
\* by the janitor (MARK_DISCOVERED_ACTOR_HOST_VALID_SQL and its neighbours).
LiftedOnEvidence ==
  [][\A h \in Hosts : server[h].suppressed /\ ~server'[h].suppressed
       => \E l \in Lanes : job[l].on = h /\ job[l].heard = "yes"]_vars

\* A purge of empty communities never takes one that a local user follows, even
\* if the follow came after the purge's snapshot.
FollowedSurvives == [][\A c \in row : c \in follow => c \in row']_vars

\* A host is hidden from the list for failures only after three in a row.
HiddenAfterThree == \A h \in Hosts : ~server[h].active => server[h].fails >= 3

\* What a suppressed host offers leaves the list of discovered communities, or
\* the suppression is lifted: also when the task that suppressed it stopped
\* between its statements, or a crawl brought the community back.
SuppressedHidden ==
  \A c \in Communities :
    (disc[c] = "active" /\ server[HostOf[c]].suppressed)
      ~> (disc[c] # "active" \/ ~server[HostOf[c]].suppressed)

\* A suppression is not for ever: a host that takes activities again, and of
\* which a post is known, loses its suppression and those of its communities.
SuppressionHeals ==
  \A h \in Hosts :
    <>[](h \in open /\ h \in known /\ posts \cap OnHost(h) # {})
      => <>[](~server[h].suppressed /\ barredAll \cap OnHost(h) = {})

\* "When a remote server tells us this instance or user is blocked, keep that
\* fact close to the target" (record_delivery_visibility_rejection): a refused
\* activity of a user leaves the host suppressed.
RejectionRecorded ==
  [][\A l \in Lanes : At(l, "post") /\ PostRefused(l) => server'[job[l].on].suppressed]_vars

=============================================================================
