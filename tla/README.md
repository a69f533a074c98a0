# Formal model of lotide

lotide is a federated link aggregator: a Rust server (hyper) that answers its
front end, API clients and other servers, a worker that performs queued work for
and against other servers, and one PostgreSQL database that both share.  It
speaks ActivityPub: what local users do is sent to other servers as signed
activities, and what other servers send is verified and ingested.

The modules in this directory model the parts of it where order, concurrency and
failure decide whether it is right.  TLC checks them on small instances; TLAPS
proves their central safety properties for every value of the constants.
References are to the repository, where the crate is `src/src/`.

## The system

One binary (`src/src/main.rs`, `run`) starts the HTTP server and, unless
`SEPARATE_WORKER` is set, the worker; otherwise the worker is a second process
that learns of new work through `LISTEN`/`NOTIFY`.  Four ways lead to a change of
the database:

* an **API request** (`src/src/routes/api/`), which usually commits one
  transaction and then calls `spawn_task`: a detached job of the async runtime that
  reads some rows again and enqueues a task.  The job lives in memory;
* an **inbox request** (`src/src/routes/apub/`), which enqueues a task that verifies
  and ingests the activity (`src/src/apub_util/ingest.rs`);
* a **task** performed by a lane of the worker (`src/src/tasks.rs`), typically
  several SQL statements around network requests, with no transaction around them;
* the **scheduler and janitor** (`src/src/worker.rs`, `run_schedule`,
  `run_janitor`), large single statements that enqueue, repair and delete.

Everything runs at READ COMMITTED.  So the hard questions are the same everywhere:
what a statement's snapshot did not see, what happens between two statements, which
row a late statement hits, what a crash loses, and whether anything puts it right.

### Inventory

| component | state | operations | how it interacts | what is hard | what makes it correct |
|---|---|---|---|---|---|
| **task queue** (`worker.rs`, `main.rs`) | `task` rows, the in-process trigger, `NOTIFY` | enqueue, take, complete, fail with back-off, reset after a restart, complete irrelevant rows, fail terminal ones, trim, purge, retry by an administrator | every other component enqueues; lanes perform `tasks.rs` | four lanes with different filters and rankings over one table; start-up reset; lost wake-ups; retries that race the sweep | every row settles, attempts bound performances, one lane per row, a failed row stays failed |
| **follows of remote targets** (`users.rs`, `communities.rs`, `routes/api/mod.rs`, `ingest.rs`, `tasks.rs`) | `community_follow`, `collection_target_follow`, `person_follow` and three undo tables | follow, unfollow, unfollow of inactive ones, delivery and its marks, Accept, Reject, refusal of posts nobody follows, janitor | request → job → task → remote → inbox → row | rows are keyed by (target, follower), so everything late hits the wrong generation; jobs die in a crash | accepted implies delivered; an undo for all that was delivered; nothing unsent for ever |
| **discovery and visibility** (`tasks.rs`, `worker.rs`, `communities.rs`) | `community_discovery_server`, `community_discovery`, two suppression tables | crawl, policy check, probe (Like and Undo of a known post), evidence from deliveries, purge, janitor, guard of the API | probes and deliveries decide what lists show and where users may post | five-statement updates without a transaction on two lanes | suppression only lifted on evidence, and not for ever; followed communities survive |
| **votes on posts** (`posts/mod.rs`, `ingest.rs`, `main.rs`, `tasks.rs`, `worker.rs`) | `post_like` with ids and federation columns, `local_post_like_undo`, `cached_likes_for_sort` | like, unlike, remote Like and Undo, recount, reported totals, retention, delivery marks, echo | requests, inbox, fetches, janitor and retention all write the count | counts from stale snapshots; late Undos and marks | votes are neither lost nor undone twice, marks are true, the count heals |
| **accounts** (`users.rs`, `invitations.rs`, `forgot_password.rs`, `routes/api/mod.rs`) | `person`, `login`, `invitation`, reset keys, the names shared with communities | sign up, log in, log out, invite, reset, suspend, create a community | handlers only | what a handler decides on is read before a password is hashed for a long time | keys die with their use, a suspension ends the sessions |
| **paged lists** (`routes/api/mod.rs`, `posts/mod.rs`, `communities.rs`, `users.rs`, outboxes of `routes/apub`) | rows that change between two pages, the cursor a client carries | first page, next page by position, by number or by second | the API of nearly everything | rows of equal keys, rows that move, limits at the width of their type | every row that stays is shown once |
| **comment trees** (`posts/replies.rs`, `comments.rs`) | `reply` rows | write, delete, show a tree with its tombstones | reads | one LIMIT for all parents of a level | what fits is shown whole |
| **moderation, flags, modlog** (`communities.rs`, `posts/mod.rs`, `main.rs`) | moderators with the time they became so, `approved`, `rejected`, `flag`, `modlog_event` | add and remove moderators, decide on a post, delete, flag, dismiss | jobs announce and undo | checks before the transaction, jobs of two decisions | seniority holds, followers and log agree with the row |
| **inbox and ingest** (`ingest.rs`, inbox tasks) | the copy of a post and of a reply, of the community | Create, Announce, Add, Update, Delete, Undo, Remove, replies with their parents, outbox pages, refreshes | tasks in several lanes; forwards to followers | repeated, reordered and overlapping activities | deletion wins, approval has a ground, forwarded once |
| **server discovery crawl** (`tasks.rs`) | what a server's lists name | lists, probes, sources, replacing what was listed | feeds `community_discovery` | a list that fails, hearsay, a stop | replaces or keeps, never empties |
| **outbox fetches** (`tasks.rs`) | cursors of one task | outbox pages, Elgg, NodeBB, Discourse, Friendica, Mbin | ingests objects with their parents | partial failure of one of many sources | nothing withheld, replies stay replies |
| **thread and reply fetches** (`tasks.rs`) | reading of one thread | refresh of a post, reply collection, Lemmy, PieFed, PeerTube, Mbin | enqueue one another, prove our deliveries | pages move under the reading | nothing skipped |
| **polls** (`posts/mod.rs`, `ingest.rs`) | `poll`, `poll_option`, `poll_vote` | create, vote, remote vote, refresh | delivery of votes and of their undos | overlapping votes of one user | the poll's server is told what the rows say |
| **collection targets and items** (`routes/api/mod.rs`, `tasks.rs`, `ingest.rs`) | `collection_target`, its items, likes and undo rows | ingest a source, fetch items, look one up, like, unlike | deliveries to the owner | items move between sources | a Like that was told is taken back where it was told |
| scheduler and janitor (`worker.rs`) | none of its own | hourly and nightly statements | touches every table | runs beside requests and lanes | repairs converge and destroy nothing |
| posts and comments (`posts/mod.rs`, `comments.rs`, `main.rs`) | `post`, `reply`, mentions | create, edit, delete; jobs that notify and deliver | spawn deliveries, notifications | jobs after commit | a tombstone stays one |
| notifications, private messages, followers of local communities, featured collections, settings | one table each | insert, mark, upsert, overwrite | deliveries | little: one statement each | - |
| actor lookup, ActivityPub objects, signatures, read routes, media, HTTP, configuration, languages, markdown, migrations, pg_repack | little or none | parsing, rendering, I/O | - | formats | - |

### Hazards

`PROJECT.json` lists, at its line, what a test of this code would hardly reach.
Most of it is of five kinds:

1. **A late statement meets a later row.** Delivery marks and answers name
   (target, follower) or (post, person) only (`tasks.rs:1098`, `ingest.rs:552`,
   `ingest.rs:2102`).
2. **A snapshot is older than the write that uses it.** Recounts (`main.rs:1478`,
   `worker.rs:499`), retention (`worker.rs:384`), purges (`tasks.rs:4735`), the
   unlocked sweep of the task table (`worker.rs:1052`).
3. **A process stops between two statements.** Jobs die with the server
   (`apub_util/mod.rs:1946`); probes and crawls stop anywhere (`tasks.rs:4848`).
4. **Two actors order their steps unexpectedly.** The start-up reset and lanes already
   running (`worker.rs:1253`), the inbox lane and the delivery it answers
   (`tasks.rs:1658`).
5. **Something never happens, or not to the end.** Lost wake-ups (`main.rs:280`), rows
   left running by a crash (`worker.rs:1275`), pages that move under a walk
   (`tasks.rs:10694`, `routes/api/mod.rs:312`), sources never asked (`tasks.rs:10212`).

Where no property can be asked for because the code itself lets the hazard happen and nothing
it says denies it, the entry has a note instead of properties and the property nearest to it
names the case as its exception: jobs that nothing makes up for, decisions that meet,
marks that hit a later row, levels of a tree cut short.

## The modules

| module | models | composed with |
|---|---|---|
| `TaskQueue` | the `task` table, the lanes and the wake-ups | `MCTaskQueue`, `MCQueueLive` (two instances of it), `TaskQueueProofs` |
| `Follow` | local accounts following one remote target | `MCFollow`, `FollowProofs` |
| `Visibility` | which servers and communities are shown | `MCVisibility`, `VisibilityProofs` |
| `Votes` | the votes on one post | `MCVotes`, `VotesProofs` |
| `Accounts` | sign-up, sessions, suspension and keys | `MCSite`, `AccountsProofs` |
| `Listing` | lists in pages while their rows change | `MCSite`, `RequestProofs` |
| `Threads` | the tree of comments as it is served | `MCSite`, `FetchProofs` |
| `Moderation` | one local community, its moderators and a post | `MCSite`, `AccountsProofs` |
| `Inbox` | the copy of one post and one reply | `MCSite`, `FederationProofs` |
| `Directory` | crawls of one server | `MCSite`, `FederationProofs`; implements `HostDirectory` |
| `HostDirectory` | what a crawl promises | instantiated by `Directory` |
| `OutboxFetch` | one outbox task after another | `MCSite`, `FetchProofs` |
| `ThreadFetch` | the tasks that read back a thread | `MCSite`, `FetchProofs` |
| `Polls` | polls here and elsewhere | `MCSite`, `RequestProofs` |
| `Sources` | sources, their items, likes of items | `MCSite`, `RequestProofs` |

Most have tasks and jobs of their own, as far as they matter to
them; what they assume of the queue (a queued task is performed, at most
`max_attempts` times, again after a crash) is what `TaskQueue` shows.  The
modules are kept apart because their product is out of TLC's reach and because the
properties of one hardly depend on the state of another.  `MCSite` extends the ten
smaller ones and chooses one at the start of a behaviour: the others rest in
their initial states.  Its run is therefore the union of ten explorations, with the type
invariant and the properties of each.  `SiteSymmetry` exchanges the two handlers, which are also
the slots of `Moderation` and the hands of `Polls` and only tell requests apart.

### TaskQueue

`row[t]` is a row of `task` with the columns `state`, `attempts`, whether its
`latest_error` is terminal, and whether its payload was trimmed; `attempted_at`
is abstracted to `rest`, its position relative to the back-off and to the hour after
which a retry is preferred.  `lane[l]` is what lane `l` of `run_worker` is doing.
`Take` is the `UPDATE ... FOR UPDATE SKIP LOCKED` of the lane (`Eligible` is its
WHERE, `Rank` its ORDER BY: `MainRank`, `DiscoveryRank`, `ReadbackRank`,
`InboxRank`); `Complete` and `Fail` write the result, `FailRow` being
`FAIL_TASK_SQL` with its terminal errors and its trimming; `ResetInterrupted` is
the start-up reset that only the main lane runs; `Crash` loses lanes and wake-ups.
`SweepScan`/`SweepApply` are the one sweep that takes no row lock before it
updates, hence two steps.  `Enqueue`, `Notify`, `Listen`, `WakeByTrigger` and
`WakeByTimer` are the wake-up paths of both deployments, `AdminRetry` is the retry
route.  History: `takes` counts performances, `doubled` the rows reset under a
lane that was alive.

### Follow

`follow[u]` is the row of account `u`, with `gen` telling it from the rows before
and after it, which the code cannot; `undo[u][g]` is the undo row of generation
`g`.  `target` is the row of who is followed: there, a tombstone (`RemoteDeletes`) or gone;
`known` is what it holds of them, the inbox and the actor's id, either of which may be missing
until a fetch brings it (`LearnTarget`).  Without them `Stamp` and `EnqueueUndo` end in an error
that is only logged; a follow of a community fetches it once more (`FetchAndStamp`).
A slot of `job` is a spawned job that becomes a delivery: spawned, stamped
(with an activity id), queued, marked (as sent), posted, noted.  `Mark` hits
whatever row is there, as the UPDATE does.  `RemoteProcesses` is the remote server,
`response` its Accepts and Rejects in the inbox, ingested by `IngestResponse` at
any time.  `RefusePost`, `RefuseUnfollow` and `RefuseDelete` are the three steps
of an ingest that refuses a post of an untracked community, `CleanupCommunity` the
retention of remote communities, `Janitor` the repair statements: it fills in the endpoints of a
community whose URL has a form it knows (`Conventional`), then spawns again what was not sent to
a target with an inbox and an actor, which are the follows of communities that are no tombstones, and the
undos of all three, tombstones or not.  `heard` and `verdict` are history.

### Visibility

A task is the list of statements it still has to run (`BlockHost`, `OpenHost`,
`SuppressHost`, `DeliveryProof`, `ProbeProof`); each statement is an action, so a
lane can stop, and the other lane can step, between any two.  `CrawlSucceeds` and
`CrawlFails` are one transaction.  `PurgeScan`/`PurgeApply` separate the purge's
snapshot from its deletions, so that a follow or a post can come in between.
`job[l].heard` remembers what the task itself was told by the host; it is history,
used by `LiftedOnEvidence`.

### Votes

`vote[v]` is the row of `post_like` of voter `v` by the id of its Like, `mark[u]`
the latest of `federation_sent_at`, `federation_received_at` and
`federation_posted_at`, `score` is `cached_likes_for_sort`.  `trans` holds the open
transactions: a vote is an INSERT or DELETE (`OpenLike`, `OpenUnlike`,
`OpenRemoteLike`, `OpenRemoteUndo`), the snapshot of
`recalculate_cached_post_likes` (`Recount`) and its write with the commit
(`CommitLike`, `CommitUnlike`, `CommitUndo`).  `Seen` is what the transaction sees:
the committed rows and its own.  Statements on their own (`update_remote_upvotes`,
the janitor's recount, the retention of likes and of posts) are a `Scan...` and an
`Apply...`.  Deliveries of local Likes are abstract: one that is due may be
delivered any number of times, or never.

### Accounts

A handler that hashes or checks a password has two steps (`Start...` and
its write), and anything may come in between.  `actor[n]` is whoever has the name, a
person or a community; `key[k]` is the row of an invitation or reset key with the time
of its use; `session` holds tokens with the times at which the log-in read the account
and wrote the token.  A suspension is a transaction at READ COMMITTED: `ClearLogins` is its UPDATE
and the DELETE of the sessions committed by then, which holds the row (`Held`), and
`CommitSuspension` or `RollBack` its end.  A token written in between survives, which
`SuspensionEndsSessions` allows: it says by these times which sessions a suspended user may still
hold.

### Listing and Threads

`Listing` has one walk of one client through one list.  `list` says which of
fourteen lists it is and so which columns order it and what its cursor is: a position (`at`), a
number of rows to skip (`skip`), or a whole second (`before`).  Rows are inserted, deleted,
voted on and made sticky between pages.  `ReadLimit` has the wrap-around of the u8
limit.  What a statement reads is a set of rows: `Firsts(S, n)` are the sets of `n` rows of `S`
that ORDER BY and LIMIT may return, more than one when rows have equal keys; `Windows` applies it
once for OFFSET and once for LIMIT, and `PagesOf` once more for what is shown of the rows that were
read.  `walk.shown` counts how often each row was.  `Dependable` names the lists and changes for
which a walk can be relied on.
`Threads` builds every forest of comments with tombstones and computes level by level, as sets,
what the handlers return: `Ancestry` are the generations a comment descends from, `Level` what one
statement fetches for all parents, `Fits` that no level exceeds the page.  The levels are fetched one
after the other; the model takes them from one snapshot, so nothing is said of trees that
change while they are fetched.  The reference is the set
`Worth` of what a reader should see.

### Moderation

`since[p]` is when `p` became a moderator, or that the row has no time.  `duty[h]` is a
handler between its checks and its write, with what it saw: every check and every write
are two steps.  A decision spawns a job for each activity, the Announce and the Add or their
Undos, and a deletion one for the Delete: `telling` holds them, and they run in any order, may fail
(`FailTelling`) or be lost with the server (`StopServer`).  `queued[a]` is what was last handed to the
task queue of activity `a`; that it is delivered from there is the queue's matter.  `missed` holds the
activities whose last job was lost, and `raced` remembers that decisions met each other or each
other's jobs.  `forward` counts the jobs that forward the Delete of the community, what
they handed to the queue, and whether one was lost.

### Inbox

`origin` is the post and the reply at their server, `sent` what has been sent about them,
in order.  An activity is taken in order, or out of order or again (`Stray`); `work[l]`
is a lane between its look at the community or the parent, and its write.  The community
is hosted here (`hosted`), or is another server's and `tracked` or not; what a user looks up, and the
preview of an outbox, need no follow of it.  A forward to the followers of a hosted community
is a spawned job: `forwarded[what]` counts those that are waiting, those that handed it to
the queue, and those that failed or were lost in a stop (`Forward`, `StopInbox`).

### Directory and HostDirectory

One action per request of a crawl: what the server says it is, its lists by software, the
probes of candidates with their budgets, the sources (podcasts, channels, authors), the
transaction that replaces the rows, the previews.  Every request may fail.
`HostDirectory` is the abstract specification: a server's list is replaced by worthy
communities, never by none, or kept, and hearsay names the software only while nothing better
is known.  `Directory` implements it with `Worthy`, `Brands`, `shown` and `brand` as in its
`INSTANCE` (`CrawlReplacesOrKeeps == Promise!Spec`): a whole crawl is many stutters and one
step, which TLC checks on one server and `FederationProofs` proves for any.

### OutboxFetch and ThreadFetch

`OutboxFetch` is a `fetch_community_outbox` task: pages with their `next`, the unwrapping
of Create, Announce, Update and Add around an object (an Add to
what is not the community's own is not taken), the conversation above it
and the authors it needs, then the API of the software.  An error ends one source (`SourceFails`) or,
for some, the task (`breaks`).  `ThreadFetch` has the refresh of
a post, the reply collection, and the platform thread, page by page while comments
are written and removed; tasks enqueue each other if there is none (`tasks`), and what
they find proves our own comments and like delivered (`mark`, `like`).  A host that has as many
pending tasks as it may have gets no more (`full`), and a collection that is too long or names a
page twice ends there (`stops`).

### Polls and Sources

In `Polls` a request reads the poll (`OpenVote`), deletes the votes that the new ballot
takes back, inserts the new ones, and leaves a job that tells the poll's server, provided that
the request could read an author with an inbox and the id of the post (`reached`).
The job enqueues one delivery at a time (`TellAuthor`) and may fail in between (`TellFails`).
Rows that an open transaction has deleted are locked; `tally` counts what was enqueued for the server of
the poll, and `untold` names the deliveries that never were, for want of an inbox, after a failure
or in a stop.  A document of the poll may bring it, change it or remove it (`RefreshPoll`).
In `Sources` an item has one row, which names the source it was seen in
last.  `AskLike` and `WriteLike`, `Unlike` and `TellUndo` are the two halves of the handlers;
`reported` is what owners were told.

## What is checked

Runs that pass (`PROJECT.json` gives each property a mutant: a plausible bug in a
definition under which TLC finds the property violated):

| run | instance | states | what it shows |
|---|---|---|---|
| `queue_races` | 3 rows (an inbox row of 3 attempts, an audience task, the delivery it inserts), lanes main and inbox, worker in or beside the server process (chosen again at a restart), 1 crash, the inbox row may be retried by an administrator | 2.44 M | a row is performed at most `max_attempts` times between administrator's retries; failed is final; a trimmed payload is never run; two lanes share a row only after the start-up reset took it from a live lane; with the worker in the server process no wake-up of the main lane is lost, whatever the order of insertion, empty take, notification and crash |
| `queue_live` | two loads, in one run: an audience task and its delivery in process; a reply fetch with a retry against inbox tasks that arrive for ever, separate worker; 1 crash | 102 k | every row settles although nobody announces a fan-out, `NOTIFY`s are lost and fresh rows never end |
| `follow_safety` | 1 account, 2 generations, 2 slots, 2 tries, 1 crash, answers accept and reject; any inbox and actor known, an URL the janitor can repair, a community that may become a tombstone or be removed | 847 k | accepted implies that a Follow was taken; what was heard leaves an undo |
| `follow_live` | 1 try, accept only, a URL the janitor cannot repair, a community whose row stays | 159 k | every follow and every undo whose target has an inbox and an actor, or comes to have them, is handed to the worker, through a crash and an ended job; a follow not once the community is a tombstone, an undo even then |
| `visibility_safety` | 1 server, its community, 2 lanes, 1 change of mind, 1 stop, a user who follows and posts | 1.43 M | suppression lifted on evidence only; a followed community survives every purge; foreign keys hold |
| `visibility_live` | the same without the user | 124 k | what is suppressed ends hidden; a host that opens again ends unsuppressed |
| `votes` | 1 local user with 2 Likes, 1 remote voter, 2 open transactions, 1 remote arrival | 296 k | votes accounted for, marks true, the count heals |
| `site_parts` | `MCSite`, one part per behaviour | 649 k | see below |

The parts of `site_parts`:

| part | instance | states | properties |
|---|---|---|---|
| accounts | 2 names, 1 invitation, 1 reset key, 2 handlers, 3 commits | 75 k | `KeysDie`, `SuspensionEndsSessions` |
| listing | 3 rows, 3 times, 2 ticks a second, limits 1, 2 and 255, at most 4 pages, 1 change, all fourteen lists | 207 k | `WalkShowsEachOnce`, `OutboxMissesOneSecond` |
| threads | 5 comments, depth 2, page limits 1 to 3 | 4 k | `TreeShownWhole` |
| moderation | founder, administrator, a moderator without a time, 2 handlers, 2 writes after the first, jobs that fail, stops | 110 k | `FounderStays`, `DeleteForwardedOnce`, `FollowersTold` |
| inbox | 2 announcements (one an Add), 4 activities sent, 2 lanes, 1 taken late or again, forwards that fail, stops | 81 k | `DeleteWins`, `ApprovedOnGrounds`, `ForwardedOnce`, `FaithfulWhenOrderly` |
| directory | 1 community of the server and 2 of others, 1 feed, 3 endpoints, 5 brands | 8 k | `CrawlReplacesOrKeeps` |
| outbox | 5 objects in two topics and two hosts, 7 entries, 6 kinds of software | 33 k | `NothingWithheld`, `RepliesStayReplies` |
| thread | 4 comments of others and 1 of ours, pages of 2, 5 platforms, 2 changes, full hosts | 37 k | `NothingSkipped` |
| polls | 1 poll here and 1 elsewhere, 1 local and 1 remote voter, 2 requests at a time and in all, 4 ballots, an author who may lose the inbox | 53 k | `VotesTold` |
| sources | 2 sources, 1 item, 1 user, 2 requests, 2 Likes, 1 new document | 40 k | `LikesRetracted` |

### Bounds, and why they are enough

* Two generations of a follow, or two Likes of a user, are the least at which
  something late can meet a later row, and the properties compare pairs of them.
  Two open transactions or jobs are the least that race; the proofs, which have no such
  bound, confirm that a third adds nothing to the safety properties.
* Attempts: 3 in `queue_races` so that a failure, a reset and a last attempt, and after an
  administrator's retry all of them again, fit into one row's life; the long back-off begins at
  `LongBackoff` attempts and only changes how long a row waits.
* One crash: after it the system is again in a state from which the run starts,
  with rows left over; the lost jobs and the interrupted rows of two crashes are
  those of one.  Properties of safety are proved for any number.
* Visibility: with one server that lists its own community, TLC covers all
  interleavings of two lanes.  A server listing communities of another is too large
  for TLC and is covered by the proofs, whose `Listed` is arbitrary.
* Pages: with three rows and a limit of one a walk crosses two boundaries, and one change can fall
  before, between or behind them, on rows of equal or different keys.  With a limit of two
  the last row of a page is not its first.  The limit 255 is there for its wrap-around.
* `SiteBound`: in `Moderation`, once decisions on a post met or a job was lost, the last of the writes is
  checked but its jobs are not run.  Behaviours without a meeting or a loss are followed to the end.
  The proofs have no such bound.
* Handlers, lanes, requests: two, the least that overlap.  Two writes after the first suffice to
  remove a row and add it again while a removal is open, or to decide twice.
* Fetches: pages of two with four comments give a full page, a short one, and a comment that
  moves from one to the other; the entries of `MCSite` have each wrapper, with and without a
  parent, on the same and on another host, and each software has its own source.
* `MaxArrivals`, `MaxTotal`, `MaxChanges`, `MaxOutgoing` bound the environment: each
  lets the remote side interfere once at any point, which every counterexample met
  while modelling needed at most once.
* `CHECK_DEADLOCK FALSE` where the bounds let a behaviour end: votes, follows,
  discovery and the parts of `MCSite` stop when the users and servers have done what they may.  The task queue
  never stops, and there deadlock is checked.

### Fairness, and why the code justifies it

* TaskQueue: the supervisor restarts the process, the main lane runs its reset
  before anything else, a lane leaves a task at the latest at its timeout
  (`task_timeout`), back-offs elapse, a statement that runs ends.  Arrival is not
  fair.
* Follow: the runtime polls spawned jobs (weak fairness); the worker performs what is
  queued (strong, as other tasks interrupt: this is `EverySettles`); the janitor runs
  every night and at every start (strong: rows are unsent again and again).  Nothing is assumed of the
  remote server.
* Visibility: lanes proceed and the janitor runs (weak).  Strong fairness for a
  host's probe, for its finding a post not yet liked, and for Like and Undo reaching
  a host that takes activities: a probe is due every three or seven days, and
  `SuppressionHeals` is about hosts that can be reached.
* Votes: a transaction that has begun ends (weak), the janitor recounts every night
  (strong, since votes keep coming).  Nothing is assumed of deliveries.
* The parts of `MCSite` have safety properties only and no fairness.

### Where code and documentation disagree

Four runs end in a violation on purpose; `PROJECT.json` quotes the lines.

* `queue_reset`: the start-up reset runs in the main lane while the other lanes
  already take rows, and puts a row back that a live lane performs, as "Worker
  stopped while task was running".
* `follow_rejected`: the delivery's last statement sets `accepted=TRUE` although
  the Reject of that Follow, to be recorded "as received and not accepted", was
  ingested before it.
* `visibility_rejected`: the branch of `DeliverToInbox::perform` that records a
  refusal is unreachable, since `send_inbox_delivery_request` has made it an error
  that `?` returns.
* `votes_cleanup`: the clean-up of old remote likes recounts in the statement that
  deletes, and writes the count from before its own deletions.

## What is proved

Each `...Proofs` module holds inductive invariants, one lemma per kind of step,
and the theorems; nothing is assumed beyond the named assumptions on the
constants, which TLC evaluates in every run: ids are positive naturals, bounds are
naturals, switches are Booleans, "main" is among the lanes, sets that are meant to be different are disjoint,
the options of a poll and the requests of one are finitely many, times are naturals, an object answers an object or nothing, a thread
lists a comment once and after what it answers, a forum's topic is not empty, and the names
used for "nobody" or "nowhere" name nothing else.

* **`TaskQueueProofs`** (`TypeCorrect`, `BudgetHolds`, `TrimmedHolds`,
  `ExclusiveHolds`, `FailedFinal`, `WakeupsKept`), for any rows, kinds, `max_attempts`, lanes and
  number of restarts.  `PerformanceBudget` is not inductive: that a row is taken at most
  `max_attempts` times rests on `TakesOK`, every take is covered by an attempt
  already counted or by the one that the row's running state will cost, and on
  `AttemptsOK`, a row may be tried exactly while attempts are left.  `TrimOK` says why
  a trimmed row cannot come back, `HoldOK` that what a lane performs is
  neither pending, failed nor in another lane unless it was reset under it.
  `NoLostWakeup` needs one fact more: a lane performs kinds of its own list only
  (`OwnKindsOK`), so that the main lane is not waiting while an audience task inserts rows
  that nobody announces.  The theorem lets every restart choose anew whether the worker
  runs in the server process; it promises wake-ups only while it does.
* **`FollowProofs`** (`TypeCorrect`, `AcceptedOnlyIfHeard`, `HeardRowsLeaveUndo`), for any
  accounts, slots, crashes and answers.  `ComesFromPost` traces everything that will
  still mark a row accepted (deliveries that were answered, Accepts in the
  inbox) to a POST that was taken; `Accounted` says that every row ever inserted is
  there or has its undo, and `Numbered` that jobs and history speak of such rows
  only.
* **`VisibilityProofs`** (`TypeCorrect`, `HiddenOnlyAfterThree`, `LiftingNeedsEvidence`,
  `FollowsHoldCommunities`), for any servers, communities, lanes and directories, so
  also for a server whose directory lists communities of another.  `TasksOK` says
  that a task whose list still holds a lifting statement has itself heard its host
  say yes, and which kinds of task hold the one that works by community.
* **`VotesProofs`** (`TypeCorrect`, `VotesStayAccounted`, `ReceivedIsTrue`), for any number
  of voters, Likes and open transactions.  `Grounded` says that the row is still as
  the open transaction found it, `Alone` that a voter has one transaction open,
  `Fresh` that ids not drawn are not in use; without them a commit could
  overwrite or take back something else.
* **`AccountsProofs`**, two parts.  Accounts (`AccountsTypeCorrect`, `SuspensionIsEffective`,
  `SpentKeysStayDead`), for any names, keys, handlers and number of commits: the invariant
  orders the times.  What a handler has read is not later than now, a session was checked
  before it was issued, and of a suspended user's sessions the COMMIT leaves those written since the
  DELETE looked; one that is written later was checked before the COMMIT.  No two transactions
  hold the row of one user.
  Moderation (`ModerationTypeCorrect`, `FounderIsSafe`, `OneDeleteForwarded`,
  `FollowersAreTold`), for any accounts, moderators without a time, requests at a time and
  number of writes: what a handler writes depends on what it saw before.  `RemovalsOK` says
  what the reading of an open removal is worth (only the founder, or who has no time, can have
  read a time as old as the founder's, by `Seniority`), `DecisionsOK` that until decisions meet
  each other or each other's jobs an open one still sees the post as it is, `TellingOK` that until then
  the jobs tell the truth and every activity has its job, was handed to the queue as the post
  is, or lost its job, and `ForwardOK` that a deleted community has one job, or one Delete in the
  queue, or lost it.
* **`FederationProofs`**, two parts.  Directory (`DirectoryTypeCorrect`, `CrawlsKeepPromise`),
  for any communities, lists, brands and limits: `Directory` implements `HostDirectory`.  The
  initial states are mapped to initial states and every step to a step or a stutter, by
  `CrawlOK`: what a crawl carries has passed the tests, and one that is about to store has
  communities, or knows software that has none.
  Inbox (`InboxTypeCorrect`, `ApprovalHasGrounds`, `ForwardsAreSingle`, `DeletesAreFinal`,
  `FollowersSeeWhatIsThere`), for any announcements, activities, lanes and late or repeated
  deliveries.  `GroundsOK` with `RowsOK` is enough for the first one, `ForwardedOnce` (the forwards
  waiting, handed over and lost are together what the rows say) is inductive; `FaithfulWhenOrderly` compares our copy with
  the other server's, so its invariant has both sides.  `SentOK` explains the post, the reply
  and the announcement that stands by what was sent and in which order; `OrderlyOK` says
  that what has arrived of it shows in the rows or is in a lane's hands (`ArrivedOK`), that only
  Deletes delete (`DeletedOK`), and that an approval by an announcement that no longer stands
  has its Undo still to come (`ApprovalsOK`).
* **`RequestProofs`**, three parts.  Sources (`SourcesTypeCorrect`, `LikesAreRetracted`), for any
  sources, items, users, clients and documents: ids are handed out once (`IdsOK`), a
  like whose job was spawned is still there or an undo row names it (`LikesOK`), every undo
  row has its undo under way, told or given up (`UndosOK`), and what a job has read of the item
  and of the source holds unless either has changed since (`PlacesOK`, `OwnersOK`).
  Polls (`PollsTypeCorrect`, `VotesAreTold`), for any polls, options, voters and finitely many
  requests: `TalliesOK` is a balance.  What was enqueued for the poll's server of a vote and what jobs
  have still to enqueue together make the row, for every vote of which no delivery was
  left out; `LocksOK` says that no two open transactions
  have deleted the same row, without which a removal would be told twice.
  Listing (`ListingTypeCorrect`, `WalksShowEachOnce`, `OutboxesMissOneSecond`), for any of the lists,
  any rows, times, limits and changes.  The order of every list is a weak order (`LessOrders`), the
  first rows of a set are certain when no keys are equal (`FirstsUnique`), and nothing that is left
  is ahead of the row that names the next page (`CutIs`).  The invariant has a conjunct for each kind
  of cursor.  `PositionOK`: what is ahead of the cursor's row has been shown once, the rest not yet,
  which holds through insertions and removals anywhere since a row that moves is no longer relied
  on; it needs that the conditions of `handle_page`, taken apart by list, ask for exactly the rows
  that do not come before the cursor's (`ResumesIs`).  `OffsetOK`: the rows that were shown are
  the first ones of the list, as many as are skipped, while nothing changes.  `OutboxOK`: what is before
  the cursor's second has not been shown, and what is not before it has, or shares its second
  with the end of a page.
* **`FetchProofs`**, three parts.  ThreadFetch (`ThreadTypeCorrect`, `ThreadsAreReadWhole`), for any
  comments, answers, page sizes, numbers of pages, tries and changes: `FoundOK` says
  which of the comments that were there at the beginning a reading must have found when it is
  at its page, by what it walks through (roots on PeerTube and Mbin, all comments
  elsewhere).  It is kept when a comment is written above the pages, for then positions
  grow, and a comment that is removed cuts the reading short (`StartOK`).
  OutboxFetch (`OutboxTypeCorrect`, `RepliesKeepTheirPlace`, `SourcesAreAsked`), for any objects,
  conversations, entries, pages, shelves and limits: every item a source offers says what it
  answers (`Offered`, through the choosing, cutting, reversing and joining of its topics), and
  so does every entry however it is wrapped; what was imported is there (`ImportsOK`), and a
  source that was asked while nothing failed and left no row offered nothing sound (`AskedOK`).
  Threads (`ThreadsTypeCorrect`, `TreesAreShownWhole`), for any number of comments, depth and page
  size: a comment answers an earlier one, so that what a level fetches is what has an `Ancestry`
  of that length, and a comment worth showing keeps everything above it.

What a recursive function computes (the ancestry of a comment, the roots of a list, the entries of a page taken one after
the other, the topics put together) is proved without an induction theorem, none of which
the provers can instantiate: a set of naturals has a least element (`WFMin`), so a set that
holds 0 and with each number the next holds all (`EveryNatural`), and that is applied to the set of
lengths for which the function does what the lemma says.

The proofs changed the models in three places.  `Listing` and `Threads` had sorted sequences that
were cut; as a statement returns rows of one order, sets of first rows say the same, also where
rows with equal keys come in any order, and can be reasoned about without sorting.  The cases of some `CASE` expressions overlapped
(`Directory`'s sources, the ranks of `TaskQueue`, the pages of `ThreadFetch`, the cursors of
`Listing`), where TLC takes the first and TLA+ promises none; they are exclusive now.  And
assumptions on constants that the operators rely on had to be written down, such as that a shelf
has no empty topic.

**Only model-checked**: everything that must eventually happen (`EverySettles`,
`EveryFollowSent`, `EveryUndoSent`, `SuppressedHidden`, `SuppressionHeals`,
`SortCountHeals`), as liveness under fairness is out of this prover's reach;
`SiteTypeOK`, the conjunction of the parts' type invariants, each of which is proved of its part; and of
course the four violations.  `HiddenOnlyAfterThree` is only proved.

## What is not modelled

* Clocks: intervals and ages are nondeterministic, so a property never depends on a
  duration.  The database is always there; connection pools are not modelled.
* TaskQueue: what a task does; the kinds are distinguished as far as the lanes' filters
  and rankings look at them.  `pg_repack` and the deprecated
  task kinds only as kinds.
* Follow: following a local target (one transaction, no delivery); key
  fetches of the remote server; several targets, as no statement but the refusal and
  the clean-up joins two.
* Visibility: parsing of nodeinfo, directories and actors; the administrator's list of
  blocked ids; posts here are only "there is one that can be liked".
* Votes: votes on replies, which use the same statements on
  another table and have no cached count; forwarding of votes to followers of a
  local community; that the inbox verifies who undoes.
* Accounts: profiles, avatars and which password is set.  Listing: what a row looks like.
  Moderation: the retention of flags and of the log.
* Inbox: Move, Flag, private messages, remote Follow and Leave, and Accept and Reject (the last two are in
  `Follow`, remote likes in `Votes`).
* Directory, OutboxFetch, ThreadFetch: formats; an entry is what it means to the code that
  unwraps it.  The featured collection of a community is one statement and is left out.
* Sources: comments on items and the delivery marks of items.
* Janitor: the retention of notifications, replies' likes and unused communities, and the repair
  of titles and of endpoints other than the inbox, each one statement that joins nothing the models have.
* Creating and editing posts and comments: one insert and its deliveries, the order of which
  is that of `Moderation` (announcements) and `TaskQueue` (fan-out).
* The components marked so in `PROJECT.json`, with the reason there.  Rendering, parsing, signing
  and media are I/O without a protocol of their own.

## What could come next

1. The janitor's remaining statements, once a property relates them to what users see.
2. Creation of posts and comments with their mentions, when notifications are pushed.
