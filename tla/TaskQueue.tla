------------------------------ MODULE TaskQueue ------------------------------
(***************************************************************************)
(* The persistent task queue of lotide: the `task` table and the worker    *)
(* that drains it (src/src/worker.rs, and the enqueue and wake-up half of  *)
(* src/src/main.rs).                                                       *)
(*                                                                         *)
(* Everything lotide does for another server (deliveries, fetches, inbox   *)
(* verification, discovery) is a row of that table.  Four lanes of one     *)
(* worker process take rows, each with an UPDATE ... FOR UPDATE SKIP       *)
(* LOCKED, perform them under a timeout and write the result back.  The    *)
(* scheduler of the same process sweeps the table: it completes rows that  *)
(* became irrelevant, fails rows whose recorded error is terminal, drops   *)
(* large payloads and deletes old rows.                                    *)
(*                                                                         *)
(* One SQL statement is one action, except the sweep that completes        *)
(* irrelevant rows: that statement takes no row lock before it updates, so *)
(* its snapshot (SweepScan) and its update (SweepApply) are two steps.     *)
(*                                                                         *)
(* Clocks are abstract.  A row's attempted_at is known by `rest`, how long *)
(* ago the last attempt was relative to the back-off and to the one hour   *)
(* after which a retry is preferred.                                       *)
(***************************************************************************)
EXTENDS Integers, FiniteSets

CONSTANTS
  Tasks,        \* row ids; the id order is the order of the naturals
  Lanes,        \* the lanes that run, always with "main" among them
  ClassOf,      \* ClassOf[t] : kind of t and the params the rankings look at
  MaxAttempts,  \* MaxAttempts[t] : the max_attempts column of t
  Fanout,       \* rows that only the audience task inserts
  Recycle,      \* rows inserted again after they were purged: endless arrival
  Retriable,    \* rows an administrator queues again after they failed
  MaxRestarts,  \* bound: crashes of the worker process
  Wakeups       \* how wake-ups travel, as SEPARATE_WORKER says at a start:
                \* by the "channel" of one process, or by "notify"

SeedClasses == {"seed_community_discovery_hosts", "seed_discourse_discovery_hosts"}

\* discover_server_communities, split by the software of the host
DiscoverClasses == {"discover_directory", "discover_source", "discover_plain"}

InboxClasses == {"ingest_object_from_inbox", "verify_and_ingest_object_from_inbox"}

\* fetch_community_outbox with preview=true, and the collection target preview
PreviewClasses == {"fetch_community_outbox_preview", "fetch_collection_target_preview"}

\* kinds whose retries the main lane prefers once they are an hour old;
\* an outbox preview is of the outbox kind but is ranked earlier
FetchClasses == {"fetch_community_featured", "fetch_community_outbox",
                 "fetch_post_replies", "fetch_remote_post_refresh",
                 "fetch_platform_post_thread"}

DeliveryClasses == {"deliver_to_audience", "deliver_to_inbox"}

OtherClasses == {"fetch_actor", "deliver_to_followers", "send_notification",
                 "send_notification_for_subscription"}

Class == SeedClasses \cup DiscoverClasses \cup {"probe_community_host_interaction"}
           \cup InboxClasses \cup PreviewClasses \cup FetchClasses
           \cup DeliveryClasses \cup OtherClasses

AllLanes == {"main", "discovery", "readback", "inbox"}

ASSUME TasksAreIds == Tasks \subseteq Nat \ {0}
ASSUME LanesAssumption == Lanes \subseteq AllLanes /\ "main" \in Lanes
ASSUME ClassAssumption == ClassOf \in [Tasks -> Class]
ASSUME AttemptsAssumption == MaxAttempts \in [Tasks -> Nat \ {0}]
ASSUME ArrivalAssumption ==
  Fanout \subseteq Tasks /\ Recycle \subseteq Tasks /\ Retriable \subseteq Tasks
ASSUME BoundsAssumption == MaxRestarts \in Nat /\ Wakeups \in SUBSET {"channel", "notify"} \ {{}}

\* What an idle lane performs.
NoTask == 0

VARIABLES
  row,        \* the task table
  lane,       \* what each lane is doing
  trigger,    \* the one-slot channel that wakes the main lane
  listening,  \* what wakes the main lane: "nothing" (no worker, or one that has not
              \* executed LISTEN yet), the "channel" or "notify"
  announce,   \* rows inserted by a request that has not called notify_worker yet
              \* (and, if the request dies first, never will)
  sweep,      \* rows in the snapshot of the sweep that completes irrelevant rows
  restarts,   \* crashes so far
  doubled,    \* history: rows reset while a live lane was performing them
  takes       \* history: how often each row was handed to a lane

vars == <<row, lane, trigger, listening, announce, sweep, restarts, doubled, takes>>

State == {"none", "gone", "pending", "running", "completed", "failed"}
Rest  == {"fresh", "cooling", "due", "aged"}
\* the latest_error column: none, an error worth a retry, or one that only the
\* wider patterns of the sweep call terminal
Err   == {"none", "plain", "stale"}

Row   == [state : State, attempts : Nat, rest : Rest, err : Err, trimmed : BOOLEAN]
Pc    == {"off", "boot", "take", "perform", "wait"}

TypeOK ==
  /\ row \in [Tasks -> Row]
  /\ lane \in [Lanes -> [pc : Pc, task : Tasks \cup {NoTask}]]
  /\ trigger \in BOOLEAN
  /\ listening \in {"nothing", "channel", "notify"}
  /\ announce \subseteq Tasks
  /\ sweep \subseteq Tasks
  /\ restarts \in 0..MaxRestarts
  /\ doubled \subseteq Tasks
  /\ takes \in [Tasks -> Nat]

Holds(l, t) == lane[l].pc = "perform" /\ lane[l].task = t
Held(t)     == \E l \in Lanes : Holds(l, t)
Idle(pc)    == [pc |-> pc, task |-> NoTask]

\* Mutant: attempts starts below zero.
NewRowNull(s) == [state |-> s, attempts |-> 0 - 1, rest |-> "fresh", err |-> "none",
                  trimmed |-> FALSE]

\* A row as inserted: attempts 0, attempted_at NULL.
NewRow(s) == [state |-> s, attempts |-> 0, rest |-> "fresh", err |-> "none",
              trimmed |-> FALSE]

-----------------------------------------------------------------------------
(***************************************************************************)
(* Which rows a lane may take and in which order.                          *)
(***************************************************************************)

\* Mutant: no dedicated lane for the fetches that follow a page view.
ReadbackLaneOfPreviews == PreviewClasses

\* The kind lists of the take statements.
DiscoveryLaneClasses ==
  SeedClasses \cup DiscoverClasses \cup {"probe_community_host_interaction"}
ReadbackLaneClasses == FetchClasses \cup PreviewClasses
LaneClasses(l) ==
  CASE l = "main"      -> Class
    [] l = "discovery" -> DiscoveryLaneClasses
    [] l = "readback"  -> ReadbackLaneClasses
    [] l = "inbox"     -> InboxClasses

\* The ORDER BY CASE of TAKE_NEXT_TASK_SQL.
MainRank(c, attempts, rest) ==
  IF c = "deliver_to_audience" THEN 0
  ELSE IF c = "deliver_to_inbox" THEN (IF attempts = 0 THEN 1 ELSE 6)
  ELSE IF c \in PreviewClasses THEN 3
  ELSE IF attempts = 0
  THEN CASE c \in SeedClasses -> 2
         [] c = "fetch_remote_post_refresh" -> 4
         [] c = "fetch_community_outbox" -> 5
         [] c \in {"verify_and_ingest_object_from_inbox", "fetch_post_replies",
                   "fetch_platform_post_thread"} -> 7
         [] c = "probe_community_host_interaction" -> 8
         [] c = "discover_directory" -> 9
         [] c = "discover_source" -> 10
         [] c = "discover_plain" -> 11
         [] OTHER -> 13
  ELSE IF rest = "aged" /\ c \in FetchClasses THEN 12 ELSE 14

\* The ORDER BY CASE of TAKE_NEXT_DISCOVERY_TASK_SQL.
DiscoveryRank(c, attempts, rest) ==
  IF attempts > 0 THEN 5
  ELSE CASE c \in SeedClasses -> 0
         [] c = "probe_community_host_interaction" -> 1
         [] c = "discover_directory" -> 2
         [] c = "discover_source" -> 3
         [] OTHER -> 4

\* The ORDER BY CASE of TAKE_NEXT_READBACK_TASK_SQL.
ReadbackRank(c, attempts, rest) ==
  IF c \in PreviewClasses THEN 3
  ELSE IF attempts = 0
  THEN CASE c = "fetch_remote_post_refresh" -> 0
         [] c = "fetch_post_replies" -> 1
         [] c = "fetch_platform_post_thread" -> 2
         [] c = "fetch_community_outbox" -> 4
         [] OTHER -> 5
  ELSE IF rest = "aged" THEN 6 ELSE 7

\* The ORDER BY CASE of TAKE_NEXT_INBOX_TASK_SQL.
InboxRank(c, attempts, rest) ==
  CASE attempts = 0 -> IF c = "verify_and_ingest_object_from_inbox" THEN 0 ELSE 1
    [] OTHER -> IF rest = "aged" THEN 2 ELSE 3

Rank(l, t) ==
  LET c == ClassOf[t]
      a == row[t].attempts
      r == row[t].rest
  IN  CASE l = "main"      -> MainRank(c, a, r)
        [] l = "discovery" -> DiscoveryRank(c, a, r)
        [] l = "readback"  -> ReadbackRank(c, a, r)
        [] l = "inbox"     -> InboxRank(c, a, r)

\* Mutant: the take statement forgets state='pending'.
EligibleAnyState(l, t) ==
  /\ row[t].state \in {"pending", "running"}
  /\ ClassOf[t] \in LaneClasses(l)

\* The WHERE clause of the take statements.
Eligible(l, t) ==
  /\ row[t].state = "pending"
  /\ row[t].rest # "cooling"
  /\ ClassOf[t] \in LaneClasses(l)

\* ORDER BY rank, id LIMIT 1
Next1(l, t) ==
  /\ Eligible(l, t)
  /\ \A u \in Tasks \ {t} :
       Eligible(l, u) => \/ Rank(l, t) < Rank(l, u)
                         \/ Rank(l, t) = Rank(l, u) /\ t < u

-----------------------------------------------------------------------------
(***************************************************************************)
(* Enqueueing and waking the main lane.                                    *)
(***************************************************************************)

\* Mutant: the INSERT of a caller that never reaches notify_worker.
EnqueueSilently(t) ==
  /\ t \notin Fanout
  /\ row[t].state = "none"
  /\ row' = [row EXCEPT ![t] = NewRow("pending")]
  /\ UNCHANGED <<lane, trigger, listening, announce, sweep, restarts, doubled, takes>>

\* enqueue_task: the INSERT.  The notification is a later await.
Enqueue(t) ==
  /\ t \notin Fanout
  /\ row[t].state = "none"
  /\ row' = [row EXCEPT ![t] = NewRow("pending")]
  /\ announce' = announce \cup {t}
  /\ UNCHANGED <<lane, trigger, listening, sweep, restarts, doubled, takes>>

\* notify_worker: try_send on a channel of capacity one (a full channel is
\* fine), or NOTIFY, which nobody hears before LISTEN or while the worker is down.
Notify(t) ==
  /\ t \in announce
  /\ announce' = announce \ {t}
  /\ trigger' = (trigger \/ listening # "nothing")
  /\ UNCHANGED <<row, lane, listening, sweep, restarts, doubled, takes>>

\* The listening connection of a separate worker executes LISTEN.
Listen ==
  /\ listening = "nothing"
  /\ lane["main"].pc # "off"
  /\ listening' = "notify"
  /\ UNCHANGED <<row, lane, trigger, announce, sweep, restarts, doubled, takes>>

\* DeliverToAudience::perform: one INSERT ... SELECT of a delivery per inbox,
\* with no notify_worker after it.  Only the main lane performs this kind.
FanoutDeliveries(l, T) ==
  /\ lane[l].pc = "perform"
  /\ ClassOf[lane[l].task] = "deliver_to_audience"
  /\ T # {}
  /\ \A t \in T : row[t].state = "none"
  /\ row' = [t \in Tasks |-> IF t \in T THEN NewRow("pending") ELSE row[t]]
  /\ UNCHANGED <<lane, trigger, listening, announce, sweep, restarts, doubled, takes>>

\* ADMIN_FEDERATION_RETRY_FAILED_TASK_SQL: a failed row becomes as good as new,
\* unless its payload is gone.  Nobody is notified.
AdminRetry(t) ==
  /\ t \in Retriable
  /\ row[t].state = "failed"
  /\ ~row[t].trimmed
  /\ row' = [row EXCEPT ![t] = NewRow("pending")]
  /\ takes' = [takes EXCEPT ![t] = 0]
  /\ UNCHANGED <<lane, trigger, listening, announce, sweep, restarts, doubled>>

-----------------------------------------------------------------------------
(***************************************************************************)
(* The worker process.                                                     *)
(***************************************************************************)

\* run_worker joins the lanes: every lane starts at once, and only the main
\* lane begins with the reset of interrupted rows.  A server process has its
\* channel, and no request yet, from the start; a worker process has to LISTEN.
StartWorker ==
  /\ lane["main"].pc = "off"
  /\ lane' = [l \in Lanes |-> Idle(IF l = "main" THEN "boot" ELSE "take")]
  /\ \/ /\ "channel" \in Wakeups
        /\ listening' = "channel"
        /\ announce' = {}
     \/ /\ "notify" \in Wakeups
        /\ UNCHANGED <<listening, announce>>
  /\ UNCHANGED <<row, trigger, sweep, restarts, doubled, takes>>

\* A database error or a panic in any lane ends run_worker, and with it the
\* process.  Rows stay as the last committed statement left them.
Crash ==
  /\ lane["main"].pc # "off"
  /\ restarts < MaxRestarts
  /\ restarts' = restarts + 1
  /\ lane' = [l \in Lanes |-> Idle("off")]
  /\ trigger' = FALSE
  /\ listening' = "nothing"
  \* when one process serves requests and runs the worker, the requests that
  \* were about to notify die with it
  /\ announce' = IF listening = "channel" THEN {} ELSE announce
  \* the database finishes a statement it has, or never received it
  /\ sweep' \in {sweep, {}}
  /\ doubled' = {}
  /\ UNCHANGED <<row, takes>>

\* Mutants: an interruption costs no attempt; interrupted rows stay running.
ResetRowForFree(r, max) ==
  [state |-> "pending", attempts |-> r.attempts, rest |-> "cooling", err |-> "plain",
   trimmed |-> r.trimmed]
ResetRowNever(r, max) == r

\* RESET_INTERRUPTED_TASKS_SQL
ResetRow(r, max) ==
  [state |-> IF r.attempts + 1 < max THEN "pending" ELSE "failed",
   attempts |-> r.attempts + 1, rest |-> "cooling", err |-> "plain",
   trimmed |-> r.trimmed]

ResetInterrupted ==
  /\ lane["main"].pc = "boot"
  /\ lane' = [lane EXCEPT !["main"] = Idle("take")]
  /\ row' = [t \in Tasks |-> IF row[t].state = "running"
                             THEN ResetRow(row[t], MaxAttempts[t]) ELSE row[t]]
  /\ doubled' = doubled \cup {t \in Tasks : row[t].state = "running" /\ Held(t)}
  /\ UNCHANGED <<trigger, listening, announce, sweep, restarts, takes>>

\* The SET list of the take statements.
TakeRow(r) ==
  [state |-> "running", attempts |-> r.attempts, rest |-> "cooling", err |-> "none",
   trimmed |-> r.trimmed]

\* The take statement of lane l returns row t.
Take(l, t) ==
  /\ lane[l].pc = "take"
  /\ Next1(l, t)
  /\ lane' = [lane EXCEPT ![l] = [pc |-> "perform", task |-> t]]
  /\ row' = [row EXCEPT ![t] = TakeRow(@)]
  /\ takes' = [takes EXCEPT ![t] = @ + 1]
  /\ UNCHANGED <<trigger, listening, announce, sweep, restarts, doubled>>

\* The take statement returns no row: the main lane waits for the trigger or a
\* minute, the other lanes sleep.
TakeNothing(l) ==
  /\ lane[l].pc = "take"
  /\ \A t \in Tasks : ~Eligible(l, t)
  /\ lane' = [lane EXCEPT ![l] = Idle("wait")]
  /\ UNCHANGED <<row, trigger, listening, announce, sweep, restarts, doubled, takes>>

\* recv.recv() returns
WakeByTrigger ==
  /\ lane["main"].pc = "wait"
  /\ trigger
  /\ trigger' = FALSE
  /\ lane' = [lane EXCEPT !["main"] = Idle("take")]
  /\ UNCHANGED <<row, listening, announce, sweep, restarts, doubled, takes>>

\* The minute of the main lane, or the sleep of another lane, is over.
WakeByTimer(l) ==
  /\ lane[l].pc = "wait"
  /\ lane' = [lane EXCEPT ![l] = Idle("take")]
  /\ UNCHANGED <<row, trigger, listening, announce, sweep, restarts, doubled, takes>>

\* Both completing UPDATEs; the one of the sweep also clears latest_error.
CompleteRow(r, err) ==
  [state |-> "completed", attempts |-> r.attempts + 1, rest |-> r.rest, err |-> err,
   trimmed |-> r.trimmed]

\* perform_task returned Ok: the completing UPDATE, which names only the id.
Complete(l) ==
  LET t == lane[l].task IN
  /\ lane[l].pc = "perform"
  /\ row' = [row EXCEPT ![t] = CompleteRow(@, @.err)]
  /\ lane' = [lane EXCEPT ![l] = Idle("take")]
  /\ UNCHANGED <<trigger, listening, announce, sweep, restarts, doubled, takes>>

\* Mutants: a terminal failure leaves the attempts short of the maximum; the
\* payload of an inbox task is dropped at any failure.
FailRowTerminalCounted(r, max, inbound, terminal, compact, err) ==
  [state |-> IF ~terminal /\ r.attempts + 1 < max THEN "pending" ELSE "failed",
   attempts |-> r.attempts + 1, rest |-> "cooling", err |-> err,
   trimmed |-> r.trimmed \/ (inbound /\ r.attempts + 1 >= max /\ compact)]
FailRowTrimEarly(r, max, inbound, terminal, compact, err) ==
  [state |-> IF ~terminal /\ r.attempts + 1 < max THEN "pending" ELSE "failed",
   attempts |-> IF terminal THEN max ELSE r.attempts + 1, rest |-> "cooling", err |-> err,
   trimmed |-> r.trimmed \/ (inbound /\ compact)]

\* FAIL_TASK_SQL: `terminal` is task_error_is_terminal of the error, `compact`
\* the site setting cleanup_failed_inbox_task_payloads_enabled, read just before.
FailRow(r, max, inbound, terminal, compact, err) ==
  [state |-> IF ~terminal /\ r.attempts + 1 < max THEN "pending" ELSE "failed",
   attempts |-> IF terminal THEN max ELSE r.attempts + 1, rest |-> "cooling", err |-> err,
   trimmed |-> r.trimmed \/ (inbound /\ r.attempts + 1 >= max /\ compact)]

\* task_error_is_terminal can be true of these kinds only
CanBeTerminal(c) == c \in InboxClasses \cup {"deliver_to_inbox"}

\* perform_task returned Err or the timeout cut it short.
Fail(l, terminal, compact, err) ==
  LET t == lane[l].task IN
  /\ lane[l].pc = "perform"
  /\ terminal => CanBeTerminal(ClassOf[t])
  /\ row' = [row EXCEPT ![t] = FailRow(@, MaxAttempts[t], ClassOf[t] \in InboxClasses,
                                       terminal, compact, err)]
  /\ lane' = [lane EXCEPT ![l] = Idle("take")]
  /\ UNCHANGED <<trigger, listening, announce, sweep, restarts, doubled, takes>>

\* attempted_at + EXP(attempts) * 20 s passes; from six attempts on that is
\* more than the hour after which the row counts as aged.
LongBackoff == 6
Rested(r, rest) == [state |-> r.state, attempts |-> r.attempts, rest |-> rest,
                    err |-> r.err, trimmed |-> r.trimmed]
BackoffElapses(t) ==
  /\ row[t].state = "pending"
  /\ row[t].rest = "cooling"
  /\ row' = [row EXCEPT ![t] =
                Rested(@, IF @.attempts >= LongBackoff THEN "aged" ELSE "due")]
  /\ UNCHANGED <<lane, trigger, listening, announce, sweep, restarts, doubled, takes>>

RetryAges(t) ==
  /\ row[t].state = "pending"
  /\ row[t].rest = "due"
  /\ row' = [row EXCEPT ![t] = Rested(@, "aged")]
  /\ UNCHANGED <<lane, trigger, listening, announce, sweep, restarts, doubled, takes>>

-----------------------------------------------------------------------------
(***************************************************************************)
(* The sweeps of the scheduler (cleanup_old_tasks and run_janitor).        *)
(***************************************************************************)

\* JANITOR_COMPLETE_IRRELEVANT_INBOX_TASKS_SQL, the CTEs: which pending rows
\* hold an announce of an unfollowed community or a delete of unknown objects.
SweepScan(S) ==
  /\ lane["main"].pc # "off"
  /\ sweep = {}
  /\ S # {}
  /\ \A t \in S : /\ row[t].state = "pending"
                  /\ ClassOf[t] = "verify_and_ingest_object_from_inbox"
  /\ sweep' = S
  /\ UNCHANGED <<row, lane, trigger, listening, announce, restarts, doubled, takes>>

\* The same statement, the UPDATE: it joins on the id alone, so a row that left
\* the pending state after the snapshot is updated all the same.
SweepRow(r) ==
  IF r.state \in {"none", "gone"} THEN r
  ELSE CompleteRow(r, "none")

SweepApply ==
  /\ sweep # {}
  /\ row' = [t \in Tasks |-> IF t \in sweep THEN SweepRow(row[t]) ELSE row[t]]
  /\ sweep' = {}
  /\ UNCHANGED <<lane, trigger, listening, announce, restarts, doubled, takes>>

\* JANITOR_FAIL_TERMINAL_INBOX_TASKS_SQL, which locks the rows it selects.
FailTerminal(t) ==
  /\ lane["main"].pc # "off"
  /\ row[t].state = "pending"
  /\ ClassOf[t] \in InboxClasses
  /\ row[t].rest # "fresh"
  /\ row[t].err = "stale"
  /\ row' = [row EXCEPT ![t] = FailRow(@, MaxAttempts[t], FALSE, TRUE, FALSE, @.err)]
  /\ UNCHANGED <<lane, trigger, listening, announce, sweep, restarts, doubled, takes>>

(***************************************************************************)
(* Retention.  Rows are deleted a day or more, and payloads dropped an     *)
(* hour or more, after the row settled; a lane holds a row for a minute at *)
(* most (task_timeout), so neither meets a row that a lane is performing   *)
(* or that the running sweep has in its snapshot.                          *)
(***************************************************************************)
Settled(t) == ~Held(t) /\ t \notin sweep /\ lane["main"].pc # "off"

\* CLEANUP_COMPLETED_TASKS_SQL, CLEANUP_FAILED_INBOX_TASKS_SQL and
\* CLEANUP_FAILED_TASKS_SQL
Purge(t) ==
  /\ Settled(t)
  /\ row[t].state \in {"completed", "failed"}
  /\ row' = [row EXCEPT ![t] = NewRow(IF t \in Recycle THEN "none" ELSE "gone")]
  /\ takes' = [takes EXCEPT ![t] = 0]
  /\ UNCHANGED <<lane, trigger, listening, announce, sweep, restarts, doubled>>

\* params become the `discarded` stub.
TrimRow(r) == [state |-> r.state, attempts |-> r.attempts, rest |-> r.rest,
               err |-> r.err, trimmed |-> TRUE]

\* COMPACT_FAILED_INBOX_TASK_PAYLOADS_SQL
CompactFailed(t) ==
  /\ Settled(t)
  /\ row[t].state = "failed"
  /\ ClassOf[t] \in InboxClasses
  /\ ~row[t].trimmed
  /\ row' = [row EXCEPT ![t] = TrimRow(@)]
  /\ UNCHANGED <<lane, trigger, listening, announce, sweep, restarts, doubled, takes>>

\* JANITOR_COMPACT_COMPLETED_INBOX_TASK_PAYLOADS_SQL
CompactCompleted(t) ==
  /\ Settled(t)
  /\ row[t].state = "completed"
  /\ ClassOf[t] \in InboxClasses
  /\ ~row[t].trimmed
  /\ row' = [row EXCEPT ![t] = TrimRow(@)]
  /\ UNCHANGED <<lane, trigger, listening, announce, sweep, restarts, doubled, takes>>

-----------------------------------------------------------------------------
Init ==
  /\ row = [t \in Tasks |-> NewRow("none")]
  /\ lane = [l \in Lanes |-> Idle("off")]
  /\ trigger = FALSE
  /\ listening = "nothing"
  /\ announce = {}
  /\ sweep = {}
  /\ restarts = 0
  /\ doubled = {}
  /\ takes = [t \in Tasks |-> 0]

LaneStep(l) ==
  \/ \E t \in Tasks : Take(l, t)
  \/ TakeNothing(l)
  \/ WakeByTimer(l)
  \/ Complete(l)
  \/ \E terminal, compact \in BOOLEAN, err \in {"plain", "stale"} :
       Fail(l, terminal, compact, err)

Next ==
  \/ StartWorker \/ Crash \/ ResetInterrupted \/ Listen \/ WakeByTrigger \/ SweepApply
  \/ \E l \in Lanes : LaneStep(l) \/ \E T \in SUBSET Fanout : FanoutDeliveries(l, T)
  \/ \E t \in Tasks : \/ Enqueue(t) \/ Notify(t) \/ AdminRetry(t)
                      \/ BackoffElapses(t) \/ RetryAges(t) \/ FailTerminal(t)
                      \/ Purge(t) \/ CompactFailed(t) \/ CompactCompleted(t)
  \/ \E S \in SUBSET Tasks : SweepScan(S)

Spec == Init /\ [][Next]_vars

\* The process is restarted by its supervisor, each lane keeps running (a task
\* ends at its timeout at the latest), time passes, and the running sweep ends.
Fairness ==
  /\ WF_vars(StartWorker)
  /\ WF_vars(ResetInterrupted)
  /\ \A l \in Lanes : WF_vars(LaneStep(l))
  /\ \A t \in Tasks : WF_vars(BackoffElapses(t))
  /\ WF_vars(SweepApply)

FairSpec == Spec /\ Fairness

-----------------------------------------------------------------------------
(***************************************************************************)
(* Properties.                                                             *)
(***************************************************************************)

\* No row is handed to a lane more often than its max_attempts, however
\* failures, time-outs, crashes, a sweep and a reset of rows that a lane is
\* still performing follow each other: every way out of `running` spends an
\* attempt (FAIL_TASK_SQL, RESET_INTERRUPTED_TASKS_SQL).
PerformanceBudget == \A t \in Tasks : takes[t] <= MaxAttempts[t]

\* A row that failed for good is queued again by an administrator only, though
\* two lanes may both write the result of the same row (FAIL_TASK_SQL decides
\* from the attempts column, not from the state).
FailedIsFinal ==
  [][\A t \in Tasks :
       row[t].state = "failed" /\ row'[t].state \in {"pending", "running"}
         => AdminRetry(t)]_vars

\* A row whose params were replaced by the `discarded` stub is never performed
\* again: perform_task could no longer parse it.
TrimmedNeverRuns ==
  \A t \in Tasks : row[t].trimmed => row[t].state \in {"completed", "failed"}

\* Two lanes perform the same row only after the start-up reset took it from a
\* lane that was alive; a sweep that completes a row under a lane does not let
\* a second lane in.
ExclusiveLane ==
  \A t \in Tasks, l, m \in Lanes :
    Holds(l, t) /\ Holds(m, t) /\ l # m => t \in doubled

\* With the worker in the server process no wake-up is lost: while the main
\* lane waits for its trigger, a new row whose request reached notify_worker
\* has the trigger set, whichever order insert, take and notification came in.
\* A row that an administrator queues again waits for the main lane's minute.
NoLostWakeup ==
  listening = "channel" /\ lane["main"].pc = "wait" =>
    \A t \in Tasks \ Retriable : row[t].state = "pending" /\ row[t].rest = "fresh" =>
                       trigger \/ t \in announce

\* Every queued row is eventually completed, failed or deleted: through lost
\* wake-ups, crashes, retries and competition between lanes.  Rows that keep
\* arriving (Recycle) make no promise for themselves, but may not starve others.
EverySettles ==
  \A t \in Tasks \ Recycle :
    row[t].state = "pending" ~> row[t].state \in {"completed", "failed", "gone"}

\* latest_error = 'Worker stopped while task was running' is written only to a
\* row that no live lane is performing (RESET_INTERRUPTED_TASKS_SQL).
ResetOnlyStopped == doubled = {}
=============================================================================
