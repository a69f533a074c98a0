---------------------------- MODULE FollowProofs ----------------------------
(***************************************************************************)
(* Proofs about module Follow, for any accounts, slots, bounds and answers *)
(* of the remote server.                                                   *)
(*                                                                         *)
(* AcceptedWasHeard and RemovalLeavesUndo are not inductive.  The first    *)
(* needs what is on its way to a row: deliveries that were answered and    *)
(* Accepts in the inbox.  The second needs the same of every row inserted  *)
(* so far, and that jobs and history only speak of such rows.              *)
(***************************************************************************)
EXTENDS Follow, TLAPS

\* Whatever will still mark a row accepted was preceded by a POST that the
\* remote inbox took.
ComesFromPost ==
  /\ \A s \in Slots : job[s].pc \in {"posted", "noted"} /\ job[s].what = "follow"
                        => heard[job[s].user] # {}
  /\ \A s \in Slots : job[s].pc = "noted" => job[s].what = "follow"
  /\ \A u \in Users : <<u, TRUE>> \in response => heard[u] # {}

\* Rows are numbered in the order of their insertion.
Inserted(u) == 1..gens[u]
JobsNumbered == \A s \in Slots : Active(s) => job[s].gen \in Inserted(job[s].user)
Numbered ==
  /\ \A u \in Users : follow[u].gen # 0 => follow[u].gen \in Inserted(u)
  /\ \A u \in Users : heard[u] \subseteq Inserted(u)
  /\ JobsNumbered

\* Every row inserted so far is there or has its undo row.
Accounted ==
  target # "gone" =>
    \A u \in Users : \A g \in Inserted(u) : follow[u].gen = g \/ undo[u][g].state = "live"

IInv == TypeOK /\ AcceptedWasHeard /\ ComesFromPost /\ Numbered /\ Accounted

\* Only inserted rows have an undo row.
UndoNumbered == \A u \in Users, g \in Gens : undo[u][g].state = "live" => g \in Inserted(u)

-----------------------------------------------------------------------------
\* What spawn_task leaves in a slot: the job that was there, or in a slot that
\* was free one of the new ones.
LEMMA SpawnedSlots ==
  ASSUME NEW Js, SpawnAll(Js)
  PROVE  /\ job' \in [Slots -> {job[s] : s \in Slots} \cup Js]
         /\ \A s \in Slots : job'[s] = job[s] \/ job'[s] \in Js
<1>1. PICK place \in [Js -> {s \in Slots : ~Active(s)}] :
        job' = [s \in Slots |-> IF \E j \in Js : place[j] = s
                               THEN CHOOSE j \in Js : place[j] = s ELSE job[s]]
  BY DEF SpawnAll
<1>2. ASSUME NEW s \in Slots PROVE job'[s] = job[s] \/ job'[s] \in Js
  <2>1. CASE \E j \in Js : place[j] = s
    <3>1. job'[s] = CHOOSE j \in Js : place[j] = s
      BY <1>1, <2>1
    <3>2. (CHOOSE j \in Js : place[j] = s) \in Js
      BY <2>1
    <3>3. QED BY <3>1, <3>2
  <2>2. CASE ~ \E j \in Js : place[j] = s
    BY <1>1, <2>2
  <2>3. QED BY <2>1, <2>2
<1>3. job' \in [Slots -> {job[s] : s \in Slots} \cup Js]
  BY <1>1, <1>2
<1>4. QED BY <1>2, <1>3

\* The three parts of the invariant that speak of jobs survive any step that
\* only adds jobs of inserted rows and leaves history and numbers alone.
LEMMA SpawnedInv ==
  ASSUME NEW Js, SpawnAll(Js), TypeOK, Numbered, ComesFromPost,
         \A j \in Js : j \in Job /\ j.pc = "spawned" /\ j.gen \in 1..gens'[j.user],
         \A u \in Users : gens[u] <= gens'[u], gens' \in [Users -> 0..MaxFollows],
         UNCHANGED <<heard, response>>
  PROVE  /\ job' \in [Slots -> Job \cup {FreeJob}]
         /\ ComesFromPost'
         /\ JobsNumbered'
<1>1. \A s \in Slots : job'[s] = job[s] \/ job'[s] \in Js
  BY SpawnedSlots
<1>2. job' \in [Slots -> {job[s] : s \in Slots} \cup Js]
  BY SpawnedSlots
<1>3. job' \in [Slots -> Job \cup {FreeJob}]
  BY <1>1, <1>2 DEF TypeOK
<1>4. ComesFromPost'
  <2>1. \A s \in Slots : job'[s].pc \in {"posted", "noted"} /\ job'[s].what = "follow"
                           => heard'[job'[s].user] # {}
    BY <1>1 DEF ComesFromPost
  <2>2. \A s \in Slots : job'[s].pc = "noted" => job'[s].what = "follow"
    BY <1>1 DEF ComesFromPost
  <2>3. \A u \in Users : <<u, TRUE>> \in response' => heard'[u] # {}
    BY DEF ComesFromPost
  <2>4. QED BY <2>1, <2>2, <2>3 DEF ComesFromPost
<1>5. ASSUME NEW s \in Slots, job'[s].pc # "free"
      PROVE  job'[s].gen \in 1..gens'[job'[s].user]
  <2>1. CASE job'[s] = job[s]
    <3>1. job[s] \in Job
      BY <1>5, <2>1 DEF TypeOK, FreeJob
    <3>2. job[s].user \in Users /\ job[s].gen \in Nat /\ job[s].gen \in 1..gens[job[s].user]
      BY <3>1, <1>5, <2>1 DEF Numbered, JobsNumbered, Active, Inserted, Job, Gens
    <3>3. gens[job[s].user] \in Nat /\ gens'[job[s].user] \in Nat
      BY <3>2, BoundsAssumption DEF TypeOK
    <3>4. QED BY <2>1, <3>2, <3>3
  <2>2. CASE job'[s] \in Js
    BY <2>2
  <2>3. job'[s] = job[s] \/ job'[s] \in Js
    BY <1>1
  <2>4. QED BY <2>1, <2>2, <2>3
<1>6. QED BY <1>3, <1>4, <1>5 DEF JobsNumbered, Active, Inserted

-----------------------------------------------------------------------------
(***************************************************************************)
(* The invariant at the start, and across steps that touch few variables.  *)
(***************************************************************************)

\* Nothing is followed at the start.
LEMMA InitInv == Init => IInv
<1> SUFFICES ASSUME Init PROVE IInv
  OBVIOUS
<1>1. TypeOK
  BY BoundsAssumption DEF Init, TypeOK, FollowRow, UndoRow, NoFollow, NoUndo, FreeJob
<1>2. AcceptedWasHeard
  BY DEF Init, AcceptedWasHeard, NoFollow
<1>3. ComesFromPost
  BY DEF Init, ComesFromPost, FreeJob
<1>4. Numbered
  BY DEF Init, Numbered, JobsNumbered, NoFollow, Active, FreeJob
<1>5. Accounted
  BY DEF Init, Accounted, Inserted
<1>6. QED BY <1>1, <1>2, <1>3, <1>4, <1>5 DEF IInv

\* A step that moves jobs on, or ends them, and touches no table.
Moves ==
  \A s \in Slots : \/ job'[s] = job[s]
                   \/ job'[s] = FreeJob
                   \/ /\ Active(s)
                      /\ job'[s] \in Job
                      /\ job'[s].what = job[s].what
                      /\ job'[s].user = job[s].user
                      /\ job'[s].gen = job[s].gen
                      /\ \/ job'[s].pc \notin {"posted", "noted"}
                         \/ job[s].pc \in {"posted", "noted"}
                      /\ job'[s].pc = "noted" => job[s].what = "follow"

\* What is on its way to a row, and the numbering, survive such a step.
LEMMA MovesInv ==
  ASSUME IInv, Moves, job' \in [Slots -> Job \cup {FreeJob}],
         UNCHANGED <<heard, response, gens>>
  PROVE  /\ ComesFromPost'
         /\ JobsNumbered'
<1>1. ASSUME NEW s \in Slots, job'[s].pc \in {"posted", "noted"}, job'[s].what = "follow"
      PROVE  heard'[job'[s].user] # {}
  BY <1>1 DEF IInv, ComesFromPost, Moves, FreeJob
<1>2. \A u \in Users : <<u, TRUE>> \in response' => heard'[u] # {}
  BY DEF IInv, ComesFromPost
<1>3. ASSUME NEW s \in Slots, job'[s].pc # "free"
      PROVE  job'[s].gen \in 1..gens'[job'[s].user]
  BY <1>3 DEF IInv, Numbered, JobsNumbered, Inserted, Moves, Active, FreeJob
<1>4. \A s \in Slots : job'[s].pc = "noted" => job'[s].what = "follow"
  BY DEF IInv, ComesFromPost, Moves, FreeJob
<1>5. ComesFromPost'
  BY <1>1, <1>2, <1>4 DEF ComesFromPost
<1>6. QED BY <1>3, <1>5 DEF JobsNumbered, Active, Inserted

\* One slot moves on.
LEMMA AdvanceMoves ==
  ASSUME TypeOK, NEW s \in Slots, Active(s), NEW pc \in JobPc, NEW j,
         j = Advance(s, pc) \/ j = FreeJob \/ j = Retry(s),
         pc \notin {"posted", "noted"} \/ job[s].pc \in {"posted", "noted"},
         pc = "noted" => job[s].what = "follow",
         job' = [job EXCEPT ![s] = j]
  PROVE  Moves /\ job' \in [Slots -> Job \cup {FreeJob}]
<1>1. job[s] \in Job
  BY DEF TypeOK, Active, FreeJob
<1>2. Advance(s, pc) \in Job
  BY <1>1 DEF Advance, Job
<1>3. Retry(s) = FreeJob \/ Retry(s) \in Job
  BY <1>1, BoundsAssumption DEF Retry, Job, JobPc
<1>4. \/ j = FreeJob
      \/ /\ j \in Job
         /\ j.what = job[s].what /\ j.user = job[s].user /\ j.gen = job[s].gen
         /\ j.pc \notin {"posted", "noted"} \/ job[s].pc \in {"posted", "noted"}
         /\ j.pc = "noted" => job[s].what = "follow"
  BY <1>2, <1>3 DEF Advance, Retry
<1>. job \in [Slots -> Job \cup {FreeJob}]
  BY DEF TypeOK
<1>5. job' \in [Slots -> Job \cup {FreeJob}]
  BY <1>4
<1>6. \A i \in Slots : job'[i] = IF i = s THEN j ELSE job[i]
  OBVIOUS
<1>7. Moves
  BY <1>4, <1>6 DEF Moves
<1>8. QED BY <1>5, <1>7

-----------------------------------------------------------------------------
(***************************************************************************)
(* Statements on the rows.                                                 *)
(***************************************************************************)

\* Rows and undo rows keep their identity.
RowsStay ==
  /\ \A u \in Users : follow'[u].gen = follow[u].gen
  /\ \A u \in Users, g \in Gens : undo'[u][g].state = undo[u][g].state

RowsType == follow \in [Users -> FollowRow] /\ undo \in [Users -> [Gens -> UndoRow]]

\* Statements that keep the rows and undo rows keep them accounted for.
LEMMA RowsStayInv ==
  ASSUME IInv, RowsStay, JobsNumbered', UNCHANGED <<target, gens, heard>>
  PROVE  Numbered' /\ Accounted'
<1>1. \A u \in Users : follow'[u].gen # 0 => follow'[u].gen \in 1..gens'[u]
  BY DEF IInv, Numbered, RowsStay, Inserted
<1>2. \A u \in Users : heard'[u] \subseteq 1..gens'[u]
  BY DEF IInv, Numbered, Inserted
<1>3. Numbered'
  BY <1>1, <1>2 DEF Numbered, Inserted
<1>4. \A u \in Users : gens[u] \in 0..MaxFollows
  BY DEF IInv, TypeOK
<1>5. \A u \in Users : \A g \in 1..gens[u] : g \in Gens
  BY <1>4, BoundsAssumption DEF Gens
<1>6. Accounted'
  BY <1>5 DEF IInv, Accounted, RowsStay, Inserted
<1>7. QED BY <1>3, <1>6

\* The marks of a delivery: at most the one account gains an acceptance.
LEMMA MarkKeeps ==
  ASSUME TypeOK, NEW s \in Slots, Active(s), NEW received \in BOOLEAN,
         NEW accepted \in BOOLEAN, Mark(s, received, accepted)
  PROVE  /\ RowsType' /\ RowsStay
         /\ \A u \in Users : follow'[u].accepted =>
              \/ follow[u].accepted
              \/ accepted /\ job[s].what = "follow" /\ u = job[s].user
<1>1. job[s] \in Job
  BY DEF TypeOK, Active, FreeJob
<1>2. job[s].user \in Users /\ job[s].gen \in Gens
  BY <1>1 DEF Job
<1>3. follow \in [Users -> FollowRow] /\ undo \in [Users -> [Gens -> UndoRow]]
  BY DEF TypeOK
<1>4. CASE job[s].what = "follow"
  <2> DEFINE v == job[s].user
             r == IF follow[v].gen = 0 THEN follow[v]
                  ELSE [gen |-> follow[v].gen, accepted |-> follow[v].accepted \/ accepted,
                        sent |-> TRUE, received |-> follow[v].received \/ received]
  <2>1. follow[v] \in FollowRow
    BY <1>2, <1>3
  <2>2. r \in FollowRow /\ r.gen = follow[v].gen /\ (r.accepted => follow[v].accepted \/ accepted)
    BY <2>1 DEF FollowRow
  <2>3. follow' = [follow EXCEPT ![v] = r] /\ undo' = undo
    BY <1>4 DEF Mark, MarkFollow
  <2> HIDE DEF r
  <2>4. follow' \in [Users -> FollowRow]
    BY <1>3, <2>2, <2>3
  <2>5. \A u \in Users : follow'[u] = IF u = v THEN r ELSE follow[u]
    BY <1>3, <2>3
  <2>6. QED BY <1>3, <1>4, <2>2, <2>3, <2>4, <2>5 DEF RowsType, RowsStay
<1>5. CASE job[s].what # "follow"
  <2> DEFINE v == job[s].user
             g == job[s].gen
             r == IF undo[v][g].state # "live" THEN undo[v][g]
                  ELSE [state |-> "live", sent |-> TRUE,
                        received |-> undo[v][g].received \/ received]
  <2>1. undo[v] \in [Gens -> UndoRow] /\ undo[v][g] \in UndoRow
    BY <1>2, <1>3
  <2>2. r \in UndoRow /\ r.state = undo[v][g].state
    BY <2>1 DEF UndoRow
  <2>3. undo' = [undo EXCEPT ![v] = [undo[v] EXCEPT ![g] = r]] /\ follow' = follow
    BY <1>5 DEF Mark, MarkUndo
  <2> HIDE DEF r
  <2>4. undo' \in [Users -> [Gens -> UndoRow]]
    BY <1>3, <2>1, <2>2, <2>3
  <2>5. \A u \in Users, h \in Gens : undo'[u][h] = IF u = v /\ h = g THEN r ELSE undo[u][h]
    BY <1>2, <1>3, <2>1, <2>3
  <2>6. QED BY <1>3, <2>2, <2>3, <2>4, <2>5 DEF RowsType, RowsStay
<1>6. QED BY <1>4, <1>5

\* Remove deletes the rows of some accounts and leaves an undo row for each.
LEMMA RemoveKeeps ==
  ASSUME IInv, known' \subseteq Contact, NEW U \in SUBSET {u \in Users : HasRow(u)}, Remove(U),
         UNCHANGED <<target, gens, response, heard, lists, crashes>>,
         refusal' \in {"idle", "untracked", "unfollowed"}
  PROVE  IInv'
<1> DEFINE Js == {Spawned("undo", u, follow[u].gen) : u \in U}
<1>1. /\ TypeOK /\ Numbered /\ ComesFromPost /\ Accounted /\ AcceptedWasHeard
  BY DEF IInv
<1>2. /\ follow' = [u \in Users |-> IF u \in U THEN NoFollow ELSE follow[u]]
      /\ undo' = [u \in Users |-> [g \in Gens |->
                IF u \in U /\ g = follow[u].gen THEN NewUndo ELSE undo[u][g]]]
      /\ verdict' = [u \in Users |-> IF u \in U THEN "none" ELSE verdict[u]]
      /\ SpawnAll(Js)
  BY DEF Remove
<1>3. ASSUME NEW u \in U
      PROVE  /\ u \in Users /\ follow[u].gen \in 1..gens[u] /\ follow[u].gen \in Gens
  BY <1>1 DEF HasRow, Numbered, Inserted, TypeOK, FollowRow, Gens
<1>4. \A j \in Js : j \in Job /\ j.pc = "spawned" /\ j.gen \in 1..gens'[j.user]
  BY <1>3, BoundsAssumption DEF Spawned, Job, JobPc
<1>5. /\ \A u \in Users : gens[u] <= gens'[u]
      /\ gens' \in [Users -> 0..MaxFollows]
  BY <1>1, BoundsAssumption DEF TypeOK
<1>6. /\ job' \in [Slots -> Job \cup {FreeJob}]
      /\ ComesFromPost' /\ JobsNumbered'
  <2> HIDE DEF Js
  <2>1. UNCHANGED <<heard, response>>
    OBVIOUS
  <2>2. QED BY <1>1, <1>2, <1>4, <1>5, <2>1, SpawnedInv
<1>7. follow' \in [Users -> FollowRow]
  <2>1. NoFollow \in FollowRow
    BY BoundsAssumption DEF NoFollow, FollowRow
  <2>2. QED BY <1>1, <1>2, <2>1 DEF TypeOK
<1>8. undo' \in [Users -> [Gens -> UndoRow]]
  BY <1>1, <1>2 DEF TypeOK, NewUndo, UndoRow
<1>9. verdict' \in [Users -> {"none", "accept", "reject"}]
  BY <1>1, <1>2 DEF TypeOK
<1>10. TypeOK'
  BY <1>1, <1>6, <1>7, <1>8, <1>9 DEF TypeOK
<1>11. AcceptedWasHeard'
  BY <1>1, <1>2 DEF AcceptedWasHeard, NoFollow
<1>12. Numbered'
  <2>1. \A u \in Users : follow'[u].gen # 0 => follow'[u].gen \in 1..gens'[u]
    BY <1>1, <1>2 DEF Numbered, NoFollow, Inserted
  <2>2. \A u \in Users : heard'[u] \subseteq 1..gens'[u]
    BY <1>1 DEF Numbered, Inserted
  <2>3. QED BY <1>6, <2>1, <2>2 DEF Numbered, Inserted
<1>13. Accounted'
  <2> SUFFICES ASSUME target # "gone", NEW u \in Users, NEW g \in 1..gens[u]
               PROVE  follow'[u].gen = g \/ undo'[u][g].state = "live"
    BY DEF Accounted, Inserted
  <2>1. g \in Gens
    BY <1>1, BoundsAssumption DEF TypeOK, Gens
  <2>2. follow[u].gen = g \/ undo[u][g].state = "live"
    BY <1>1 DEF Accounted, Inserted
  <2>3. QED BY <1>2, <2>1, <2>2 DEF NewUndo
<1>14. QED BY <1>6, <1>10, <1>11, <1>12, <1>13 DEF IInv

-----------------------------------------------------------------------------
(***************************************************************************)
(* The steps.                                                              *)
(***************************************************************************)

\* Steps that only move jobs on.
LEMMA JobsOnly ==
  ASSUME IInv, known' \subseteq Contact, Moves, job' \in [Slots -> Job \cup {FreeJob}],
         crashes' \in 0..MaxCrashes, refusal' \in {"idle", "untracked", "unfollowed"},
         UNCHANGED <<target, follow, gens, undo, response, lists, heard, verdict>>
  PROVE  IInv'
<1>1. ComesFromPost' /\ JobsNumbered'
  BY MovesInv
<1>2. RowsStay
  BY DEF RowsStay
<1>3. Numbered' /\ Accounted'
  BY <1>1, <1>2, RowsStayInv
<1>4. TypeOK'
  BY DEF IInv, TypeOK
<1>5. AcceptedWasHeard'
  BY DEF IInv, AcceptedWasHeard
<1>6. QED BY <1>1, <1>3, <1>4, <1>5 DEF IInv

\* Jobs stamp and enqueue, deliveries fail: only the job changes.
LEMMA JobStepInv ==
  ASSUME IInv, known' \subseteq Contact, NEW s \in Slots, JobStep(s) \/ PostFails(s)
  PROVE  IInv'
<1>1. UNCHANGED <<target, follow, gens, undo, response, refusal, crashes, lists, heard, verdict>>
  BY DEF JobStep, Stamp, FetchAndStamp, EnqueueFollow, EnqueueUndo, PostFails, remote
<1>2. Active(s) /\ TypeOK
  BY DEF JobStep, Stamp, FetchAndStamp, EnqueueFollow, EnqueueUndo, PostFails, Active, IInv
<1>3. \/ job' = [job EXCEPT ![s] = Advance(s, "stamped")]
      \/ job' = [job EXCEPT ![s] = Advance(s, "queued")]
      \/ job' = [job EXCEPT ![s] = FreeJob]
      \/ job' = [job EXCEPT ![s] = Retry(s)]
  BY DEF JobStep, Stamp, FetchAndStamp, EnqueueFollow, EnqueueUndo, PostFails
<1>4. Moves /\ job' \in [Slots -> Job \cup {FreeJob}]
  <2>1. "stamped" \in JobPc /\ "queued" \in JobPc
    BY DEF JobPc
  <2>2. CASE job' = [job EXCEPT ![s] = Advance(s, "stamped")]
    BY <1>2, <2>1, <2>2, AdvanceMoves
  <2>3. CASE job' = [job EXCEPT ![s] = Advance(s, "queued")]
    BY <1>2, <2>1, <2>3, AdvanceMoves
  <2>4. CASE job' = [job EXCEPT ![s] = FreeJob]
    BY <1>2, <2>1, <2>4, AdvanceMoves
  <2>5. CASE job' = [job EXCEPT ![s] = Retry(s)]
    BY <1>2, <2>1, <2>5, AdvanceMoves
  <2>6. QED BY <1>3, <2>2, <2>3, <2>4, <2>5
<1>5. crashes' \in 0..MaxCrashes /\ refusal' \in {"idle", "untracked", "unfollowed"}
  BY <1>1 DEF IInv, TypeOK
<1>6. QED BY <1>1, <1>4, <1>5, JobsOnly

\* A crash ends spawned jobs and puts running deliveries back in the queue.
LEMMA CrashInv == ASSUME IInv, known' \subseteq Contact, Crash PROVE IInv'
<1>1. ASSUME NEW s \in Slots, Active(s)
      PROVE  Retry(s) = FreeJob \/ (Retry(s) \in Job /\ Retry(s).what = job[s].what
              /\ Retry(s).user = job[s].user /\ Retry(s).gen = job[s].gen
              /\ Retry(s).pc = "queued")
  <2>1. job[s] \in Job
    BY <1>1 DEF IInv, TypeOK, Active, FreeJob
  <2>2. QED BY <2>1, BoundsAssumption DEF Retry, Job, JobPc
<1>2. ASSUME NEW s \in Slots
      PROVE  job'[s] = job[s] \/ job'[s] = FreeJob \/ (Active(s) /\ job'[s] = Retry(s))
  BY DEF Crash, Active, Running
<1>3. Moves
  BY <1>1, <1>2 DEF Moves
<1>4. job' \in [Slots -> Job \cup {FreeJob}]
  <2>1. job' = [s \in Slots |-> job'[s]]
    BY DEF Crash
  <2>2. \A s \in Slots : job'[s] \in Job \cup {FreeJob}
    BY <1>1, <1>2 DEF IInv, TypeOK
  <2>3. QED BY <2>1, <2>2
<1>5. /\ crashes' \in 0..MaxCrashes /\ refusal' \in {"idle", "untracked", "unfollowed"}
      /\ UNCHANGED <<target, follow, gens, undo, response, lists, heard, verdict>>
  BY BoundsAssumption DEF Crash, IInv, TypeOK, remote
<1>6. QED BY <1>3, <1>4, <1>5, JobsOnly

\* mark as sent, mark as received: the acceptance that the latter may write
\* comes from a POST that was answered.
LEMMA MarkInv ==
  ASSUME IInv, known' \subseteq Contact, NEW s \in Slots, MarkSent(s) \/ MarkReceived(s)
  PROVE  IInv'
<1> DEFINE r == job[s].pc = "posted"
           a == job[s].pc = "posted" /\ job[s].what = "follow" /\ Kind = "collection"
<1>1. Active(s) /\ TypeOK
  BY DEF MarkSent, MarkReceived, Queued, Active, IInv
<1>2. r \in BOOLEAN /\ a \in BOOLEAN
  OBVIOUS
<1>3. Mark(s, r, a)
  <2>1. CASE MarkSent(s)
    <3>1. r = FALSE /\ a = FALSE
      BY <2>1 DEF MarkSent, Queued
    <3>2. QED BY <2>1, <3>1 DEF MarkSent
  <2>2. CASE MarkReceived(s)
    <3>1. job[s].pc = "posted"
      BY <2>2 DEF MarkReceived
    <3>2. r = TRUE /\ a = (job[s].what = "follow" /\ Kind = "collection")
      BY <3>1
    <3>3. QED BY <2>2, <3>2 DEF MarkReceived
  <2>3. QED BY <2>1, <2>2
<1>4. UNCHANGED <<target, gens, response, refusal, crashes, lists, heard, verdict>>
  BY DEF MarkSent, MarkReceived, remote
<1>5. \/ job' = [job EXCEPT ![s] = Advance(s, "marked")]
      \/ /\ job[s].pc = "posted" /\ job[s].what = "follow"
         /\ job' = [job EXCEPT ![s] = Advance(s, "noted")]
      \/ job' = [job EXCEPT ![s] = FreeJob]
  BY DEF MarkSent, MarkReceived
<1>6. Moves /\ job' \in [Slots -> Job \cup {FreeJob}]
  <2>1. "marked" \in JobPc /\ "noted" \in JobPc
    BY DEF JobPc
  <2>2. CASE job' = [job EXCEPT ![s] = Advance(s, "marked")]
    BY <1>1, <2>1, <2>2, AdvanceMoves
  <2>3. CASE /\ job[s].pc = "posted" /\ job[s].what = "follow"
             /\ job' = [job EXCEPT ![s] = Advance(s, "noted")]
    BY <1>1, <2>1, <2>3, AdvanceMoves
  <2>4. CASE job' = [job EXCEPT ![s] = FreeJob]
    BY <1>1, <2>1, <2>4, AdvanceMoves
  <2>5. QED BY <1>5, <2>2, <2>3, <2>4
<1>7. a => heard[job[s].user] # {}
  BY DEF IInv, ComesFromPost
<1> HIDE DEF r, a
<1>8. /\ RowsType' /\ RowsStay
      /\ \A u \in Users : follow'[u].accepted =>
           \/ follow[u].accepted
           \/ a /\ job[s].what = "follow" /\ u = job[s].user
  BY <1>1, <1>2, <1>3, MarkKeeps
<1>9. ComesFromPost' /\ JobsNumbered'
  BY <1>4, <1>6, MovesInv
<1>10. Numbered' /\ Accounted'
  BY <1>4, <1>8, <1>9, RowsStayInv
<1>11. AcceptedWasHeard'
  BY <1>4, <1>7, <1>8 DEF IInv, AcceptedWasHeard
<1>12. TypeOK'
  BY <1>1, <1>4, <1>6, <1>8 DEF TypeOK, RowsType
<1>13. QED BY <1>9, <1>10, <1>11, <1>12 DEF IInv

\* The statement that accepts a community follow comes after an answered POST.
LEMMA SetAcceptedInv == ASSUME IInv, known' \subseteq Contact, NEW s \in Slots, SetAccepted(s) PROVE IInv'
<1> DEFINE v == job[s].user
           r == IF follow[v].gen = 0 THEN follow[v]
                ELSE [gen |-> follow[v].gen, accepted |-> TRUE, sent |-> follow[v].sent,
                      received |-> follow[v].received]
<1>1. Active(s) /\ TypeOK /\ job[s].pc = "noted"
  BY DEF SetAccepted, Active, IInv
<1>2. job[s] \in Job /\ v \in Users
  BY <1>1 DEF TypeOK, Active, FreeJob, Job
<1>3. follow \in [Users -> FollowRow] /\ follow[v] \in FollowRow
  BY <1>1, <1>2 DEF TypeOK
<1>4. r \in FollowRow /\ r.gen = follow[v].gen
  BY <1>3 DEF FollowRow
<1>5. /\ follow' = [follow EXCEPT ![v] = r]
      /\ job' = [job EXCEPT ![s] = FreeJob]
      /\ UNCHANGED <<target, gens, undo, response, refusal, crashes, lists, heard, verdict>>
  BY DEF SetAccepted, remote
<1>6. heard[v] # {}
  BY <1>1 DEF IInv, ComesFromPost
<1> HIDE DEF r, v
<1>7. /\ follow' \in [Users -> FollowRow]
      /\ \A u \in Users : follow'[u] = IF u = v THEN r ELSE follow[u]
  BY <1>2, <1>3, <1>4, <1>5
<1>8. RowsStay
  BY <1>4, <1>5, <1>7 DEF RowsStay
<1>9. Moves /\ job' \in [Slots -> Job \cup {FreeJob}]
  BY <1>1, <1>5, AdvanceMoves DEF JobPc
<1>10. ComesFromPost' /\ JobsNumbered'
  BY <1>5, <1>9, MovesInv
<1>11. Numbered' /\ Accounted'
  BY <1>5, <1>8, <1>10, RowsStayInv
<1>12. AcceptedWasHeard'
  BY <1>5, <1>6, <1>7 DEF IInv, AcceptedWasHeard
<1>13. TypeOK'
  BY <1>1, <1>5, <1>7, <1>9 DEF TypeOK
<1>14. QED BY <1>10, <1>11, <1>12, <1>13 DEF IInv

\* The remote server takes the activity: history grows by inserted rows, and
\* an answer can only be to a Follow that was taken.
LEMMA PostInv ==
  ASSUME IInv, known' \subseteq Contact, NEW s \in Slots, NEW answer \in Answers,
         PostAnswered(s, answer) \/ AnswerLost(s, answer)
  PROVE  IInv'
<1> DEFINE v == job[s].user
<1>1. Active(s) /\ TypeOK /\ job[s].pc = "marked"
  BY DEF PostAnswered, AnswerLost, Active, IInv
<1>2. job[s] \in Job /\ v \in Users /\ job[s].gen \in Gens
  BY <1>1 DEF TypeOK, Active, FreeJob, Job
<1>3. /\ RemoteProcesses(s, answer) /\ Hear(s)
      /\ UNCHANGED <<target, follow, gens, undo, refusal, crashes, verdict>>
  BY DEF PostAnswered, AnswerLost
<1>4. \/ job' = [job EXCEPT ![s] = Advance(s, "posted")]
      \/ job' = [job EXCEPT ![s] = Retry(s)]
  BY DEF PostAnswered, AnswerLost
<1>5. /\ heard' \in [Users -> SUBSET Gens]
      /\ \A u \in Users : heard[u] \subseteq heard'[u] /\ heard'[u] \subseteq 1..gens[u]
      /\ job[s].what = "follow" => heard'[v] # {}
  <2>1. CASE job[s].what = "follow"
    <3> DEFINE new == {job[s].gen, follow[v].gen} \ {0}
    <3>1. heard' = [heard EXCEPT ![v] = heard[v] \cup new]
      BY <1>3, <2>1 DEF Hear
    <3>2. job[s].gen \in 1..gens[v]
      BY <1>1 DEF IInv, Numbered, JobsNumbered, Inserted
    <3>3. new \subseteq 1..gens[v]
      BY <1>2, <3>2 DEF IInv, Numbered, Inserted
    <3>4. job[s].gen \in new
      BY <1>2 DEF Gens
    <3>5. gens[v] \in 0..MaxFollows
      BY <1>1, <1>2 DEF TypeOK
    <3>6. new \subseteq Gens
      BY <3>3, <3>5, BoundsAssumption DEF Gens
    <3> HIDE DEF new, v
    <3>7. heard \in [Users -> SUBSET Gens] /\ \A u \in Users : heard[u] \subseteq 1..gens[u]
      BY <1>1 DEF TypeOK, IInv, Numbered, Inserted
    <3>8. QED BY <1>2, <3>1, <3>3, <3>4, <3>6, <3>7
  <2>2. CASE job[s].what # "follow"
    <3>1. heard' = heard
      BY <1>3, <2>2 DEF Hear
    <3>2. QED BY <1>1, <2>2, <3>1 DEF TypeOK, IInv, Numbered, Inserted
  <2>3. QED BY <2>1, <2>2
<1>6. /\ lists' \subseteq Users /\ response' \subseteq Users \X BOOLEAN
      /\ \A u \in Users : <<u, TRUE>> \in response' =>
           <<u, TRUE>> \in response \/ (job[s].what = "follow" /\ u = v)
  <2>1. CASE job[s].what = "undo"
    BY <1>1, <1>2, <1>3, <2>1 DEF RemoteProcesses, TypeOK
  <2>2. CASE job[s].what # "undo"
    <3>1. job[s].what = "follow"
      BY <1>2, <2>2 DEF Job
    <3>2. lists' \in {lists \ {v}, lists \cup {v}}
      BY <1>3, <2>2 DEF RemoteProcesses
    <3>3. response' \in {response, response \cup {<<v, TRUE>>}, response \cup {<<v, FALSE>>}}
      BY <1>3, <2>2 DEF RemoteProcesses
    <3>4. response \subseteq Users \X BOOLEAN /\ lists \subseteq Users
      BY <1>1 DEF TypeOK
    <3> HIDE DEF v
    <3>5. lists' \subseteq Users
      BY <1>2, <3>2, <3>4
    <3>6. <<v, TRUE>> \in Users \X BOOLEAN /\ <<v, FALSE>> \in Users \X BOOLEAN
      BY <1>2
    <3>7. response' \subseteq Users \X BOOLEAN
      BY <3>3, <3>4, <3>6, Zenon
    <3>8. ASSUME NEW u \in Users, u # v
          PROVE  <<u, TRUE>> \notin {<<v, TRUE>>} /\ <<u, TRUE>> \notin {<<v, FALSE>>}
      BY <3>8
    <3>9. \A u \in Users : <<u, TRUE>> \in response' => <<u, TRUE>> \in response \/ u = v
      BY <3>3, <3>8, Zenon
    <3>10. QED BY <3>1, <3>5, <3>7, <3>9
  <2>3. QED BY <2>1, <2>2
<1>7. \A i \in Slots : i # s => job'[i] = job[i]
  <2>1. job \in [Slots -> Job \cup {FreeJob}]
    BY <1>1 DEF TypeOK
  <2>2. QED BY <1>4, <2>1
<1>8. /\ job' \in [Slots -> Job \cup {FreeJob}]
      /\ \/ job'[s] = FreeJob
         \/ /\ job'[s].what = job[s].what /\ job'[s].user = v /\ job'[s].gen = job[s].gen
            /\ job'[s].pc # "noted"
  <2>1. Advance(s, "posted") \in Job
    BY <1>2 DEF Advance, Job, JobPc
  <2>2. Retry(s) = FreeJob \/ Retry(s) \in Job
    BY <1>2, BoundsAssumption DEF Retry, Job, JobPc
  <2>3. job \in [Slots -> Job \cup {FreeJob}]
    BY <1>1 DEF TypeOK
  <2>4. job'[s] = Advance(s, "posted") \/ job'[s] = Retry(s)
    BY <1>4, <2>3
  <2>5. job' \in [Slots -> Job \cup {FreeJob}]
    BY <1>4, <2>1, <2>2, <2>3
  <2>6. QED BY <2>4, <2>5 DEF Advance, Retry
<1> HIDE DEF v
<1>9. JobsNumbered'
  <2> SUFFICES ASSUME NEW i \in Slots, job'[i].pc # "free"
               PROVE  job'[i].gen \in 1..gens[job'[i].user]
    BY <1>3 DEF JobsNumbered, Active, Inserted
  <2>1. CASE i = s
    BY <1>1, <1>8, <2>1 DEF IInv, Numbered, JobsNumbered, Inserted, FreeJob, v
  <2>2. CASE i # s
    BY <1>7, <2>2 DEF IInv, Numbered, JobsNumbered, Inserted, Active
  <2>3. QED BY <2>1, <2>2
<1>10. ComesFromPost'
  <2>1. ASSUME NEW i \in Slots, job'[i].pc \in {"posted", "noted"}, job'[i].what = "follow"
        PROVE  heard'[job'[i].user] # {}
    <3>1. CASE i = s
      BY <1>5, <1>8, <2>1, <3>1 DEF FreeJob
    <3>2. CASE i # s
      <4>1. job'[i] = job[i] /\ heard[job[i].user] # {}
        BY <1>7, <2>1, <3>2 DEF IInv, ComesFromPost
      <4>2. job[i].user \in Users
        BY <1>1, <2>1, <4>1 DEF TypeOK, FreeJob, Job
      <4>3. QED BY <1>5, <4>1, <4>2
    <3>3. QED BY <3>1, <3>2
  <2>2. \A i \in Slots : job'[i].pc = "noted" => job'[i].what = "follow"
    BY <1>7, <1>8 DEF IInv, ComesFromPost, FreeJob
  <2>3. \A u \in Users : <<u, TRUE>> \in response' => heard'[u] # {}
    BY <1>5, <1>6 DEF IInv, ComesFromPost
  <2>4. QED BY <2>1, <2>2, <2>3 DEF ComesFromPost
<1>11. Numbered'
  BY <1>3, <1>5, <1>9 DEF IInv, Numbered, Inserted
<1>12. Accounted'
  BY <1>3 DEF IInv, Accounted, Inserted
<1>13. AcceptedWasHeard'
  BY <1>3, <1>5 DEF IInv, AcceptedWasHeard
<1>14. TypeOK'
  BY <1>1, <1>3, <1>5, <1>6, <1>8 DEF TypeOK
<1>15. QED BY <1>10, <1>11, <1>12, <1>13, <1>14 DEF IInv

\* An Accept is ingested only after a Follow was taken, and it names no row that
\* is not there.
LEMMA IngestInv ==
  ASSUME IInv, known' \subseteq Contact, NEW v \in Users, NEW accepted \in BOOLEAN, IngestResponse(v, accepted)
  PROVE  IInv'
<1> DEFINE r == IF follow[v].gen = 0 \/ target = "gone" THEN follow[v]
                ELSE [gen |-> follow[v].gen, accepted |-> accepted, sent |-> TRUE,
                      received |-> TRUE]
           w == IF ~HasRow(v) \/ target = "gone" THEN verdict[v]
                ELSE IF accepted THEN "accept" ELSE "reject"
<1>1. /\ <<v, accepted>> \in response
      /\ response' = response \ {<<v, accepted>>}
      /\ follow' = [follow EXCEPT ![v] = r]
      /\ verdict' = [verdict EXCEPT ![v] = w]
      /\ UNCHANGED <<target, gens, undo, job, refusal, crashes, lists, heard>>
  BY DEF IngestResponse, remote
<1>2. TypeOK
  BY DEF IInv
<1>3. follow \in [Users -> FollowRow] /\ verdict \in [Users -> {"none", "accept", "reject"}]
  BY <1>2 DEF TypeOK
<1>4. r \in FollowRow /\ r.gen = follow[v].gen /\ (r.accepted => follow[v].accepted \/ accepted)
  BY <1>3 DEF FollowRow
<1>5. w \in {"none", "accept", "reject"}
  BY <1>3
<1> HIDE DEF r, w
<1>6. /\ follow' \in [Users -> FollowRow]
      /\ \A u \in Users : follow'[u] = IF u = v THEN r ELSE follow[u]
  BY <1>1, <1>3, <1>4
<1>7. verdict' \in [Users -> {"none", "accept", "reject"}]
  BY <1>1, <1>3, <1>5
<1>8. RowsStay
  BY <1>1, <1>4, <1>6 DEF RowsStay
<1>9. ComesFromPost'
  <2>1. \A s \in Slots : job'[s].pc \in {"posted", "noted"} /\ job'[s].what = "follow"
                           => heard'[job'[s].user] # {}
    BY <1>1 DEF IInv, ComesFromPost
  <2>2. \A s \in Slots : job'[s].pc = "noted" => job'[s].what = "follow"
    BY <1>1 DEF IInv, ComesFromPost
  <2>3. \A u \in Users : <<u, TRUE>> \in response' => heard'[u] # {}
    BY <1>1 DEF IInv, ComesFromPost
  <2>4. QED BY <2>1, <2>2, <2>3 DEF ComesFromPost
<1>10. JobsNumbered'
  BY <1>1 DEF IInv, Numbered, JobsNumbered, Active, Inserted
<1>11. Numbered' /\ Accounted'
  BY <1>1, <1>8, <1>10, RowsStayInv
<1>12. AcceptedWasHeard'
  <2>1. accepted => heard[v] # {}
    <3>1. CASE accepted = TRUE
      BY <1>1, <3>1 DEF IInv, ComesFromPost
    <3>2. QED BY <3>1
  <2>2. QED BY <1>1, <1>4, <1>6, <2>1 DEF IInv, AcceptedWasHeard
<1>13. response' \subseteq Users \X BOOLEAN
  BY <1>1, <1>2 DEF TypeOK
<1>14. TypeOK'
  BY <1>1, <1>2, <1>6, <1>7, <1>13 DEF TypeOK
<1>15. QED BY <1>9, <1>11, <1>12, <1>14 DEF IInv

\* A new row takes the next number, and its Follow is a job of that number.
LEMMA FollowNewInv ==
  ASSUME IInv, known' \subseteq Contact, NEW v \in Users, FollowNew(v)
  PROVE  IInv'
<1> DEFINE n == gens[v] + 1
           Js == {Spawned("follow", v, n)}
<1>1. /\ follow[v].gen = 0 /\ gens[v] < MaxFollows
      /\ gens' = [gens EXCEPT ![v] = n]
      /\ follow' = [follow EXCEPT ![v] = NewFollow(n)]
      /\ verdict' = [verdict EXCEPT ![v] = "none"]
      /\ SpawnAll(Js)
      /\ UNCHANGED <<target, undo, response, refusal, crashes, lists, heard>>
  BY DEF FollowNew, HasRow, remote
<1>2. TypeOK /\ Numbered /\ ComesFromPost /\ Accounted /\ AcceptedWasHeard
  BY DEF IInv
<1>3. gens \in [Users -> 0..MaxFollows]
  BY <1>2 DEF TypeOK
<1>4. n \in 1..MaxFollows
  BY <1>1, <1>3, BoundsAssumption
<1>5. /\ gens' \in [Users -> 0..MaxFollows]
      /\ \A u \in Users : gens'[u] = IF u = v THEN n ELSE gens[u]
  BY <1>1, <1>3, <1>4
<1>6. \A u \in Users : gens[u] \in Nat /\ gens[u] <= gens'[u]
  BY <1>3, <1>5, BoundsAssumption
<1>7. \A j \in Js : j \in Job /\ j.pc = "spawned" /\ j.gen \in 1..gens'[j.user]
  BY <1>4, <1>5, BoundsAssumption DEF Spawned, Job, JobPc, Gens
<1>8. NewFollow(n) \in FollowRow /\ NewFollow(n).gen = n /\ ~NewFollow(n).accepted
  BY <1>4, BoundsAssumption DEF NewFollow, FollowRow
<1>9. /\ job' \in [Slots -> Job \cup {FreeJob}]
      /\ ComesFromPost' /\ JobsNumbered'
  <2> HIDE DEF Js
  <2>1. UNCHANGED <<heard, response>>
    BY <1>1
  <2>2. \A u \in Users : gens[u] <= gens'[u]
    BY <1>6
  <2>3. QED BY <1>1, <1>2, <1>5, <1>7, <2>1, <2>2, SpawnedInv
<1>10. /\ follow' \in [Users -> FollowRow]
       /\ \A u \in Users : follow'[u] = IF u = v THEN NewFollow(n) ELSE follow[u]
  BY <1>1, <1>2, <1>8 DEF TypeOK
<1>11. verdict' \in [Users -> {"none", "accept", "reject"}]
  BY <1>1, <1>2 DEF TypeOK
<1>12. TypeOK'
  BY <1>1, <1>2, <1>5, <1>9, <1>10, <1>11 DEF TypeOK
<1>13. AcceptedWasHeard'
  BY <1>1, <1>2, <1>8, <1>10 DEF AcceptedWasHeard
<1> HIDE DEF n, Js
<1>14. Numbered'
  <2>1. \A u \in Users : follow'[u].gen # 0 => follow'[u].gen \in 1..gens'[u]
    BY <1>2, <1>4, <1>5, <1>6, <1>8, <1>10 DEF Numbered, Inserted
  <2>2. \A u \in Users : heard'[u] \subseteq 1..gens'[u]
    BY <1>1, <1>2, <1>3, <1>5, <1>6, BoundsAssumption DEF Numbered, Inserted
  <2>3. QED BY <1>9, <2>1, <2>2 DEF Numbered, Inserted
<1>15. Accounted'
  <2> SUFFICES ASSUME target # "gone", NEW u \in Users, NEW g \in 1..gens'[u]
               PROVE  follow'[u].gen = g \/ undo[u][g].state = "live"
    BY <1>1 DEF Accounted, Inserted
  <2>1. CASE u # v
    BY <1>2, <1>5, <1>10, <2>1 DEF Accounted, Inserted
  <2>2. CASE u = v /\ g = n
    BY <1>8, <1>10, <2>2
  <2>3. CASE u = v /\ g # n
    <3>1. g \in 1..gens[v]
      BY <1>3, <1>5, <2>3, BoundsAssumption DEF n
    <3>2. follow[v].gen # g
      BY <1>1, <3>1
    <3>3. QED BY <1>2, <2>3, <3>1, <3>2 DEF Accounted, Inserted
  <2>4. QED BY <2>1, <2>2, <2>3
<1>16. QED BY <1>9, <1>12, <1>13, <1>14, <1>15 DEF IInv

\* Jobs spawned for rows that are there already change nothing but the jobs.
LEMMA SpawnOnly ==
  ASSUME IInv, known' \subseteq Contact, NEW Js, SpawnAll(Js),
         \A j \in Js : j \in Job /\ j.pc = "spawned" /\ j.gen \in 1..gens[j.user],
         verdict' \in [Users -> {"none", "accept", "reject"}],
         UNCHANGED <<target, follow, gens, undo, response, refusal, crashes, lists, heard>>
  PROVE  IInv'
<1>1. TypeOK /\ Numbered /\ ComesFromPost /\ Accounted /\ AcceptedWasHeard
  BY DEF IInv
<1>2. gens' \in [Users -> 0..MaxFollows] /\ \A u \in Users : gens[u] <= gens'[u]
  BY <1>1, BoundsAssumption DEF TypeOK
<1>3. /\ job' \in [Slots -> Job \cup {FreeJob}]
      /\ ComesFromPost' /\ JobsNumbered'
  <2>1. UNCHANGED <<heard, response>>
    OBVIOUS
  <2>2. \A j \in Js : j \in Job /\ j.pc = "spawned" /\ j.gen \in 1..gens'[j.user]
    OBVIOUS
  <2>3. QED BY <1>1, <1>2, <2>1, <2>2, SpawnedInv
<1>4. RowsStay
  BY DEF RowsStay
<1>5. Numbered' /\ Accounted'
  BY <1>3, <1>4, RowsStayInv
<1>6. AcceptedWasHeard'
  BY <1>1 DEF AcceptedWasHeard
<1>7. TypeOK'
  BY <1>1, <1>3 DEF TypeOK
<1>8. QED BY <1>3, <1>5, <1>6, <1>7 DEF IInv

\* A row that is there has a number that was given out.
LEMMA RowNumber ==
  ASSUME IInv, NEW v \in Users, HasRow(v)
  PROVE  follow[v].gen \in Gens /\ follow[v].gen \in 1..gens[v]
<1>1. follow[v] \in FollowRow /\ follow[v].gen # 0
  BY DEF IInv, TypeOK, HasRow
<1>2. QED BY <1>1, BoundsAssumption DEF IInv, Numbered, Inserted, FollowRow, Gens

\* A request that sends the Follow of its row again.
LEMMA FollowAgainInv == ASSUME IInv, known' \subseteq Contact, NEW v \in Users, FollowAgain(v) PROVE IInv'
<1> DEFINE Js == {Spawned("follow", v, follow[v].gen)}
<1>1. HasRow(v) /\ SpawnAll(Js) /\ verdict' = [verdict EXCEPT ![v] = "none"]
  BY DEF FollowAgain
<1>2. UNCHANGED <<target, follow, gens, undo, response, refusal, crashes, lists, heard>>
  BY DEF FollowAgain, remote
<1>3. follow[v].gen \in Gens /\ follow[v].gen \in 1..gens[v]
  BY <1>1, RowNumber
<1>4. \A j \in Js : j \in Job /\ j.pc = "spawned" /\ j.gen \in 1..gens[j.user]
  BY <1>3, BoundsAssumption DEF Spawned, Job, JobPc
<1>5. verdict' \in [Users -> {"none", "accept", "reject"}]
  BY <1>1 DEF IInv, TypeOK
<1> HIDE DEF Js
<1>6. QED BY <1>1, <1>2, <1>4, <1>5, SpawnOnly

\* The janitor finds rows and undo rows; both have numbers given out, for a
\* live undo row because only inserted rows get one.
LEMMA JanitorInv == ASSUME IInv, known' \subseteq Contact, UndoNumbered, Janitor PROVE IInv'
<1> DEFINE Js == UnsentFollows(Repaired) \cup UnsentUndos(Repaired)
<1>1. SpawnAll(Js)
  BY DEF Janitor
<1>2. UNCHANGED <<target, follow, gens, undo, response, refusal, crashes, lists, heard, verdict>>
  BY DEF Janitor, remote
<1>3. \A j \in UnsentFollows(Repaired) : j \in Job /\ j.pc = "spawned" /\ j.gen \in 1..gens[j.user]
  <2>1. ASSUME NEW v \in Users, HasRow(v)
        PROVE  LET j == Spawned("follow", v, follow[v].gen)
               IN  j \in Job /\ j.pc = "spawned" /\ j.gen \in 1..gens[j.user]
    <3>1. follow[v].gen \in Gens /\ follow[v].gen \in 1..gens[v]
      BY <2>1, RowNumber
    <3>2. QED BY <3>1, BoundsAssumption DEF Spawned, Job, JobPc
  <2>2. QED BY <2>1 DEF UnsentFollows
<1>4. \A j \in UnsentUndos(Repaired) : j \in Job /\ j.pc = "spawned" /\ j.gen \in 1..gens[j.user]
  <2>1. ASSUME NEW v \in Users, NEW g \in Gens, undo[v][g].state = "live"
        PROVE  LET j == Spawned("undo", v, g)
               IN  j \in Job /\ j.pc = "spawned" /\ j.gen \in 1..gens[j.user]
    BY <2>1, BoundsAssumption DEF UndoNumbered, Inserted, Spawned, Job, JobPc
  <2>2. ASSUME NEW j \in UnsentUndos(Repaired)
        PROVE  \E v \in Users, g \in Gens : j = Spawned("undo", v, g) /\ undo[v][g].state = "live"
    BY <2>2 DEF UnsentUndos
  <2>3. QED BY <2>1, <2>2
<1>5. verdict' \in [Users -> {"none", "accept", "reject"}]
  BY <1>2 DEF IInv, TypeOK
<1> HIDE DEF Js
<1>6. \A j \in Js : j \in Job /\ j.pc = "spawned" /\ j.gen \in 1..gens[j.user]
  BY <1>3, <1>4 DEF Js
<1>7. QED BY <1>1, <1>2, <1>5, <1>6, SpawnOnly

\* Requests, and the refusal of posts, that remove rows.
LEMMA RemovalInv ==
  ASSUME IInv, known' \subseteq Contact, RefuseUnfollow \/ \E u \in Users : Unfollow(u) \/ UnfollowInactive(u)
  PROVE  IInv'
<1>1. UNCHANGED <<target, gens, response, crashes, lists, heard>>
  BY DEF RefuseUnfollow, Unfollow, UnfollowInactive, remote
<1>2. refusal' \in {"idle", "untracked", "unfollowed"}
  BY DEF RefuseUnfollow, Unfollow, UnfollowInactive, IInv, TypeOK
<1>3. PICK U \in SUBSET {u \in Users : HasRow(u)} : Remove(U)
  BY DEF RefuseUnfollow, Unfollow, UnfollowInactive
<1>4. QED BY <1>1, <1>2, <1>3, RemoveKeeps

\* Once the target is gone nothing needs to be accounted for any more.
LEMMA RefusalInv ==
  ASSUME IInv, known' \subseteq Contact, RefusePost \/ RefuseDelete \/ CleanupCommunity
  PROVE  IInv'
<1>1. UNCHANGED <<gens, job, response, crashes, lists, heard>>
  BY DEF RefusePost, RefuseDelete, CleanupCommunity, remote
<1>2. TypeOK /\ Numbered /\ ComesFromPost /\ Accounted /\ AcceptedWasHeard
  BY DEF IInv
<1>3. /\ \/ follow' = follow /\ verdict' = verdict
         \/ follow' = [u \in Users |-> NoFollow] /\ verdict' = [u \in Users |-> "none"]
      /\ refusal' \in {"idle", "untracked", "unfollowed"}
  BY <1>2 DEF RefusePost, RefuseDelete, CleanupCommunity, remote, TypeOK
<1>4. (target' = target /\ undo' = undo /\ follow' = follow) \/ DropTarget
  BY DEF RefusePost, RefuseDelete, CleanupCommunity
<1>5. follow' \in [Users -> FollowRow] /\ \A u \in Users : follow'[u] \in {follow[u], NoFollow}
  <2>1. NoFollow \in FollowRow
    BY BoundsAssumption DEF NoFollow, FollowRow
  <2>2. QED BY <1>2, <1>3, <2>1 DEF TypeOK
<1>6. undo' \in [Users -> [Gens -> UndoRow]] /\ target' \in {"present", "deleted", "gone"}
  <2>1. CASE DropTarget
    <3>1. \A u \in Users, g \in Gens : undo[u][g] \in UndoRow
      BY <1>2 DEF TypeOK
    <3>2. ASSUME NEW u \in Users, NEW g \in Gens
          PROVE  [state |-> "gone", sent |-> undo[u][g].sent, received |-> undo[u][g].received]
                    \in UndoRow
      <4>1. undo[u][g] \in UndoRow
        BY <3>1
      <4>2. QED BY <4>1 DEF UndoRow
    <3>3. QED BY <2>1, <3>1, <3>2 DEF DropTarget
  <2>2. QED BY <1>2, <1>4, <2>1 DEF TypeOK
<1>7. verdict' \in [Users -> {"none", "accept", "reject"}]
  BY <1>2, <1>3 DEF TypeOK
<1>8. TypeOK'
  BY <1>1, <1>2, <1>3, <1>5, <1>6, <1>7 DEF TypeOK
<1>9. AcceptedWasHeard'
  BY <1>1, <1>2, <1>5 DEF AcceptedWasHeard, NoFollow
<1>10. ComesFromPost'
  <2>1. \A s \in Slots : job'[s].pc \in {"posted", "noted"} /\ job'[s].what = "follow"
                           => heard'[job'[s].user] # {}
    BY <1>1, <1>2 DEF ComesFromPost
  <2>2. \A s \in Slots : job'[s].pc = "noted" => job'[s].what = "follow"
    BY <1>1, <1>2 DEF ComesFromPost
  <2>3. \A u \in Users : <<u, TRUE>> \in response' => heard'[u] # {}
    BY <1>1, <1>2 DEF ComesFromPost
  <2>4. QED BY <2>1, <2>2, <2>3 DEF ComesFromPost
<1>11. Numbered'
  <2>1. JobsNumbered'
    BY <1>1, <1>2 DEF Numbered, JobsNumbered, Active, Inserted
  <2>2. \A u \in Users : follow'[u].gen # 0 => follow'[u].gen \in 1..gens'[u]
    BY <1>1, <1>2, <1>5 DEF Numbered, Inserted, NoFollow
  <2>3. \A u \in Users : heard'[u] \subseteq 1..gens'[u]
    BY <1>1, <1>2 DEF Numbered, Inserted
  <2>4. QED BY <2>1, <2>2, <2>3 DEF Numbered, Inserted
<1>12. Accounted'
  <2>1. CASE DropTarget
    BY <2>1 DEF DropTarget, Accounted
  <2>2. CASE target' = target /\ undo' = undo /\ follow' = follow
    BY <1>1, <1>2, <2>2 DEF Accounted, Inserted
  <2>3. QED BY <1>4, <2>1, <2>2
<1>13. QED BY <1>8, <1>9, <1>10, <1>11, <1>12 DEF IInv

-----------------------------------------------------------------------------
\* What is learnt of the target, and its tombstone, leave the rows alone.
LEMMA TargetInv ==
  ASSUME IInv, known' \subseteq Contact, LearnTarget \/ RemoteDeletes
  PROVE  IInv'
<1>1. /\ UNCHANGED <<follow, gens, undo, job, response, refusal, crashes, lists, heard, verdict>>
      /\ target' = target \/ (target' = "deleted" /\ target = "present")
  BY DEF LearnTarget, RemoteDeletes, remote
<1>2. TypeOK /\ Numbered /\ ComesFromPost /\ Accounted /\ AcceptedWasHeard
  BY DEF IInv
<1>3. TypeOK'
  BY <1>1, <1>2 DEF TypeOK
<1>4. AcceptedWasHeard' /\ ComesFromPost'
  BY <1>1, <1>2 DEF AcceptedWasHeard, ComesFromPost
<1>5. Numbered'
  BY <1>1, <1>2 DEF Numbered, JobsNumbered, Active, Inserted
<1>6. Accounted'
  BY <1>1, <1>2 DEF Accounted, Inserted
<1>7. QED BY <1>3, <1>4, <1>5, <1>6 DEF IInv

\* What is known of the target is its inbox and its actor, nothing else.
LEMMA ContactOnly == ASSUME TypeOK, [Next]_vars PROVE known' \subseteq Contact
<1>1. known \subseteq Contact
  BY DEF TypeOK
<1>2. CASE UNCHANGED known
  BY <1>1, <1>2
<1>3. CASE LearnTarget
  BY <1>3 DEF LearnTarget
<1>4. CASE Janitor
  BY <1>1, <1>4 DEF Janitor, Repaired
<1>5. CASE \E s \in Slots : FetchAndStamp(s)
  BY <1>5 DEF FetchAndStamp
<1>6. UNCHANGED known \/ LearnTarget \/ Janitor \/ \E s \in Slots : FetchAndStamp(s)
  BY DEF Next, vars, Request, JobStep, Deliver, Stamp, EnqueueFollow, EnqueueUndo,
         MarkSent, PostAnswered, AnswerLost, PostFails, MarkReceived, SetAccepted, FollowNew,
         FollowAgain, Unfollow, UnfollowInactive, IngestResponse, RefusePost,
         RefuseUnfollow, RefuseDelete, CleanupCommunity, RemoteDeletes, Crash
<1>7. QED BY <1>2, <1>3, <1>4, <1>5, <1>6

\* Every step keeps the invariant.
LEMMA Inductive == IInv /\ UndoNumbered /\ [Next]_vars => IInv'
<1> SUFFICES ASSUME IInv, UndoNumbered, [Next]_vars PROVE IInv'
  OBVIOUS
<1> known' \subseteq Contact
  BY ContactOnly DEF IInv
<1>1. CASE \E u \in Users : Request(u)
  BY <1>1, FollowNewInv, FollowAgainInv, RemovalInv DEF Request
<1>2. CASE \E s \in Slots : JobStep(s) \/ PostFails(s)
  BY <1>2, JobStepInv
<1>3. CASE \E s \in Slots : MarkSent(s) \/ MarkReceived(s)
  BY <1>3, MarkInv
<1>4. CASE \E s \in Slots, answer \in Answers : PostAnswered(s, answer) \/ AnswerLost(s, answer)
  BY <1>4, PostInv
<1>5. CASE \E s \in Slots : SetAccepted(s)
  BY <1>5, SetAcceptedInv
<1>6. CASE \E u \in Users, accepted \in BOOLEAN : IngestResponse(u, accepted)
  BY <1>6, IngestInv
<1>7. CASE RefusePost \/ RefuseDelete \/ CleanupCommunity
  BY <1>7, RefusalInv
<1>8. CASE RefuseUnfollow
  BY <1>8, RemovalInv
<1>9. CASE Janitor
  BY <1>9, JanitorInv
<1>10. CASE Crash
  BY <1>10, CrashInv
<1>13. CASE LearnTarget \/ RemoteDeletes
  BY <1>13, TargetInv
<1>11. CASE UNCHANGED vars
  <2>1. UNCHANGED <<target, follow, gens, undo, job, response, refusal, crashes, lists, heard,
                    verdict>>
    BY <1>11 DEF vars
  <2>2. Moves /\ job' \in [Slots -> Job \cup {FreeJob}] /\ crashes' \in 0..MaxCrashes
        /\ refusal' \in {"idle", "untracked", "unfollowed"}
    BY <2>1 DEF Moves, IInv, TypeOK
  <2>3. QED BY <2>1, <2>2, JobsOnly
<1>12. QED
  BY <1>1, <1>2, <1>3, <1>4, <1>5, <1>6, <1>7, <1>8, <1>9, <1>10, <1>11, <1>13 DEF Next, Deliver

-----------------------------------------------------------------------------
(***************************************************************************)
(* Undo rows are those of inserted rows.                                   *)
(***************************************************************************)

\* Undo rows come to life in Remove only, for rows that are there, and numbers
\* are never taken back.
LEMMA UndoNumberedStep ==
  ASSUME IInv, UndoNumbered, [Next]_vars
  PROVE  UndoNumbered'
<1>1. gens \in [Users -> 0..MaxFollows] /\ undo \in [Users -> [Gens -> UndoRow]]
  BY DEF IInv, TypeOK
<1>2. \A u \in Users : gens[u] <= gens'[u]
  <2>1. CASE gens' = gens
    BY <1>1, <2>1, BoundsAssumption
  <2>2. CASE \E u \in Users : FollowNew(u)
    BY <1>1, <2>2, BoundsAssumption DEF FollowNew
  <2>3. gens' = gens \/ \E u \in Users : FollowNew(u)
    BY DEF Next, vars, Request, JobStep, Deliver, Stamp, FetchAndStamp, EnqueueFollow, EnqueueUndo,
           MarkSent, PostAnswered, AnswerLost, PostFails, MarkReceived, SetAccepted,
           FollowAgain, Unfollow, UnfollowInactive, IngestResponse, RefusePost,
           RefuseUnfollow, RefuseDelete, CleanupCommunity, Janitor, LearnTarget,
           RemoteDeletes, Crash
  <2>4. QED BY <2>1, <2>2, <2>3
<1>3. \A u \in Users, g \in Gens :
        undo'[u][g].state = "live" => undo[u][g].state = "live" \/ (HasRow(u) /\ g = follow[u].gen)
  <2>1. CASE undo' = undo
    BY <2>1
  <2>2. CASE \E s \in Slots : MarkSent(s) \/ MarkReceived(s)
    <3>1. PICK s \in Slots, r \in BOOLEAN, a \in BOOLEAN : Mark(s, r, a) /\ Active(s)
      BY <2>2 DEF MarkSent, MarkReceived, Queued, Active
    <3>2. RowsStay
      BY <3>1, MarkKeeps DEF IInv
    <3>3. QED BY <3>2 DEF RowsStay
  <2>3. CASE \E U \in SUBSET {u \in Users : HasRow(u)} : Remove(U)
    BY <2>3 DEF Remove
  <2>4. CASE DropTarget
    BY <2>4 DEF DropTarget
  <2>5. \/ undo' = undo
        \/ \E s \in Slots : MarkSent(s) \/ MarkReceived(s)
        \/ \E U \in SUBSET {u \in Users : HasRow(u)} : Remove(U)
        \/ DropTarget
    BY DEF Next, vars, Request, JobStep, Deliver, Stamp, FetchAndStamp, EnqueueFollow, EnqueueUndo,
           PostAnswered, AnswerLost, PostFails, SetAccepted, FollowNew,
           FollowAgain, Unfollow, UnfollowInactive, IngestResponse, RefusePost,
           RefuseUnfollow, RefuseDelete, CleanupCommunity, Janitor, LearnTarget,
           RemoteDeletes, Crash
  <2>6. QED BY <2>1, <2>2, <2>3, <2>4, <2>5
<1>4. SUFFICES ASSUME NEW u \in Users, NEW g \in Gens, undo'[u][g].state = "live"
               PROVE  g \in 1..gens'[u]
  BY DEF UndoNumbered, Inserted
<1>5. gens'[u] \in Int /\ gens[u] \in Int /\ gens[u] <= gens'[u]
  <2>1. gens' \in [Users -> 0..MaxFollows]
    BY <1>1, Inductive DEF IInv, TypeOK
  <2>2. QED BY <1>1, <1>2, <2>1
<1>6. g \in 1..gens[u]
  <2>1. CASE undo[u][g].state = "live"
    BY <2>1 DEF UndoNumbered, Inserted
  <2>2. CASE HasRow(u) /\ g = follow[u].gen
    BY <2>2, RowNumber
  <2>3. QED BY <1>3, <1>4, <2>1, <2>2
<1>7. QED BY <1>5, <1>6

\* Both start and persist together.
THEOREM Invariance == Spec => [](IInv /\ UndoNumbered)
<1>1. Init => IInv /\ UndoNumbered
  BY InitInv DEF Init, UndoNumbered, NoUndo
<1>2. IInv /\ UndoNumbered /\ [Next]_vars => (IInv /\ UndoNumbered)'
  BY Inductive, UndoNumberedStep
<1>3. QED BY <1>1, <1>2, PTL DEF Spec

\* Every variable keeps its type.
THEOREM TypeCorrect == Spec => []TypeOK
<1>1. IInv => TypeOK
  BY DEF IInv
<1>2. QED BY <1>1, Invariance, PTL

\* A follow is shown as accepted only if the remote inbox took a Follow of the
\* account at some time.
THEOREM AcceptedOnlyIfHeard == Spec => []AcceptedWasHeard
<1>1. IInv => AcceptedWasHeard
  BY DEF IInv
<1>2. QED BY <1>1, Invariance, PTL

\* While the target has a row here, a row whose Follow reached the remote server is
\* there or has left an undo row.
THEOREM HeardRowsLeaveUndo == Spec => []RemovalLeavesUndo
<1>1. IInv => RemovalLeavesUndo
  BY DEF IInv, Numbered, Accounted, RemovalLeavesUndo
<1>2. QED BY <1>1, Invariance, PTL
=============================================================================
