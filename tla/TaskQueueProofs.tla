--------------------------- MODULE TaskQueueProofs ---------------------------
(***************************************************************************)
(* Proofs about TaskQueue for every set of rows, assignment of kinds and   *)
(* max_attempts, set of lanes and number of restarts.                      *)
(***************************************************************************)
EXTENDS TaskQueue, TLAPS

\* A row may still be tried exactly while its attempts are below the maximum.
AttemptsOK(t) ==
  /\ row[t].state \in {"pending", "running"} => row[t].attempts < MaxAttempts[t]
  /\ row[t].state = "failed" => row[t].attempts >= MaxAttempts[t]

\* Every take is paid for by an attempt, at the latest when the row leaves
\* `running`.
TakesOK(t) ==
  /\ takes[t] <= MaxAttempts[t]
  /\ takes[t] <= row[t].attempts + (IF row[t].state = "running" THEN 1 ELSE 0)
  /\ row[t].state = "none" => takes[t] = 0

\* A trimmed row has used its attempts up, or was completed and is in no lane.
TrimOK(t) ==
  row[t].trimmed =>
    /\ row[t].state \notin {"none", "gone"}
    /\ \/ row[t].attempts >= MaxAttempts[t]
       \/ row[t].state = "completed" /\ ~Held(t)

\* What a lane performs exists, and unless it was reset under the lane it is
\* neither queued, nor failed, nor performed by another lane.
HoldOK(t) ==
  /\ Held(t) => row[t].state \notin {"none", "gone"}
  /\ t \notin doubled =>
       /\ Held(t) => row[t].state \notin {"pending", "failed"}
       /\ \A l, m \in Lanes : Holds(l, t) /\ Holds(m, t) => l = m

LaneOK == \A l \in Lanes : lane[l].pc = "perform" => lane[l].task \in Tasks

RowOK(t) == AttemptsOK(t) /\ TakesOK(t) /\ TrimOK(t) /\ HoldOK(t)
RowsOK   == \A t \in Tasks : RowOK(t)

IInv == TypeOK /\ LaneOK /\ RowsOK

-----------------------------------------------------------------------------
\* The rows the statements write are rows.
LEMMA NewRowType == \A s \in State : NewRow(s) \in Row
  BY DEF NewRow, Row, State, Rest, Err

LEMMA ResetRowType ==
  ASSUME NEW r \in Row, NEW max \in Nat PROVE ResetRow(r, max) \in Row
  BY DEF ResetRow, Row, State, Rest, Err

LEMMA FailRowType ==
  ASSUME NEW r \in Row, NEW max \in Nat, NEW inbound \in BOOLEAN,
         NEW terminal \in BOOLEAN, NEW compact \in BOOLEAN, NEW err \in Err
  PROVE  FailRow(r, max, inbound, terminal, compact, err) \in Row
<1> DEFINE f == FailRow(r, max, inbound, terminal, compact, err)
<1>1. f.state \in State /\ f.attempts \in Nat /\ f.trimmed \in BOOLEAN
  BY DEF FailRow, Row, State
<1> QED
  BY <1>1 DEF FailRow, Row, Rest, Err

LEMMA SweepRowType == ASSUME NEW r \in Row PROVE SweepRow(r) \in Row
  BY DEF SweepRow, CompleteRow, Row, State, Err

LEMMA IdleType == \A pc \in Pc : Idle(pc) \in [pc : Pc, task : Tasks \cup {NoTask}]
  BY DEF Idle

LEMMA InitIInv == Init => IInv
<1> SUFFICES ASSUME Init PROVE IInv
  OBVIOUS
<1> USE TasksAreIds, AttemptsAssumption, BoundsAssumption DEF Init
<1>1. TypeOK
  <2>1. row \in [Tasks -> Row]
    BY NewRowType DEF State
  <2>2. lane \in [Lanes -> [pc : Pc, task : Tasks \cup {NoTask}]]
    BY IdleType DEF Pc
  <2>3. takes \in [Tasks -> Nat]
    OBVIOUS
  <2>4. restarts \in 0..MaxRestarts
    OBVIOUS
  <2> QED
    BY <2>1, <2>2, <2>3, <2>4 DEF TypeOK
<1>2. LaneOK
  BY DEF LaneOK, Idle
<1>3. \A t \in Tasks : ~Held(t)
  BY DEF Held, Holds, Idle
<1>4. RowsOK
  <2> SUFFICES ASSUME NEW t \in Tasks
               PROVE  RowOK(t)
    BY DEF RowsOK
  <2>1. row[t].state = "none" /\ row[t].attempts = 0 /\ row[t].trimmed = FALSE /\ takes[t] = 0
    BY DEF NewRow
  <2> QED
    BY <1>3, <2>1 DEF RowOK, AttemptsOK, TakesOK, TrimOK, HoldOK, Held
<1> QED
  BY <1>1, <1>2, <1>4 DEF IInv

-----------------------------------------------------------------------------
(***************************************************************************)
(* Type correctness of every step.                                         *)
(***************************************************************************)
LEMMA NextType == TypeOK /\ LaneOK /\ [Next]_vars => TypeOK' /\ LaneOK'
<1> SUFFICES ASSUME TypeOK, LaneOK, [Next]_vars PROVE TypeOK' /\ LaneOK'
  OBVIOUS
<1> USE AttemptsAssumption, BoundsAssumption
<1> USE DEF TypeOK, LaneOK
<1>1. CASE StartWorker
  <2>1. lane' \in [Lanes -> [pc : Pc, task : Tasks \cup {NoTask}]]
    BY <1>1, IdleType DEF StartWorker, Pc
  <2>2. \A l \in Lanes : lane'[l].pc # "perform"
    BY <1>1 DEF StartWorker, Idle
  <2> QED
    BY <1>1, <2>1, <2>2 DEF StartWorker
<1>2. CASE Crash
  <2>1. lane' \in [Lanes -> [pc : Pc, task : Tasks \cup {NoTask}]]
    BY <1>2, IdleType DEF Crash, Pc
  <2>2. \A l \in Lanes : lane'[l].pc # "perform"
    BY <1>2 DEF Crash, Idle
  <2>3. restarts' \in 0..MaxRestarts
    BY <1>2 DEF Crash
  <2> QED
    BY <1>2, <2>1, <2>2, <2>3 DEF Crash
<1>3. CASE ResetInterrupted
  <2>1. lane' \in [Lanes -> [pc : Pc, task : Tasks \cup {NoTask}]]
    BY <1>3, IdleType DEF ResetInterrupted, Pc
  <2>2. \A l \in Lanes : lane'[l].pc = "perform" => lane'[l] = lane[l]
    BY <1>3 DEF ResetInterrupted, Idle
  <2>3. row' \in [Tasks -> Row]
    BY <1>3, ResetRowType DEF ResetInterrupted
  <2> QED
    BY <1>3, <2>1, <2>2, <2>3 DEF ResetInterrupted
<1>4. CASE Listen
  BY <1>4 DEF Listen
<1>5. CASE WakeByTrigger
  <2>1. lane' \in [Lanes -> [pc : Pc, task : Tasks \cup {NoTask}]]
    BY <1>5, IdleType DEF WakeByTrigger, Pc
  <2>2. \A l \in Lanes : lane'[l].pc = "perform" => lane'[l] = lane[l]
    BY <1>5 DEF WakeByTrigger, Idle
  <2> QED
    BY <1>5, <2>1, <2>2 DEF WakeByTrigger
<1>6. CASE SweepApply
  <2>1. row' \in [Tasks -> Row]
    BY <1>6, SweepRowType DEF SweepApply
  <2> QED
    BY <1>6, <2>1 DEF SweepApply
<1>7. ASSUME NEW l \in Lanes, NEW t \in Tasks, Take(l, t) PROVE TypeOK' /\ LaneOK'
  <2>1. TakeRow(row[t]) \in Row
    BY DEF TakeRow, Row, State, Rest, Err
  <2>2. [pc |-> "perform", task |-> t] \in [pc : Pc, task : Tasks \cup {NoTask}]
    BY DEF Pc
  <2>3. row' \in [Tasks -> Row] /\ takes' \in [Tasks -> Nat]
    BY <1>7, <2>1 DEF Take
  <2>4. lane' \in [Lanes -> [pc : Pc, task : Tasks \cup {NoTask}]]
    BY <1>7, <2>2 DEF Take
  <2>5. \A m \in Lanes : lane'[m] = lane[m] \/ lane'[m].task = t
    BY <1>7 DEF Take
  <2> QED
    BY <1>7, <2>3, <2>4, <2>5 DEF Take
<1>8. ASSUME NEW l \in Lanes, TakeNothing(l) \/ WakeByTimer(l) PROVE TypeOK' /\ LaneOK'
  <2>1. lane' \in [Lanes -> [pc : Pc, task : Tasks \cup {NoTask}]]
    BY <1>8, IdleType DEF TakeNothing, WakeByTimer, Pc
  <2>2. \A m \in Lanes : lane'[m].pc = "perform" => lane'[m] = lane[m]
    BY <1>8 DEF TakeNothing, WakeByTimer, Idle
  <2> QED
    BY <1>8, <2>1, <2>2 DEF TakeNothing, WakeByTimer
<1>9. ASSUME NEW l \in Lanes,
             lane[l].pc = "perform", lane' = [lane EXCEPT ![l] = Idle("take")],
             NEW r \in Row, row' = [row EXCEPT ![lane[l].task] = r],
             UNCHANGED <<trigger, listening, announce, sweep, restarts, doubled, takes>>
      PROVE  TypeOK' /\ LaneOK'
  <2>1. lane' \in [Lanes -> [pc : Pc, task : Tasks \cup {NoTask}]]
    BY <1>9, IdleType DEF Pc
  <2>2. \A m \in Lanes : lane'[m].pc = "perform" => lane'[m] = lane[m]
    BY <1>9 DEF Idle
  <2>3. row' \in [Tasks -> Row]
    BY <1>9
  <2> QED
    BY <1>9, <2>1, <2>2, <2>3
<1>10. ASSUME NEW l \in Lanes, Complete(l) PROVE TypeOK' /\ LaneOK'
  <2>1. row[lane[l].task] \in Row
    BY <1>10 DEF Complete
  <2>2. CompleteRow(row[lane[l].task], row[lane[l].task].err) \in Row
    BY <2>1 DEF CompleteRow, Row, State
  <2> QED
    BY <1>9, <1>10, <2>2 DEF Complete
<1>11. ASSUME NEW l \in Lanes, NEW terminal \in BOOLEAN, NEW compact \in BOOLEAN,
              NEW err \in {"plain", "stale"}, Fail(l, terminal, compact, err)
       PROVE  TypeOK' /\ LaneOK'
  <2> DEFINE t == lane[l].task
  <2>1. row[t] \in Row /\ MaxAttempts[t] \in Nat
    BY <1>11 DEF Fail
  <2>2. \A inbound \in BOOLEAN :
          FailRow(row[t], MaxAttempts[t], inbound, terminal, compact, err) \in Row
    BY <2>1, FailRowType DEF Err
  <2>3. FailRow(row[t], MaxAttempts[t], ClassOf[t] \in InboxClasses, terminal, compact, err)
          \in Row
    <3>1. CASE ClassOf[t] \in InboxClasses
      <4>1. (ClassOf[t] \in InboxClasses) = TRUE
        BY <3>1
      <4> QED
        BY <2>2, <4>1
    <3>2. CASE ClassOf[t] \notin InboxClasses
      <4>1. (ClassOf[t] \in InboxClasses) = FALSE
        BY <3>2
      <4> QED
        BY <2>2, <4>1
    <3> QED
      BY <3>1, <3>2
  <2> QED
    BY <1>9, <1>11, <2>3 DEF Fail
<1>12. ASSUME NEW t \in Tasks, Enqueue(t) PROVE TypeOK' /\ LaneOK'
  <2>1. row' \in [Tasks -> Row]
    BY <1>12, NewRowType DEF Enqueue, State
  <2> QED
    BY <1>12, <2>1 DEF Enqueue
<1>13. ASSUME NEW t \in Tasks, Notify(t) PROVE TypeOK' /\ LaneOK'
  BY <1>13 DEF Notify
<1>14. ASSUME NEW l \in Lanes, NEW T \in SUBSET Fanout, FanoutDeliveries(l, T)
       PROVE  TypeOK' /\ LaneOK'
  <2>1. row' \in [Tasks -> Row]
    BY <1>14, NewRowType DEF FanoutDeliveries, State
  <2> QED
    BY <1>14, <2>1 DEF FanoutDeliveries
<1>15. ASSUME NEW t \in Tasks, BackoffElapses(t) \/ RetryAges(t) PROVE TypeOK' /\ LaneOK'
  <2>1. \A r \in {"due", "aged"} : Rested(row[t], r) \in Row
    BY DEF Rested, Row, Rest
  <2>2. row' \in [Tasks -> Row]
    BY <1>15, <2>1 DEF BackoffElapses, RetryAges
  <2> QED
    BY <1>15, <2>2 DEF BackoffElapses, RetryAges
<1>16. ASSUME NEW t \in Tasks, FailTerminal(t) PROVE TypeOK' /\ LaneOK'
  <2>1. row[t].err \in Err
    BY DEF Row
  <2>2. FailRow(row[t], MaxAttempts[t], FALSE, TRUE, FALSE, row[t].err) \in Row
    BY <2>1, FailRowType
  <2>3. row' \in [Tasks -> Row]
    BY <1>16, <2>2 DEF FailTerminal
  <2> QED
    BY <1>16, <2>3 DEF FailTerminal
<1>17. ASSUME NEW t \in Tasks, Purge(t) PROVE TypeOK' /\ LaneOK'
  <2>1. row' \in [Tasks -> Row] /\ takes' \in [Tasks -> Nat]
    BY <1>17, NewRowType DEF Purge, State
  <2> QED
    BY <1>17, <2>1 DEF Purge
<1>a. ASSUME NEW t \in Tasks, AdminRetry(t) PROVE TypeOK' /\ LaneOK'
  <2>1. row' \in [Tasks -> Row] /\ takes' \in [Tasks -> Nat]
    BY <1>a, NewRowType DEF AdminRetry, State
  <2> QED
    BY <1>a, <2>1 DEF AdminRetry
<1>18. ASSUME NEW t \in Tasks, CompactFailed(t) \/ CompactCompleted(t)
       PROVE  TypeOK' /\ LaneOK'
  <2>1. TrimRow(row[t]) \in Row
    BY DEF TrimRow, Row
  <2>2. row' \in [Tasks -> Row]
    BY <1>18, <2>1 DEF CompactFailed, CompactCompleted
  <2> QED
    BY <1>18, <2>2 DEF CompactFailed, CompactCompleted
<1>19. ASSUME NEW S \in SUBSET Tasks, SweepScan(S) PROVE TypeOK' /\ LaneOK'
  BY <1>19 DEF SweepScan
<1>20. CASE UNCHANGED vars
  BY <1>20 DEF vars
<1> QED
  BY <1>1, <1>2, <1>3, <1>4, <1>5, <1>6, <1>7, <1>8, <1>10, <1>11, <1>12, <1>13, <1>14,
     <1>15, <1>16, <1>17, <1>a, <1>18, <1>19, <1>20 DEF Next, LaneStep

\* Every variable keeps its type: rows, lanes, wake-ups and the histories.
THEOREM TypeCorrect == Spec => []TypeOK
<1>1. TypeOK /\ LaneOK /\ [Next]_vars => (TypeOK /\ LaneOK)'
  BY NextType
<1>2. Init => TypeOK /\ LaneOK
  BY InitIInv DEF IInv
<1> QED
  BY <1>1, <1>2, PTL DEF Spec

-----------------------------------------------------------------------------
(***************************************************************************)
(* The inductive invariant.                                                *)
(***************************************************************************)

\* What a step that leaves the row alone, hands it to no lane and does not
\* forget that it was doubled preserves.
LEMMA FrameRow ==
  ASSUME NEW t \in Tasks, RowOK(t),
         row'[t] = row[t], takes'[t] = takes[t],
         t \in doubled => t \in doubled',
         \A l \in Lanes : Holds(l, t)' => Holds(l, t)
  PROVE  RowOK(t)'
<1>1. Held(t)' => Held(t)
  BY DEF Held
<1>2. AttemptsOK(t)' /\ TakesOK(t)' /\ TrimOK(t)'
  BY <1>1 DEF RowOK, AttemptsOK, TakesOK, TrimOK
<1>3. HoldOK(t)'
  BY <1>1 DEF RowOK, HoldOK
<1> QED
  BY <1>2, <1>3 DEF RowOK

\* A row no lane performs may become any row its counters allow.
LEMMA IdleRow ==
  ASSUME NEW t \in Tasks, AttemptsOK(t)', TakesOK(t)',
         row'[t].trimmed =>
           /\ row'[t].state \notin {"none", "gone"}
           /\ row'[t].attempts >= MaxAttempts[t] \/ row'[t].state = "completed",
         \A l \in Lanes : ~Holds(l, t)'
  PROVE  RowOK(t)'
<1>1. ~Held(t)'
  BY DEF Held
<1> QED
  BY <1>1 DEF RowOK, TrimOK, HoldOK, Held

LEMMA NextRows == IInv /\ [Next]_vars => RowsOK'
<1> SUFFICES ASSUME IInv, [Next]_vars, NEW u \in Tasks PROVE RowOK(u)'
  BY DEF RowsOK
<1>a. TypeOK /\ LaneOK /\ RowOK(u) /\ \A t \in Tasks : RowOK(t)
  BY DEF IInv, RowsOK
<1>b. row[u] \in Row /\ row[u].attempts \in Nat /\ takes[u] \in Nat
      /\ MaxAttempts[u] \in Nat \ {0} /\ row[u].trimmed \in BOOLEAN /\ row[u].state \in State
  BY <1>a, AttemptsAssumption DEF TypeOK, Row
<1>c. lane \in [Lanes -> [pc : Pc, task : Tasks \cup {NoTask}]] /\ row \in [Tasks -> Row]
      /\ takes \in [Tasks -> Nat]
  BY <1>a DEF TypeOK
<1>1. CASE StartWorker \/ Crash
  <2>1. \A l \in Lanes : ~Holds(l, u)'
    BY <1>1, <1>c DEF StartWorker, Crash, Holds, Idle
  <2>2. row' = row /\ takes' = takes
    BY <1>1 DEF StartWorker, Crash
  <2>3. AttemptsOK(u)' /\ TakesOK(u)'
    BY <1>a, <2>2 DEF RowOK, AttemptsOK, TakesOK
  <2> QED
    BY <1>a, <2>1, <2>2, <2>3, IdleRow DEF RowOK, TrimOK
<1>2. CASE ResetInterrupted
  <2>1. \A l \in Lanes : Holds(l, u)' <=> Holds(l, u)
    BY <1>2, <1>c DEF ResetInterrupted, Holds, Idle
  <2>2. Held(u)' <=> Held(u)
    BY <2>1 DEF Held
  <2>3. CASE row[u].state # "running"
    BY <1>2, <1>a, <1>c, <2>1, <2>3, FrameRow DEF ResetInterrupted
  <2>4. CASE row[u].state = "running"
    <3>1. /\ row'[u] = ResetRow(row[u], MaxAttempts[u]) /\ takes' = takes
          /\ Held(u) => u \in doubled'
      BY <1>2, <1>c, <2>4 DEF ResetInterrupted
    <3>2. AttemptsOK(u)' /\ TakesOK(u)'
      BY <1>a, <1>b, <2>4, <3>1 DEF RowOK, AttemptsOK, TakesOK, ResetRow
    <3>3. TrimOK(u)'
      BY <1>a, <1>b, <2>4, <3>1 DEF RowOK, TrimOK, ResetRow
    <3>4. HoldOK(u)'
      BY <2>1, <2>2, <3>1 DEF HoldOK, ResetRow, Held
    <3> QED
      BY <3>2, <3>3, <3>4 DEF RowOK
  <2> QED
    BY <2>3, <2>4
<1>3. CASE Listen \/ \E t \in Tasks : Notify(t)
  BY <1>3, <1>a, FrameRow DEF Listen, Notify, Holds
<1>4. CASE WakeByTrigger
  <2>1. \A l \in Lanes : Holds(l, u)' => Holds(l, u)
    BY <1>4, <1>c DEF WakeByTrigger, Holds, Idle
  <2> QED
    BY <1>4, <1>a, <2>1, FrameRow DEF WakeByTrigger
<1>5. ASSUME NEW l \in Lanes, TakeNothing(l) \/ WakeByTimer(l) PROVE RowOK(u)'
  <2>1. \A m \in Lanes : Holds(m, u)' => Holds(m, u)
    BY <1>5, <1>c DEF TakeNothing, WakeByTimer, Holds, Idle
  <2> QED
    BY <1>5, <1>a, <2>1, FrameRow DEF TakeNothing, WakeByTimer
<1>6. CASE SweepApply
  <2>1. lane' = lane /\ takes' = takes /\ doubled' = doubled
    BY <1>6 DEF SweepApply
  <2>2. \A l \in Lanes : Holds(l, u)' <=> Holds(l, u)
    BY <2>1 DEF Holds
  <2>3. Held(u)' <=> Held(u)
    BY <2>2 DEF Held
  <2>4. CASE row'[u] = row[u]
    BY <1>a, <2>1, <2>2, <2>4, FrameRow
  <2>5. CASE /\ row'[u] = CompleteRow(row[u], "none")
             /\ row[u].state \notin {"none", "gone"}
    <3>1. AttemptsOK(u)' /\ TakesOK(u)'
      BY <1>a, <1>b, <2>1, <2>5 DEF RowOK, AttemptsOK, TakesOK, CompleteRow
    <3>2. TrimOK(u)'
      BY <1>a, <1>b, <2>3, <2>5 DEF RowOK, TrimOK, CompleteRow
    <3>3. HoldOK(u)'
      BY <1>a, <2>1, <2>2, <2>3, <2>5 DEF RowOK, HoldOK, CompleteRow
    <3> QED
      BY <3>1, <3>2, <3>3 DEF RowOK
  <2> QED
    BY <1>6, <1>c, <2>4, <2>5 DEF SweepApply, SweepRow
<1>7. ASSUME NEW l \in Lanes, NEW t \in Tasks, Take(l, t) PROVE RowOK(u)'
  <2>1. CASE t # u
    <3>1. \A m \in Lanes : Holds(m, u)' => Holds(m, u)
      BY <1>7, <1>c, <2>1 DEF Take, Holds
    <3> QED
      BY <1>7, <1>a, <1>c, <2>1, <3>1, FrameRow DEF Take
  <2>2. CASE t = u
    <3>1. row[u].state = "pending" /\ row'[u] = TakeRow(row[u]) /\ takes'[u] = takes[u] + 1
          /\ doubled' = doubled
      BY <1>7, <1>c, <2>2 DEF Take, Next1, Eligible
    <3>2. AttemptsOK(u)' /\ TakesOK(u)'
      BY <1>a, <1>b, <3>1 DEF RowOK, AttemptsOK, TakesOK, TakeRow
    <3>3. TrimOK(u)'
      BY <1>a, <1>b, <3>1 DEF RowOK, AttemptsOK, TrimOK, TakeRow
    <3>4. \A m \in Lanes : Holds(m, u)' => Holds(m, u) \/ m = l
      BY <1>7, <1>c, <2>2 DEF Take, Holds
    <3>5. HoldOK(u)'
      BY <1>a, <3>1, <3>4 DEF RowOK, HoldOK, Held, TakeRow
    <3> QED
      BY <3>2, <3>3, <3>5 DEF RowOK
  <2> QED
    BY <2>1, <2>2
<1>8. ASSUME NEW l \in Lanes, lane[l].pc = "perform",
             lane' = [lane EXCEPT ![l] = Idle("take")],
             NEW r, row' = [row EXCEPT ![lane[l].task] = r],
             takes' = takes, doubled' = doubled,
             lane[l].task = u =>
               /\ r.attempts \in Nat
               /\ r.state = "failed" => r.attempts >= MaxAttempts[u]
               /\ r.state \in {"pending", "running"} => r.attempts < MaxAttempts[u]
               /\ takes[u] <= r.attempts
               /\ r.state \notin {"none", "gone", "running"}
               /\ r.trimmed => r.attempts >= MaxAttempts[u]
      PROVE  RowOK(u)'
  <2>1. \A m \in Lanes : Holds(m, u)' <=> Holds(m, u) /\ m # l
    BY <1>8, <1>c DEF Holds, Idle, Pc
  <2>2. CASE lane[l].task # u
    BY <1>8, <1>a, <1>c, <2>1, <2>2, FrameRow
  <2>3. CASE lane[l].task = u
    <3>1. row'[u] = r
      BY <1>8, <1>c, <2>3
    <3>2. AttemptsOK(u)' /\ TakesOK(u)' /\ TrimOK(u)'
      BY <1>8, <1>a, <1>b, <2>3, <3>1 DEF RowOK, AttemptsOK, TakesOK, TrimOK
    <3>3. Holds(l, u)
      BY <1>8, <2>3 DEF Holds
    <3>4. u \notin doubled => ~Held(u)'
      BY <1>a, <2>1, <3>3 DEF RowOK, HoldOK, Held
    <3>5. HoldOK(u)'
      BY <1>8, <2>1, <2>3, <3>1, <3>4 DEF HoldOK, Held
    <3> QED
      BY <3>2, <3>5 DEF RowOK
  <2> QED
    BY <2>2, <2>3
<1>d. \A l \in Lanes : lane[l].pc = "perform" /\ lane[l].task = u =>
        /\ row[u].state \notin {"none", "gone"}
        /\ row[u].trimmed => row[u].attempts >= MaxAttempts[u]
  BY <1>a DEF RowOK, HoldOK, TrimOK, Held, Holds
<1>9. ASSUME NEW l \in Lanes, Complete(l) PROVE RowOK(u)'
  <2> DEFINE t == lane[l].task
             r == CompleteRow(row[t], row[t].err)
  <2>1. t = u => /\ r.attempts = row[u].attempts + 1 /\ r.state = "completed"
                 /\ r.trimmed = row[u].trimmed /\ takes[u] <= row[u].attempts + 1
    BY <1>a, <1>b DEF RowOK, TakesOK, CompleteRow
  <2>2. lane[l].pc = "perform" /\ lane' = [lane EXCEPT ![l] = Idle("take")]
        /\ row' = [row EXCEPT ![t] = r] /\ takes' = takes /\ doubled' = doubled
    BY <1>9 DEF Complete
  <2> HIDE DEF r
  <2>3. ASSUME t = u
        PROVE  /\ r.attempts \in Nat
               /\ r.state = "failed" => r.attempts >= MaxAttempts[u]
               /\ r.state \in {"pending", "running"} => r.attempts < MaxAttempts[u]
               /\ takes[u] <= r.attempts
               /\ r.state \notin {"none", "gone", "running"}
               /\ r.trimmed => r.attempts >= MaxAttempts[u]
    <3>1. row[u].trimmed => row[u].attempts >= MaxAttempts[u]
      BY <1>d, <2>2, <2>3
    <3> QED
      BY <1>b, <2>1, <2>3, <3>1
  <2> QED
    BY <1>8, <2>2, <2>3
<1>10. ASSUME NEW l \in Lanes, NEW terminal \in BOOLEAN, NEW compact \in BOOLEAN,
              NEW err \in {"plain", "stale"}, Fail(l, terminal, compact, err)
       PROVE  RowOK(u)'
  <2> DEFINE t == lane[l].task
             inb == ClassOf[t] \in InboxClasses
             r == FailRow(row[t], MaxAttempts[t], inb, terminal, compact, err)
  <2>1. lane[l].pc = "perform" /\ lane' = [lane EXCEPT ![l] = Idle("take")]
        /\ row' = [row EXCEPT ![t] = r] /\ takes' = takes /\ doubled' = doubled
    BY <1>10 DEF Fail
  <2>2. takes[u] <= row[u].attempts + 1 /\ takes[u] <= MaxAttempts[u]
    BY <1>a, <1>b DEF RowOK, TakesOK
  <2>3. ASSUME t = u
        PROVE  /\ r.attempts \in Nat
               /\ r.state = "failed" => r.attempts >= MaxAttempts[u]
               /\ r.state \in {"pending", "running"} => r.attempts < MaxAttempts[u]
               /\ takes[u] <= r.attempts
               /\ r.state \notin {"none", "gone", "running"}
               /\ r.trimmed => r.attempts >= MaxAttempts[u]
    <3>1. /\ r.state = (IF ~terminal /\ row[u].attempts + 1 < MaxAttempts[u]
                        THEN "pending" ELSE "failed")
          /\ r.attempts = (IF terminal THEN MaxAttempts[u] ELSE row[u].attempts + 1)
          /\ r.trimmed => row[u].trimmed \/ row[u].attempts + 1 >= MaxAttempts[u]
      BY <2>3 DEF FailRow
    <3>2. row[u].trimmed => row[u].attempts >= MaxAttempts[u]
      BY <1>d, <2>1, <2>3
    <3> HIDE DEF r
    <3> QED
      BY <1>b, <2>2, <3>1, <3>2
  <2> HIDE DEF r
  <2> QED
    BY <1>8, <2>1, <2>3
<1>11. ASSUME NEW t \in Tasks, Enqueue(t) PROVE RowOK(u)'
  <2>1. lane' = lane /\ doubled' = doubled /\ takes' = takes
    BY <1>11 DEF Enqueue
  <2>2. \A l \in Lanes : Holds(l, u)' => Holds(l, u)
    BY <2>1 DEF Holds
  <2>3. CASE t # u
    BY <1>11, <1>a, <1>c, <2>1, <2>2, <2>3, FrameRow DEF Enqueue
  <2>4. CASE t = u
    <3>1. row[u].state = "none" /\ row'[u] = NewRow("pending")
      BY <1>11, <1>c, <2>4 DEF Enqueue
    <3>2. AttemptsOK(u)' /\ TakesOK(u)' /\ row'[u].trimmed = FALSE
      BY <1>a, <1>b, <2>1, <3>1 DEF RowOK, AttemptsOK, TakesOK, NewRow
    <3>3. \A l \in Lanes : ~Holds(l, u)'
      BY <1>a, <2>2, <3>1 DEF RowOK, HoldOK, Held
    <3> QED
      BY <3>2, <3>3, IdleRow
  <2> QED
    BY <2>3, <2>4
<1>12. ASSUME NEW l \in Lanes, NEW T \in SUBSET Fanout, FanoutDeliveries(l, T)
       PROVE  RowOK(u)'
  <2>1. lane' = lane /\ doubled' = doubled /\ takes' = takes
    BY <1>12 DEF FanoutDeliveries
  <2>2. \A m \in Lanes : Holds(m, u)' => Holds(m, u)
    BY <2>1 DEF Holds
  <2>3. CASE u \notin T
    BY <1>12, <1>a, <1>c, <2>1, <2>2, <2>3, FrameRow DEF FanoutDeliveries
  <2>4. CASE u \in T
    <3>1. row[u].state = "none" /\ row'[u] = NewRow("pending")
      BY <1>12, <1>c, <2>4 DEF FanoutDeliveries
    <3>2. AttemptsOK(u)' /\ TakesOK(u)' /\ row'[u].trimmed = FALSE
      BY <1>a, <1>b, <2>1, <3>1 DEF RowOK, AttemptsOK, TakesOK, NewRow
    <3>3. \A m \in Lanes : ~Holds(m, u)'
      BY <1>a, <2>2, <3>1 DEF RowOK, HoldOK, Held
    <3> QED
      BY <3>2, <3>3, IdleRow
  <2> QED
    BY <2>3, <2>4
<1>13. ASSUME NEW t \in Tasks, BackoffElapses(t) \/ RetryAges(t) PROVE RowOK(u)'
  <2>1. lane' = lane /\ doubled' = doubled /\ takes' = takes
    BY <1>13 DEF BackoffElapses, RetryAges
  <2>2. \A l \in Lanes : Holds(l, u)' <=> Holds(l, u)
    BY <2>1 DEF Holds
  <2>3. /\ row'[u].state = row[u].state /\ row'[u].attempts = row[u].attempts
        /\ row'[u].trimmed = row[u].trimmed
    BY <1>13, <1>c DEF BackoffElapses, RetryAges, Rested
  <2>4. Held(u)' <=> Held(u)
    BY <2>2 DEF Held
  <2>5. AttemptsOK(u)' /\ TakesOK(u)' /\ TrimOK(u)'
    BY <1>a, <2>1, <2>3, <2>4 DEF RowOK, AttemptsOK, TakesOK, TrimOK
  <2>6. HoldOK(u)'
    BY <1>a, <2>1, <2>2, <2>3, <2>4 DEF RowOK, HoldOK
  <2> QED
    BY <2>5, <2>6 DEF RowOK
<1>14. ASSUME NEW t \in Tasks, FailTerminal(t) PROVE RowOK(u)'
  <2>1. lane' = lane /\ doubled' = doubled /\ takes' = takes
    BY <1>14 DEF FailTerminal
  <2>2. \A l \in Lanes : Holds(l, u)' <=> Holds(l, u)
    BY <2>1 DEF Holds
  <2>3. CASE t # u
    BY <1>14, <1>a, <1>c, <2>1, <2>2, <2>3, FrameRow DEF FailTerminal
  <2>4. CASE t = u
    <3>1. /\ row[u].state = "pending" /\ row'[u].state = "failed"
          /\ row'[u].attempts = MaxAttempts[u]
      BY <1>14, <1>c, <2>4 DEF FailTerminal, FailRow
    <3>2. AttemptsOK(u)' /\ TakesOK(u)' /\ TrimOK(u)'
      BY <1>a, <1>b, <2>1, <3>1 DEF RowOK, AttemptsOK, TakesOK, TrimOK
    <3>3. HoldOK(u)'
      BY <1>a, <2>1, <2>2, <3>1 DEF RowOK, HoldOK, Held
    <3> QED
      BY <3>2, <3>3 DEF RowOK
  <2> QED
    BY <2>3, <2>4
<1>15. ASSUME NEW t \in Tasks, Purge(t) PROVE RowOK(u)'
  <2>1. lane' = lane /\ doubled' = doubled
    BY <1>15 DEF Purge
  <2>2. \A l \in Lanes : Holds(l, u)' => Holds(l, u)
    BY <2>1 DEF Holds
  <2>3. CASE t # u
    BY <1>15, <1>a, <1>c, <2>1, <2>2, <2>3, FrameRow DEF Purge
  <2>4. CASE t = u
    <3>1. /\ row'[u].state \in {"none", "gone"} /\ row'[u].attempts = 0
          /\ row'[u].trimmed = FALSE /\ takes'[u] = 0
      BY <1>15, <1>c, <2>4 DEF Purge, NewRow
    <3>2. AttemptsOK(u)' /\ TakesOK(u)'
      BY <1>b, <3>1 DEF AttemptsOK, TakesOK
    <3>3. \A l \in Lanes : ~Holds(l, u)'
      BY <1>15, <2>2, <2>4 DEF Purge, Settled, Held
    <3> QED
      BY <3>1, <3>2, <3>3, IdleRow
  <2> QED
    BY <2>3, <2>4
<1>e. ASSUME NEW t \in Tasks, AdminRetry(t) PROVE RowOK(u)'
  <2>1. lane' = lane /\ doubled' = doubled
    BY <1>e DEF AdminRetry
  <2>2. \A l \in Lanes : Holds(l, u)' <=> Holds(l, u)
    BY <2>1 DEF Holds
  <2>3. CASE t # u
    BY <1>e, <1>a, <1>c, <2>1, <2>2, <2>3, FrameRow DEF AdminRetry
  <2>4. CASE t = u
    <3>1. /\ row[u].state = "failed" /\ row'[u].state = "pending" /\ row'[u].attempts = 0
          /\ row'[u].trimmed = FALSE /\ takes'[u] = 0
      BY <1>e, <1>c, <2>4 DEF AdminRetry, NewRow
    <3>2. AttemptsOK(u)' /\ TakesOK(u)' /\ TrimOK(u)'
      BY <1>b, <3>1 DEF AttemptsOK, TakesOK, TrimOK
    <3>3. Held(u)' <=> Held(u)
      BY <2>2 DEF Held
    <3>4. HoldOK(u)'
      BY <1>a, <2>1, <2>2, <3>1, <3>3 DEF RowOK, HoldOK
    <3> QED
      BY <3>2, <3>4 DEF RowOK
  <2> QED
    BY <2>3, <2>4
<1>16. ASSUME NEW t \in Tasks, CompactFailed(t) \/ CompactCompleted(t) PROVE RowOK(u)'
  <2>1. lane' = lane /\ doubled' = doubled /\ takes' = takes
    BY <1>16 DEF CompactFailed, CompactCompleted
  <2>2. \A l \in Lanes : Holds(l, u)' => Holds(l, u)
    BY <2>1 DEF Holds
  <2>3. CASE t # u
    BY <1>16, <1>a, <1>c, <2>1, <2>2, <2>3, FrameRow DEF CompactFailed, CompactCompleted
  <2>4. CASE t = u
    <3>1. /\ row'[u].state = row[u].state /\ row'[u].attempts = row[u].attempts
          /\ row[u].state \in {"completed", "failed"}
      BY <1>16, <1>c, <2>4 DEF CompactFailed, CompactCompleted, TrimRow
    <3>2. AttemptsOK(u)' /\ TakesOK(u)'
      BY <1>a, <2>1, <3>1 DEF RowOK, AttemptsOK, TakesOK
    <3>3. \A l \in Lanes : ~Holds(l, u)'
      BY <1>16, <2>2, <2>4 DEF CompactFailed, CompactCompleted, Settled, Held
    <3>4. row'[u].attempts >= MaxAttempts[u] \/ row'[u].state = "completed"
      BY <1>a, <3>1 DEF RowOK, AttemptsOK
    <3> QED
      BY <3>1, <3>2, <3>3, <3>4, IdleRow
  <2> QED
    BY <2>3, <2>4
<1>17. ASSUME NEW S \in SUBSET Tasks, SweepScan(S) PROVE RowOK(u)'
  BY <1>17, <1>a, FrameRow DEF SweepScan, Holds
<1>18. CASE UNCHANGED vars
  BY <1>18, <1>a, FrameRow DEF vars, Holds
<1> QED
  BY <1>1, <1>2, <1>3, <1>4, <1>5, <1>6, <1>7, <1>9, <1>10, <1>11, <1>12, <1>13, <1>14,
     <1>15, <1>e, <1>16, <1>17, <1>18 DEF Next, LaneStep

LEMMA Inductive == Spec => []IInv
<1>1. IInv /\ [Next]_vars => IInv'
  BY NextType, NextRows DEF IInv
<1> QED
  BY <1>1, InitIInv, PTL DEF Spec

-----------------------------------------------------------------------------
\* No row is handed to a lane more than max_attempts times.
THEOREM BudgetHolds == Spec => []PerformanceBudget
<1>1. IInv => PerformanceBudget
  BY DEF IInv, RowsOK, RowOK, TakesOK, PerformanceBudget
<1> QED
  BY <1>1, Inductive, PTL

\* A row whose payload was dropped is neither queued nor performed.
THEOREM TrimmedHolds == Spec => []TrimmedNeverRuns
<1>1. IInv => TrimmedNeverRuns
  <2> SUFFICES ASSUME IInv, NEW t \in Tasks, row[t].trimmed
               PROVE  row[t].state \in {"completed", "failed"}
    BY DEF TrimmedNeverRuns
  <2>1. RowOK(t) /\ row[t] \in Row /\ MaxAttempts[t] \in Nat \ {0}
    BY AttemptsAssumption DEF IInv, RowsOK, TypeOK
  <2>2. row[t].state \in State /\ row[t].attempts \in Nat /\ takes[t] \in Nat
    BY <2>1 DEF Row, IInv, TypeOK
  <2>3. row[t].state \notin {"pending", "running"}
    BY <2>1, <2>2 DEF RowOK, AttemptsOK, TrimOK
  <2>4. row[t].state \notin {"none", "gone"}
    BY <2>1, <2>2 DEF RowOK, TrimOK
  <2> QED
    BY <2>2, <2>3, <2>4 DEF State
<1> QED
  BY <1>1, Inductive, PTL

\* Two lanes hold a row only when the start-up reset put it under a live lane.
THEOREM ExclusiveHolds == Spec => []ExclusiveLane
<1>1. IInv => ExclusiveLane
  BY DEF IInv, RowsOK, RowOK, HoldOK, ExclusiveLane
<1> QED
  BY <1>1, Inductive, PTL

\* The attempts column keeps a failed row failed, whichever lane writes next,
\* until an administrator retries it.
THEOREM FailedFinal == Spec => FailedIsFinal
<1>1. IInv /\ [Next]_vars =>
        [\A t \in Tasks :
           row[t].state = "failed" /\ row'[t].state \in {"pending", "running"}
             => AdminRetry(t)]_vars
  <2> SUFFICES ASSUME IInv, [Next]_vars, NEW t \in Tasks, row[t].state = "failed",
                      ~AdminRetry(t)
               PROVE  row'[t].state \notin {"pending", "running"}
    OBVIOUS
  <2>a. /\ row[t].attempts \in Nat /\ MaxAttempts[t] \in Nat
        /\ row[t].attempts >= MaxAttempts[t] /\ row \in [Tasks -> Row]
    BY AttemptsAssumption DEF IInv, RowsOK, RowOK, AttemptsOK, TypeOK, Row
  <2>1. CASE UNCHANGED row
    BY <2>1
  <2>2. CASE ResetInterrupted
    BY <2>2, <2>a DEF ResetInterrupted
  <2>3. CASE SweepApply
    BY <2>3, <2>a DEF SweepApply, SweepRow, CompleteRow
  <2>4. ASSUME NEW l \in Lanes, NEW u \in Tasks, Take(l, u)
        PROVE  row'[t].state \notin {"pending", "running"}
    BY <2>4, <2>a DEF Take, Next1, Eligible
  <2>5. ASSUME NEW l \in Lanes, Complete(l)
        PROVE  row'[t].state \notin {"pending", "running"}
    BY <2>5, <2>a DEF Complete, CompleteRow
  <2>6. ASSUME NEW l \in Lanes, NEW terminal \in BOOLEAN, NEW compact \in BOOLEAN,
               NEW err \in {"plain", "stale"}, Fail(l, terminal, compact, err)
        PROVE  row'[t].state \notin {"pending", "running"}
    <3>1. CASE lane[l].task # t
      BY <2>6, <2>a, <3>1 DEF Fail
    <3>2. CASE lane[l].task = t
      <4>1. ~(row[t].attempts + 1 < MaxAttempts[t])
        BY <2>a
      <4>2. row'[t].state = "failed"
        BY <2>6, <2>a, <3>2, <4>1 DEF Fail, FailRow
      <4> QED
        BY <4>2
    <3> QED
      BY <3>1, <3>2
  <2>7. ASSUME NEW u \in Tasks, Enqueue(u)
        PROVE  row'[t].state \notin {"pending", "running"}
    BY <2>7, <2>a DEF Enqueue
  <2>8. ASSUME NEW l \in Lanes, NEW T \in SUBSET Fanout, FanoutDeliveries(l, T)
        PROVE  row'[t].state \notin {"pending", "running"}
    BY <2>8, <2>a DEF FanoutDeliveries
  <2>9. ASSUME NEW u \in Tasks,
               \/ BackoffElapses(u) \/ RetryAges(u) \/ FailTerminal(u)
               \/ Purge(u) \/ CompactFailed(u) \/ CompactCompleted(u)
        PROVE  row'[t].state \notin {"pending", "running"}
    BY <2>9, <2>a DEF BackoffElapses, RetryAges, FailTerminal, FailRow, Purge, NewRow,
       CompactFailed, CompactCompleted, Rested, TrimRow
  <2>10. ASSUME NEW u \in Tasks, AdminRetry(u)
         PROVE  row'[t].state \notin {"pending", "running"}
    <3>1. u # t
      BY <2>10
    <3> QED
      BY <2>10, <2>a, <3>1 DEF AdminRetry
  <2> QED
    <3>1. (\E u \in Tasks : Notify(u)) \/ (\E S \in SUBSET Tasks : SweepScan(S))
          \/ (\E l \in Lanes : TakeNothing(l) \/ WakeByTimer(l))
          \/ StartWorker \/ Crash \/ Listen \/ WakeByTrigger \/ UNCHANGED vars
            => UNCHANGED row
      BY DEF Notify, SweepScan, TakeNothing, WakeByTimer, StartWorker, Crash, Listen,
         WakeByTrigger, vars
    <3> QED
      BY <2>1, <2>2, <2>3, <2>4, <2>5, <2>6, <2>7, <2>8, <2>9, <2>10, <3>1
         DEF Next, LaneStep
<1> QED
  BY <1>1, Inductive, PTL DEF Spec, FailedIsFinal

-----------------------------------------------------------------------------
(***************************************************************************)
(* Wake-ups of the main lane.                                              *)
(***************************************************************************)
Fresh(t) == row[t].state = "pending" /\ row[t].rest = "fresh"

\* A lane performs kinds of its own list only; so the audience task is the main
\* lane's, which does not wait while it inserts deliveries.
OwnKindsOK ==
  \A l \in Lanes : lane[l].pc = "perform" => ClassOf[lane[l].task] \in LaneClasses(l)

WakeInv == IInv /\ OwnKindsOK /\ NoLostWakeup

\* A row is as good as new only if it was, or if it is inserted or retried.
LEMMA FreshIsInserted ==
  ASSUME IInv, [Next]_vars, NEW t \in Tasks, Fresh(t)'
  PROVE  \/ Fresh(t) \/ Enqueue(t) \/ AdminRetry(t)
         \/ \E l \in Lanes, T \in SUBSET Fanout : FanoutDeliveries(l, T)
<1> SUFFICES ASSUME ~Fresh(t), ~Enqueue(t), ~AdminRetry(t),
                    \A l \in Lanes, T \in SUBSET Fanout : ~FanoutDeliveries(l, T)
             PROVE  FALSE
  OBVIOUS
<1> USE DEF Fresh
<1>a. row \in [Tasks -> Row]
  BY DEF IInv, TypeOK
<1>1. CASE UNCHANGED row
  BY <1>1
<1>2. CASE ResetInterrupted
  BY <1>2, <1>a DEF ResetInterrupted, ResetRow
<1>3. CASE SweepApply
  BY <1>3, <1>a DEF SweepApply, SweepRow, CompleteRow
<1>4. ASSUME NEW l \in Lanes, NEW u \in Tasks, Take(l, u) PROVE FALSE
  BY <1>4, <1>a DEF Take, TakeRow
<1>5. ASSUME NEW l \in Lanes, Complete(l) PROVE FALSE
  BY <1>5, <1>a DEF Complete, CompleteRow
<1>6. ASSUME NEW l \in Lanes, NEW terminal \in BOOLEAN, NEW compact \in BOOLEAN,
             NEW err \in {"plain", "stale"}, Fail(l, terminal, compact, err)
      PROVE  FALSE
  BY <1>6, <1>a DEF Fail, FailRow
<1>7. ASSUME NEW u \in Tasks, Enqueue(u) \/ AdminRetry(u) PROVE FALSE
  BY <1>7, <1>a DEF Enqueue, AdminRetry
<1>8. ASSUME NEW u \in Tasks, BackoffElapses(u) \/ RetryAges(u) PROVE FALSE
  BY <1>8, <1>a DEF BackoffElapses, RetryAges, Rested
<1>9. ASSUME NEW u \in Tasks, FailTerminal(u) PROVE FALSE
  BY <1>9, <1>a DEF FailTerminal, FailRow
<1>10. ASSUME NEW u \in Tasks, Purge(u) PROVE FALSE
  BY <1>10, <1>a DEF Purge, NewRow
<1>11. ASSUME NEW u \in Tasks, CompactFailed(u) \/ CompactCompleted(u) PROVE FALSE
  BY <1>11, <1>a DEF CompactFailed, CompactCompleted, TrimRow
<1>12. (\E u \in Tasks : Notify(u)) \/ (\E S \in SUBSET Tasks : SweepScan(S))
       \/ (\E l \in Lanes : TakeNothing(l) \/ WakeByTimer(l))
       \/ StartWorker \/ Crash \/ Listen \/ WakeByTrigger \/ UNCHANGED vars
         => UNCHANGED row
  BY DEF Notify, SweepScan, TakeNothing, WakeByTimer, StartWorker, Crash, Listen,
     WakeByTrigger, vars
<1> QED
  BY <1>1, <1>2, <1>3, <1>4, <1>5, <1>6, <1>7, <1>8, <1>9, <1>10, <1>11, <1>12
     DEF Next, LaneStep

\* The main lane comes to wait only when no row is left for it, and no row is as
\* good as new then, since every kind is in its list.
LEMMA WaitsWithoutFresh ==
  ASSUME TakeNothing("main"), NEW t \in Tasks PROVE ~Fresh(t)
<1>1. ClassOf[t] \in LaneClasses("main")
  BY ClassAssumption DEF LaneClasses
<1> QED
  BY <1>1 DEF TakeNothing, Eligible, Fresh

\* What a step does to the lanes.
LEMMA LaneSteps ==
  ASSUME IInv, [Next]_vars, NEW m \in Lanes, lane'[m] # lane[m]
  PROVE  /\ lane[m].pc # "off" \/ StartWorker \/ Crash
         /\ \/ lane'[m].pc \notin {"perform", "wait"}
            \/ TakeNothing(m) /\ lane'[m].pc = "wait"
            \/ \E t \in Tasks : Take(m, t) /\ lane'[m] = [pc |-> "perform", task |-> t]
<1>a. lane \in [Lanes -> [pc : Pc, task : Tasks \cup {NoTask}]]
  BY DEF IInv, TypeOK
<1>1. CASE StartWorker \/ Crash
  BY <1>1 DEF StartWorker, Crash, Idle
<1>2. ASSUME ResetInterrupted \/ WakeByTrigger
      PROVE  lane[m].pc # "off" /\ lane'[m].pc = "take"
  BY <1>2, <1>a DEF ResetInterrupted, WakeByTrigger, Idle
<1>3. ASSUME NEW l \in Lanes, NEW t \in Tasks, Take(l, t)
      PROVE  m = l /\ lane[m].pc # "off" /\ lane'[m] = [pc |-> "perform", task |-> t]
  BY <1>3, <1>a DEF Take
<1>4. ASSUME NEW l \in Lanes, TakeNothing(l)
      PROVE  m = l /\ lane[m].pc # "off" /\ lane'[m].pc = "wait"
  BY <1>4, <1>a DEF TakeNothing, Idle
<1>5. ASSUME NEW l \in Lanes, WakeByTimer(l) \/ Complete(l)
      PROVE  lane[m].pc # "off" /\ lane'[m].pc = "take"
  BY <1>5, <1>a DEF WakeByTimer, Complete, Idle
<1>6. ASSUME NEW l \in Lanes, NEW terminal \in BOOLEAN, NEW compact \in BOOLEAN,
             NEW err \in {"plain", "stale"}, Fail(l, terminal, compact, err)
      PROVE  lane[m].pc # "off" /\ lane'[m].pc = "take"
  BY <1>6, <1>a DEF Fail, Idle
<1>7. \/ Listen \/ SweepApply \/ UNCHANGED vars
      \/ \E l \in Lanes, T \in SUBSET Fanout : FanoutDeliveries(l, T)
      \/ \E t \in Tasks : \/ Enqueue(t) \/ Notify(t) \/ AdminRetry(t)
                          \/ BackoffElapses(t) \/ RetryAges(t) \/ FailTerminal(t)
                          \/ Purge(t) \/ CompactFailed(t) \/ CompactCompleted(t)
      \/ \E S \in SUBSET Tasks : SweepScan(S)
      => UNCHANGED lane
  BY DEF Listen, SweepApply, vars, FanoutDeliveries, Enqueue, Notify, AdminRetry, BackoffElapses,
     RetryAges, FailTerminal, Purge, CompactFailed, CompactCompleted, SweepScan
<1> QED
  BY <1>1, <1>2, <1>3, <1>4, <1>5, <1>6, <1>7 DEF Next, LaneStep

LEMMA OwnKindsKept == WakeInv /\ [Next]_vars => OwnKindsOK'
<1> SUFFICES ASSUME WakeInv, [Next]_vars, NEW m \in Lanes, lane'[m].pc = "perform"
             PROVE  ClassOf[lane'[m].task] \in LaneClasses(m)
  BY DEF OwnKindsOK
<1>1. CASE lane'[m] = lane[m]
  BY <1>1 DEF WakeInv, OwnKindsOK
<1>2. ASSUME NEW t \in Tasks, Take(m, t), lane'[m] = [pc |-> "perform", task |-> t]
      PROVE  ClassOf[lane'[m].task] \in LaneClasses(m)
  BY <1>2 DEF Take, Next1, Eligible
<1> QED
  BY <1>1, <1>2, LaneSteps DEF WakeInv

\* The trigger is taken only to look at the table, and an announcement is lost
\* only with the process.
LEMMA ChannelSteps ==
  ASSUME [Next]_vars
  PROVE  /\ listening' = listening \/ Crash \/ StartWorker \/ Listen
         /\ trigger => trigger' \/ WakeByTrigger \/ Crash
         /\ announce \subseteq announce' \/ Crash \/ StartWorker
            \/ \E t \in Tasks : Notify(t) /\ announce \subseteq announce' \cup {t}
<1>1. \/ Crash \/ StartWorker \/ Listen \/ WakeByTrigger
      \/ \E t \in Tasks : Notify(t)
      \/ UNCHANGED <<listening, trigger>> /\ announce \subseteq announce'
  BY DEF Next, LaneStep, vars, ResetInterrupted, SweepApply, FanoutDeliveries, Enqueue, AdminRetry,
     BackoffElapses, RetryAges, FailTerminal, Purge, CompactFailed, CompactCompleted, SweepScan,
     Take, TakeNothing, WakeByTimer, Complete, Fail
<1>2. ASSUME NEW t \in Tasks, Notify(t)
      PROVE  /\ listening' = listening
             /\ trigger => trigger'
             /\ announce \subseteq announce' \cup {t}
  BY <1>2 DEF Notify
<1>3. CASE Crash
  BY <1>3
<1>4. CASE StartWorker \/ Listen
  <2>1. trigger' = trigger /\ (Listen => announce' = announce)
    BY <1>4 DEF StartWorker, Listen
  <2>2. (trigger => trigger') /\ (Listen => announce \subseteq announce')
    BY <2>1
  <2> QED
    BY <1>4, <2>2
<1>5. CASE WakeByTrigger
  <2>1. announce' = announce /\ listening' = listening
    BY <1>5 DEF WakeByTrigger
  <2> QED
    BY <1>5, <2>1
<1>6. CASE \E t \in Tasks : Notify(t)
  BY <1>2, <1>6
<1>7. CASE UNCHANGED <<listening, trigger>> /\ announce \subseteq announce'
  <2>1. listening' = listening /\ (trigger => trigger')
    BY <1>7
  <2> QED
    BY <1>7, <2>1
<1> QED
  BY <1>1, <1>3, <1>4, <1>5, <1>6, <1>7

LEMMA WakeupKept == WakeInv /\ [Next]_vars => NoLostWakeup'
<1> SUFFICES ASSUME WakeInv, [Next]_vars, listening' = "channel", lane'["main"].pc = "wait",
                    NEW t \in Tasks \ Retriable, Fresh(t)'
             PROVE  trigger' \/ t \in announce'
  BY DEF NoLostWakeup, Fresh
<1>a. "main" \in Lanes /\ lane \in [Lanes -> [pc : Pc, task : Tasks \cup {NoTask}]]
  BY LanesAssumption DEF WakeInv, IInv, TypeOK
<1>1. ~Crash /\ ~StartWorker /\ ~WakeByTrigger
  BY <1>a DEF Crash, StartWorker, WakeByTrigger, Idle
<1>b. listening = "channel"
  BY <1>1, ChannelSteps DEF Listen
<1>2. ~TakeNothing("main")
  <2> SUFFICES ASSUME TakeNothing("main") PROVE FALSE
    OBVIOUS
  <2>1. row' = row
    BY DEF TakeNothing
  <2> QED
    BY <2>1, WaitsWithoutFresh DEF Fresh
<1>3. lane["main"].pc = "wait"
  <2> SUFFICES ASSUME lane'["main"] # lane["main"] PROVE FALSE
    OBVIOUS
  <2>1. \E u \in Tasks : lane'["main"] = [pc |-> "perform", task |-> u]
    BY <1>2, <1>a, LaneSteps DEF WakeInv
  <2> QED
    BY <2>1
<1>4. ~\E l \in Lanes, T \in SUBSET Fanout : FanoutDeliveries(l, T)
  <2> SUFFICES ASSUME NEW l \in Lanes, NEW T \in SUBSET Fanout, FanoutDeliveries(l, T)
               PROVE  FALSE
    OBVIOUS
  <2>1. "deliver_to_audience" \in LaneClasses(l)
    BY DEF FanoutDeliveries, WakeInv, OwnKindsOK
  <2>2. l \notin {"discovery", "readback", "inbox"}
    BY <2>1 DEF LaneClasses, DiscoveryLaneClasses, ReadbackLaneClasses, InboxClasses, SeedClasses,
       DiscoverClasses, FetchClasses, PreviewClasses
  <2>3. l = "main"
    BY <2>2, LanesAssumption DEF AllLanes
  <2> QED
    BY <1>3, <2>3 DEF FanoutDeliveries
<1>5. CASE Enqueue(t)
  BY <1>5 DEF Enqueue
<1>6. CASE Fresh(t)
  <2>1. trigger \/ t \in announce
    BY <1>3, <1>6, <1>b DEF WakeInv, NoLostWakeup, Fresh
  <2>2. CASE trigger
    BY <1>1, <2>2, ChannelSteps
  <2>3. CASE t \in announce /\ t \notin announce'
    <3>1. PICK u \in Tasks : Notify(u) /\ announce \subseteq announce' \cup {u}
      BY <1>1, <2>3, ChannelSteps
    <3> QED
      BY <3>1, <1>b DEF Notify
  <2> QED
    BY <2>1, <2>2, <2>3
<1> QED
  BY <1>4, <1>5, <1>6, FreshIsInserted DEF WakeInv, AdminRetry

\* In a single process no wake-up is lost: while the main lane waits, a row that
\* was inserted and whose request called notify_worker has the trigger set, for
\* every interleaving of requests, lanes, sweeps and crashes (notify_worker and
\* the select! of run_worker).
THEOREM WakeupsKept == Spec => []NoLostWakeup
<1>1. Init => WakeInv
  BY InitIInv, LanesAssumption DEF Init, WakeInv, OwnKindsOK, NoLostWakeup, Idle
<1>2. WakeInv /\ [Next]_vars => WakeInv'
  BY NextType, NextRows, OwnKindsKept, WakeupKept DEF WakeInv, IInv
<1>3. WakeInv => NoLostWakeup
  BY DEF WakeInv
<1> QED
  BY <1>1, <1>2, <1>3, PTL DEF Spec
=============================================================================
