-------------------------- MODULE VisibilityProofs --------------------------
(***************************************************************************)
(* Proofs about module Visibility, for any hosts, communities, directories *)
(* and lanes.  The runs have one server; here another server's directory   *)
(* may list its communities.                                               *)
(***************************************************************************)
EXTENDS Visibility, TLAPS

\* The statements that lift a suppression.
Lifting == {"mark_open", "mark_delivery", "mark_probe", "clear_follow"}

Has(todo, statements) == \E i \in 1..Len(todo) : todo[i] \in statements

\* A task that is going to lift a suppression has heard its host say yes, and
\* the statement that does so by community is left to deliveries of follows,
\* whose host is that of the community.
TaskOK(t) ==
  /\ t \in TaskType
  /\ Has(t.todo, Lifting) => t.heard = "yes"
  /\ Has(t.todo, {"clear_follow"}) => t.kind = "follow"
  /\ t.kind \in {"follow", "content"} => t.com \in Communities /\ t.on = HostOf[t.com]
  /\ t.todo # <<>> => t.on \in Hosts

TasksOK == job \in [Lanes -> TaskType] /\ \A l \in Lanes : TaskOK(job[l])

IInv == TypeOK /\ TasksOK /\ HiddenAfterThree

-----------------------------------------------------------------------------
(***************************************************************************)
(* Lists of statements.                                                    *)
(***************************************************************************)

LEMMA HeadIsHad ==
  ASSUME NEW s \in Seq(Steps), s # <<>>, NEW ss, Head(s) \in ss
  PROVE  Has(s, ss)
BY DEF Has

LEMMA TailHasLess ==
  ASSUME NEW s \in Seq(Steps), s # <<>>, NEW ss, Has(Tail(s), ss)
  PROVE  Has(s, ss)
<1>1. PICK i \in 1..Len(Tail(s)) : Tail(s)[i] \in ss
  BY DEF Has
<1>2. i + 1 \in 1..Len(s) /\ s[i + 1] \in ss
  BY <1>1
<1>3. QED BY <1>2 DEF Has

LEMMA ConcatHas ==
  ASSUME NEW s \in Seq(Steps), NEW t \in Seq(Steps), NEW ss, Has(s \o t, ss)
  PROVE  Has(s, ss) \/ Has(t, ss)
<1>1. PICK i \in 1..Len(s \o t) : (s \o t)[i] \in ss
  BY DEF Has
<1>2. CASE i \in 1..Len(s)
  BY <1>1, <1>2 DEF Has
<1>3. CASE i \notin 1..Len(s)
  <2>1. i - Len(s) \in 1..Len(t) /\ t[i - Len(s)] \in ss
    BY <1>1, <1>3
  <2>2. QED BY <2>1 DEF Has
<1>4. QED BY <1>2, <1>3

\* The lists that lift nothing.
LEMMA Harmless ==
  /\ BlockHost \in Seq(Steps) /\ ~Has(BlockHost, Lifting)
  /\ SuppressHost \in Seq(Steps) /\ ~Has(SuppressHost, Lifting)
  /\ <<"mark_transient">> \in Seq(Steps) /\ ~Has(<<"mark_transient">>, Lifting)
  /\ <<"like">> \in Seq(Steps) /\ ~Has(<<"like">>, Lifting)
  /\ <<"delete">> \in Seq(Steps) /\ ~Has(<<"delete">>, Lifting)
  /\ \A kind \in DOMAIN Program : Program[kind] \in Seq(Steps) /\ ~Has(Program[kind], Lifting)
<1>1. BlockHost \in Seq(Steps) /\ ~Has(BlockHost, Lifting)
  BY DEF Steps, BlockHost, Has, Lifting
<1>2. SuppressHost \in Seq(Steps) /\ ~Has(SuppressHost, Lifting)
  BY DEF Steps, SuppressHost, Has, Lifting
<1>3. <<"mark_transient">> \in Seq(Steps) /\ ~Has(<<"mark_transient">>, Lifting)
  BY DEF Steps, Has, Lifting
<1>4. <<"like">> \in Seq(Steps) /\ ~Has(<<"like">>, Lifting)
  BY DEF Steps, Has, Lifting
<1>5. <<"delete">> \in Seq(Steps) /\ ~Has(<<"delete">>, Lifting)
  BY DEF Steps, Has, Lifting
<1>6. <<"policy", "crawl">> \in Seq(Steps) /\ ~Has(<<"policy", "crawl">>, Lifting)
  BY DEF Steps, Has, Lifting
<1>7. <<"policy", "target">> \in Seq(Steps) /\ ~Has(<<"policy", "target">>, Lifting)
  BY DEF Steps, Has, Lifting
<1>8. <<"post">> \in Seq(Steps) /\ ~Has(<<"post">>, Lifting)
  BY DEF Steps, Has, Lifting
<1>9. ASSUME NEW kind \in DOMAIN Program
      PROVE  Program[kind] \in {<<"policy", "crawl">>, <<"policy", "target">>, <<"post">>}
  BY DEF Steps, Program
<1>10. QED BY <1>1, <1>2, <1>3, <1>4, <1>5, <1>6, <1>7, <1>8, <1>9

\* No list lifts by community but the last statement of a follow's delivery.
LEMMA ByHostOnly ==
  /\ OpenHost \in Seq(Steps) /\ ~Has(OpenHost, {"clear_follow"})
  /\ DeliveryProof \in Seq(Steps) /\ ~Has(DeliveryProof, {"clear_follow"})
  /\ ProbeProof \in Seq(Steps) /\ ~Has(ProbeProof, {"clear_follow"})
  /\ <<"undo">> \in Seq(Steps) /\ ~Has(<<"undo">>, {"clear_follow"})
  /\ <<>> \in Seq(Steps) /\ ~Has(<<>>, {"clear_follow"})
  /\ <<"clear_follow">> \in Seq(Steps)
<1>1. OpenHost \in Seq(Steps) /\ ~Has(OpenHost, {"clear_follow"})
  BY DEF Steps, OpenHost, Has
<1>2. DeliveryProof \in Seq(Steps) /\ ~Has(DeliveryProof, {"clear_follow"})
  BY DEF Steps, DeliveryProof, Has
<1>3. ProbeProof \in Seq(Steps) /\ ~Has(ProbeProof, {"clear_follow"})
  BY DEF Steps, ProbeProof, Has
<1>4. <<"undo">> \in Seq(Steps) /\ ~Has(<<"undo">>, {"clear_follow"})
  BY DEF Steps, Has
<1>5. <<>> \in Seq(Steps) /\ ~Has(<<>>, {"clear_follow"})
  BY DEF Steps, Has
<1>6. <<"clear_follow">> \in Seq(Steps)
  BY DEF Steps
<1>7. QED BY <1>1, <1>2, <1>3, <1>4, <1>5, <1>6

LEMMA LiftsByCommunity ==
  ASSUME NEW s, Has(s, {"clear_follow"}) PROVE Has(s, Lifting)
BY DEF Has, Lifting

-----------------------------------------------------------------------------
(***************************************************************************)
(* Tasks.                                                                  *)
(***************************************************************************)

LEMMA IdleOK == TaskOK(Idle)
BY DEF TaskOK, Idle, TaskType, Has, Program, Nobody

\* A lane that continues with a good task, or ends, leaves good tasks.
LEMMA ContinueKeeps ==
  ASSUME TasksOK, NEW l \in Lanes, NEW t, TaskOK(t), Continue(l, t)
  PROVE  TasksOK'
<1> DEFINE u == IF t.todo = <<>> THEN Idle ELSE t
<1>1. TaskOK(u)
  BY IdleOK
<1>2. u \in TaskType
  BY <1>1 DEF TaskOK
<1>3. job' = [job EXCEPT ![l] = u]
  BY DEF Continue
<1> HIDE DEF u
<1>4. job \in [Lanes -> TaskType]
  BY DEF TasksOK
<1>5. job' \in [Lanes -> TaskType]
  BY <1>2, <1>3, <1>4
<1>6. ASSUME NEW m \in Lanes PROVE TaskOK(job'[m])
  <2>1. CASE m = l
    <3>1. job'[m] = u
      BY <1>3, <1>4, <2>1
    <3>2. QED BY <1>1, <3>1
  <2>2. CASE m # l
    <3>1. job'[m] = job[m]
      BY <1>3, <1>4, <2>2
    <3>2. TaskOK(job[m])
      BY DEF TasksOK
    <3>3. QED BY <3>1, <3>2
  <2>3. QED BY <2>1, <2>2
<1>7. QED BY <1>5, <1>6 DEF TasksOK, TaskOK

\* So does one that takes up a list which lifts nothing it may not lift.
LEMMA TurnKeeps ==
  ASSUME TasksOK, NEW l \in Lanes, job[l].todo # <<>>,
         NEW todo \in Seq(Steps), NEW heard \in {"nothing", "yes", "no"},
         Has(todo, Lifting) => heard = "yes",
         Has(todo, {"clear_follow"}) => job[l].kind = "follow",
         Turn(l, todo, heard)
  PROVE  TasksOK'
<1> DEFINE t == [job[l] EXCEPT !.todo = todo, !.heard = heard]
<1>1. TaskOK(job[l]) /\ job[l] \in TaskType
  BY DEF TasksOK
<1>2. t \in TaskType
  BY <1>1 DEF TaskType
<1>3. /\ t.todo = todo /\ t.heard = heard /\ t.kind = job[l].kind
      /\ t.com = job[l].com /\ t.on = job[l].on
  BY <1>1 DEF TaskType
<1>4. Continue(l, t)
  BY DEF Turn
<1> HIDE DEF t
<1>5. TaskOK(t)
  BY <1>1, <1>2, <1>3 DEF TaskOK
<1>6. QED BY <1>4, <1>5, ContinueKeeps

\* And one that executes the first statement of its list.
LEMMA FinishKeeps ==
  ASSUME TasksOK, NEW l \in Lanes, job[l].todo # <<>>, Finish(l)
  PROVE  TasksOK'
<1> DEFINE t == [job[l] EXCEPT !.todo = Tail(@), !.doomed = {}]
<1>1. TaskOK(job[l]) /\ job[l] \in TaskType
  BY DEF TasksOK
<1>2. job[l].todo \in Seq(Steps) /\ Tail(job[l].todo) \in Seq(Steps)
  BY <1>1 DEF TaskType
<1>3. t \in TaskType
  BY <1>1, <1>2 DEF TaskType
<1>4. /\ t.todo = Tail(job[l].todo) /\ t.heard = job[l].heard /\ t.kind = job[l].kind
      /\ t.com = job[l].com /\ t.on = job[l].on
  BY <1>1 DEF TaskType
<1>5. Continue(l, t)
  BY DEF Finish
<1> HIDE DEF t
<1>6. Has(t.todo, Lifting) => t.heard = "yes"
  BY <1>1, <1>2, <1>4, TailHasLess DEF TaskOK
<1>7. Has(t.todo, {"clear_follow"}) => t.kind = "follow"
  BY <1>1, <1>2, <1>4, TailHasLess DEF TaskOK
<1>8. TaskOK(t)
  BY <1>1, <1>3, <1>4, <1>6, <1>7 DEF TaskOK
<1>9. QED BY <1>5, <1>8, ContinueKeeps

\* And one that takes a task.
LEMMA TakeKeeps ==
  ASSUME TasksOK, NEW l \in Lanes, NEW kind \in DOMAIN Program, NEW h \in Hosts,
         NEW c \in Communities \cup {Nobody},
         kind \in {"follow", "content"} => c \in Communities /\ h = HostOf[c],
         Take(l, kind, h, c)
  PROVE  TasksOK'
<1> DEFINE t == Task(kind, h, c)
<1>1. /\ t.kind = kind /\ t.on = h /\ t.com = c /\ t.todo = Program[kind]
      /\ t.heard = "nothing" /\ t.doomed = {}
  BY DEF Task, Idle
<1>2. t \in TaskType
  BY Harmless DEF Task, Idle, TaskType
<1>3. job' = [job EXCEPT ![l] = t]
  BY DEF Take
<1>4. Program[kind] # <<>>
  BY DEF Program
<1> HIDE DEF t
<1>5. TaskOK(t)
  BY <1>1, <1>2, Harmless, LiftsByCommunity DEF TaskOK
<1>6. Continue(l, t)
  BY <1>1, <1>3, <1>4 DEF Continue
<1>7. QED BY <1>5, <1>6, ContinueKeeps

\* The lists are used in the way their evidence allows by every step.
LEMMA TasksStep ==
  ASSUME TypeOK, TasksOK, [Next]_vars
  PROVE  TasksOK'
<1> USE HostAssumption
<1>1. ASSUME NEW l \in Lanes, NEW h \in Hosts, StartCrawl(l, h) PROVE TasksOK'
  BY <1>1, TakeKeeps DEF StartCrawl, Program
<1>2. ASSUME NEW l \in Lanes, NEW h \in Hosts, StartProbe(l, h) PROVE TasksOK'
  BY <1>2, TakeKeeps DEF StartProbe, Program
<1>3. ASSUME NEW l \in Lanes, StartDelivery(l) PROVE TasksOK'
  <2>1. PICK d \in outgoing : Take(l, d[1], HostOf[d[2]], d[2])
    BY <1>3 DEF StartDelivery
  <2>2. d[1] \in {"follow", "content"} /\ d[2] \in Communities
    BY DEF TypeOK
  <2>3. QED BY <2>1, <2>2, TakeKeeps DEF Program
<1>4. ASSUME NEW l \in Lanes, ReadPolicy(l) PROVE TasksOK'
  <2>1. job[l].todo # <<>> /\ job[l].todo \in Seq(Steps) /\ TaskOK(job[l])
    BY <1>4 DEF ReadPolicy, At, TasksOK, TaskType
  <2>2. CASE Turn(l, BlockHost, "no")
    BY <2>1, <2>2, TurnKeeps, Harmless, LiftsByCommunity
  <2>3. CASE Turn(l, OpenHost \o Tail(job[l].todo), "yes")
    <3>1. Tail(job[l].todo) \in Seq(Steps)
      BY <2>1
    <3>2. OpenHost \o Tail(job[l].todo) \in Seq(Steps)
      BY <3>1, ByHostOnly
    <3>4. ASSUME Has(OpenHost \o Tail(job[l].todo), {"clear_follow"})
          PROVE  job[l].kind = "follow"
      <4>1. Has(Tail(job[l].todo), {"clear_follow"})
        BY <3>1, <3>4, ByHostOnly, ConcatHas
      <4>2. Has(job[l].todo, {"clear_follow"})
        BY <2>1, <4>1, TailHasLess
      <4>3. QED BY <2>1, <4>2 DEF TaskOK
    <3>5. QED BY <2>1, <2>3, <3>2, <3>4, TurnKeeps
  <2>4. CASE Finish(l)
    BY <2>1, <2>4, FinishKeeps
  <2>5. Turn(l, BlockHost, "no") \/ Turn(l, OpenHost \o Tail(job[l].todo), "yes") \/ Finish(l)
    BY <1>4 DEF ReadPolicy
  <2>6. QED BY <2>2, <2>3, <2>4, <2>5
<1>5. ASSUME NEW l \in Lanes, PostAccepted(l) PROVE TasksOK'
  <2> DEFINE todo == DeliveryProof \o AfterDelivery(l)
  <2>1. job[l].todo # <<>> /\ Turn(l, todo, "yes")
    BY <1>5 DEF PostAccepted, Posting, At
  <2>2. /\ AfterDelivery(l) \in Seq(Steps)
        /\ Has(AfterDelivery(l), {"clear_follow"}) => job[l].kind = "follow"
    <3>1. CASE AfterDelivery(l) \in {<<"undo">>, ProbeProof, <<>>}
      BY <3>1, ByHostOnly
    <3>2. CASE AfterDelivery(l) = <<"clear_follow">> /\ job[l].kind = "follow"
      BY <3>2, ByHostOnly
    <3>3. QED BY <3>1, <3>2 DEF AfterDelivery
  <2>3. todo \in Seq(Steps) /\ (Has(todo, {"clear_follow"}) => job[l].kind = "follow")
    BY <2>2, ByHostOnly, ConcatHas
  <2> HIDE DEF todo
  <2>4. QED BY <2>1, <2>3, TurnKeeps
<1>6. ASSUME NEW l \in Lanes, PostRefused(l) \/ PostFails(l) PROVE TasksOK'
  <2>1. job[l].todo # <<>> /\ job[l].heard \in {"nothing", "yes", "no"}
    BY <1>6 DEF PostRefused, PostFails, Posting, At, TasksOK, TaskType
  <2>2. CASE job' = [job EXCEPT ![l] = Idle]
    <3>1. Continue(l, Idle)
      BY <2>2 DEF Continue, Idle
    <3>2. QED BY <3>1, IdleOK, ContinueKeeps
  <2>3. CASE Turn(l, SuppressHost, "no")
    BY <2>1, <2>3, TurnKeeps, Harmless, LiftsByCommunity
  <2>4. CASE Turn(l, <<"mark_transient">>, job[l].heard)
    BY <2>1, <2>4, TurnKeeps, Harmless, LiftsByCommunity
  <2>5. QED BY <1>6, <2>2, <2>3, <2>4 DEF PostRefused, PostFails, NotDelivered
<1>7. ASSUME NEW l \in Lanes, FindTarget(l) PROVE TasksOK'
  <2>1. PICK c \in posts \cap OnHost(job[l].on) :
          Continue(l, [job[l] EXCEPT !.todo = <<"like">>, !.com = c])
    BY <1>7 DEF FindTarget
  <2> DEFINE t == [job[l] EXCEPT !.todo = <<"like">>, !.com = c]
  <2>2. TaskOK(job[l]) /\ job[l] \in TaskType /\ job[l].todo # <<>>
    BY <1>7 DEF FindTarget, At, TasksOK
  <2>3. c \in Communities /\ HostOf[c] = job[l].on
    BY DEF OnHost
  <2>4. t \in TaskType
    BY <2>2, <2>3, Harmless DEF TaskType
  <2>5. t.todo = <<"like">> /\ t.com = c /\ t.on = job[l].on
    BY <2>2 DEF TaskType
  <2> HIDE DEF t
  <2>6. TaskOK(t)
    BY <2>2, <2>3, <2>4, <2>5, Harmless, LiftsByCommunity DEF TaskOK
  <2>7. QED BY <2>1, <2>6, ContinueKeeps DEF t
<1>8. ASSUME NEW l \in Lanes, NoTarget(l) PROVE TasksOK'
  <2>1. job[l].todo # <<>> /\ job[l].heard \in {"nothing", "yes", "no"}
    BY <1>8 DEF NoTarget, At, TasksOK, TaskType
  <2>2. Turn(l, <<"mark_transient">>, job[l].heard)
    BY <1>8 DEF NoTarget
  <2>3. QED BY <2>1, <2>2, TurnKeeps, Harmless, LiftsByCommunity
<1>9. ASSUME NEW l \in Lanes, Finish(l), job[l].todo # <<>> PROVE TasksOK'
  BY <1>9, FinishKeeps
<1>10. ASSUME NEW l \in Lanes, Crawl(l) PROVE TasksOK'
  BY <1>9, <1>10 DEF Crawl, CrawlSucceeds, CrawlFails, At
<1>11. ASSUME NEW l \in Lanes, PurgeScan(l) PROVE TasksOK'
  <2> DEFINE t == [job[l] EXCEPT !.todo = <<"delete">>,
                     !.doomed = (row \cap OnHost(job[l].on)) \ (follow \cup posts)]
  <2>1. TaskOK(job[l]) /\ job[l] \in TaskType /\ job[l].todo # <<>> /\ job \in [Lanes -> TaskType]
    BY <1>11 DEF PurgeScan, At, TasksOK
  <2>2. (row \cap OnHost(job[l].on)) \ (follow \cup posts) \subseteq Communities
    BY DEF OnHost
  <2>3. t \in TaskType
    BY <2>1, <2>2, Harmless DEF TaskType
  <2>4. /\ t.todo = <<"delete">> /\ t.heard = job[l].heard /\ t.kind = job[l].kind
        /\ t.com = job[l].com /\ t.on = job[l].on
    BY <2>1 DEF TaskType
  <2>5. job' = [job EXCEPT ![l] = t]
    BY <1>11, <2>1 DEF PurgeScan
  <2> HIDE DEF t
  <2>6. TaskOK(t)
    BY <2>1, <2>3, <2>4, Harmless, LiftsByCommunity DEF TaskOK
  <2>7. Continue(l, t)
    BY <2>4, <2>5 DEF Continue
  <2>8. QED BY <2>6, <2>7, ContinueKeeps
<1>12. ASSUME NEW l \in Lanes, Statement(l) PROVE TasksOK'
  <2>1. CASE PurgeScan(l)
    BY <1>11, <2>1
  <2>2. CASE ~PurgeScan(l)
    <3>1. Finish(l) /\ job[l].todo # <<>>
      BY <1>12, <2>2 DEF Statement, MarkBlock, MarkOpen, MarkDelivery, MarkProbe, MarkSuppressed,
         MarkTransient, WriteServer, Deactivate, Activate, ClearAll, ClearUser, ClearFollow,
         PurgeApply, At
    <3>2. QED BY <1>9, <3>1
  <2>3. QED BY <2>1, <2>2
<1>13. ASSUME NEW ls \in SUBSET Lanes, Stop(ls) PROVE TasksOK'
  <2>1. job' = [l \in Lanes |-> IF l \in ls THEN Idle ELSE job[l]]
    BY <1>13 DEF Stop
  <2>2. Idle \in TaskType
    BY IdleOK DEF TaskOK
  <2>3. job' \in [Lanes -> TaskType]
    BY <2>1, <2>2 DEF TasksOK
  <2>4. ASSUME NEW l \in Lanes PROVE TaskOK(job'[l])
    <3>1. job'[l] = Idle \/ job'[l] = job[l]
      BY <2>1
    <3>2. QED BY <3>1, IdleOK DEF TasksOK
  <2>5. QED BY <2>3, <2>4 DEF TasksOK, TaskOK
<1>14. ASSUME UNCHANGED job PROVE TasksOK'
  BY <1>14 DEF TasksOK, TaskOK
<1>15. CASE UNCHANGED vars
  BY <1>14, <1>15 DEF vars
<1>16. CASE \E l \in Lanes : Start(l) \/ Step(l)
  BY <1>1, <1>2, <1>3, <1>4, <1>5, <1>6, <1>7, <1>8, <1>10, <1>12, <1>16
  DEF Start, Step, Target, Answer
<1>17. CASE \/ \E h \in Hosts : LearnHost(h) \/ ChangeMind(h)
            \/ \E c \in Communities : PostArrives(c)
            \/ \E c \in Visitors : Follow(c) \/ Unfollow(c) \/ Interact(c)
            \/ JanitorDeactivate \/ JanitorReactivate
  BY <1>14, <1>17 DEF LearnHost, ChangeMind, PostArrives, Follow, Unfollow, Interact,
     JanitorDeactivate, JanitorReactivate
<1>18. QED BY <1>13, <1>15, <1>16, <1>17 DEF Next

-----------------------------------------------------------------------------
(***************************************************************************)
(* Types, and the three failures before a host is hidden.                  *)
(***************************************************************************)

\* What the invariant says of the server rows.
ServersOK == server \in [Hosts -> Columns] /\ HiddenAfterThree

\* A row that is shown is a row; what is shown has no failures to speak of.
LEMMA ShownIsRow ==
  ASSUME NEW fails \in 0..3, NEW suppressed \in BOOLEAN
  PROVE  Shown(fails, suppressed) \in Columns /\ Shown(fails, suppressed).active
BY DEF Shown, Columns

\* What is left of a row when its suppression is lifted.
LEMMA RowLifted ==
  ASSUME NEW s \in Columns, NEW b \in BOOLEAN
  PROVE  LET t == [s EXCEPT !.suppressed = b]
         IN  t \in Columns /\ t.fails = s.fails /\ t.active = s.active
BY DEF Columns

\* One row is written.
LEMMA RowWritten ==
  ASSUME server \in [Hosts -> Columns], HiddenAfterThree, NEW h \in Hosts, NEW columns \in Columns,
         server' = [server EXCEPT ![h] = columns], ~columns.active => columns.fails >= 3
  PROVE  ServersOK'
<1>1. server' \in [Hosts -> Columns]
  OBVIOUS
<1>2. \A g \in Hosts : ~server'[g].active => server'[g].fails >= 3
  BY DEF HiddenAfterThree
<1>3. QED BY <1>1, <1>2 DEF ServersOK, HiddenAfterThree

LEMMA FailureWritten ==
  ASSUME server \in [Hosts -> Columns], HiddenAfterThree, NEW h \in Hosts,
         NEW n \in 0..3, NEW a \in BOOLEAN, ~a => n >= 3,
         server' = [server EXCEPT ![h].fails = n, ![h].active = a]
  PROVE  ServersOK'
<1> DEFINE columns == [server[h] EXCEPT !.fails = n, !.active = a]
<1>1. server[h] \in Columns
  OBVIOUS
<1>2. server' = [server EXCEPT ![h] = columns]
  OBVIOUS
<1>3. columns \in Columns /\ columns.fails = n /\ columns.active = a
  <2>1. columns \in Columns
    BY <1>1 DEF Columns
  <2>2. columns.fails = n
    BY <1>1 DEF Columns
  <2>3. columns.active = a
    BY <1>1 DEF Columns
  <2>4. QED BY <2>1, <2>2, <2>3
<1> HIDE DEF columns
<1>4. ~columns.active => columns.fails >= 3
  <2>1. CASE a
    BY <1>3, <2>1
  <2>2. CASE ~a
    BY <1>3, <2>2
  <2>3. QED BY <2>1, <2>2
<1>5. QED BY <1>2, <1>3, <1>4, RowWritten

LEMMA ServersStep ==
  ASSUME TypeOK, TasksOK, HiddenAfterThree, [Next]_vars
  PROVE  ServersOK'
<1>1. server \in [Hosts -> Columns]
  BY DEF TypeOK
<1>3. ASSUME NEW l \in Lanes, job[l].todo # <<>> PROVE job[l].on \in Hosts
  BY <1>3 DEF TasksOK, TaskOK
<1>4. ASSUME NEW l \in Lanes, CrawlSucceeds(l) PROVE ServersOK'
  <2>1. PICK hosts : server' = [g \in Hosts |->
            IF g = job[l].on \/ (g \in hosts /\ ~server[g].suppressed)
            THEN Reached(server[g]) ELSE server[g]]
    BY <1>4 DEF CrawlSucceeds
  <2>2. ASSUME NEW g \in Hosts
        PROVE  Reached(server[g]) \in Columns /\ Reached(server[g]).active
    <3>1. server[g].suppressed \in BOOLEAN
      BY <1>1 DEF Columns
    <3>2. QED BY <3>1, ShownIsRow DEF Reached
  <2>3. ASSUME NEW g \in Hosts
        PROVE  server'[g] \in Columns /\ (~server'[g].active => server'[g].fails >= 3)
    <3>1. server'[g] = Reached(server[g]) \/ server'[g] = server[g]
      BY <2>1
    <3>2. QED BY <1>1, <2>2, <3>1 DEF HiddenAfterThree
  <2>4. server' \in [Hosts -> Columns]
    BY <2>1, <2>3
  <2>5. QED BY <2>3, <2>4 DEF ServersOK, HiddenAfterThree
<1>5. ASSUME NEW l \in Lanes, CrawlFails(l) PROVE ServersOK'
  <2> DEFINE h == job[l].on
             fails == IF server[h].fails < 3 THEN server[h].fails + 1 ELSE 3
  <2>1. h \in Hosts
    BY <1>3, <1>5 DEF CrawlFails, At
  <2>2. PICK sheltered \in BOOLEAN :
          server' = [server EXCEPT ![h].fails = fails,
                                   ![h].active = ~Hidden(server[h].fails + 1, sheltered)]
    BY <1>5 DEF CrawlFails
  <2> DEFINE shown == ~Hidden(server[h].fails + 1, sheltered)
  <2>3. server[h] \in Columns /\ fails \in 0..3
    <3> HIDE DEF h, fails
    <3>1. server[h] \in Columns
      BY <1>1, <2>1
    <3>2. server[h].fails \in 0..3
      BY <3>1 DEF Columns
    <3>3. fails \in 0..3
      BY <3>2 DEF fails
    <3>4. QED BY <3>1, <3>3
  <2>4. shown \in BOOLEAN /\ (~shown => fails >= 3)
    BY <2>3 DEF Hidden
  <2>5. server' = [server EXCEPT ![h].fails = fails, ![h].active = shown]
    BY <2>2
  <2> HIDE DEF h, fails, shown
  <2>6. QED BY <1>1, <2>1, <2>3, <2>4, <2>5, FailureWritten
<1>6. ASSUME NEW l \in Lanes, NEW s, NEW columns, WriteServer(l, s, columns),
             columns \in Columns, ~columns.active => columns.fails >= 3
      PROVE  ServersOK'
  <2>1. job[l].on \in Hosts /\ server' = [server EXCEPT ![job[l].on] = columns]
    BY <1>3, <1>6 DEF WriteServer, At
  <2>2. QED BY <1>1, <1>6, <2>1, RowWritten
<1>7. /\ Shown(0, FALSE) \in Columns /\ Shown(0, FALSE).active
      /\ Shown(0, TRUE) \in Columns /\ Shown(0, TRUE).active
  BY DEF Shown, Columns
<1>8. ASSUME NEW l \in Lanes, MarkBlock(l) \/ MarkOpen(l) \/ MarkDelivery(l) \/ MarkProbe(l)
      PROVE  ServersOK'
  BY <1>6, <1>7, <1>8 DEF MarkBlock, MarkOpen, MarkDelivery, MarkProbe, Healthy
<1>10. ASSUME NEW l \in Lanes, MarkSuppressed(l) PROVE ServersOK'
  <2>1. server[job[l].on].fails \in 0..3
    BY <1>1, <1>3, <1>10 DEF Columns, MarkSuppressed, WriteServer, At
  <2>2. /\ Shown(server[job[l].on].fails, TRUE) \in Columns
        /\ Shown(server[job[l].on].fails, TRUE).active
    BY <2>1, ShownIsRow
  <2>3. QED BY <1>6, <1>10, <2>2 DEF MarkSuppressed
<1>11. ASSUME NEW l \in Lanes, MarkTransient(l) PROVE ServersOK'
  <2>1. job[l].on \in Hosts
    BY <1>3, <1>11 DEF MarkTransient, WriteServer, At
  <2>2. server[job[l].on] \in Columns
        /\ (~server[job[l].on].active => server[job[l].on].fails >= 3)
    BY <1>1, <2>1 DEF HiddenAfterThree
  <2>3. QED BY <1>6, <1>11, <2>2 DEF MarkTransient
<1>12. ASSUME NEW l \in Lanes, ClearFollow(l) PROVE ServersOK'
  <2> DEFINE h == HostOf[job[l].com]
  <2>1. CASE server' = server
    BY <1>1, <2>1 DEF ServersOK, HiddenAfterThree
  <2>2. CASE job[l].com \in row /\ server' = [server EXCEPT ![h].suppressed = FALSE]
    <3>1. h \in Hosts
      BY <2>2, HostAssumption DEF TypeOK
    <3> DEFINE columns == [server[h] EXCEPT !.suppressed = FALSE]
    <3>2. server[h] \in Columns /\ (~server[h].active => server[h].fails >= 3)
      BY <1>1, <3>1 DEF HiddenAfterThree
    <3>3. columns \in Columns /\ columns.fails = server[h].fails /\ columns.active = server[h].active
      BY <3>2, RowLifted
    <3>4. server' = [server EXCEPT ![h] = columns]
      BY <1>1, <2>2, <3>1
    <3> HIDE DEF columns
    <3>5. QED BY <1>1, <3>1, <3>2, <3>3, <3>4, RowWritten
  <2>3. QED BY <1>12, <2>1, <2>2 DEF ClearFollow
<1>13. ASSUME UNCHANGED server PROVE ServersOK'
  BY <1>1, <1>13 DEF ServersOK, HiddenAfterThree
<1>14. CASE UNCHANGED vars
  BY <1>13, <1>14 DEF vars
<1>15. CASE \E l \in Lanes : Crawl(l) \/ Statement(l)
  <2>1. ASSUME NEW l \in Lanes, Deactivate(l) \/ Activate(l) \/ ClearAll(l) \/ ClearUser(l)
                                \/ PurgeScan(l) \/ PurgeApply(l)
        PROVE  ServersOK'
    BY <1>13, <2>1 DEF Deactivate, Activate, ClearAll, ClearUser, PurgeScan, PurgeApply, tables
  <2>2. QED BY <1>4, <1>5, <1>8, <1>10, <1>11, <1>12, <1>15, <2>1 DEF Crawl, Statement
<1>16. CASE \/ \E l \in Lanes : Start(l) \/ ReadPolicy(l) \/ Target(l) \/ Answer(l)
            \/ \E h \in Hosts : LearnHost(h) \/ ChangeMind(h)
            \/ \E c \in Communities : PostArrives(c)
            \/ \E c \in Visitors : Follow(c) \/ Unfollow(c) \/ Interact(c)
            \/ JanitorDeactivate \/ JanitorReactivate
            \/ \E ls \in SUBSET Lanes : Stop(ls)
  BY <1>13, <1>16 DEF Start, StartCrawl, StartProbe, StartDelivery, Take, ReadPolicy, Target,
     FindTarget, NoTarget, Answer, PostAccepted, PostRefused, PostFails, NotDelivered, LearnHost,
     ChangeMind, PostArrives, Follow, Unfollow, Interact, JanitorDeactivate, JanitorReactivate,
     Stop, tables
<1>17. QED BY <1>14, <1>15, <1>16 DEF Next, Step
-----------------------------------------------------------------------------
(***************************************************************************)
(* The other types.                                                        *)
(***************************************************************************)

\* What hangs on a community goes with it.
RowsOK ==
  /\ row \subseteq Communities /\ posts \subseteq row
  /\ barredAll \subseteq row /\ barredUser \subseteq row
  /\ disc \in [Communities -> Status]
  /\ \A c \in Communities : disc[c] # "none" => c \in row
  /\ follow \subseteq row

LEMMA RowsStep ==
  ASSUME RowsOK, TasksOK, [Next]_vars
  PROVE  RowsOK'
<1> USE DEF RowsOK
<1>1. ASSUME UNCHANGED <<row, posts, barredAll, barredUser, disc, follow>> PROVE RowsOK'
  BY <1>1
<1>2. ASSUME NEW l \in Lanes, CrawlSucceeds(l) PROVE RowsOK'
  <2>1. job[l].on \in Hosts
    BY <1>2 DEF CrawlSucceeds, At, TasksOK, TaskOK
  <2>2. PICK cs \in SUBSET Listed[job[l].on] :
          /\ row' = row \cup cs
          /\ disc' = [c \in Communities |->
               IF c \in cs THEN "active"
               ELSE IF cs # {} /\ c \in Discovered(job[l].on) THEN "inactive" ELSE disc[c]]
    BY <1>2 DEF CrawlSucceeds
  <2>3. cs \subseteq Communities
    BY <2>1, HostAssumption
  <2>4. UNCHANGED <<posts, barredAll, barredUser, follow>>
    BY <1>2 DEF CrawlSucceeds, users
  <2>5. disc' \in [Communities -> Status]
    BY <2>2 DEF Status
  <2>6. ASSUME NEW c \in Communities, disc'[c] # "none" PROVE c \in row'
    BY <2>2, <2>6 DEF Discovered
  <2>7. QED BY <2>2, <2>3, <2>4, <2>5, <2>6
<1>3. ASSUME NEW cs, NEW status \in {"active", "inactive"}, SetDisc(cs, status),
             \A c \in cs \cap Communities : disc[c] # "none",
             UNCHANGED <<row, posts, barredAll, barredUser, follow>>
      PROVE  RowsOK'
  <2>1. disc' \in [Communities -> Status]
    BY <1>3 DEF SetDisc, Status
  <2>2. ASSUME NEW c \in Communities, disc'[c] # "none" PROVE c \in row'
    BY <1>3, <2>2 DEF SetDisc
  <2>3. QED BY <1>3, <2>1, <2>2
<1>4. ASSUME NEW l \in Lanes, Deactivate(l) \/ Activate(l) PROVE RowsOK'
  <2>1. \A c \in Discovered(job[l].on) \cap Communities : disc[c] # "none"
    BY DEF Discovered
  <2>2. QED BY <1>3, <1>4, <2>1 DEF Deactivate, Activate, users
<1>5. ASSUME JanitorDeactivate \/ JanitorReactivate PROVE RowsOK'
  <2>1. \A c \in (Stale \cup Current) \cap Communities : disc[c] # "none"
    BY DEF Stale, Current
  <2>2. QED BY <1>3, <1>5, <2>1 DEF JanitorDeactivate, JanitorReactivate, users
<1>6. ASSUME NEW l \in Lanes, ClearAll(l) \/ ClearUser(l) \/ ClearFollow(l) PROVE RowsOK'
  BY <1>6 DEF ClearAll, ClearUser, ClearFollow, users
<1>7. ASSUME NEW l \in Lanes, PurgeApply(l) PROVE RowsOK'
  <2>1. Removed(l) \cap follow = {}
    BY DEF Removed
  <2>2. disc' = [c \in Communities |-> IF c \in Removed(l) THEN "none" ELSE disc[c]]
    BY <1>7 DEF PurgeApply, SetDisc
  <2>3. disc' \in [Communities -> Status]
    BY <2>2 DEF Status
  <2>4. /\ row' = row \ Removed(l) /\ posts' = posts \ Removed(l)
        /\ barredAll' = barredAll \ Removed(l) /\ barredUser' = barredUser \ Removed(l)
        /\ follow' = follow
    BY <1>7 DEF PurgeApply, users
  <2>5. ASSUME NEW c \in Communities, disc'[c] # "none" PROVE c \in row'
    BY <2>2, <2>4, <2>5
  <2>6. QED BY <2>1, <2>3, <2>4, <2>5
<1>8. ASSUME NEW c \in Communities, PostArrives(c) PROVE RowsOK'
  BY <1>8 DEF PostArrives, users
<1>9. ASSUME NEW c \in Visitors, Follow(c) \/ Unfollow(c) PROVE RowsOK'
  BY <1>9 DEF Follow, Unfollow, tables
<1>10. CASE UNCHANGED vars
  BY <1>1, <1>10 DEF vars
<1>11. CASE \E l \in Lanes : Crawl(l) \/ Statement(l)
  <2>1. ASSUME NEW l \in Lanes,
               \/ CrawlFails(l) \/ MarkBlock(l) \/ MarkOpen(l) \/ MarkDelivery(l) \/ MarkProbe(l)
               \/ MarkSuppressed(l) \/ MarkTransient(l) \/ PurgeScan(l)
        PROVE  RowsOK'
    BY <1>1, <2>1 DEF CrawlFails, MarkBlock, MarkOpen, MarkDelivery, MarkProbe, MarkSuppressed,
       MarkTransient, WriteServer, PurgeScan, tables, users
  <2>2. QED BY <1>2, <1>4, <1>6, <1>7, <1>11, <2>1 DEF Crawl, Statement
<1>12. CASE \/ \E l \in Lanes : Start(l) \/ ReadPolicy(l) \/ Target(l) \/ Answer(l)
            \/ \E h \in Hosts : LearnHost(h) \/ ChangeMind(h)
            \/ \E c \in Visitors : Interact(c)
            \/ \E ls \in SUBSET Lanes : Stop(ls)
  BY <1>1, <1>12 DEF Start, StartCrawl, StartProbe, StartDelivery, Take, ReadPolicy, Target,
     FindTarget, NoTarget, Answer, PostAccepted, PostRefused, PostFails, NotDelivered, LearnHost,
     ChangeMind, Interact, Stop, tables, users
<1>13. QED BY <1>5, <1>8, <1>9, <1>10, <1>11, <1>12 DEF Next, Step

\* The rest of the type invariant.
RestOK ==
  /\ open \subseteq Hosts /\ known \subseteq Hosts
  /\ changes \in 0..MaxChanges /\ stops \in 0..MaxStops
  /\ outgoing \subseteq {"follow", "content"} \X Communities
  /\ janitor \in {"idle", "deactivated"}

LEMMA RestStep ==
  ASSUME RestOK, TasksOK, [Next]_vars
  PROVE  RestOK'
<1> USE DEF RestOK
<1>1. ASSUME UNCHANGED <<environment, known, outgoing, janitor>> PROVE RestOK'
  BY <1>1 DEF environment
<1>2. ASSUME NEW l \in Lanes, job[l].todo # <<>> PROVE job[l].on \in Hosts
  BY <1>2 DEF TasksOK, TaskOK
<1>3. ASSUME NEW l \in Lanes, job[l].kind \in {"follow", "content"}
      PROVE  <<job[l].kind, job[l].com>> \in {"follow", "content"} \X Communities
  BY <1>3 DEF TasksOK, TaskOK
<1>4. ASSUME NEW l \in Lanes, CrawlSucceeds(l) PROVE RestOK'
  <2>1. job[l].on \in Hosts
    BY <1>2, <1>4 DEF CrawlSucceeds, At
  <2>2. PICK cs \in SUBSET Listed[job[l].on] :
          known' = known \cup {job[l].on} \cup {HostOf[c] : c \in cs}
    BY <1>4 DEF CrawlSucceeds
  <2>3. {HostOf[c] : c \in cs} \subseteq Hosts
    BY <2>1, HostAssumption
  <2>4. QED BY <1>4, <2>1, <2>2, <2>3 DEF CrawlSucceeds, environment, users
<1>5. ASSUME NEW l \in Lanes, CrawlFails(l) PROVE RestOK'
  BY <1>2, <1>5 DEF CrawlFails, At, environment, users
<1>6. ASSUME NEW l \in Lanes, NEW s, NEW columns, WriteServer(l, s, columns) PROVE RestOK'
  BY <1>2, <1>6 DEF WriteServer, At, environment, users
<1>7. ASSUME NEW l \in Lanes, StartDelivery(l) PROVE RestOK'
  BY <1>7 DEF StartDelivery, Take, environment, tables
<1>8. ASSUME NEW l \in Lanes, PostRefused(l) \/ PostFails(l) PROVE RestOK'
  <2>1. \/ outgoing' = outgoing
        \/ /\ job[l].kind \in {"follow", "content"}
           /\ outgoing' = outgoing \cup {<<job[l].kind, job[l].com>>}
    BY <1>8 DEF PostRefused, PostFails, NotDelivered
  <2>2. outgoing' \subseteq {"follow", "content"} \X Communities
    BY <1>3, <2>1
  <2>3. UNCHANGED <<environment, known, janitor>>
    BY <1>8 DEF PostRefused, PostFails, NotDelivered, tables
  <2>4. QED BY <2>2, <2>3 DEF environment
<1>9. ASSUME NEW kind \in {"follow", "content"}, NEW c \in Visitors, Send(kind, c),
             UNCHANGED <<environment, tables, janitor>>
      PROVE  RestOK'
  <2>1. <<kind, c>> \in {"follow", "content"} \X Communities
    BY VisitorAssumption
  <2>2. outgoing' = outgoing \cup {<<kind, c>>}
    BY <1>9 DEF Send
  <2>3. QED BY <1>9, <2>1, <2>2 DEF environment, tables
<1>10. ASSUME NEW c \in Visitors, Follow(c) \/ Unfollow(c) \/ Interact(c) PROVE RestOK'
  BY <1>9, <1>10 DEF Follow, Unfollow, Interact
<1>11. ASSUME NEW h \in Hosts, LearnHost(h) PROVE RestOK'
  BY <1>11 DEF LearnHost, environment, users
<1>12. ASSUME NEW h \in Hosts, ChangeMind(h) PROVE RestOK'
  <2>1. changes' \in 0..MaxChanges
    BY <1>12, BoundAssumption DEF ChangeMind
  <2>2. open' \subseteq Hosts
    BY <1>12 DEF ChangeMind
  <2>3. QED BY <1>12, <2>1, <2>2 DEF ChangeMind, tables, users
<1>13. ASSUME NEW ls \in SUBSET Lanes, Stop(ls) PROVE RestOK'
  <2>1. stops' \in 0..MaxStops
    BY <1>13, BoundAssumption DEF Stop
  <2> DEFINE again == {<<job[l].kind, job[l].com>> :
                         l \in {m \in ls : job[m].kind \in {"follow", "content"}}}
  <2>2. again \subseteq {"follow", "content"} \X Communities
    BY <1>3
  <2>3. outgoing' = outgoing \/ outgoing' = outgoing \cup again
    BY <1>13 DEF Stop
  <2> HIDE DEF again
  <2>4. janitor' \in {"idle", "deactivated"}
    BY <1>13 DEF Stop
  <2>5. UNCHANGED <<open, changes, known>>
    BY <1>13 DEF Stop, tables
  <2>6. QED BY <2>1, <2>2, <2>3, <2>4, <2>5
<1>14. ASSUME JanitorDeactivate \/ JanitorReactivate PROVE RestOK'
  BY <1>14 DEF JanitorDeactivate, JanitorReactivate, environment, users
<1>15. CASE UNCHANGED vars
  BY <1>1, <1>15 DEF vars, environment
<1>16. CASE \E l \in Lanes : Crawl(l) \/ Statement(l)
  <2>1. ASSUME NEW l \in Lanes,
               \/ MarkBlock(l) \/ MarkOpen(l) \/ MarkDelivery(l) \/ MarkProbe(l)
               \/ MarkSuppressed(l) \/ MarkTransient(l)
        PROVE  RestOK'
    BY <1>6, <2>1 DEF MarkBlock, MarkOpen, MarkDelivery, MarkProbe, MarkSuppressed, MarkTransient
  <2>2. ASSUME NEW l \in Lanes,
               \/ Deactivate(l) \/ Activate(l) \/ ClearAll(l) \/ ClearUser(l) \/ ClearFollow(l)
               \/ PurgeScan(l) \/ PurgeApply(l)
        PROVE  RestOK'
    BY <1>1, <2>2 DEF Deactivate, Activate, ClearAll, ClearUser, ClearFollow, PurgeScan,
       PurgeApply, tables, users
  <2>3. QED BY <1>4, <1>5, <1>16, <2>1, <2>2 DEF Crawl, Statement
<1>17. CASE \/ \E l \in Lanes : Start(l) \/ ReadPolicy(l) \/ Target(l) \/ Answer(l)
            \/ \E c \in Communities : PostArrives(c)
  <2>1. ASSUME NEW l \in Lanes,
               \/ \E h \in Hosts : StartCrawl(l, h) \/ StartProbe(l, h)
               \/ ReadPolicy(l) \/ Target(l) \/ PostAccepted(l)
        PROVE  RestOK'
    BY <1>1, <2>1 DEF StartCrawl, StartProbe, Take, ReadPolicy, Target, FindTarget, NoTarget,
       PostAccepted, tables, users
  <2>2. ASSUME NEW c \in Communities, PostArrives(c) PROVE RestOK'
    BY <1>1, <2>2 DEF PostArrives, users
  <2>3. QED BY <1>7, <1>8, <1>17, <2>1, <2>2 DEF Start, Answer
<1>18. QED BY <1>10, <1>11, <1>12, <1>13, <1>14, <1>15, <1>16, <1>17 DEF Next, Step

-----------------------------------------------------------------------------
(***************************************************************************)
(* The theorems.                                                           *)
(***************************************************************************)

LEMMA IInvInit == Init => IInv
<1> SUFFICES ASSUME Init PROVE IInv
  OBVIOUS
<1>1. ServersOK
  <2>1. server = [h \in Hosts |-> Healthy] /\ Healthy \in Columns /\ Healthy.active
    BY ShownIsRow DEF Init, Healthy, Shown, Columns
  <2>2. QED BY <2>1 DEF ServersOK, HiddenAfterThree
<1>2. TasksOK
  <2>1. job = [l \in Lanes |-> Idle]
    BY DEF Init
  <2>2. Idle \in TaskType
    BY IdleOK DEF TaskOK
  <2>3. QED BY <2>1, <2>2, IdleOK DEF TasksOK
<1>3. RowsOK
  BY DEF Init, RowsOK, Status
<1>4. RestOK
  <2>1. open \subseteq Hosts /\ known \subseteq Hosts
    BY HostAssumption DEF Init, Homes
  <2>2. QED BY <2>1, BoundAssumption DEF Init, RestOK
<1>5. QED BY <1>1, <1>2, <1>3, <1>4 DEF IInv, TypeOK, TasksOK, ServersOK, RowsOK, RestOK

LEMMA IInvStep == IInv /\ [Next]_vars => IInv'
<1> SUFFICES ASSUME IInv, [Next]_vars PROVE IInv'
  OBVIOUS
<1>1. TypeOK /\ TasksOK /\ HiddenAfterThree
  BY DEF IInv
<1>2. TasksOK'
  BY <1>1, TasksStep
<1>3. ServersOK'
  BY <1>1, ServersStep
<1>4. RowsOK'
  BY <1>1, RowsStep DEF TypeOK, RowsOK
<1>5. RestOK'
  BY <1>1, RestStep DEF TypeOK, RestOK
<1>6. QED BY <1>2, <1>3, <1>4, <1>5 DEF IInv, TypeOK, TasksOK, ServersOK, RowsOK, RestOK

\* The inductive invariant holds: types, the evidence behind every list of
\* statements a task still has, and the failures behind every hidden host.
THEOREM Invariance == Spec => []IInv
BY IInvInit, IInvStep, PTL DEF Spec

\* The tables refer to one another as their foreign keys say.
THEOREM TypeCorrect == Spec => []TypeOK
<1>1. IInv => TypeOK
  BY DEF IInv
<1>2. QED BY <1>1, Invariance, PTL

\* A host is hidden for failures only after three in a row, whatever other
\* directories list of it (RECORD_COMMUNITY_DISCOVERY_FAILURE_SQL).
THEOREM HiddenOnlyAfterThree == Spec => []HiddenAfterThree
<1>1. IInv => HiddenAfterThree
  BY DEF IInv
<1>2. QED BY <1>1, Invariance, PTL

\* The statements that lift the suppression of a host.
LEMMA LiftingStatement ==
  ASSUME IInv, NEW l \in Lanes, NEW statement \in Lifting, At(l, statement)
  PROVE  /\ job[l].heard = "yes"
         /\ statement = "clear_follow" =>
              job[l].com \in Communities /\ job[l].on = HostOf[job[l].com]
<1>1. TaskOK(job[l]) /\ job[l].todo \in Seq(Steps) /\ job[l].todo # <<>>
  BY DEF IInv, TasksOK, TaskType, At
<1>2. Head(job[l].todo) = statement
  BY DEF At
<1>3. Has(job[l].todo, Lifting)
  BY <1>1, <1>2, HeadIsHad
<1>4. ASSUME statement = "clear_follow" PROVE job[l].kind = "follow"
  BY <1>1, <1>2, <1>4, HeadIsHad DEF TaskOK
<1>5. QED BY <1>1, <1>3, <1>4 DEF TaskOK

LEMMA EvidenceStep ==
  ASSUME IInv, [Next]_vars, NEW h \in Hosts,
         server[h].suppressed, ~server'[h].suppressed
  PROVE  \E l \in Lanes : job[l].on = h /\ job[l].heard = "yes"
<1>1. server \in [Hosts -> Columns]
  BY DEF IInv, TypeOK
<1>2. ~UNCHANGED server
  OBVIOUS
<1>3. ASSUME NEW l \in Lanes, NEW s, NEW columns, WriteServer(l, s, columns)
      PROVE  /\ At(l, s)
             /\ h = job[l].on /\ ~columns.suppressed
  <2>1. At(l, s) /\ server' = [server EXCEPT ![job[l].on] = columns]
    BY <1>3 DEF WriteServer
  <2>2. h = job[l].on
    BY <1>1, <2>1
  <2>3. server'[h] = columns
    BY <1>1, <2>1, <2>2
  <2>4. QED BY <2>1, <2>2, <2>3
<1>4. ASSUME NEW l \in Lanes, MarkOpen(l) \/ MarkDelivery(l) \/ MarkProbe(l)
      PROVE  job[l].on = h /\ job[l].heard = "yes"
  BY <1>3, <1>4, LiftingStatement DEF MarkOpen, MarkDelivery, MarkProbe, Lifting
<1>5. ASSUME NEW l \in Lanes, MarkBlock(l) \/ MarkSuppressed(l) PROVE FALSE
  BY <1>3, <1>5 DEF MarkBlock, MarkSuppressed, Shown
<1>6. ASSUME NEW l \in Lanes, MarkTransient(l) PROVE FALSE
  BY <1>3, <1>6 DEF MarkTransient
<1>7. ASSUME NEW l \in Lanes, ClearFollow(l) PROVE job[l].on = h /\ job[l].heard = "yes"
  <2>1. At(l, "clear_follow") /\ server' = [server EXCEPT ![HostOf[job[l].com]].suppressed = FALSE]
    BY <1>2, <1>7 DEF ClearFollow
  <2>2. job[l].heard = "yes" /\ job[l].on = HostOf[job[l].com]
    BY <2>1, LiftingStatement DEF Lifting
  <2>3. h = HostOf[job[l].com]
    BY <1>1, <2>1
  <2>4. QED BY <2>2, <2>3
<1>8. ASSUME NEW l \in Lanes, CrawlSucceeds(l) PROVE FALSE
  <2>1. server'[h] = Reached(server[h]) \/ server'[h] = server[h]
    BY <1>8 DEF CrawlSucceeds
  <2>2. QED BY <2>1 DEF Reached, Shown
<1>9. ASSUME NEW l \in Lanes, CrawlFails(l) PROVE FALSE
  <2>1. PICK n, a : server' = [server EXCEPT ![job[l].on].fails = n, ![job[l].on].active = a]
    BY <1>9 DEF CrawlFails
  <2>2. server'[h].suppressed = server[h].suppressed
    BY <1>1, <2>1 DEF Columns
  <2>3. QED BY <2>2
<1>10. CASE \E l \in Lanes : Crawl(l) \/ Statement(l)
  <2>1. ASSUME NEW l \in Lanes, Deactivate(l) \/ Activate(l) \/ ClearAll(l) \/ ClearUser(l)
                                \/ PurgeScan(l) \/ PurgeApply(l)
        PROVE  FALSE
    BY <1>2, <2>1 DEF Deactivate, Activate, ClearAll, ClearUser, PurgeScan, PurgeApply, tables
  <2>2. QED BY <1>4, <1>5, <1>6, <1>7, <1>8, <1>9, <1>10, <2>1 DEF Crawl, Statement
<1>11. CASE \/ \E l \in Lanes : Start(l) \/ ReadPolicy(l) \/ Target(l) \/ Answer(l)
            \/ \E g \in Hosts : LearnHost(g) \/ ChangeMind(g)
            \/ \E c \in Communities : PostArrives(c)
            \/ \E c \in Visitors : Follow(c) \/ Unfollow(c) \/ Interact(c)
            \/ JanitorDeactivate \/ JanitorReactivate
            \/ \E ls \in SUBSET Lanes : Stop(ls)
  BY <1>2, <1>11 DEF Start, StartCrawl, StartProbe, StartDelivery, Take, ReadPolicy, Target,
     FindTarget, NoTarget, Answer, PostAccepted, PostRefused, PostFails, NotDelivered, LearnHost,
     ChangeMind, PostArrives, Follow, Unfollow, Interact, JanitorDeactivate, JanitorReactivate,
     Stop, tables
<1>12. CASE UNCHANGED vars
  BY <1>2, <1>12 DEF vars
<1>13. QED BY <1>10, <1>11, <1>12 DEF Next, Step

\* A suppression is lifted only by a task that has heard this very host say
\* yes, also when other hosts' directories list its communities.
THEOREM LiftingNeedsEvidence == Spec => LiftedOnEvidence
<1>1. IInv /\ [Next]_vars =>
        [\A h \in Hosts : server[h].suppressed /\ ~server'[h].suppressed
           => \E l \in Lanes : job[l].on = h /\ job[l].heard = "yes"]_vars
  BY EvidenceStep
<1>2. QED BY <1>1, Invariance, PTL DEF Spec, LiftedOnEvidence

LEMMA FollowedStep ==
  ASSUME [Next]_vars, NEW c \in row, c \in follow
  PROVE  c \in row'
<1>1. ASSUME UNCHANGED row PROVE c \in row'
  BY <1>1
<1>2. ASSUME NEW l \in Lanes, CrawlSucceeds(l) PROVE c \in row'
  BY <1>2 DEF CrawlSucceeds
<1>3. ASSUME NEW l \in Lanes, PurgeApply(l) PROVE c \in row'
  BY <1>3 DEF PurgeApply, Removed
<1>4. CASE \E l \in Lanes : Crawl(l) \/ Statement(l)
  <2>1. ASSUME NEW l \in Lanes,
               \/ CrawlFails(l) \/ MarkBlock(l) \/ MarkOpen(l) \/ MarkDelivery(l) \/ MarkProbe(l)
               \/ MarkSuppressed(l) \/ MarkTransient(l) \/ Deactivate(l) \/ Activate(l)
               \/ ClearAll(l) \/ ClearUser(l) \/ ClearFollow(l) \/ PurgeScan(l)
        PROVE  UNCHANGED row
    BY <2>1 DEF CrawlFails, MarkBlock, MarkOpen, MarkDelivery, MarkProbe, MarkSuppressed,
       MarkTransient, WriteServer, Deactivate, Activate, ClearAll, ClearUser, ClearFollow,
       PurgeScan, tables
  <2>2. QED BY <1>1, <1>2, <1>3, <1>4, <2>1 DEF Crawl, Statement
<1>5. CASE \/ \E l \in Lanes : Start(l) \/ ReadPolicy(l) \/ Target(l) \/ Answer(l)
           \/ \E h \in Hosts : LearnHost(h) \/ ChangeMind(h)
           \/ \E d \in Communities : PostArrives(d)
           \/ \E d \in Visitors : Follow(d) \/ Unfollow(d) \/ Interact(d)
           \/ JanitorDeactivate \/ JanitorReactivate
           \/ \E ls \in SUBSET Lanes : Stop(ls)
  BY <1>1, <1>5 DEF Start, StartCrawl, StartProbe, StartDelivery, Take, ReadPolicy, Target,
     FindTarget, NoTarget, Answer, PostAccepted, PostRefused, PostFails, NotDelivered, LearnHost,
     ChangeMind, PostArrives, Follow, Unfollow, Interact, JanitorDeactivate, JanitorReactivate,
     Stop, tables
<1>6. CASE UNCHANGED vars
  BY <1>1, <1>6 DEF vars
<1>7. QED BY <1>4, <1>5, <1>6 DEF Next, Step

\* A purge never takes a community with a follower, however the follow and the
\* purge's two steps interleave.
THEOREM FollowsHoldCommunities == Spec => FollowedSurvives
<1>1. [Next]_vars => [\A c \in row : c \in follow => c \in row']_vars
  BY FollowedStep
<1>2. QED BY <1>1, PTL DEF Spec, FollowedSurvives

=============================================================================
