---------------------------- MODULE MCQueueLive ----------------------------
(* Two loads on the task queue for TLC, each with the lanes and the tasks    *)
(* that make progress hard: deliveries inserted by an audience task while    *)
(* wake-ups may be lost, and a stream of inbox tasks that never ends ahead   *)
(* of the retries of a reply fetch.                                          *)
EXTENDS Naturals

VARIABLES load, row, lane, trigger, listening, announce, sweep, restarts, doubled, takes

Fed == INSTANCE TaskQueue WITH
  Tasks <- {1, 2}, Lanes <- {"main", "readback"},
  ClassOf <- <<"deliver_to_audience", "deliver_to_inbox">>, MaxAttempts <- <<2, 2>>,
  Fanout <- {2}, Recycle <- {}, Retriable <- {}, MaxRestarts <- 1, Wakeups <- {"channel"}

Flood == INSTANCE TaskQueue WITH
  Tasks <- {1, 2}, Lanes <- {"main", "readback"},
  ClassOf <- <<"fetch_post_replies", "verify_and_ingest_object_from_inbox">>,
  MaxAttempts <- <<2, 1>>,
  Fanout <- {}, Recycle <- {2}, Retriable <- {2}, MaxRestarts <- 1, Wakeups <- {"notify"}

QueueInit == \/ load = "fanout" /\ Fed!Init
             \/ load = "flood" /\ Flood!Init

QueueNext == \/ load = "fanout" /\ Fed!Next /\ UNCHANGED load
             \/ load = "flood" /\ Flood!Next /\ UNCHANGED load

Either(A, B) == IF load = "fanout" THEN A ELSE B
Loaded(A) == A /\ UNCHANGED load

\* The fairness of TaskQueue, for the load there is.
QueueSpec ==
  /\ QueueInit /\ [][QueueNext]_<<load, Fed!vars>>
  /\ WF_<<load, Fed!vars>>(Loaded(Either(Fed!StartWorker, Flood!StartWorker)))
  /\ WF_<<load, Fed!vars>>(Loaded(Either(Fed!ResetInterrupted, Flood!ResetInterrupted)))
  /\ \A l \in {"main", "readback"} :
       WF_<<load, Fed!vars>>(Loaded(Either(Fed!LaneStep(l), Flood!LaneStep(l))))
  /\ \A t \in {1, 2} :
       WF_<<load, Fed!vars>>(Loaded(Either(Fed!BackoffElapses(t), Flood!BackoffElapses(t))))
  /\ WF_<<load, Fed!vars>>(Loaded(Either(Fed!SweepApply, Flood!SweepApply)))

\* Every row of either load settles, through lost wake-ups, crashes, retries and
\* competition between lanes; the stream promises nothing for itself.
EverySettles ==
  \A t \in {1, 2} :
    row[t].state = "pending" /\ ~(load = "flood" /\ t = 2)
      ~> row[t].state \in {"completed", "failed", "gone"}
=============================================================================
