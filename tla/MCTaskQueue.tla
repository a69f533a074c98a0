---------------------------- MODULE MCTaskQueue ----------------------------
(* Instances of TaskQueue for TLC. *)
EXTENDS TaskQueue

\* Row 1 is an inbox task, which two lanes may take and the sweep may complete;
\* row 2 is the audience task that inserts row 3.
RaceClasses  == [t \in Tasks |-> CASE t = 1 -> "verify_and_ingest_object_from_inbox"
                                   [] t = 2 -> "deliver_to_audience"
                                   [] OTHER -> "deliver_to_inbox"]
RaceAttempts == [t \in Tasks |-> IF t = 1 THEN 3 ELSE 1]
=============================================================================
