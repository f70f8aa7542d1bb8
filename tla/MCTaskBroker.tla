---------------------------- MODULE MCTaskBroker ----------------------------
(* Instances of TaskBroker for TLC. *)
EXTENDS TaskBroker

CONSTANTS c1, c2, a1, sync, cycle, eval, evalAll

WorkerApps == [w \in Workers |-> IF w = a1 THEN "engine" ELSE "collector"]

MessageNames ==
  [m \in Messages |-> CASE m = sync -> "sync_subject"
                        [] m = cycle -> "sync_all"
                        [] m = eval -> "evaluate_subject"
                        [] OTHER -> "evaluate_all"]
=============================================================================
