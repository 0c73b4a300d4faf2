--------------------------- MODULE MC_TaskQueue ---------------------------
(* Small instances of TaskQueue: three tasks in two queues.                *)
EXTENDS TaskQueue

TasksC == {"close", "remove", "rent"}
QueueC == [t \in TasksC |-> IF t = "rent" THEN 2 ELSE 1]

\* "remove" waits for a deadline; "close" is given up at time 4.
AfterC == [t \in TasksC |-> IF t = "remove" THEN 3 ELSE Unset]
TillC == [t \in TasksC |-> IF t = "close" THEN 4 ELSE Unset]
=============================================================================
