------------------------- MODULE MCTaskQueueDaemon -------------------------
(***************************************************************************)
(* Model values for the runs of the task-queue daemon.                     *)
(***************************************************************************)
EXTENDS TaskQueueDaemonProperties

CONSTANTS d1, d2

Daemons == {d1, d2}

\* The first task is enqueued again.
TwiceFirst == [t \in Tasks |-> IF t = 1 THEN 2 ELSE 1]
=============================================================================
