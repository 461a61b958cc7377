--------------------- MODULE TaskQueueDaemonProperties ---------------------
(***************************************************************************)
(* What the queue, the lock and the sandbox repository must look like,     *)
(* whichever daemons were killed while they worked on them.                *)
(***************************************************************************)
EXTENDS TaskQueueDaemon

\* Files, lock, processes and repository hold values of their kinds.
TypeOK ==
  /\ queue \in [Buckets -> [Tasks -> File \cup {NoFile}]]
  /\ filling \in [Tasks -> Buckets \cup {Null}] /\ asked \in [Tasks -> Nat]
  /\ lock \in Pids \cup {Null} /\ foreign \subseteq Pids
  /\ pc \in [Pids -> PCs] /\ local \in [Pids -> Locals]
  /\ edited \subseteq Tasks /\ tagged \subseteq Tasks
  /\ commits \in [Tasks -> Nat] /\ calls \in [Tasks -> Nat]
  /\ faults \in Nat
  /\ \A t \in Tasks : filling[t] # Null => queue[filling[t]][t] # NoFile
  /\ \A p \in Pids :
       pc[p] \in {"unlink", "read", "execute", "check", "commit", "tag", "complete"} => local[p].task \in Tasks

Working(p) == pc[p] \notin {"off", "take"}

\* "A second daemon refuses to start while a live process holds the lock":
\* at most one daemon is at work on the queue, and the pidfile names it.
OneDaemon == \A p, q \in Pids : Working(p) /\ Working(q) => p = q

Processing == {"loop", "read", "execute", "check", "commit", "tag", "complete"}

\* running/ is "the task currently being processed": once the recovery is
\* over, nothing else is in it, whatever was killed before.
RunningIsCurrent ==
  \A p \in Pids :
    pc[p] \in Processing => In("running") = IF pc[p] = "loop" THEN {} ELSE {local[p].task}

\* The lock does what it is for.
QueueOwned == TypeOK /\ OneDaemon /\ RunningIsCurrent

\* A task that was enqueued is in one of the directories at every moment,
\* also between the two steps of a recovery.
NothingLost == \A t \in Tasks : asked[t] > 0 => \E b \in Buckets : queue[b][t] # NoFile

\* A request costs a bounded number of codex calls, over all the restarts: an
\* interrupted task is recovered MaxRecovery times and then put to failed/.
CallsBounded ==
  \A t \in Tasks : calls[t] <= asked[t] * (MaxRecovery + 1) * (MaxFix + 1)

\* A task is in done/ only when its change was committed and tagged, and a
\* second commit for it needs a kill, an exception or a failing command in between.
CommitsSound ==
  \A t \in Tasks :
    /\ queue["done"][t] # NoFile => t \in tagged
    /\ t \in tagged => commits[t] > 0
    /\ commits[t] <= 1 + faults

\* "Unique tags": a tag is never moved, nor is its task committed again.
TagsAreFinal ==
  [][\A t \in tagged : t \in tagged' /\ commits'[t] = commits[t]]_vars

Unsettled(t) == t \in In("pending") \cup In("running")

\* What is waiting or interrupted is done or failed in the end.  A stale lock
\* stops the queue only while an unrelated process has the pid in it; the
\* property starts again when that one ends.
TasksSettle ==
  \A t \in Tasks : Unsettled(t) ~> ~Unsettled(t) \/ lock \in foreign
=============================================================================
