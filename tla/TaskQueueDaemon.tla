-------------------------- MODULE TaskQueueDaemon --------------------------
(***************************************************************************)
(* run_task_queue_daemon.py with --sandbox-commit-tag: bounded daemons     *)
(* that share one queue directory and its pidfile lock, and one sandbox    *)
(* repository.  Daemons are started again and again, can be killed at any  *)
(* step (the pidfile then stays) and can fail with an exception while they *)
(* process a task (the finally block then releases the lock).  The pid of  *)
(* a daemon that was killed can come again as that of a later daemon or of *)
(* a process that has nothing to do with the queue.                        *)
(*                                                                         *)
(* A task stands for its file name and for the one target file its spec    *)
(* allows; names are tried in the order of the numbers.  The file system   *)
(* is what it is: a write is not atomic, a rename takes the open file of a *)
(* writer along.                                                           *)
(***************************************************************************)
EXTENDS Naturals, FiniteSets

CONSTANTS
  Pids,          \* process ids of daemons
  Tasks,         \* task ids
  MaxJobs,       \* --max-jobs
  MaxFix,        \* --max-fix-attempts
  MaxRecovery,   \* MAX_RECOVERY_ATTEMPTS_DEFAULT
  MaxAsked,      \* bound: times each task is enqueued
  MaxFaults,     \* bound: kills, exceptions and failing commands
  Racing,        \* two daemons may be started at the same time
  Null

ASSUME TasksAssumption == Tasks \subseteq Nat
ASSUME BoundAssumption == {MaxJobs, MaxFix, MaxRecovery, MaxFaults} \subseteq Nat /\ MaxAsked \in [Tasks -> Nat]
ASSUME RacingAssumption == Racing \in BOOLEAN

VARIABLES
  queue,      \* the four directories: bucket -> task -> file
  filling,    \* where the file is that enqueue_task has opened and not written
  asked,      \* how often a task was enqueued
  lock,       \* pid in daemon.lock
  foreign,    \* pids that unrelated processes have now
  pc, local,  \* step and local variables of each process
  edited,     \* target files with uncommitted changes in the sandbox
  commits,    \* commits made for a task
  tagged,     \* tasks whose tag exists
  calls,      \* calls of codex for a task
  faults

disk == <<queue, filling, asked>>
repo == <<edited, commits, tagged, calls>>
proc == <<pc, local>>
vars == <<disk, lock, foreign, proc, repo, faults>>

Buckets == {"pending", "running", "done", "failed"}

\* A spec is whole, or torn (no JSON), or bare: nothing but recovery marks.
File == [body : {"torn", "whole", "bare"}, tries : Nat]

NoFile == [body |-> "none", tries |-> 0]

ASSUME NullAssumption == Null \notin Pids \cup Tasks /\ Null \notin Buckets

PCs == {"off", "take", "recover", "unlink", "loop", "read", "execute", "check", "commit", "tag",
        "complete", "release"}

Locals == [todo : SUBSET Tasks, task : Tasks \cup {Null}, jobs : Nat, attempt : Nat, ok : BOOLEAN]
Fresh  == [todo |-> {}, task |-> Null, jobs |-> 0, attempt |-> 0, ok |-> FALSE]

In(b) == {t \in Tasks : queue[b][t] # NoFile}

First(t, S) == t \in S /\ \A u \in S : t <= u

Goto(p, l) == pc' = [pc EXCEPT ![p] = l]

Fault == faults < MaxFaults /\ faults' = faults + 1

Init ==
  /\ queue = [b \in Buckets |-> [t \in Tasks |-> NoFile]]
  /\ filling = [t \in Tasks |-> Null] /\ asked = [t \in Tasks |-> 0]
  /\ lock = Null /\ foreign = {}
  /\ pc = [p \in Pids |-> "off"] /\ local = [p \in Pids |-> Fresh]
  /\ edited = {} /\ tagged = {}
  /\ commits = [t \in Tasks |-> 0] /\ calls = [t \in Tasks |-> 0]
  /\ faults = 0

(***************************************************************************)
(* enqueue_task: write_text truncates the file, and fills it when closed.  *)
(***************************************************************************)
Enqueue(t) ==
  /\ asked[t] < MaxAsked[t] /\ filling[t] = Null
  /\ asked' = [asked EXCEPT ![t] = @ + 1]
  /\ queue' = [queue EXCEPT !["pending"][t] = [body |-> "torn", tries |-> 0]]
  /\ filling' = [filling EXCEPT ![t] = "pending"]
  /\ UNCHANGED <<lock, proc, repo, faults, foreign>>

\* The file may have been moved by then; what a recovery wrote into it
\* meanwhile is longer and stays as garbage behind the spec.
Fill(t) ==
  /\ filling[t] # Null
  /\ queue' = [queue EXCEPT ![filling[t]][t] =
                 [body |-> IF @.body = "whole" THEN "torn" ELSE "whole", tries |-> 0]]
  /\ filling' = [filling EXCEPT ![t] = Null]
  /\ UNCHANGED <<asked, lock, proc, repo, faults, foreign>>

\* shutil.move within the queue directory: a rename, which replaces.
Moved(from, to, t) == [queue EXCEPT ![to][t] = queue[from][t], ![from][t] = NoFile]

Followed(from, to, t) ==
  [filling EXCEPT ![t] = IF @ = from THEN to ELSE IF @ = to THEN Null ELSE @]

(***************************************************************************)
(* acquire_lock, recover_interrupted_tasks.                                *)
(***************************************************************************)
\* Fault: the pid is not probed, it counts as dead.
NoneAlive(p) == {}

\* Fault: any pid in the file counts as alive, also its own.
AllAlive(p) == Pids

\* is_pid_alive: any process has the pid, a daemon or not.
Alive(p) == {q \in Pids \ {p} : pc[q] # "off"} \cup foreign

\* The lock is free, its own, or that of a dead pid, which is stale; the own
\* pid is no one else's.
\* Without Racing a daemon is started only when no other is about to write
\* the lock it found free.
Start(p) ==
  /\ pc[p] = "off" /\ p \notin foreign /\ lock \notin Alive(p)
  /\ ~Racing => \A q \in Pids : pc[q] # "take"
  /\ Goto(p, "take")
  /\ UNCHANGED <<disk, lock, local, repo, faults, foreign>>

Take(p) ==
  /\ pc[p] = "take"
  /\ lock' = p
  /\ local' = [local EXCEPT ![p].todo = In("running")]
  /\ Goto(p, "recover")
  /\ UNCHANGED <<disk, repo, faults, foreign>>

\* Fault: the attempt is not counted.
RecoveredUncounted(f) == IF f = NoFile \/ f.body = "torn" THEN [body |-> "bare", tries |-> 1] ELSE f

\* An unreadable spec counts as an empty one.
Recovered(f) ==
  IF f = NoFile \/ f.body = "torn" THEN [body |-> "bare", tries |-> 1]
  ELSE [f EXCEPT !.tries = @ + 1]

Target(f) == IF f.tries > MaxRecovery THEN "failed" ELSE "pending"

\* Fault: the original goes before the requeued copy is there.
RecoverUnlinksFirst(p) ==
  /\ pc[p] = "recover"
  /\ \E t \in Tasks :
       /\ First(t, local[p].todo)
       /\ queue' = [queue EXCEPT !["running"][t] = NoFile]
       /\ local' = [local EXCEPT ![p].task = t, ![p].todo = @ \ {t}]
  /\ Goto(p, "unlink")
  /\ UNCHANGED <<filling, asked, lock, repo, faults, foreign>>

RecoverWrite(p) ==
  /\ pc[p] = "recover"
  /\ \E t \in Tasks :
       /\ First(t, local[p].todo)
       /\ LET f == Recovered(queue["running"][t]) IN
            queue' = [queue EXCEPT ![Target(f)][t] = f]
       /\ local' = [local EXCEPT ![p].task = t, ![p].todo = @ \ {t}]
  /\ Goto(p, "unlink")
  /\ UNCHANGED <<filling, asked, lock, repo, faults, foreign>>

Unlink(p) ==
  /\ pc[p] = "unlink"
  /\ LET t == local[p].task IN
       /\ queue' = [queue EXCEPT !["running"][t] = NoFile]
       /\ filling' = [filling EXCEPT ![t] = IF @ = "running" THEN Null ELSE @]
  /\ local' = [local EXCEPT ![p].task = Null]
  /\ Goto(p, "recover")
  /\ UNCHANGED <<asked, lock, repo, faults, foreign>>

RecoverEnds(p) ==
  /\ pc[p] = "recover" /\ local[p].todo = {}
  /\ Goto(p, "loop")
  /\ UNCHANGED <<disk, lock, local, repo, faults, foreign>>

(***************************************************************************)
(* The loop of main, and _process_task.                                    *)
(***************************************************************************)
Claim(p) ==
  /\ pc[p] = "loop" /\ local[p].jobs < MaxJobs
  /\ \E t \in Tasks :
       /\ First(t, In("pending"))
       /\ queue' = Moved("pending", "running", t)
       /\ filling' = Followed("pending", "running", t)
       /\ local' = [local EXCEPT ![p].task = t, ![p].attempt = 0, ![p].ok = FALSE]
  /\ Goto(p, "read")
  /\ UNCHANGED <<asked, lock, repo, faults, foreign>>

\* No task is left, or the jobs or the seconds of the daemon are spent.
Leave(p) ==
  /\ pc[p] = "loop" /\ (In("pending") = {} \/ local[p].jobs > 0)
  /\ Goto(p, "release")
  /\ local' = [local EXCEPT ![p] = Fresh]
  /\ UNCHANGED <<disk, lock, repo, faults, foreign>>

\* validate_task_spec and plan_task: only a whole spec is executed.
Read(p) ==
  /\ pc[p] = "read"
  /\ LET f == queue["running"][local[p].task] IN
       Goto(p, IF f.body = "whole" THEN "execute" ELSE "complete")
  /\ UNCHANGED <<disk, lock, local, repo, faults, foreign>>

\* One call of codex in the sandbox; its edits stay, whatever it answers.
Calls(p) == calls' = [calls EXCEPT ![local[p].task] = @ + 1]

\* The effect verification passed: the target file was changed.
ExecutePasses(p) ==
  /\ pc[p] = "execute" /\ Calls(p)
  /\ edited' = edited \cup {local[p].task}
  /\ Goto(p, "check")
  /\ UNCHANGED <<disk, lock, local, commits, tagged, faults, foreign>>

Retriable(p) == local[p].attempt < MaxFix

\* A failure is retried with a fix prompt, or it is none to retry.
ExecuteFails(p) ==
  /\ pc[p] = "execute" /\ Calls(p)
  /\ \E e \in {edited, edited \cup {local[p].task}} : edited' = e
  /\ \/ /\ Retriable(p)
        /\ local' = [local EXCEPT ![p].attempt = @ + 1]
        /\ UNCHANGED pc
     \/ Goto(p, "complete") /\ UNCHANGED local
  /\ UNCHANGED <<disk, lock, commits, tagged, faults, foreign>>

(***************************************************************************)
(* execute_sandbox_commit_tag.                                             *)
(***************************************************************************)
\* Fault: the tag is not looked for.
CommittableAgain(t) == edited = {t}

\* The changes are those of this task alone, and its tag is new.
Committable(t) == edited = {t} /\ t \notin tagged

\* Fault: nothing to commit counts as success.
RefusedIsDone(p) ==
  /\ pc[p] = "check" /\ ~Committable(local[p].task)
  /\ local' = [local EXCEPT ![p].ok = TRUE]
  /\ Goto(p, "complete")
  /\ UNCHANGED <<disk, lock, repo, faults, foreign>>

CheckRefuses(p) ==
  /\ pc[p] = "check" /\ ~Committable(local[p].task)
  /\ Goto(p, "complete")
  /\ UNCHANGED <<disk, lock, local, repo, faults, foreign>>

CheckPasses(p) ==
  /\ pc[p] = "check" /\ Committable(local[p].task)
  /\ Goto(p, "commit")
  /\ UNCHANGED <<disk, lock, local, repo, faults, foreign>>

\* git add of the file that the check saw, and git commit, which fails when
\* another daemon has committed that change meanwhile.
Commit(p) ==
  /\ pc[p] = "commit"
  /\ LET t == local[p].task IN
       /\ commits' = [commits EXCEPT ![t] = IF t \in edited THEN @ + 1 ELSE @]
       /\ edited' = edited \ {t}
       /\ Goto(p, IF t \in edited THEN "tag" ELSE "complete")
  /\ UNCHANGED <<disk, lock, local, tagged, calls, faults, foreign>>

\* git tag fails when the tag has come to be since the check.
Tag(p) ==
  /\ pc[p] = "tag"
  /\ tagged' = tagged \cup {local[p].task}
  /\ local' = [local EXCEPT ![p].ok = local[p].task \notin tagged]
  /\ Goto(p, "complete")
  /\ UNCHANGED <<disk, lock, edited, commits, calls, faults, foreign>>

\* The cleanup before it or one of its git commands fails; what an earlier
\* command did stays.
CommandFails(p) ==
  /\ pc[p] \in {"check", "commit", "tag"} /\ Fault
  /\ Goto(p, "complete")
  /\ UNCHANGED <<disk, lock, local, repo, foreign>>

\* complete_task; without the file the rename raises and main ends.
Complete(p) ==
  /\ pc[p] = "complete"
  /\ LET t == local[p].task
         b == IF local[p].ok THEN "done" ELSE "failed"
         there == queue["running"][t] # NoFile IN
       /\ queue' = IF there THEN Moved("running", b, t) ELSE queue
       /\ filling' = IF there THEN Followed("running", b, t) ELSE filling
       /\ Goto(p, IF there THEN "loop" ELSE "release")
  /\ local' = [local EXCEPT ![p] = [Fresh EXCEPT !.jobs = local[p].jobs + 1]]
  /\ UNCHANGED <<asked, lock, repo, faults, foreign>>

Ended(p) == Goto(p, "off") /\ local' = [local EXCEPT ![p] = Fresh]

\* release_lock: only a lock of this pid, or an unreadable one.
Release(p) ==
  /\ pc[p] = "release"
  /\ lock' = IF lock = p THEN Null ELSE lock
  /\ Ended(p)
  /\ UNCHANGED <<disk, repo, faults, foreign>>

(***************************************************************************)
(* Kills, and exceptions inside the try of main.                           *)
(***************************************************************************)
Kill(p) ==
  /\ pc[p] # "off" /\ Fault
  /\ Ended(p)
  /\ UNCHANGED <<disk, lock, repo, foreign>>

Raise(p) ==
  /\ pc[p] \in {"execute", "check", "commit", "tag"} /\ Fault
  /\ Goto(p, "release")
  /\ local' = [local EXCEPT ![p] = Fresh]
  /\ UNCHANGED <<disk, lock, repo, foreign>>

\* A process that is no daemon gets the pid that a dead one left in the
\* pidfile.  With a daemon at work, which replaces that pid, or with another
\* pid it would make no difference.
PidTaken(p) ==
  /\ lock = p /\ p \notin foreign /\ \A q \in Pids : pc[q] = "off"
  /\ foreign' = foreign \cup {p}
  /\ UNCHANGED <<disk, lock, proc, repo, faults>>

\* It ends, which it need not.
PidFreed(p) ==
  /\ p \in foreign
  /\ foreign' = foreign \ {p}
  /\ UNCHANGED <<disk, lock, proc, repo, faults>>

Step(p) ==
  \/ Take(p) \/ RecoverWrite(p) \/ Unlink(p) \/ RecoverEnds(p)
  \/ Claim(p) \/ Leave(p) \/ Read(p)
  \/ ExecutePasses(p) \/ ExecuteFails(p)
  \/ CheckRefuses(p) \/ CheckPasses(p) \/ Commit(p) \/ Tag(p) \/ Complete(p) \/ Release(p)

Next ==
  \/ \E t \in Tasks : Enqueue(t) \/ Fill(t)
  \/ \E p \in Pids : Start(p) \/ Step(p) \/ CommandFails(p) \/ Kill(p) \/ Raise(p)
  \/ \E p \in Pids : PidTaken(p) \/ PidFreed(p)

Spec == Init /\ [][Next]_vars

\* A running daemon goes on, and the operator starts one again and again.
FairSpec ==
  /\ Spec
  /\ \A p \in Pids : WF_vars(Step(p))
  /\ WF_vars(\E p \in Pids : Start(p))
=============================================================================
