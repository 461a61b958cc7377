----------------------- MODULE TaskQueueDaemonProofs -----------------------
(***************************************************************************)
(* For any number of daemons, tasks, kills and failures: the types of the  *)
(* state and, when no two daemons are started at the same moment, that the *)
(* lock makes the queue one daemon's, that no task is lost, what the       *)
(* commits and tags of the sandbox say about done/, and what a task costs. *)
(***************************************************************************)
EXTENDS TaskQueueDaemonProperties, TLAPS

QueueType == [Buckets -> [Tasks -> File \cup {NoFile}]]

\* The steps that have a task at hand.
Busy(c) == c \in {"unlink", "read", "execute", "check", "commit", "tag", "complete"}

\* A rename keeps the directories directories of files.
LEMMA MovedType ==
  ASSUME NEW t \in Tasks, NEW from \in Buckets, NEW to \in Buckets, queue \in QueueType
  PROVE  Moved(from, to, t) \in QueueType
<1>1. queue[from][t] \in File \cup {NoFile}
  BY DEF QueueType
<1>2. [queue EXCEPT ![to][t] = queue[from][t]] \in QueueType
  BY <1>1 DEF QueueType
<1>. QED
  BY <1>2 DEF Moved, QueueType

\* Where a file is after a rename.
LEMMA MovedFiles ==
  ASSUME NEW t \in Tasks, NEW from \in Buckets, NEW to \in Buckets, from # to, queue \in QueueType
  PROVE  /\ Moved(from, to, t)[from][t] = NoFile
         /\ Moved(from, to, t)[to][t] = queue[from][t]
         /\ \A b \in Buckets, u \in Tasks :
              (u # t \/ b \notin {from, to}) => Moved(from, to, t)[b][u] = queue[b][u]
BY DEF Moved, QueueType

\* What the recovery writes is a file.
LEMMA RecoveredType ==
  ASSUME NEW f \in File \cup {NoFile} PROVE Recovered(f) \in File /\ Recovered(f) # NoFile
BY DEF Recovered, File, NoFile

\* A process that goes to step c with local variables l.
LEMMA ProcType ==
  ASSUME TypeOK, NEW p \in Pids, NEW c \in PCs, NEW l \in Locals, Busy(c) => l.task \in Tasks,
         pc' = [pc EXCEPT ![p] = c], local' = [local EXCEPT ![p] = l]
  PROVE  /\ pc' \in [Pids -> PCs] /\ local' \in [Pids -> Locals]
         /\ \A q \in Pids : Busy(pc'[q]) => local'[q].task \in Tasks
<1>1. pc' \in [Pids -> PCs] /\ local' \in [Pids -> Locals]
  BY DEF TypeOK
<1>2. \A q \in Pids : IF q = p THEN pc'[q] = c /\ local'[q] = l ELSE pc'[q] = pc[q] /\ local'[q] = local[q]
  BY DEF TypeOK
<1>3. \A q \in Pids : Busy(pc[q]) => local[q].task \in Tasks
  BY DEF TypeOK, Busy
<1>. QED
  BY <1>1, <1>2, <1>3

\* A step that touches no directory.
LEMMA OffDiskType ==
  ASSUME TypeOK, NEW p \in Pids, NEW c \in PCs, NEW l \in Locals, Busy(c) => l.task \in Tasks,
         pc' = [pc EXCEPT ![p] = c], local' = [local EXCEPT ![p] = l],
         UNCHANGED <<disk, foreign>>, lock' \in Pids \cup {Null}, edited' \subseteq Tasks, tagged' \subseteq Tasks,
         commits' \in [Tasks -> Nat], calls' \in [Tasks -> Nat], faults' \in Nat
  PROVE  TypeOK'
BY ProcType DEF TypeOK, Busy, disk

LEMMA TypeInit == Init => TypeOK
BY NullAssumption, BoundAssumption DEF Init, TypeOK, Fresh, Locals, PCs, Buckets, File, NoFile

LEMMA TypeStep == TypeOK /\ [Next]_vars => TypeOK'
<1>. SUFFICES ASSUME TypeOK, [Next]_vars PROVE TypeOK'
  OBVIOUS
<1>. USE NullAssumption
<1>1. ASSUME NEW t \in Tasks, Enqueue(t) PROVE TypeOK'
  <2>1. [body |-> "torn", tries |-> 0] \in File /\ "pending" \in Buckets
    BY DEF File, Buckets
  <2>2. queue' \in QueueType
    BY <1>1, <2>1 DEF Enqueue, TypeOK, QueueType
  <2>3. \A u \in Tasks : filling'[u] # Null => queue'[filling'[u]][u] # NoFile
    BY <1>1, <2>1 DEF Enqueue, TypeOK, NoFile
  <2>4. filling' \in [Tasks -> Buckets \cup {Null}] /\ asked' \in [Tasks -> Nat]
    BY <1>1, <2>1 DEF Enqueue, TypeOK
  <2>. QED
    BY <1>1, <2>2, <2>3, <2>4 DEF Enqueue, TypeOK, QueueType, proc, repo
<1>2. ASSUME NEW t \in Tasks, Fill(t) PROVE TypeOK'
  <2>1. PICK f \in File : queue' = [queue EXCEPT ![filling[t]][t] = f]
    <3>. DEFINE f == [body |-> IF queue[filling[t]][t].body = "whole" THEN "torn" ELSE "whole", tries |-> 0]
    <3>1. f \in File
      BY DEF File
    <3>2. queue' = [queue EXCEPT ![filling[t]][t] = f]
      BY <1>2 DEF Fill
    <3>. QED
      BY <3>1, <3>2
  <2>2. filling[t] \in Buckets
    BY <1>2 DEF Fill, TypeOK
  <2>3. queue' \in QueueType
    BY <2>1, <2>2 DEF TypeOK, QueueType
  <2>4. \A u \in Tasks : filling'[u] # Null => queue'[filling'[u]][u] # NoFile
    BY <1>2, <2>1, <2>2 DEF Fill, TypeOK, File, NoFile
  <2>5. filling' \in [Tasks -> Buckets \cup {Null}]
    BY <1>2 DEF Fill, TypeOK
  <2>. QED
    BY <1>2, <2>3, <2>4, <2>5 DEF Fill, TypeOK, QueueType, proc, repo
<1>3. ASSUME NEW p \in Pids, Start(p) PROVE TypeOK'
  BY <1>3 DEF Start, Goto, TypeOK, PCs, disk, repo
<1>. /\ Fresh \in Locals
     /\ \A c \in {"loop", "recover", "release", "off"} : ~Busy(c)
     /\ {"off", "take", "recover", "unlink", "loop", "read", "execute", "check", "commit", "tag", "complete",
         "release"} = PCs
  BY DEF Fresh, Locals, Busy, PCs
<1>4. ASSUME NEW p \in Pids, Take(p) PROVE TypeOK'
  <2>1. local[p] \in Locals /\ In("running") \in SUBSET Tasks
    BY DEF TypeOK, In
  <2>2. [local[p] EXCEPT !.todo = In("running")] \in Locals
    BY <2>1 DEF Locals
  <2>3. local' = [local EXCEPT ![p] = [local[p] EXCEPT !.todo = In("running")]]
    BY <1>4 DEF Take
  <2>. QED
    BY <1>4, <2>2, <2>3, OffDiskType DEF Take, Goto, TypeOK, disk, repo
<1>5. ASSUME NEW p \in Pids, RecoverWrite(p) PROVE TypeOK'
  <2>1. PICK t \in Tasks, f \in File, b \in Buckets :
          /\ queue' = [queue EXCEPT ![b][t] = f] /\ f # NoFile
          /\ local' = [local EXCEPT ![p].task = t, ![p].todo = @ \ {t}]
    <3>1. PICK t \in Tasks :
            /\ queue' = [queue EXCEPT ![Target(Recovered(queue["running"][t]))][t] = Recovered(queue["running"][t])]
            /\ local' = [local EXCEPT ![p].task = t, ![p].todo = @ \ {t}]
      BY <1>5 DEF RecoverWrite
    <3>2. queue["running"][t] \in File \cup {NoFile}
      BY DEF TypeOK, Buckets
    <3>. QED
      BY <3>1, <3>2, RecoveredType DEF Target, Buckets
  <2>2. queue' \in QueueType
    BY <2>1 DEF TypeOK, QueueType
  <2>3. \A u \in Tasks : filling'[u] # Null => queue'[filling'[u]][u] # NoFile
    BY <1>5, <2>1 DEF RecoverWrite, TypeOK
  <2>. DEFINE l == [local[p] EXCEPT !.task = t, !.todo = @ \ {t}]
  <2>4. l \in Locals /\ l.task \in Tasks
    <3>1. local[p] \in Locals
      BY DEF TypeOK
    <3>. QED
      BY <3>1 DEF Locals
  <2>5. local' = [local EXCEPT ![p] = l] /\ pc' = [pc EXCEPT ![p] = "unlink"]
    BY <1>5, <2>1 DEF RecoverWrite, Goto
  <2>. HIDE DEF l
  <2>. QED
    BY <1>5, <2>2, <2>3, <2>4, <2>5, ProcType DEF RecoverWrite, TypeOK, QueueType, repo, Busy
<1>6. ASSUME NEW p \in Pids, Unlink(p) PROVE TypeOK'
  <2>. DEFINE t == local[p].task
  <2>1. t \in Tasks
    BY <1>6 DEF Unlink, TypeOK
  <2>2. /\ queue' = [queue EXCEPT !["running"][t] = NoFile]
        /\ filling' = [filling EXCEPT ![t] = IF @ = "running" THEN Null ELSE @]
        /\ local' = [local EXCEPT ![p].task = Null] /\ pc' = [pc EXCEPT ![p] = "recover"]
    BY <1>6 DEF Unlink, Goto
  <2>. HIDE DEF t
  <2>3. queue' \in QueueType
    BY <2>1, <2>2 DEF TypeOK, QueueType
  <2>4. \A u \in Tasks : filling'[u] # Null => queue'[filling'[u]][u] # NoFile
    BY <2>1, <2>2 DEF TypeOK
  <2>5. filling' \in [Tasks -> Buckets \cup {Null}]
    BY <2>1, <2>2 DEF TypeOK
  <2>6. [local[p] EXCEPT !.task = Null] \in Locals
    <3>1. local[p] \in Locals
      BY DEF TypeOK
    <3>. QED
      BY <3>1 DEF Locals
  <2>7. local' = [local EXCEPT ![p] = [local[p] EXCEPT !.task = Null]]
    BY <2>2
  <2>. QED
    BY <1>6, <2>2, <2>3, <2>4, <2>5, <2>6, <2>7, ProcType DEF Unlink, TypeOK, QueueType, repo, Busy
<1>7. ASSUME NEW p \in Pids, RecoverEnds(p) PROVE TypeOK'
  BY <1>7 DEF RecoverEnds, Goto, TypeOK, PCs, disk, repo
<1>8. ASSUME NEW p \in Pids, Claim(p) PROVE TypeOK'
  <2>1. PICK t \in Tasks :
          /\ t \in In("pending")
          /\ queue' = Moved("pending", "running", t)
          /\ filling' = Followed("pending", "running", t)
          /\ local' = [local EXCEPT ![p].task = t, ![p].attempt = 0, ![p].ok = FALSE]
    BY <1>8 DEF Claim, First
  <2>2. pc' = [pc EXCEPT ![p] = "read"]
    BY <1>8 DEF Claim, Goto
  <2>3. queue' \in QueueType /\ queue \in QueueType
    BY <2>1, MovedType DEF TypeOK, QueueType, Buckets
  <2>4. \A u \in Tasks : filling'[u] # Null => queue'[filling'[u]][u] # NoFile
    <3>1. "pending" \in Buckets /\ "running" \in Buckets
      BY DEF Buckets
    <3>2. queue'["running"][t] # NoFile
      BY <2>1, <2>3, <3>1, MovedFiles DEF In
    <3>3. \A b \in Buckets, u \in Tasks : (u # t \/ b \notin {"pending", "running"}) => queue'[b][u] = queue[b][u]
      BY <2>1, <2>3, <3>1, MovedFiles
    <3>. QED
      BY <2>1, <3>2, <3>3 DEF Followed, TypeOK
  <2>. DEFINE l == [local[p] EXCEPT !.task = t, !.attempt = 0, !.ok = FALSE]
  <2>5. l \in Locals /\ l.task \in Tasks
    <3>1. local[p] \in Locals
      BY DEF TypeOK
    <3>. QED
      BY <3>1 DEF Locals
  <2>6. filling' \in [Tasks -> Buckets \cup {Null}]
    BY <2>1 DEF Followed, TypeOK, Buckets
  <2>7. local' = [local EXCEPT ![p] = l]
    BY <2>1
  <2>. HIDE DEF l
  <2>. QED
    BY <1>8, <2>2, <2>3, <2>4, <2>5, <2>6, <2>7, ProcType DEF Claim, TypeOK, QueueType, repo, Busy
<1>9. ASSUME NEW p \in Pids, Complete(p) PROVE TypeOK'
  <2>. DEFINE t == local[p].task
              b == IF local[p].ok THEN "done" ELSE "failed"
  <2>1. t \in Tasks /\ local[p] \in Locals
    BY <1>9 DEF Complete, TypeOK
  <2>2. b \in Buckets /\ "running" \in Buckets /\ b # "running"
    BY DEF Buckets
  <2>3. \/ queue["running"][t] # NoFile /\ queue' = Moved("running", b, t) /\ filling' = Followed("running", b, t)
        \/ queue' = queue /\ filling' = filling
    BY <1>9 DEF Complete
  <2>. DEFINE l == [Fresh EXCEPT !.jobs = local[p].jobs + 1]
  <2>4. local' = [local EXCEPT ![p] = l]
    BY <1>9 DEF Complete
  <2>5. PICK next \in {"loop", "release"} : pc' = [pc EXCEPT ![p] = next]
    BY <1>9 DEF Complete, Goto
  <2>6. l \in Locals
    <3>1. local[p].jobs + 1 \in Nat
      BY <2>1 DEF Locals
    <3>. QED
      BY <3>1 DEF Locals, Fresh
  <2>. HIDE DEF t, b, l
  <2>7. queue' \in QueueType /\ queue \in QueueType
    BY <2>1, <2>2, <2>3, MovedType DEF TypeOK, QueueType
  <2>8. \A u \in Tasks : filling'[u] # Null => queue'[filling'[u]][u] # NoFile
    <3>1. CASE queue["running"][t] # NoFile /\ queue' = Moved("running", b, t) /\ filling' = Followed("running", b, t)
      <4>1. queue'[b][t] # NoFile
        BY <2>1, <2>2, <2>7, <3>1, MovedFiles
      <4>2. \A c \in Buckets, u \in Tasks : (u # t \/ c \notin {"running", b}) => queue'[c][u] = queue[c][u]
        BY <2>1, <2>2, <2>7, <3>1, MovedFiles
      <4>. QED
        BY <2>1, <2>2, <3>1, <4>1, <4>2 DEF Followed, TypeOK
    <3>. QED
      BY <2>3, <3>1 DEF TypeOK
  <2>9. filling' \in [Tasks -> Buckets \cup {Null}]
    BY <2>2, <2>3 DEF Followed, TypeOK
  <2>10. /\ pc' \in [Pids -> PCs] /\ local' \in [Pids -> Locals]
         /\ \A q \in Pids : Busy(pc'[q]) => local'[q].task \in Tasks
    BY <2>4, <2>5, <2>6, ProcType
  <2>. QED
    BY <1>9, <2>7, <2>8, <2>9, <2>10 DEF Complete, TypeOK, QueueType, repo, Busy
<1>10. ASSUME NEW p \in Pids, Leave(p) PROVE TypeOK'
  BY <1>10, OffDiskType DEF Leave, Goto, TypeOK, disk, repo
<1>11. ASSUME NEW p \in Pids, Read(p) PROVE TypeOK'
  <2>1. local[p] \in Locals /\ local' = [local EXCEPT ![p] = local[p]]
    BY <1>11 DEF Read, TypeOK
  <2>2. local[p].task \in Tasks
    BY <1>11 DEF Read, TypeOK
  <2>. QED
    BY <1>11, <2>1, <2>2, OffDiskType DEF Read, Goto, TypeOK, repo
<1>12. ASSUME NEW p \in Pids, ExecutePasses(p) PROVE TypeOK'
  <2>1. local[p] \in Locals /\ local' = [local EXCEPT ![p] = local[p]]
    BY <1>12 DEF ExecutePasses, TypeOK
  <2>2. local[p].task \in Tasks
    BY <1>12 DEF ExecutePasses, TypeOK
  <2>3. calls' \in [Tasks -> Nat] /\ edited' \subseteq Tasks
    BY <1>12, <2>2 DEF ExecutePasses, Calls, TypeOK
  <2>. QED
    BY <1>12, <2>1, <2>2, <2>3, OffDiskType DEF ExecutePasses, Goto, TypeOK, repo
<1>13. ASSUME NEW p \in Pids, CheckRefuses(p) \/ CheckPasses(p) PROVE TypeOK'
  <2>1. local[p] \in Locals /\ local' = [local EXCEPT ![p] = local[p]]
    BY <1>13 DEF CheckRefuses, CheckPasses, TypeOK
  <2>2. local[p].task \in Tasks
    BY <1>13 DEF CheckRefuses, CheckPasses, TypeOK
  <2>3. PICK next \in {"commit", "complete"} : pc' = [pc EXCEPT ![p] = next]
    BY <1>13 DEF CheckRefuses, CheckPasses, Goto
  <2>4. /\ UNCHANGED <<disk, foreign>> /\ lock' \in Pids \cup {Null} /\ tagged' \subseteq Tasks
        /\ edited' \subseteq Tasks /\ commits' \in [Tasks -> Nat] /\ calls' \in [Tasks -> Nat]
        /\ faults' \in Nat /\ next \in PCs
    BY <1>13 DEF CheckRefuses, CheckPasses, TypeOK, repo
  <2>. QED
    BY <2>1, <2>2, <2>3, <2>4, OffDiskType
<1>14. ASSUME NEW p \in Pids, Commit(p) PROVE TypeOK'
  <2>1. local[p] \in Locals /\ local' = [local EXCEPT ![p] = local[p]]
    BY <1>14 DEF Commit, TypeOK
  <2>2. local[p].task \in Tasks
    BY <1>14 DEF Commit, TypeOK
  <2>3. commits' \in [Tasks -> Nat] /\ edited' \subseteq Tasks
    BY <1>14, <2>2 DEF Commit, TypeOK
  <2>4. PICK next \in {"tag", "complete"} : pc' = [pc EXCEPT ![p] = next]
    BY <1>14 DEF Commit, Goto
  <2>5. /\ UNCHANGED <<disk, foreign>> /\ lock' \in Pids \cup {Null} /\ tagged' \subseteq Tasks
        /\ calls' \in [Tasks -> Nat] /\ faults' \in Nat /\ next \in PCs
    BY <1>14 DEF Commit, TypeOK
  <2>. QED
    BY <2>1, <2>2, <2>3, <2>4, <2>5, OffDiskType
<1>15. ASSUME NEW p \in Pids, CommandFails(p) PROVE TypeOK'
  <2>1. local[p] \in Locals /\ local' = [local EXCEPT ![p] = local[p]]
    BY <1>15 DEF CommandFails, TypeOK
  <2>2. local[p].task \in Tasks
    BY <1>15 DEF CommandFails, TypeOK
  <2>3. faults' \in Nat
    BY <1>15, <2>2 DEF CommandFails, Fault, TypeOK
  <2>. QED
    BY <1>15, <2>1, <2>2, <2>3, OffDiskType DEF CommandFails, Goto, TypeOK, repo
<1>16. ASSUME NEW p \in Pids, ExecuteFails(p) PROVE TypeOK'
  <2>1. local[p] \in Locals /\ local[p].task \in Tasks
    BY <1>16 DEF ExecuteFails, TypeOK
  <2>2. calls' \in [Tasks -> Nat] /\ edited' \subseteq Tasks
    BY <1>16, <2>1 DEF ExecuteFails, Calls, TypeOK
  <2>3. CASE pc' = pc /\ local' = [local EXCEPT ![p].attempt = @ + 1]
    <3>. DEFINE l == [local[p] EXCEPT !.attempt = @ + 1]
    <3>1. l \in Locals /\ l.task \in Tasks
      BY <2>1 DEF Locals
    <3>2. local' = [local EXCEPT ![p] = l] /\ pc' = [pc EXCEPT ![p] = "execute"]
      BY <1>16, <2>3 DEF ExecuteFails, TypeOK
    <3>. HIDE DEF l
    <3>. QED
      BY <1>16, <2>2, <3>1, <3>2, OffDiskType DEF ExecuteFails, TypeOK
  <2>4. CASE Goto(p, "complete") /\ UNCHANGED local
    <3>1. local' = [local EXCEPT ![p] = local[p]]
      BY <2>4 DEF TypeOK
    <3>. QED
      BY <1>16, <2>1, <2>2, <2>4, <3>1, OffDiskType DEF ExecuteFails, Goto, TypeOK
  <2>. QED
    BY <1>16, <2>3, <2>4 DEF ExecuteFails
<1>17. ASSUME NEW p \in Pids, Tag(p) PROVE TypeOK'
  <2>. DEFINE l == [local[p] EXCEPT !.ok = local[p].task \notin tagged]
  <2>1. local[p] \in Locals /\ local[p].task \in Tasks
    BY <1>17 DEF Tag, TypeOK
  <2>2. l \in Locals /\ l.task \in Tasks
    BY <2>1 DEF Locals
  <2>3. local' = [local EXCEPT ![p] = l]
    BY <1>17 DEF Tag
  <2>. HIDE DEF l
  <2>4. tagged' \subseteq Tasks
    BY <1>17, <2>1 DEF Tag, TypeOK
  <2>. QED
    BY <1>17, <2>1, <2>2, <2>3, <2>4, OffDiskType DEF Tag, Goto, TypeOK, repo
<1>18. ASSUME NEW p \in Pids, Release(p) PROVE TypeOK'
  BY <1>18, OffDiskType DEF Release, Ended, Goto, TypeOK, disk, repo
<1>19. ASSUME NEW p \in Pids, Kill(p) PROVE TypeOK'
  BY <1>19, OffDiskType DEF Kill, Ended, Fault, Goto, TypeOK, disk, repo
<1>20. ASSUME NEW p \in Pids, Raise(p) PROVE TypeOK'
  BY <1>20, OffDiskType DEF Raise, Fault, Goto, TypeOK, disk, repo
<1>21. ASSUME NEW p \in Pids, PidTaken(p) \/ PidFreed(p) PROVE TypeOK'
  BY <1>21 DEF PidTaken, PidFreed, disk, proc, repo, TypeOK
<1>22. CASE UNCHANGED vars
  BY <1>22 DEF vars, disk, proc, repo, TypeOK
<1>. QED
  BY <1>1, <1>2, <1>3, <1>4, <1>5, <1>6, <1>7, <1>8, <1>9, <1>10, <1>11, <1>12, <1>13, <1>14, <1>15, <1>16, <1>17, <1>18, <1>19, <1>20, <1>21, <1>22 DEF Next, Step

\* Files, lock, processes and repository hold values of their kinds, also
\* when daemons race for the lock.
THEOREM TypeCorrect == Spec => []TypeOK
BY TypeInit, TypeStep, PTL DEF Spec

(***************************************************************************)
(* The lock.  A daemon at work has its pid in the file, so one that starts *)
(* finds it there; and between the look at the file and the write nobody   *)
(* else starts.  Hence one process at most.                                *)
(***************************************************************************)
Alone ==
  /\ \A p, q \in Pids : pc[p] # "off" /\ pc[q] # "off" => p = q
  /\ \A p \in Pids : Working(p) => lock = p

LEMMA AloneInit == Init => Alone
BY DEF Init, Alone, Working

LEMMA AloneStep == ASSUME Racing = FALSE PROVE TypeOK /\ Alone /\ [Next]_vars => Alone'
<1>. SUFFICES ASSUME TypeOK, Alone, [Next]_vars PROVE Alone'
  OBVIOUS
<1>. USE DEF TypeOK, Alone, Working
<1>1. ASSUME UNCHANGED <<pc, lock>> PROVE Alone'
  BY <1>1
<1>2. ASSUME NEW p \in Pids, Start(p) PROVE Alone'
  <2>1. \A q \in Pids : pc[q] = "off"
    <3>1. ASSUME NEW q \in Pids, pc[q] # "off" PROVE FALSE
      <4>1. q # p /\ pc[q] # "take"
        BY <1>2, <3>1 DEF Start
      <4>2. lock = q
        BY <3>1, <4>1
      <4>. QED
        BY <1>2, <3>1, <4>1, <4>2 DEF Start, Alive
    <3>. QED
      BY <3>1
  <2>. QED
    BY <1>2, <2>1 DEF Start, Goto
<1>3. ASSUME NEW p \in Pids, Take(p) PROVE Alone'
  BY <1>3 DEF Take, Goto
<1>4. ASSUME NEW p \in Pids, NEW c, c # "take", Working(p), Goto(p, c), UNCHANGED lock PROVE Alone'
  BY <1>4 DEF Goto
<1>5. ASSUME NEW p \in Pids, pc[p] # "off", Ended(p) PROVE Alone'
  BY <1>5 DEF Ended, Goto
<1>6. ASSUME NEW p \in Pids, ExecuteFails(p) PROVE Alone'
  BY <1>6, <1>1, <1>4 DEF ExecuteFails
<1>7. ASSUME NEW p \in Pids, Step(p) PROVE Alone'
  <2>1. CASE RecoverWrite(p) \/ Unlink(p) \/ RecoverEnds(p) \/ Claim(p) \/ Leave(p)
    BY <2>1, <1>4 DEF RecoverWrite, Unlink, RecoverEnds, Claim, Leave
  <2>2. CASE Read(p)
    BY <2>2, <1>4 DEF Read
  <2>3. CASE ExecutePasses(p) \/ CheckRefuses(p) \/ CheckPasses(p) \/ Tag(p)
    BY <2>3, <1>4 DEF ExecutePasses, CheckRefuses, CheckPasses, Tag, repo
  <2>4. CASE Complete(p) \/ Commit(p)
    BY <2>4, <1>4 DEF Complete, Commit
  <2>. QED
    BY <1>3, <1>5, <1>6, <1>7, <2>1, <2>2, <2>3, <2>4 DEF Step, Release
<1>8. ASSUME NEW p \in Pids, CommandFails(p) \/ Raise(p) PROVE Alone'
  BY <1>4, <1>8 DEF CommandFails, Raise
<1>9. ASSUME NEW p \in Pids, Kill(p) PROVE Alone'
  BY <1>5, <1>9 DEF Kill
<1>10. ASSUME NEW t \in Tasks, Enqueue(t) \/ Fill(t) PROVE Alone'
  BY <1>1, <1>10 DEF Enqueue, Fill, proc
<1>11. ASSUME NEW p \in Pids, PidTaken(p) \/ PidFreed(p) PROVE Alone'
  BY <1>1, <1>11 DEF PidTaken, PidFreed, proc
<1>. QED
  BY <1>1, <1>2, <1>7, <1>8, <1>9, <1>10, <1>11 DEF Next, vars, proc

(***************************************************************************)
(* What is in running/: while it recovers, what a daemon has still to      *)
(* recover, and later its task.  A recovered file has its copy before the  *)
(* original goes, so that no task is lost.                                 *)
(***************************************************************************)
RunningOf(p) ==
  /\ pc[p] = "recover" => In("running") = local[p].todo
  /\ pc[p] = "unlink" =>
       /\ In("running") = local[p].todo \cup {local[p].task} /\ local[p].task \notin local[p].todo
       /\ \E b \in {"pending", "failed"} : queue[b][local[p].task] # NoFile
  /\ pc[p] \in Processing => In("running") = IF pc[p] = "loop" THEN {} ELSE {local[p].task}

Kept == NothingLost /\ \A p \in Pids : RunningOf(p)

\* The files of a directory after a step.
InNext(b) == {t \in Tasks : queue'[b][t] # NoFile}

LEMMA KeptInit == Init => Kept
BY DEF Init, Kept, NothingLost, RunningOf, Processing

\* One process acts, and the others are off: its own part of Kept is all.
LEMMA KeptByOne ==
  ASSUME TypeOK, Alone, Kept, NothingLost', NEW p \in Pids, pc[p] # "off", RunningOf(p)',
         \A q \in Pids : q # p => pc'[q] = pc[q]
  PROVE  Kept'
<1>1. \A q \in Pids : q # p => pc'[q] = "off"
  BY DEF Alone
<1>2. \A q \in Pids : q # p => RunningOf(q)'
  BY <1>1 DEF RunningOf, Processing
<1>. QED
  BY <1>2 DEF Kept

LEMMA KeptStep == TypeOK /\ Alone /\ Kept /\ [Next]_vars => Kept'
<1>. SUFFICES ASSUME TypeOK, Alone, Kept, [Next]_vars PROVE Kept'
  OBVIOUS
<1>1. ASSUME \A b \in Buckets, u \in Tasks : queue[b][u] # NoFile => queue'[b][u] # NoFile,
             InNext("running") = In("running"), UNCHANGED proc,
             \A u \in Tasks : asked'[u] > 0 => asked[u] > 0 \/ queue'["pending"][u] # NoFile
      PROVE  Kept'
  <2>1. NothingLost'
    BY <1>1 DEF Kept, NothingLost, Buckets
  <2>2. ASSUME NEW p \in Pids PROVE RunningOf(p)'
    <3>1. RunningOf(p)
      BY DEF Kept
    <3>2. pc[p] = "unlink" => local[p].task \in Tasks
      BY DEF TypeOK
    <3>3. pc[p] = "unlink" => \E b \in {"pending", "failed"} : queue'[b][local[p].task] # NoFile
      BY <1>1, <3>1, <3>2 DEF RunningOf, Buckets
    <3>. QED
      BY <1>1, <3>1, <3>3 DEF RunningOf, In, InNext, proc, Processing
  <2>. QED
    BY <2>1, <2>2 DEF Kept
<1>2. ASSUME NEW t \in Tasks, Enqueue(t) PROVE Kept'
  <2>1. \A b \in Buckets, u \in Tasks : queue'[b][u] = IF b = "pending" /\ u = t THEN [body |-> "torn", tries |-> 0] ELSE queue[b][u]
    BY <1>2 DEF Enqueue, TypeOK
  <2>2. InNext("running") = In("running")
    BY <2>1 DEF In, InNext, Buckets
  <2>3. \A u \in Tasks : asked'[u] > 0 => asked[u] > 0 \/ queue'["pending"][u] # NoFile
    BY <1>2, <2>1 DEF Enqueue, TypeOK, Buckets, NoFile
  <2>. QED
    BY <1>1, <1>2, <2>1, <2>2, <2>3 DEF Enqueue, NoFile
<1>3. ASSUME NEW t \in Tasks, Fill(t) PROVE Kept'
  <2>1. \A b \in Buckets, u \in Tasks : queue'[b][u] = NoFile <=> queue[b][u] = NoFile
    BY <1>3 DEF Fill, TypeOK, NoFile
  <2>2. InNext("running") = In("running")
    BY <2>1 DEF In, InNext, Buckets
  <2>. QED
    BY <1>1, <1>3, <2>1, <2>2 DEF Fill
<1>4. ASSUME NEW p \in Pids, Start(p) PROVE Kept'
  <2>1. NothingLost' /\ InNext("running") = In("running")
    BY <1>4 DEF Start, Kept, NothingLost, disk, In, InNext
  <2>2. RunningOf(p)'
    BY <1>4 DEF Start, Goto, TypeOK, RunningOf, Processing
  <2>3. ASSUME NEW q \in Pids, q # p PROVE RunningOf(q)'
    <3>1. pc'[q] = pc[q] /\ UNCHANGED <<queue, local>>
      BY <1>4, <2>3 DEF Start, Goto, TypeOK, disk
    <3>. QED
      BY <3>1 DEF Kept, RunningOf, In, Processing
  <2>. QED
    BY <2>1, <2>2, <2>3 DEF Kept
<1>5. ASSUME NEW p \in Pids, pc[p] # "off", UNCHANGED <<queue, asked>>, RunningOf(p)',
             \A q \in Pids : q # p => pc'[q] = pc[q]
      PROVE  Kept'
  BY <1>5, KeptByOne DEF Kept, NothingLost
<1>6. ASSUME NEW p \in Pids, Take(p) PROVE Kept'
  <2>1. RunningOf(p)'
    BY <1>6 DEF Take, Goto, TypeOK, RunningOf, In, disk, Processing
  <2>. QED
    BY <1>5, <1>6, <2>1 DEF Take, Goto, TypeOK, disk
<1>7. ASSUME NEW p \in Pids, RecoverWrite(p) PROVE Kept'
  <2>1. PICK t \in local[p].todo, f \in File, b \in {"pending", "failed"} :
          /\ queue' = [queue EXCEPT ![b][t] = f] /\ f # NoFile
          /\ local' = [local EXCEPT ![p].task = t, ![p].todo = @ \ {t}]
    <3>1. PICK t \in local[p].todo :
            /\ t \in Tasks
            /\ queue' = [queue EXCEPT ![Target(Recovered(queue["running"][t]))][t] = Recovered(queue["running"][t])]
            /\ local' = [local EXCEPT ![p].task = t, ![p].todo = @ \ {t}]
      BY <1>7 DEF RecoverWrite, First
    <3>2. queue["running"][t] \in File \cup {NoFile}
      BY <3>1 DEF TypeOK, Buckets
    <3>. QED
      BY <3>1, <3>2, RecoveredType DEF Target
  <2>2. local[p] \in Locals /\ t \in Tasks /\ pc[p] = "recover" /\ pc'[p] = "unlink"
    BY <1>7, <2>1 DEF RecoverWrite, Goto, TypeOK, Locals
  <2>3. local'[p].task = t /\ local'[p].todo = local[p].todo \ {t}
    BY <2>1, <2>2 DEF TypeOK, Locals
  <2>4. \A c \in Buckets, u \in Tasks : queue'[c][u] = IF c = b /\ u = t THEN f ELSE queue[c][u]
    BY <2>1, <2>2 DEF TypeOK
  <2>5. InNext("running") = In("running")
    BY <2>4 DEF In, InNext, Buckets
  <2>6. In("running") = local[p].todo
    BY <2>2 DEF Kept, RunningOf
  <2>7. queue'[b][t] # NoFile
    BY <2>1, <2>2, <2>4 DEF Buckets
  <2>8. RunningOf(p)'
    BY <2>1, <2>2, <2>3, <2>5, <2>6, <2>7 DEF RunningOf, In, InNext, Processing
  <2>9. NothingLost'
    BY <1>7, <2>1, <2>4 DEF RecoverWrite, Kept, NothingLost
  <2>. QED
    BY <1>7, <2>2, <2>8, <2>9, KeptByOne DEF RecoverWrite, Goto, TypeOK
<1>8. ASSUME NEW p \in Pids, Unlink(p) PROVE Kept'
  <2>. DEFINE t == local[p].task
  <2>1. /\ pc[p] = "unlink" /\ t \in Tasks /\ queue' = [queue EXCEPT !["running"][t] = NoFile]
        /\ pc'[p] = "recover" /\ local[p] \in Locals
    BY <1>8 DEF Unlink, Goto, TypeOK
  <2>2. local'[p].todo = local[p].todo
    BY <1>8, <2>1 DEF Unlink, TypeOK, Locals
  <2>3. /\ In("running") = local[p].todo \cup {t} /\ t \notin local[p].todo
        /\ \E b \in {"pending", "failed"} : queue[b][t] # NoFile
    BY <2>1 DEF Kept, RunningOf
  <2>. HIDE DEF t
  <2>4. \A c \in Buckets, u \in Tasks : queue'[c][u] = IF c = "running" /\ u = t THEN NoFile ELSE queue[c][u]
    BY <2>1 DEF TypeOK, Buckets
  <2>5. InNext("running") = local[p].todo
    BY <2>3, <2>4 DEF In, InNext, Buckets
  <2>6. RunningOf(p)'
    BY <2>1, <2>2, <2>5 DEF RunningOf, In, InNext, Processing
  <2>7. NothingLost'
    BY <1>8, <2>3, <2>4 DEF Unlink, Kept, NothingLost, Buckets
  <2>. QED
    BY <1>8, <2>1, <2>6, <2>7, KeptByOne DEF Unlink, Goto, TypeOK
<1>9. ASSUME NEW p \in Pids, Claim(p) PROVE Kept'
  <2>1. PICK t \in Tasks :
          /\ t \in In("pending") /\ queue' = Moved("pending", "running", t)
          /\ local' = [local EXCEPT ![p].task = t, ![p].attempt = 0, ![p].ok = FALSE]
    BY <1>9 DEF Claim, First
  <2>2. pc[p] = "loop" /\ pc'[p] = "read" /\ local[p] \in Locals
    BY <1>9 DEF Claim, Goto, TypeOK
  <2>3. local'[p].task = t
    BY <2>1, <2>2 DEF TypeOK, Locals
  <2>4. /\ queue'["running"][t] = queue["pending"][t]
        /\ \A b \in Buckets, u \in Tasks : (u # t \/ b \notin {"pending", "running"}) => queue'[b][u] = queue[b][u]
    <3>1. queue \in QueueType /\ "pending" \in Buckets /\ "running" \in Buckets
      BY DEF TypeOK, QueueType, Buckets
    <3>. QED
      BY <2>1, <3>1, MovedFiles
  <2>5. In("running") = {}
    BY <2>2 DEF Kept, RunningOf, Processing
  <2>6. queue'["running"][t] # NoFile
    BY <2>1, <2>4 DEF In
  <2>7. InNext("running") = {t}
    BY <2>4, <2>5, <2>6 DEF In, InNext, Buckets
  <2>8. RunningOf(p)'
    BY <2>2, <2>3, <2>7 DEF RunningOf, In, InNext, Processing
  <2>9. NothingLost'
    BY <1>9, <2>4, <2>6 DEF Claim, Kept, NothingLost, Buckets
  <2>. QED
    BY <1>9, <2>2, <2>8, <2>9, KeptByOne DEF Claim, Goto, TypeOK
<1>10. ASSUME NEW p \in Pids, Complete(p) PROVE Kept'
  <2>. DEFINE t == local[p].task
              b == IF local[p].ok THEN "done" ELSE "failed"
  <2>1. /\ pc[p] = "complete" /\ t \in Tasks /\ pc'[p] \in {"loop", "release"}
        /\ \A q \in Pids : q # p => pc'[q] = pc[q]
    BY <1>10 DEF Complete, Goto, TypeOK
  <2>2. In("running") = {t}
    BY <2>1 DEF Kept, RunningOf, Processing
  <2>3. queue' = Moved("running", b, t)
    BY <1>10, <2>2 DEF Complete, In
  <2>4. b \in {"done", "failed"}
    OBVIOUS
  <2>. HIDE DEF t, b
  <2>5. /\ queue'["running"][t] = NoFile /\ queue'[b][t] = queue["running"][t]
        /\ \A c \in Buckets, u \in Tasks : (u # t \/ c \notin {"running", b}) => queue'[c][u] = queue[c][u]
    <3>1. queue \in QueueType /\ "running" \in Buckets /\ b \in Buckets /\ b # "running"
      BY <2>4 DEF TypeOK, QueueType, Buckets
    <3>. QED
      BY <2>1, <2>3, <3>1, MovedFiles
  <2>6. InNext("running") = {}
    BY <2>2, <2>5 DEF In, InNext, Buckets
  <2>7. RunningOf(p)'
    BY <2>1, <2>6 DEF RunningOf, In, InNext, Processing
  <2>8. queue'[b][t] # NoFile /\ b \in Buckets
    BY <2>2, <2>4, <2>5 DEF In, Buckets
  <2>9. NothingLost'
    <3>1. ASSUME NEW u \in Tasks, asked'[u] > 0 PROVE \E c \in Buckets : queue'[c][u] # NoFile
      <4>1. PICK c \in Buckets : queue[c][u] # NoFile
        BY <1>10, <3>1 DEF Complete, Kept, NothingLost
      <4>2. CASE u = t
        BY <2>8, <4>2
      <4>3. CASE u # t
        BY <2>5, <4>1, <4>3
      <4>. QED
        BY <4>2, <4>3
    <3>. QED
      BY <3>1 DEF NothingLost
  <2>. QED
    BY <2>1, <2>7, <2>9, KeptByOne
<1>11. ASSUME NEW p \in Pids, RecoverEnds(p) \/ Leave(p) \/ Read(p) PROVE Kept'
  <2>1. RunningOf(p) /\ UNCHANGED <<queue, asked>> /\ pc[p] # "off"
    BY <1>11 DEF RecoverEnds, Leave, Read, disk, Kept
  <2>2. RunningOf(p)'
    BY <1>11, <2>1 DEF RecoverEnds, Leave, Read, Goto, RunningOf, In, Processing, TypeOK
  <2>3. \A q \in Pids : q # p => pc'[q] = pc[q]
    BY <1>11 DEF RecoverEnds, Leave, Read, Goto, TypeOK
  <2>. QED
    BY <1>5, <2>1, <2>2, <2>3
<1>12. ASSUME NEW p \in Pids, NEW c, c \in {"execute", "check", "commit", "tag", "complete", "release", "off"},
              pc[p] # "off", Goto(p, c), UNCHANGED <<queue, asked>>,
              c \in {"release", "off"} \/ (pc[p] \in {"execute", "check", "commit", "tag"} /\ local'[p].task = local[p].task)
       PROVE  Kept'
  <2>1. pc'[p] = c /\ \A q \in Pids : q # p => pc'[q] = pc[q]
    BY <1>12 DEF Goto, TypeOK
  <2>2. RunningOf(p)
    BY DEF Kept
  <2>3. RunningOf(p)'
    BY <1>12, <2>1, <2>2 DEF RunningOf, In, Processing
  <2>. QED
    BY <1>5, <1>12, <2>1, <2>3
<1>13. ASSUME NEW p \in Pids, ExecutePasses(p) \/ CheckRefuses(p) \/ CheckPasses(p) \/ CommandFails(p) PROVE Kept'
  BY <1>12, <1>13 DEF ExecutePasses, CheckRefuses, CheckPasses, CommandFails, disk
<1>14. ASSUME NEW p \in Pids, ExecuteFails(p) PROVE Kept'
  <2>1. local'[p].task = local[p].task /\ local[p] \in Locals
    BY <1>14 DEF ExecuteFails, TypeOK, Locals
  <2>2. Goto(p, "execute") \/ Goto(p, "complete")
    BY <1>14 DEF ExecuteFails, Goto, TypeOK
  <2>. QED
    BY <1>12, <1>14, <2>1, <2>2 DEF ExecuteFails, disk
<1>15. ASSUME NEW p \in Pids, Tag(p) PROVE Kept'
  <2>1. local'[p].task = local[p].task
    BY <1>15 DEF Tag, TypeOK, Locals
  <2>. QED
    BY <1>12, <1>15, <2>1 DEF Tag, disk
<1>16. ASSUME NEW p \in Pids, Release(p) \/ Kill(p) \/ Raise(p) PROVE Kept'
  BY <1>12, <1>16 DEF Release, Kill, Raise, Ended, disk
<1>17. ASSUME NEW p \in Pids, Commit(p) PROVE Kept'
  BY <1>12, <1>17 DEF Commit, disk
<1>18. ASSUME NEW p \in Pids, PidTaken(p) \/ PidFreed(p) PROVE Kept'
  BY <1>1, <1>18 DEF PidTaken, PidFreed, disk, proc, In, InNext
<1>19. CASE UNCHANGED vars
  BY <1>1, <1>19 DEF vars, disk, proc, In, InNext
<1>. QED
  BY <1>2, <1>3, <1>4, <1>6, <1>7, <1>8, <1>9, <1>10, <1>11, <1>13, <1>14, <1>15, <1>16, <1>17, <1>18, <1>19 DEF Next, Step

\* With daemons that do not race for the lock, at most one works on the queue,
\* running/ holds its task alone, and every file is where its kind belongs.
THEOREM Owned == Racing = FALSE /\ Spec => []QueueOwned
<1>1. SUFFICES ASSUME Racing = FALSE PROVE Spec => []QueueOwned
  OBVIOUS
<1>2. Init => TypeOK /\ Alone /\ Kept
  BY TypeInit, AloneInit, KeptInit
<1>3. TypeOK /\ Alone /\ Kept /\ [Next]_vars => (TypeOK /\ Alone /\ Kept)'
  BY <1>1, TypeStep, AloneStep, KeptStep
<1>4. TypeOK /\ Alone /\ Kept => QueueOwned
  BY DEF Alone, Kept, RunningOf, QueueOwned, OneDaemon, RunningIsCurrent, Working
<1>. QED
  BY <1>2, <1>3, <1>4, PTL DEF Spec

\* A task that was enqueued is never lost, over any number of kills in the
\* middle of a recovery.
THEOREM TasksAreKept == Racing = FALSE /\ Spec => []NothingLost
<1>1. SUFFICES ASSUME Racing = FALSE PROVE Spec => []NothingLost
  OBVIOUS
<1>2. Init => TypeOK /\ Alone /\ Kept
  BY TypeInit, AloneInit, KeptInit
<1>3. TypeOK /\ Alone /\ Kept /\ [Next]_vars => (TypeOK /\ Alone /\ Kept)'
  BY <1>1, TypeStep, AloneStep, KeptStep
<1>4. TypeOK /\ Alone /\ Kept => NothingLost
  BY DEF Kept
<1>. QED
  BY <1>2, <1>3, <1>4, PTL DEF Spec

(***************************************************************************)
(* Commits and tags.  A commit that is not tagged yet is either the one a  *)
(* daemon is about to tag, or one of at most as many as there were faults. *)
(***************************************************************************)
Tagging(t) == \E p \in Pids : pc[p] = "tag" /\ local[p].task = t

Committed ==
  /\ \A t \in Tasks : queue["done"][t] # NoFile => t \in tagged
  /\ \A t \in Tasks : t \in tagged \/ Tagging(t) => commits[t] > 0
  /\ \A t \in Tasks : commits[t] <= 1 + faults
  /\ \A t \in Tasks : t \in tagged \/ Tagging(t) \/ commits[t] <= faults
  /\ \A p \in Pids : local[p].ok = TRUE => pc[p] = "complete" /\ local[p].task \in tagged

\* What the check of the tag saw still holds when the commit is made: only the
\* daemon that is alone could have set the tag meanwhile.
Untagged == \A p \in Pids : pc[p] = "commit" => local[p].task \notin tagged

LEMMA UntaggedStep == TypeOK /\ Alone /\ Untagged /\ [Next]_vars => Untagged'
<1>. SUFFICES ASSUME TypeOK, Alone, Untagged, [Next]_vars PROVE Untagged'
  OBVIOUS
<1>1. ASSUME UNCHANGED tagged, NEW p \in Pids, pc'[p] # "commit",
             \A q \in Pids : q # p => pc'[q] = pc[q] /\ local'[q] = local[q]
      PROVE  Untagged'
  BY <1>1 DEF Untagged
<1>2. ASSUME NEW p \in Pids, NEW c, c # "commit", Goto(p, c), UNCHANGED tagged,
             \A q \in Pids : q # p => local'[q] = local[q]
      PROVE  Untagged'
  BY <1>1, <1>2 DEF Goto, TypeOK
<1>3. ASSUME UNCHANGED <<proc, tagged>> PROVE Untagged'
  BY <1>3 DEF Untagged, proc
<1>4. ASSUME NEW p \in Pids, CheckPasses(p) PROVE Untagged'
  BY <1>4 DEF CheckPasses, Committable, Goto, TypeOK, Untagged, repo
<1>5. ASSUME NEW p \in Pids, Tag(p) PROVE Untagged'
  <2>1. \A q \in Pids : pc'[q] # "commit"
    BY <1>5 DEF Tag, Goto, TypeOK, Alone
  <2>. QED
    BY <2>1 DEF Untagged
<1>6. ASSUME NEW p \in Pids, Take(p) \/ RecoverWrite(p) \/ Unlink(p) \/ RecoverEnds(p) \/ Claim(p) PROVE Untagged'
  BY <1>2, <1>6 DEF Take, RecoverWrite, Unlink, RecoverEnds, Claim, TypeOK, repo
<1>7. ASSUME NEW p \in Pids, Start(p) \/ Leave(p) \/ Read(p) \/ Complete(p) \/ Release(p) PROVE Untagged'
  BY <1>2, <1>7 DEF Start, Leave, Read, Complete, Release, Ended, TypeOK, repo
<1>8. ASSUME NEW p \in Pids, ExecutePasses(p) \/ CheckRefuses(p) \/ Commit(p) PROVE Untagged'
  BY <1>2, <1>8 DEF ExecutePasses, CheckRefuses, Commit, repo
<1>9. ASSUME NEW p \in Pids, ExecuteFails(p) PROVE Untagged'
  <2>1. pc'[p] # "commit" /\ \A q \in Pids : q # p => pc'[q] = pc[q] /\ local'[q] = local[q]
    BY <1>9 DEF ExecuteFails, Goto, TypeOK
  <2>. QED
    BY <1>1, <1>9, <2>1 DEF ExecuteFails
<1>10. ASSUME NEW p \in Pids, CommandFails(p) \/ Kill(p) \/ Raise(p) PROVE Untagged'
  BY <1>2, <1>10 DEF CommandFails, Kill, Raise, Ended, TypeOK, repo
<1>11. ASSUME NEW t \in Tasks, Enqueue(t) \/ Fill(t) PROVE Untagged'
  BY <1>3, <1>11 DEF Enqueue, Fill, repo
<1>12. ASSUME NEW p \in Pids, PidTaken(p) \/ PidFreed(p) PROVE Untagged'
  BY <1>3, <1>12 DEF PidTaken, PidFreed, repo
<1>13. CASE UNCHANGED vars
  BY <1>3, <1>13 DEF vars, repo
<1>. QED
  BY <1>4, <1>5, <1>6, <1>7, <1>8, <1>9, <1>10, <1>11, <1>12, <1>13 DEF Next, Step

LEMMA CommittedInit == Init => Committed
BY BoundAssumption DEF Init, Committed, Fresh, Tagging, Buckets

LEMMA CommittedStep == TypeOK /\ Alone /\ Untagged /\ Committed /\ [Next]_vars => Committed'
<1>. SUFFICES ASSUME TypeOK, Alone, Untagged, Committed, [Next]_vars PROVE Committed'
  OBVIOUS
<1>0. faults \in Nat /\ commits \in [Tasks -> Nat] /\ commits' \in [Tasks -> Nat] /\ TypeOK'
  BY TypeStep DEF TypeOK
\* A step that leaves commits and tags alone, and after which no daemon is
\* about to tag that was not before.
<1>1. ASSUME UNCHANGED <<commits, tagged>>, faults' = faults \/ faults' = faults + 1,
             \A t \in Tasks : queue'["done"][t] # NoFile => queue["done"][t] # NoFile \/ t \in tagged,
             \A t \in Tasks : Tagging(t)' => Tagging(t),
             \A t \in Tasks : Tagging(t) => Tagging(t)' \/ faults' = faults + 1,
             \A p \in Pids : local'[p].ok = TRUE => local[p].ok = TRUE /\ pc'[p] = pc[p] /\ local'[p].task = local[p].task
      PROVE  Committed'
  BY <1>0, <1>1 DEF Committed
\* The same of a step of p that goes to another step than tag.
<1>2. ASSUME NEW p \in Pids, UNCHANGED <<commits, tagged>>, faults' = faults \/ faults' = faults + 1,
             \A t \in Tasks : queue'["done"][t] # NoFile => queue["done"][t] # NoFile \/ t \in tagged,
             \A q \in Pids : q # p => pc'[q] = pc[q] /\ local'[q] = local[q],
             pc'[p] # "tag", pc[p] # "tag" \/ faults' = faults + 1, local'[p].ok # TRUE
      PROVE  Committed'
  BY <1>1, <1>2 DEF Tagging
<1>3. ASSUME NEW t \in Tasks, Enqueue(t) \/ Fill(t) PROVE Committed'
  <2>1. \A u \in Tasks : queue'["done"][u] # NoFile => queue["done"][u] # NoFile
    BY <1>3 DEF Enqueue, Fill, TypeOK, Buckets
  <2>. QED
    BY <1>1, <1>3, <2>1 DEF Enqueue, Fill, proc, repo, Tagging
<1>4. ASSUME NEW p \in Pids, NEW c, c # "tag", pc[p] # "tag" \/ faults' = faults + 1,
             UNCHANGED <<queue, commits, tagged>>, faults' = faults \/ faults' = faults + 1, Goto(p, c),
             (local' = local /\ pc[p] # "complete") \/ local' = [local EXCEPT ![p] = Fresh]
      PROVE  Committed'
  <2>1. pc'[p] = c /\ \A q \in Pids : q # p => pc'[q] = pc[q] /\ local'[q] = local[q]
    BY <1>4 DEF Goto, TypeOK
  <2>2. local'[p] = Fresh \/ (local'[p] = local[p] /\ pc[p] # "complete")
    BY <1>4 DEF TypeOK
  <2>3. local'[p].ok # TRUE
    <3>1. local[p].ok = TRUE => pc[p] = "complete"
      BY DEF Committed
    <3>2. Fresh.ok # TRUE
      BY DEF Fresh
    <3>. QED
      BY <1>4, <2>2, <3>1, <3>2
  <2>. QED
    BY <1>2, <1>4, <2>1, <2>3
<1>5. ASSUME NEW p \in Pids, Start(p) \/ RecoverEnds(p) \/ Leave(p) PROVE Committed'
  BY <1>4, <1>5 DEF Start, RecoverEnds, Leave, disk, repo
<1>6. ASSUME NEW p \in Pids, Read(p) \/ CheckRefuses(p) \/ CheckPasses(p) PROVE Committed'
  BY <1>4, <1>6 DEF Read, CheckRefuses, CheckPasses, disk, repo
<1>7. ASSUME NEW p \in Pids, Release(p) \/ ExecutePasses(p) PROVE Committed'
  BY <1>4, <1>7 DEF Release, ExecutePasses, Ended, disk, repo
<1>8. ASSUME NEW p \in Pids, Kill(p) PROVE Committed'
  BY <1>4, <1>8 DEF Kill, Fault, Ended, disk, repo
<1>9. ASSUME NEW p \in Pids, CommandFails(p) \/ Raise(p) PROVE Committed'
  BY <1>4, <1>9 DEF CommandFails, Raise, Fault, disk, repo
<1>10. ASSUME NEW p \in Pids, ExecuteFails(p) PROVE Committed'
  <2>1. local[p] \in Locals /\ pc[p] = "execute" /\ local[p].ok # TRUE
    BY <1>10 DEF ExecuteFails, TypeOK, Committed
  <2>2. local'[p].ok = local[p].ok
    BY <1>10, <2>1 DEF ExecuteFails, TypeOK, Locals
  <2>3. pc'[p] # "tag" /\ \A q \in Pids : q # p => pc'[q] = pc[q] /\ local'[q] = local[q]
    BY <1>10, <2>1 DEF ExecuteFails, Goto, TypeOK
  <2>. QED
    BY <1>2, <1>10, <2>1, <2>2, <2>3 DEF ExecuteFails, disk
<1>11. ASSUME NEW p \in Pids, Take(p) PROVE Committed'
  <2>1. local[p] \in Locals /\ pc[p] = "take" /\ local[p].ok # TRUE
    BY <1>11 DEF Take, TypeOK, Committed
  <2>2. local'[p].ok = local[p].ok
    BY <1>11, <2>1 DEF Take, TypeOK, Locals
  <2>3. pc'[p] # "tag" /\ \A q \in Pids : q # p => pc'[q] = pc[q] /\ local'[q] = local[q]
    BY <1>11, <2>1 DEF Take, Goto, TypeOK
  <2>. QED
    BY <1>2, <1>11, <2>1, <2>2, <2>3 DEF Take, disk, repo
<1>12. ASSUME NEW p \in Pids, RecoverWrite(p) PROVE Committed'
  <2>1. PICK t \in Tasks :
          /\ queue' = [queue EXCEPT ![Target(Recovered(queue["running"][t]))][t] = Recovered(queue["running"][t])]
          /\ local' = [local EXCEPT ![p].task = t, ![p].todo = @ \ {t}]
    BY <1>12 DEF RecoverWrite
  <2>2. local[p] \in Locals /\ pc[p] = "recover" /\ local[p].ok # TRUE
    BY <1>12 DEF RecoverWrite, TypeOK, Committed
  <2>3. local'[p].ok = local[p].ok
    BY <2>1, <2>2 DEF TypeOK, Locals
  <2>4. pc'[p] # "tag" /\ \A q \in Pids : q # p => pc'[q] = pc[q] /\ local'[q] = local[q]
    BY <1>12, <2>1, <2>2 DEF RecoverWrite, Goto, TypeOK
  <2>5. \A u \in Tasks : queue'["done"][u] = queue["done"][u]
    BY <2>1 DEF Target, TypeOK, Buckets
  <2>. QED
    BY <1>2, <1>12, <2>2, <2>3, <2>4, <2>5 DEF RecoverWrite, repo
<1>13. ASSUME NEW p \in Pids, Unlink(p) PROVE Committed'
  <2>1. local[p] \in Locals /\ pc[p] = "unlink" /\ local[p].ok # TRUE
    BY <1>13 DEF Unlink, TypeOK, Committed
  <2>2. local'[p].ok = local[p].ok
    BY <1>13, <2>1 DEF Unlink, TypeOK, Locals
  <2>3. pc'[p] # "tag" /\ \A q \in Pids : q # p => pc'[q] = pc[q] /\ local'[q] = local[q]
    BY <1>13, <2>1 DEF Unlink, Goto, TypeOK
  <2>4. \A u \in Tasks : queue'["done"][u] = queue["done"][u]
    BY <1>13 DEF Unlink, TypeOK, Buckets
  <2>. QED
    BY <1>2, <1>13, <2>1, <2>2, <2>3, <2>4 DEF Unlink, repo
<1>14. ASSUME NEW p \in Pids, Claim(p) PROVE Committed'
  <2>1. PICK t \in Tasks :
          /\ queue' = Moved("pending", "running", t)
          /\ local' = [local EXCEPT ![p].task = t, ![p].attempt = 0, ![p].ok = FALSE]
    BY <1>14 DEF Claim
  <2>2. local[p] \in Locals /\ pc[p] = "loop"
    BY <1>14 DEF Claim, TypeOK
  <2>3. local'[p].ok # TRUE
    BY <2>1, <2>2 DEF TypeOK, Locals
  <2>4. pc'[p] # "tag" /\ \A q \in Pids : q # p => pc'[q] = pc[q] /\ local'[q] = local[q]
    BY <1>14, <2>1, <2>2 DEF Claim, Goto, TypeOK
  <2>5. \A u \in Tasks : queue'["done"][u] = queue["done"][u]
    BY <2>1 DEF Moved, TypeOK, Buckets
  <2>. QED
    BY <1>2, <1>14, <2>2, <2>3, <2>4, <2>5 DEF Claim, repo
<1>15. ASSUME NEW p \in Pids, Complete(p) PROVE Committed'
  <2>. DEFINE t == local[p].task
              b == IF local[p].ok THEN "done" ELSE "failed"
  <2>1. pc[p] = "complete" /\ t \in Tasks /\ (local[p].ok = TRUE => t \in tagged) /\ local[p].ok \in BOOLEAN
    BY <1>15 DEF Complete, TypeOK, Committed, Locals
  <2>2. local'[p].ok # TRUE
    <3>1. [Fresh EXCEPT !.jobs = local[p].jobs + 1].ok = Fresh.ok
      BY DEF Fresh
    <3>. QED
      BY <1>15, <3>1 DEF Complete, TypeOK, Fresh
  <2>3. pc'[p] # "tag" /\ \A q \in Pids : q # p => pc'[q] = pc[q] /\ local'[q] = local[q]
    BY <1>15 DEF Complete, Goto, TypeOK
  <2>4. queue' = Moved("running", b, t) \/ queue' = queue
    BY <1>15 DEF Complete
  <2>5. b = "failed" \/ (b = "done" /\ t \in tagged)
    BY <2>1
  <2>. HIDE DEF b, t
  <2>6. \A u \in Tasks : queue'["done"][u] # NoFile => queue["done"][u] # NoFile \/ u \in tagged
    BY <2>1, <2>4, <2>5 DEF Moved, TypeOK, Buckets
  <2>. QED
    BY <1>2, <1>15, <2>1, <2>2, <2>3, <2>6 DEF Complete, repo
<1>16. ASSUME NEW p \in Pids, Commit(p), local[p].task \notin edited PROVE Committed'
  <2>1. UNCHANGED <<queue, local, tagged, faults>> /\ Goto(p, "complete") /\ pc[p] = "commit"
    BY <1>16 DEF Commit, disk
  <2>2. commits' = commits
    BY <1>0, <1>16 DEF Commit
  <2>. QED
    BY <1>4, <2>1, <2>2
<1>17. ASSUME NEW p \in Pids, Commit(p), local[p].task \in edited PROVE Committed'
  <2>. DEFINE t == local[p].task
  <2>1. /\ pc[p] = "commit" /\ t \in Tasks /\ t \notin tagged
        /\ commits' = [commits EXCEPT ![t] = @ + 1] /\ UNCHANGED <<queue, local, tagged, faults>>
    BY <1>17 DEF Commit, Untagged, TypeOK, disk
  <2>2. pc'[p] = "tag" /\ \A q \in Pids : q # p => pc'[q] = pc[q]
    BY <1>17 DEF Commit, Goto, TypeOK
  <2>3. \A u \in Tasks : ~Tagging(u)
    BY <2>1 DEF Alone, Tagging
  <2>4. \A u \in Tasks : Tagging(u)' <=> u = t
    BY <2>1, <2>2 DEF Alone, Tagging
  <2>5. \A u \in Tasks : commits'[u] = IF u = t THEN commits[u] + 1 ELSE commits[u]
    BY <1>0, <2>1
  <2>. HIDE DEF t
  <2>6. \A u \in Tasks : commits'[u] <= 1 + faults /\ (u \in tagged \/ u = t => commits'[u] > 0)
    BY <1>0, <2>1, <2>3, <2>5 DEF Committed
  <2>7. \A u \in Tasks : u \in tagged \/ u = t \/ commits'[u] <= faults
    BY <2>3, <2>5 DEF Committed
  <2>8. \A q \in Pids : local[q].ok = TRUE => pc'[q] = "complete" /\ local[q].task \in tagged
    BY <2>1, <2>2 DEF Committed
  <2>. QED
    BY <2>1, <2>4, <2>6, <2>7, <2>8 DEF Committed
<1>18. ASSUME NEW p \in Pids, Tag(p) PROVE Committed'
  <2>. DEFINE t == local[p].task
  <2>1. /\ pc[p] = "tag" /\ t \in Tasks /\ tagged' = tagged \cup {t} /\ UNCHANGED <<queue, commits, faults>>
        /\ local[p] \in Locals
    BY <1>18 DEF Tag, TypeOK, disk
  <2>2. pc'[p] = "complete" /\ \A q \in Pids : q # p => pc'[q] = pc[q] /\ local'[q] = local[q]
    BY <1>18 DEF Tag, Goto, TypeOK
  <2>3. local'[p].task = t
    BY <1>18, <2>1 DEF Tag, TypeOK, Locals
  <2>4. Tagging(t) /\ \A u \in Tasks : Tagging(u) => u = t
    BY <2>1 DEF Alone, Tagging
  <2>5. \A u \in Tasks : ~Tagging(u)'
    BY <2>1, <2>2 DEF Alone, Tagging
  <2>. HIDE DEF t
  <2>6. \A u \in Tasks : (u \in tagged' => commits[u] > 0) /\ (u \in tagged' \/ commits[u] <= faults)
    BY <2>1, <2>4 DEF Committed
  <2>7. \A q \in Pids : local'[q].ok = TRUE => pc'[q] = "complete" /\ local'[q].task \in tagged'
    BY <2>1, <2>2, <2>3 DEF Committed
  <2>. QED
    BY <2>1, <2>5, <2>6, <2>7 DEF Committed
<1>19. ASSUME NEW p \in Pids, PidTaken(p) \/ PidFreed(p) PROVE Committed'
  BY <1>1, <1>19 DEF PidTaken, PidFreed, disk, proc, repo, Tagging
<1>20. CASE UNCHANGED vars
  BY <1>1, <1>20 DEF vars, disk, proc, repo, Tagging
<1>. QED
  BY <1>3, <1>5, <1>6, <1>7, <1>8, <1>9, <1>10, <1>11, <1>12, <1>13, <1>14, <1>15, <1>16, <1>17, <1>18, <1>19, <1>20 DEF Next, Step

\* done/ holds tasks with commit and tag, and a task is committed again only
\* after a kill, an exception or a failing command, for any number of them.
THEOREM CommitsAreSound == Racing = FALSE /\ Spec => []CommitsSound
<1>1. SUFFICES ASSUME Racing = FALSE PROVE Spec => []CommitsSound
  OBVIOUS
<1>2. Init => TypeOK /\ Alone /\ Untagged /\ Committed
  BY TypeInit, AloneInit, CommittedInit DEF Init, Untagged
<1>3. TypeOK /\ Alone /\ Untagged /\ Committed /\ [Next]_vars => (TypeOK /\ Alone /\ Untagged /\ Committed)'
  BY <1>1, TypeStep, AloneStep, UntaggedStep, CommittedStep
<1>4. TypeOK /\ Alone /\ Committed => CommitsSound
  BY DEF Committed, CommitsSound
<1>. QED
  BY <1>2, <1>3, <1>4, PTL DEF Spec

\* With daemons that do not race for the lock, no tag is taken away and no task
\* that has one is committed again: what the check saw of the tag still holds
\* at the commit.
THEOREM TagsStay == Racing = FALSE /\ Spec => TagsAreFinal
<1>1. SUFFICES ASSUME Racing = FALSE PROVE Spec => TagsAreFinal
  OBVIOUS
<1>. DEFINE A == \A t \in tagged : t \in tagged' /\ commits'[t] = commits[t]
<1>2. TypeOK /\ Untagged /\ [Next]_vars => [A]_vars
  <2>. SUFFICES ASSUME TypeOK, Untagged, Next PROVE A
    BY DEF TypeOK
  <2>1. ASSUME UNCHANGED commits, tagged \subseteq tagged' PROVE A
    BY <2>1
  <2>2. ASSUME NEW p \in Pids, Commit(p) PROVE A
    BY <2>2 DEF Commit, Untagged, TypeOK
  <2>3. ASSUME NEW p \in Pids, Tag(p) \/ ExecutePasses(p) \/ ExecuteFails(p) PROVE A
    BY <2>1, <2>3 DEF Tag, ExecutePasses, ExecuteFails
  <2>4. ASSUME NEW p \in Pids, Step(p) \/ Start(p) \/ CommandFails(p) \/ Kill(p) \/ Raise(p) PROVE A
    BY <2>1, <2>2, <2>3, <2>4 DEF Step, Take, RecoverWrite, Unlink, RecoverEnds, Claim, Leave, Read, CheckRefuses,
                                 CheckPasses, Complete, Release, Start, CommandFails, Kill, Raise, repo
  <2>5. ASSUME NEW t \in Tasks, Enqueue(t) \/ Fill(t) PROVE A
    BY <2>1, <2>5 DEF Enqueue, Fill, repo
  <2>6. ASSUME NEW p \in Pids, PidTaken(p) \/ PidFreed(p) PROVE A
    BY <2>1, <2>6 DEF PidTaken, PidFreed, repo
  <2>. QED
    BY <2>4, <2>5, <2>6 DEF Next
<1>3. Init => TypeOK /\ Alone /\ Untagged
  BY TypeInit, AloneInit DEF Init, Untagged
<1>4. TypeOK /\ Alone /\ Untagged /\ [Next]_vars => (TypeOK /\ Alone /\ Untagged)'
  BY <1>1, TypeStep, AloneStep, UntaggedStep
<1>. QED
  BY <1>2, <1>3, <1>4, PTL DEF Spec, TagsAreFinal

(***************************************************************************)
(* The calls of codex that a request can still cost.  A file that waits is *)
(* executed once and again after each recovery that remains to it; while a *)
(* file in running/ is processed, another request for the same task may    *)
(* wait, but once the process is gone its recovery replaces what waits.    *)
(***************************************************************************)
\* How often the file of t in b can be executed yet.
Runs(b, t) ==
  IF filling[t] = b THEN MaxRecovery + 1
  ELSE IF queue[b][t].body = "whole" /\ queue[b][t].tries <= MaxRecovery THEN MaxRecovery + 1 - queue[b][t].tries
  ELSE 0

\* After it was executed, or is recovered.
Rest(n) == IF n = 0 THEN 0 ELSE n - 1

\* Calls of n executions, and those that the requests for t allow.
Cost(n)    == n * (MaxFix + 1)
Allowed(t) == asked[t] * (MaxRecovery + 1) * (MaxFix + 1)

\* No file waits that was recovered too often.
Recoverable ==
  \A t \in Tasks, b \in {"pending", "running"} : queue[b][t].body = "whole" => queue[b][t].tries <= MaxRecovery

At(p, t, l) == pc[p] = l /\ local[p].task = t

Budget(t) ==
  LET waiting == calls[t] + Cost(Runs("pending", t))
      again   == Cost(Rest(Runs("running", t)))
  IN  /\ waiting <= Allowed(t)
      /\ calls[t] + again <= Allowed(t)
      /\ \A p \in Pids :
           /\ At(p, t, "read")    => /\ local[p].attempt = 0
                                     /\ waiting + Cost(Runs("running", t)) <= Allowed(t)
           /\ At(p, t, "execute") => /\ local[p].attempt <= MaxFix
                                     /\ waiting + (MaxFix + 1 - local[p].attempt) + again <= Allowed(t)
           /\ At(p, t, "check") \/ At(p, t, "commit") \/ At(p, t, "tag") \/ At(p, t, "complete") =>
                waiting + again <= Allowed(t)

Budgeted == Recoverable /\ \A t \in Tasks : Budget(t)

LEMMA CostFacts ==
  /\ Cost(0) = 0
  /\ \A n \in Nat : Cost(n) \in Nat /\ Cost(n + 1) = Cost(n) + (MaxFix + 1)
  /\ \A m, n \in Nat : m <= n => Cost(m) <= Cost(n)
<1>1. MaxFix + 1 \in Nat
  BY BoundAssumption
<1>2. ASSUME NEW m \in Nat, NEW n \in Nat, m <= n PROVE Cost(m) <= Cost(n)
  <2>1. PICK d \in Nat : n = m + d
    <3>1. n - m \in Nat /\ n = m + (n - m)
      BY <1>2
    <3>. QED
      BY <3>1
  <2>2. PICK k \in Nat : k = MaxFix + 1
    BY <1>1
  <2>3. (m + d) * k = m * k + d * k /\ d * k \in Nat /\ m * k \in Nat
    OBVIOUS
  <2>. QED
    BY <2>1, <2>2, <2>3 DEF Cost
<1>3. ASSUME NEW n \in Nat PROVE Cost(n) \in Nat /\ Cost(n + 1) = Cost(n) + (MaxFix + 1)
  <2>1. PICK k \in Nat : k = MaxFix + 1
    BY <1>1
  <2>2. n * k \in Nat /\ (n + 1) * k = n * k + k
    OBVIOUS
  <2>. QED
    BY <2>1, <2>2 DEF Cost
<1>4. Cost(0) = 0
  BY <1>1 DEF Cost
<1>. QED
  BY <1>2, <1>3, <1>4

LEMMA AllowedFacts ==
  ASSUME TypeOK, NEW t \in Tasks
  PROVE  /\ Allowed(t) \in Nat /\ asked[t] \in Nat
         /\ asked'[t] = asked[t] => Allowed(t)' = Allowed(t)
         /\ asked'[t] = asked[t] + 1 => Allowed(t)' = Allowed(t) + Cost(MaxRecovery + 1)
<1>1. asked[t] \in Nat /\ MaxRecovery \in Nat /\ MaxFix \in Nat
  BY BoundAssumption DEF TypeOK
<1>2. PICK a \in Nat, r \in Nat, k \in Nat : a = asked[t] /\ r = MaxRecovery + 1 /\ k = MaxFix + 1
  BY <1>1
<1>3. a * r * k \in Nat /\ (a + 1) * r * k = a * r * k + r * k
  <2>1. a * r \in Nat /\ (a + 1) * r = a * r + r
    OBVIOUS
  <2>2. PICK m \in Nat : m = a * r
    BY <2>1
  <2>3. m * k \in Nat /\ (m + r) * k = m * k + r * k
    OBVIOUS
  <2>. QED
    BY <2>1, <2>2, <2>3
<1>. QED
  BY <1>1, <1>2, <1>3 DEF Allowed, Cost

LEMMA RunsType ==
  ASSUME TypeOK, NEW t \in Tasks, NEW b \in Buckets
  PROVE  /\ Runs(b, t) \in 0..(MaxRecovery + 1) /\ Rest(Runs(b, t)) \in Nat
         /\ Runs(b, t) # 0 => Runs(b, t) = Rest(Runs(b, t)) + 1
<1>1. queue[b][t] \in File \cup {NoFile} /\ MaxRecovery \in Nat
  BY BoundAssumption DEF TypeOK
<1>2. queue[b][t].tries \in Nat
  BY <1>1 DEF File, NoFile
<1>3. Runs(b, t) \in 0..(MaxRecovery + 1)
  BY <1>1, <1>2 DEF Runs
<1>. QED
  BY <1>1, <1>3 DEF Rest

\* What an execution is worth.
LEMMA RunsCost ==
  ASSUME TypeOK, NEW t \in Tasks, NEW b \in Buckets
  PROVE  /\ Cost(Runs(b, t)) \in Nat /\ Cost(Rest(Runs(b, t))) \in Nat
         /\ Cost(Rest(Runs(b, t))) <= Cost(Runs(b, t))
         /\ Runs(b, t) # 0 => Cost(Runs(b, t)) = Cost(Rest(Runs(b, t))) + (MaxFix + 1)
<1>1. PICK n \in Nat : n = Runs(b, t)
  BY RunsType, BoundAssumption
<1>2. PICK m \in Nat : m = Rest(n) /\ m <= n /\ (n # 0 => n = m + 1)
  BY <1>1 DEF Rest
<1>. QED
  BY <1>1, <1>2, CostFacts

Late(p, t) == At(p, t, "check") \/ At(p, t, "commit") \/ At(p, t, "tag") \/ At(p, t, "complete")

\* A step after which no more can be executed and no more was called.
LEMMA BudgetLower ==
  ASSUME TypeOK, TypeOK', NEW t \in Tasks, Budget(t), calls'[t] = calls[t], asked'[t] = asked[t],
         Runs("pending", t)' <= Runs("pending", t), Runs("running", t)' <= Runs("running", t),
         \A p \in Pids : At(p, t, "read")' => At(p, t, "read") /\ local'[p].attempt = local[p].attempt,
         \A p \in Pids : At(p, t, "execute")' =>
           \/ At(p, t, "execute") /\ local'[p].attempt = local[p].attempt
           \/ At(p, t, "read") /\ local'[p].attempt = 0 /\ Runs("running", t) # 0,
         \A p \in Pids : Late(p, t)' => Late(p, t) \/ At(p, t, "read") \/ At(p, t, "execute")
  PROVE  Budget(t)'
<1>1. /\ calls[t] \in Nat /\ MaxFix \in Nat /\ Allowed(t) \in Nat /\ Allowed(t)' = Allowed(t)
      /\ \A p \in Pids : local[p].attempt \in Nat
  BY AllowedFacts, BoundAssumption DEF TypeOK, Locals
<1>2. PICK n \in Nat, r \in Nat, n2 \in Nat, r2 \in Nat :
        /\ n = Runs("pending", t) /\ r = Runs("running", t) /\ n2 = Runs("pending", t)' /\ r2 = Runs("running", t)'
        /\ n2 <= n /\ r2 <= r
  <2>1. Runs("pending", t) \in Nat /\ Runs("running", t) \in Nat
    BY RunsType, BoundAssumption DEF Buckets
  <2>2. Runs("pending", t)' \in Nat /\ Runs("running", t)' \in Nat
    <3>1. ASSUME NEW b \in {"pending", "running"} PROVE Runs(b, t)' \in Nat
      <4>1. queue'[b][t] \in File \cup {NoFile} /\ MaxRecovery \in Nat
        BY BoundAssumption DEF TypeOK, Buckets
      <4>2. queue'[b][t].tries \in Nat
        BY <4>1 DEF File, NoFile
      <4>. QED
        BY <4>1, <4>2 DEF Runs
    <3>. QED
      BY <3>1
  <2>. QED
    BY <2>1, <2>2
<1>3. Rest(r2) \in Nat /\ Rest(r) \in Nat /\ Rest(r2) <= Rest(r) /\ Rest(r) <= r /\ (r # 0 => r = Rest(r) + 1)
  BY <1>2 DEF Rest
<1>a. PICK q \in Nat, q2 \in Nat : q = Rest(r) /\ q2 = Rest(r2) /\ q2 <= q /\ q <= r /\ (r # 0 => r = q + 1)
  BY <1>2, <1>3 DEF Rest
<1>b. PICK w \in Nat, w2 \in Nat : w = Cost(n) /\ w2 = Cost(n2) /\ w2 <= w
  BY <1>2, CostFacts
<1>c. PICK e \in Nat, e2 \in Nat : e = Cost(r) /\ e2 = Cost(r2) /\ e2 <= e
  BY <1>2, CostFacts
<1>d. PICK g \in Nat, g2 \in Nat : g = Cost(q) /\ g2 = Cost(q2) /\ g2 <= g
  BY <1>a, CostFacts
<1>e. g <= e /\ (r # 0 => e = g + (MaxFix + 1))
  BY <1>a, <1>c, <1>d, <1>2, CostFacts
<1>4. /\ w = Cost(n) /\ e = Cost(r) /\ g = Cost(Rest(r)) /\ w2 = Cost(n2) /\ e2 = Cost(r2) /\ g2 = Cost(Rest(r2))
      /\ w2 <= w /\ e2 <= e /\ g2 <= g /\ g <= e
      /\ r # 0 => e = g + (MaxFix + 1)
  BY <1>a, <1>b, <1>c, <1>d, <1>e
<1>5. /\ calls[t] + w <= Allowed(t) /\ calls[t] + g <= Allowed(t)
      /\ \A p \in Pids :
           /\ At(p, t, "read") => local[p].attempt = 0 /\ calls[t] + w + e <= Allowed(t)
           /\ At(p, t, "execute") => /\ local[p].attempt <= MaxFix
                                     /\ calls[t] + w + (MaxFix + 1 - local[p].attempt) + g <= Allowed(t)
           /\ Late(p, t) => calls[t] + w + g <= Allowed(t)
  BY <1>2, <1>4 DEF Budget, Late
<1>6. /\ calls'[t] + w2 <= Allowed(t)' /\ calls'[t] + g2 <= Allowed(t)'
  BY <1>1, <1>4, <1>5
<1>7. ASSUME NEW p \in Pids
      PROVE  /\ At(p, t, "read")' => local'[p].attempt = 0 /\ calls'[t] + w2 + e2 <= Allowed(t)'
             /\ At(p, t, "execute")' => /\ local'[p].attempt <= MaxFix
                                        /\ calls'[t] + w2 + (MaxFix + 1 - local'[p].attempt) + g2 <= Allowed(t)'
             /\ Late(p, t)' => calls'[t] + w2 + g2 <= Allowed(t)'
  <2>1. At(p, t, "read")' => local'[p].attempt = 0 /\ calls'[t] + w2 + e2 <= Allowed(t)'
    BY <1>1, <1>4, <1>5
  <2>2. At(p, t, "execute")' => /\ local'[p].attempt <= MaxFix
                                /\ calls'[t] + w2 + (MaxFix + 1 - local'[p].attempt) + g2 <= Allowed(t)'
    <3>1. CASE At(p, t, "execute") /\ local'[p].attempt = local[p].attempt
      BY <1>1, <1>4, <1>5, <3>1
    <3>2. CASE At(p, t, "read") /\ local'[p].attempt = 0 /\ r # 0
      BY <1>1, <1>4, <1>5, <3>2
    <3>. QED
      BY <1>2, <3>1, <3>2
  <2>3. Late(p, t)' => calls'[t] + w2 + g2 <= Allowed(t)'
    BY <1>1, <1>4, <1>5
  <2>. QED
    BY <2>1, <2>2, <2>3
<1>. QED
  BY <1>2, <1>4, <1>6, <1>7 DEF Budget, Late

\* What can be executed after a step is a number as well.
LEMMA RunsTypeNext ==
  ASSUME TypeOK', NEW t \in Tasks, NEW b \in Buckets PROVE Runs(b, t)' \in 0..(MaxRecovery + 1)
<1>1. queue'[b][t] \in File \cup {NoFile} /\ MaxRecovery \in Nat
  BY BoundAssumption DEF TypeOK
<1>2. queue'[b][t].tries \in Nat
  BY <1>1 DEF File, NoFile
<1>. QED
  BY <1>1, <1>2 DEF Runs

\* A file that stays where it is, and whose writer does, is worth what it was.
LEMMA RunsSame ==
  ASSUME NEW t \in Tasks, NEW b \in Buckets, queue'[b][t] = queue[b][t],
         filling'[t] = b <=> filling[t] = b
  PROVE  Runs(b, t)' = Runs(b, t)
BY DEF Runs

\* One process takes a step that calls nothing: it has no task at hand
\* then, or the execution of its task is over, or begins.
LEMMA BudgetProc ==
  ASSUME TypeOK, TypeOK', NEW t \in Tasks, Budget(t), calls'[t] = calls[t], asked'[t] = asked[t],
         Runs("pending", t)' <= Runs("pending", t), Runs("running", t)' <= Runs("running", t),
         NEW p \in Pids, \A q \in Pids : q # p => pc'[q] = pc[q] /\ local'[q] = local[q],
         \/ pc'[p] \notin {"read", "execute", "check", "commit", "tag", "complete"}
         \/ /\ pc'[p] \in {"check", "commit", "tag", "complete"} /\ pc[p] \in {"read", "execute", "check", "commit", "tag"}
            /\ local'[p].task = local[p].task
         \/ /\ pc'[p] = "execute" /\ pc[p] = "read"
            /\ local'[p] = local[p] /\ Runs("running", local[p].task) # 0
  PROVE  Budget(t)'
<1>1. \A q \in Pids : At(q, t, "read")' => At(q, t, "read") /\ local'[q].attempt = local[q].attempt
  BY DEF At
<1>2. \A q \in Pids : At(q, t, "execute")' =>
           \/ At(q, t, "execute") /\ local'[q].attempt = local[q].attempt
           \/ At(q, t, "read") /\ local'[q].attempt = 0 /\ Runs("running", t) # 0
  <2>1. \A q \in Pids : At(q, t, "read") => local[q].attempt = 0
    BY DEF Budget
  <2>. QED
    BY <2>1 DEF At
<1>3. \A q \in Pids : Late(q, t)' => Late(q, t) \/ At(q, t, "read") \/ At(q, t, "execute")
  BY DEF At, Late
<1>. QED
  BY <1>1, <1>2, <1>3, BudgetLower

LEMMA RecoverableInit == Init => Recoverable
BY DEF Init, Recoverable, NoFile, Buckets

LEMMA RecoverableStep == TypeOK /\ Recoverable /\ [Next]_vars => Recoverable'
<1>. SUFFICES ASSUME TypeOK, Recoverable, [Next]_vars PROVE Recoverable'
  OBVIOUS
<1>1. ASSUME UNCHANGED queue PROVE Recoverable'
  BY <1>1 DEF Recoverable
<1>2. ASSUME NEW t \in Tasks, Enqueue(t) PROVE Recoverable'
  BY <1>2 DEF Enqueue, Recoverable, TypeOK, Buckets
<1>3. ASSUME NEW t \in Tasks, Fill(t) PROVE Recoverable'
  <2>1. filling[t] \in Buckets /\ MaxRecovery \in Nat
    BY <1>3, BoundAssumption DEF Fill, TypeOK
  <2>2. PICK f : f.tries = 0 /\ queue' = [queue EXCEPT ![filling[t]][t] = f]
    <3>. DEFINE f == [body |-> IF queue[filling[t]][t].body = "whole" THEN "torn" ELSE "whole", tries |-> 0]
    <3>1. f.tries = 0 /\ queue' = [queue EXCEPT ![filling[t]][t] = f]
      BY <1>3 DEF Fill
    <3>. QED
      BY <3>1
  <2>. QED
    BY <2>1, <2>2 DEF Recoverable, TypeOK, Buckets
<1>4. ASSUME NEW p \in Pids, RecoverWrite(p) PROVE Recoverable'
  <2>1. PICK t \in Tasks, f \in File : queue' = [queue EXCEPT ![Target(f)][t] = f]
    <3>1. PICK t \in Tasks : queue' = [queue EXCEPT ![Target(Recovered(queue["running"][t]))][t] = Recovered(queue["running"][t])]
      BY <1>4 DEF RecoverWrite
    <3>2. queue["running"][t] \in File \cup {NoFile}
      BY DEF TypeOK, Buckets
    <3>. QED
      BY <3>1, <3>2, RecoveredType
  <2>2. Target(f) \in {"failed", "pending"} /\ (Target(f) = "pending" => f.tries <= MaxRecovery)
    <3>1. f.tries \in Nat /\ MaxRecovery \in Nat
      BY BoundAssumption DEF File
    <3>. QED
      BY <3>1 DEF Target
  <2>. QED
    BY <2>1, <2>2 DEF Recoverable, TypeOK, Buckets
<1>5. ASSUME NEW p \in Pids, Unlink(p) PROVE Recoverable'
  BY <1>5 DEF Unlink, Recoverable, TypeOK, Buckets, NoFile
<1>6. ASSUME NEW t \in Tasks, queue' = Moved("pending", "running", t) PROVE Recoverable'
  BY <1>6 DEF Moved, Recoverable, TypeOK, Buckets, NoFile
<1>7. ASSUME NEW t \in Tasks, NEW b \in {"done", "failed"}, queue' = Moved("running", b, t) PROVE Recoverable'
  BY <1>7 DEF Moved, Recoverable, TypeOK, Buckets, NoFile
<1>8. ASSUME NEW p \in Pids, Claim(p) PROVE Recoverable'
  BY <1>6, <1>8 DEF Claim
<1>9. ASSUME NEW p \in Pids, Complete(p) PROVE Recoverable'
  <2>1. local[p].task \in Tasks
    BY <1>9 DEF Complete, TypeOK
  <2>. QED
    BY <1>1, <1>7, <1>9, <2>1 DEF Complete
<1>10. ASSUME NEW p \in Pids, Step(p) PROVE Recoverable'
  BY <1>1, <1>4, <1>5, <1>8, <1>9, <1>10 DEF Step, Take, RecoverEnds, Leave, Read, ExecutePasses, ExecuteFails,
                                           CheckRefuses, CheckPasses, Commit, Tag, Release, disk
<1>11. ASSUME NEW p \in Pids, Start(p) \/ CommandFails(p) \/ Kill(p) \/ Raise(p) PROVE Recoverable'
  BY <1>1, <1>11 DEF Start, CommandFails, Kill, Raise, disk
<1>12. ASSUME NEW p \in Pids, PidTaken(p) \/ PidFreed(p) PROVE Recoverable'
  BY <1>1, <1>12 DEF PidTaken, PidFreed, disk
<1>. QED
  BY <1>1, <1>2, <1>3, <1>10, <1>11, <1>12 DEF Next, vars, disk

\* A request allows one execution more than recoveries.
LEMMA BudgetEnqueue ==
  ASSUME TypeOK, TypeOK', NEW t \in Tasks, NEW u \in Tasks, Enqueue(u), Budget(t) PROVE Budget(t)'
<1>1. UNCHANGED <<pc, local, calls>>
  BY DEF Enqueue, proc, repo
<1>2. \A b \in Buckets : b # "pending" \/ t # u => queue'[b][t] = queue[b][t]
  BY DEF Enqueue, TypeOK, Buckets
<1>3. CASE t # u
  <2>1. filling'[t] = filling[t] /\ asked'[t] = asked[t]
    BY <1>3 DEF Enqueue, TypeOK
  <2>2. Runs("pending", t)' = Runs("pending", t) /\ Runs("running", t)' = Runs("running", t)
    BY <1>2, <1>3, <2>1, RunsSame DEF Buckets
  <2>3. Runs("pending", t) \in Nat /\ Runs("running", t) \in Nat
    BY RunsType, BoundAssumption DEF Buckets
  <2>. QED
    BY <1>1, <2>1, <2>2, <2>3, BudgetLower DEF At, Late
<1>4. CASE t = u
  <2>1. filling[t] = Null /\ filling'[t] = "pending" /\ asked'[t] = asked[t] + 1
    BY <1>4 DEF Enqueue, TypeOK
  <2>2. Runs("pending", t)' = MaxRecovery + 1 /\ Runs("running", t)' = Runs("running", t)
    BY <1>2, <2>1, NullAssumption, RunsSame DEF Buckets, Runs
  <2>3. PICK r \in Nat : r = Runs("running", t)
    BY RunsType, BoundAssumption DEF Buckets
  <2>4. PICK e \in Nat, g \in Nat : e = Cost(r) /\ g = Cost(Rest(r))
    <3>1. Cost(r) \in Nat /\ Cost(Rest(r)) \in Nat
      BY <2>3, RunsCost DEF Buckets
    <3>. QED
      BY <3>1
  <2>5. PICK w \in Nat : w = Cost(Runs("pending", t))
    BY RunsCost DEF Buckets
  <2>6. PICK a \in Nat, c \in Nat, x \in Nat : a = Allowed(t) /\ c = calls[t] /\ x = Cost(MaxRecovery + 1)
    <3>1. Allowed(t) \in Nat
      BY AllowedFacts
    <3>2. MaxRecovery + 1 \in Nat /\ calls[t] \in Nat
      BY BoundAssumption DEF TypeOK
    <3>3. Cost(MaxRecovery + 1) \in Nat
      BY <3>2, CostFacts
    <3>. QED
      BY <3>1, <3>2, <3>3
  <2>7. Allowed(t)' = a + x
    BY <2>1, <2>6, AllowedFacts
  <2>8. /\ c + w <= a /\ c + g <= a
        /\ \A p \in Pids :
             /\ At(p, t, "read") => local[p].attempt = 0 /\ c + w + e <= a
             /\ At(p, t, "execute") => local[p].attempt <= MaxFix /\ c + w + (MaxFix + 1 - local[p].attempt) + g <= a
             /\ Late(p, t) => c + w + g <= a
    BY <2>3, <2>4, <2>5, <2>6 DEF Budget, Late
  <2>9. MaxFix \in Nat /\ \A p \in Pids : local[p].attempt \in Nat
    BY BoundAssumption DEF TypeOK, Locals
  <2>10. /\ c + x <= a + x /\ c + g <= a + x
         /\ \A p \in Pids :
             /\ At(p, t, "read") => local[p].attempt = 0 /\ c + x + e <= a + x
             /\ At(p, t, "execute") => local[p].attempt <= MaxFix /\ c + x + (MaxFix + 1 - local[p].attempt) + g <= a + x
             /\ Late(p, t) => c + x + g <= a + x
    BY <2>8, <2>9
  <2>11. \A p \in Pids, l \in PCs : At(p, t, l)' = At(p, t, l)
    BY <1>1 DEF At
  <2>12. calls'[t] = c /\ Cost(Runs("pending", t)') = x /\ Cost(Runs("running", t)') = e /\ Cost(Rest(Runs("running", t)')) = g
    BY <1>1, <2>2, <2>3, <2>4, <2>6
  <2>. QED
    BY <1>1, <2>7, <2>10, <2>12 DEF Budget, Late, At
<1>. QED
  BY <1>3, <1>4

\* The writer of a request is done.
LEMMA BudgetFill ==
  ASSUME TypeOK, TypeOK', NEW t \in Tasks, NEW u \in Tasks, Fill(u), Budget(t) PROVE Budget(t)'
<1>1. UNCHANGED <<pc, local, calls, asked>>
  BY DEF Fill, proc, repo
<1>2. \A b \in Buckets : filling[t] # b \/ t # u => queue'[b][t] = queue[b][t]
  BY DEF Fill, TypeOK
<1>3. filling'[t] = IF t = u THEN Null ELSE filling[t]
  BY DEF Fill, TypeOK
<1>4. ASSUME NEW b \in Buckets PROVE Runs(b, t)' <= Runs(b, t)
  <2>1. Runs(b, t) \in Nat /\ Runs(b, t)' \in 0..(MaxRecovery + 1) /\ MaxRecovery \in Nat
    BY RunsType, RunsTypeNext, BoundAssumption
  <2>2. CASE filling[t] = b
    BY <2>1, <2>2 DEF Runs
  <2>3. CASE filling[t] # b
    <3>1. filling'[t] # b
      BY <1>3, <2>3, NullAssumption
    <3>. QED
      BY <1>2, <2>1, <2>3, <3>1, RunsSame
  <2>. QED
    BY <2>2, <2>3
<1>. QED
  BY <1>1, <1>4, BudgetLower DEF At, Late, Buckets

\* Every call has its place in the budget of the file that is executed.
LEMMA BudgetExecute ==
  ASSUME TypeOK, TypeOK', NEW t \in Tasks, Budget(t), NEW p \in Pids, pc[p] = "execute", Calls(p),
         UNCHANGED disk, \A q \in Pids : q # p => pc'[q] = "off", local'[p].task = local[p].task,
         \/ pc'[p] \in {"check", "complete"}
         \/ pc'[p] = "execute" /\ Retriable(p) /\ local'[p].attempt = local[p].attempt + 1
  PROVE  Budget(t)'
<1>1. asked'[t] = asked[t] /\ Runs("pending", t)' = Runs("pending", t) /\ Runs("running", t)' = Runs("running", t)
  BY RunsSame DEF disk, Buckets
<1>2. CASE local[p].task # t
  <2>1. calls'[t] = calls[t]
    BY <1>2 DEF Calls, TypeOK
  <2>2. Runs("pending", t) \in Nat /\ Runs("running", t) \in Nat
    BY RunsType, BoundAssumption DEF Buckets
  <2>. QED
    BY <1>1, <1>2, <2>1, <2>2, BudgetLower DEF At, Late
<1>3. CASE local[p].task = t
  <2>1. PICK c \in Nat, a \in Nat, m \in Nat : c = calls[t] /\ a = Allowed(t) /\ m = local[p].attempt
    BY AllowedFacts DEF TypeOK, Locals
  <2>2. PICK w \in Nat : w = Cost(Runs("pending", t))
    BY RunsCost DEF Buckets
  <2>3. PICK g \in Nat : g = Cost(Rest(Runs("running", t)))
    BY RunsCost DEF Buckets
  <2>4. calls'[t] = c + 1 /\ Allowed(t)' = a
    BY <1>1, <1>3, <2>1, AllowedFacts DEF Calls, TypeOK
  <2>5. MaxFix \in Nat /\ m <= MaxFix /\ c + w + (MaxFix + 1 - m) + g <= a
    BY <1>3, <2>1, <2>2, <2>3, BoundAssumption DEF Budget, At
  <2>6. (c + 1) + w <= a /\ (c + 1) + g <= a /\ (c + 1) + w + g <= a
    BY <2>5
  <2>7. At(p, t, "execute")' =>
          local'[p].attempt <= MaxFix /\ (c + 1) + w + (MaxFix + 1 - local'[p].attempt) + g <= a
    <3>1. CASE pc'[p] = "execute" /\ m < MaxFix /\ local'[p].attempt = m + 1
      BY <2>5, <3>1
    <3>. QED
      BY <2>1, <3>1 DEF At, Retriable
  <2>8. ~At(p, t, "read")' /\ \A q \in Pids, l \in {"read", "execute", "check", "commit", "tag", "complete"} : q # p => ~At(q, t, l)'
    BY DEF At
  <2>9. Cost(Runs("pending", t)') = w /\ Cost(Rest(Runs("running", t)')) = g
    BY <1>1, <2>2, <2>3
  <2>. QED
    BY <2>4, <2>6, <2>7, <2>8, <2>9 DEF Budget
<1>. QED
  BY <1>2, <1>3

\* What waits becomes what runs.
LEMMA BudgetClaim ==
  ASSUME TypeOK, TypeOK', Alone, Kept, NEW t \in Tasks, Budget(t), NEW p \in Pids, Claim(p) PROVE Budget(t)'
<1>1. PICK u \in Tasks :
        /\ queue' = Moved("pending", "running", u)
        /\ filling' = Followed("pending", "running", u)
        /\ local' = [local EXCEPT ![p].task = u, ![p].attempt = 0, ![p].ok = FALSE]
  BY DEF Claim
<1>2. pc[p] = "loop" /\ pc'[p] = "read" /\ UNCHANGED <<asked, calls>> /\ \A q \in Pids : q # p => pc'[q] = "off"
  BY DEF Claim, Goto, Alone, TypeOK, repo
<1>3. In("running") = {}
  BY <1>2 DEF Kept, RunningOf, Processing
<1>4. queue["running"][t] = NoFile /\ filling[t] # "running"
  <2>1. queue["running"][t] = NoFile
    BY <1>3 DEF In
  <2>2. filling[t] # Null => queue[filling[t]][t] # NoFile
    BY DEF TypeOK
  <2>3. Null # "running"
    BY NullAssumption DEF Buckets
  <2>. QED
    BY <2>1, <2>2, <2>3
<1>5. Runs("running", t) = 0
  BY <1>4 DEF Runs, NoFile
<1>6. local'[p].task = u /\ local'[p].attempt = 0
  BY <1>1 DEF TypeOK, Locals
<1>7. CASE t # u
  <2>1. filling'[t] = filling[t] /\ \A b \in Buckets : queue'[b][t] = queue[b][t]
    BY <1>1, <1>7 DEF Moved, Followed, TypeOK, Buckets
  <2>2. Runs("pending", t)' = Runs("pending", t) /\ Runs("running", t)' = Runs("running", t)
    BY <2>1, RunsSame DEF Buckets
  <2>3. Runs("pending", t) \in Nat /\ Runs("running", t) \in Nat
    BY RunsType, BoundAssumption DEF Buckets
  <2>. QED
    BY <1>2, <1>6, <1>7, <2>2, <2>3, BudgetLower DEF At, Late
<1>8. CASE t = u
  <2>1. queue'["pending"][t] = NoFile /\ queue'["running"][t] = queue["pending"][t]
    BY <1>1, <1>8 DEF Moved, TypeOK, Buckets
  <2>2. filling'[t] # "pending" /\ (filling'[t] = "running" <=> filling[t] = "pending")
    BY <1>1, <1>4, <1>8, NullAssumption DEF Followed, TypeOK, Buckets
  <2>3. Runs("pending", t)' = 0 /\ Runs("running", t)' = Runs("pending", t)
    BY <2>1, <2>2 DEF Runs, NoFile
  <2>4. PICK c \in Nat, a \in Nat : c = calls[t] /\ a = Allowed(t)
    BY AllowedFacts DEF TypeOK
  <2>5. PICK w \in Nat : w = Cost(Runs("pending", t))
    BY RunsCost DEF Buckets
  <2>6. PICK g \in Nat : g = Cost(Rest(Runs("pending", t))) /\ g <= w
    BY <2>5, RunsCost DEF Buckets
  <2>7. c + w <= a
    BY <2>4, <2>5 DEF Budget
  <2>8. calls'[t] = c /\ Allowed(t)' = a
    BY <1>2, <2>4, AllowedFacts
  <2>9. Cost(Runs("pending", t)') = 0 /\ Cost(Runs("running", t)') = w /\ Cost(Rest(Runs("running", t)')) = g
    BY <2>3, <2>5, <2>6, CostFacts
  <2>10. \A q \in Pids, l \in {"read", "execute", "check", "commit", "tag", "complete"} : At(q, t, l)' => q = p /\ l = "read"
    BY <1>2 DEF At
  <2>11. c + 0 <= a /\ c + g <= a /\ c + 0 + w <= a
    BY <2>6, <2>7
  <2>. QED
    BY <1>6, <2>8, <2>9, <2>10, <2>11 DEF Budget
<1>. QED
  BY <1>7, <1>8

\* A recovery puts back what is worth one execution less.
LEMMA BudgetRecover ==
  ASSUME TypeOK, TypeOK', Alone, NEW t \in Tasks, Budget(t), NEW p \in Pids, RecoverWrite(p) PROVE Budget(t)'
<1>1. PICK u \in Tasks :
        queue' = [queue EXCEPT ![Target(Recovered(queue["running"][u]))][u] = Recovered(queue["running"][u])]
  BY DEF RecoverWrite
<1>2. UNCHANGED <<asked, filling, calls>> /\ pc'[p] = "unlink" /\ \A q \in Pids : q # p => pc'[q] = "off"
  BY DEF RecoverWrite, Goto, Alone, TypeOK, repo
<1>3. queue["running"][t] \in File \cup {NoFile} /\ MaxRecovery \in Nat
  BY BoundAssumption DEF TypeOK, Buckets
<1>4. PICK f \in File : f = Recovered(queue["running"][t])
  BY <1>3, RecoveredType
<1>5. queue'["running"][t] = queue["running"][t]
  BY <1>1 DEF Target, TypeOK, Buckets
<1>6. Runs("running", t)' = Runs("running", t)
  BY <1>2, <1>5, RunsSame DEF Buckets
<1>7. Runs("pending", t)' = Runs("pending", t) \/ Runs("pending", t)' <= Rest(Runs("running", t))
  <2>1. CASE queue'["pending"][t] = queue["pending"][t] \/ filling[t] = "pending"
    BY <1>2, <2>1 DEF Runs
  <2>2. CASE queue'["pending"][t] # queue["pending"][t] /\ filling[t] # "pending"
    <3>1. queue'["pending"][t] = f /\ Target(f) = "pending"
      BY <1>1, <1>4, <2>2 DEF Target, TypeOK, Buckets
    <3>2. f.tries \in Nat /\ f.tries <= MaxRecovery
      BY <1>3, <3>1 DEF Target, File
    <3>3. CASE f.body # "whole"
      <4>1. Runs("pending", t)' = 0
        BY <1>2, <2>2, <3>1, <3>3 DEF Runs
      <4>2. Rest(Runs("running", t)) \in Nat
        BY RunsType DEF Buckets
      <4>. QED
        BY <4>1, <4>2
    <3>4. CASE f.body = "whole"
      <4>1. queue["running"][t].body = "whole" /\ f.tries = queue["running"][t].tries + 1
            /\ queue["running"][t].tries \in Nat
        BY <1>3, <1>4, <3>4 DEF Recovered, File, NoFile
      <4>2. Runs("pending", t)' = MaxRecovery + 1 - f.tries
        BY <1>2, <2>2, <3>1, <3>2, <3>4 DEF Runs
      <4>3. Runs("running", t) = MaxRecovery + 1 \/ Runs("running", t) = MaxRecovery + 1 - queue["running"][t].tries
        BY <1>3, <3>2, <4>1 DEF Runs
      <4>. QED
        BY <1>3, <3>2, <4>1, <4>2, <4>3 DEF Rest
    <3>. QED
      BY <3>3, <3>4
  <2>. QED
    BY <2>1, <2>2
<1>8. PICK n2 \in Nat, n \in Nat, q \in Nat :
        n2 = Runs("pending", t)' /\ n = Runs("pending", t) /\ q = Rest(Runs("running", t))
  <2>1. Runs("pending", t)' \in 0..(MaxRecovery + 1) /\ Runs("pending", t) \in 0..(MaxRecovery + 1)
    BY RunsType, RunsTypeNext DEF Buckets
  <2>2. Rest(Runs("running", t)) \in Nat
    BY RunsType DEF Buckets
  <2>. QED
    BY <1>3, <2>1, <2>2
<1>9. PICK c \in Nat, a \in Nat : c = calls[t] /\ a = Allowed(t)
  BY AllowedFacts DEF TypeOK
<1>10. c + Cost(n) <= a /\ c + Cost(q) <= a
  BY <1>8, <1>9 DEF Budget
<1>11. c + Cost(n2) <= a
  <2>1. CASE n2 = n
    BY <1>10, <2>1
  <2>2. CASE n2 <= q
    <3>1. Cost(n2) \in Nat /\ Cost(q) \in Nat /\ Cost(n2) <= Cost(q)
      BY <2>2, CostFacts
    <3>. QED
      BY <1>10, <3>1
  <2>. QED
    BY <1>7, <1>8, <2>1, <2>2
<1>12. calls'[t] = c /\ Allowed(t)' = a
  BY <1>2, <1>9, AllowedFacts
<1>13. \A r \in Pids, l \in {"read", "execute", "check", "commit", "tag", "complete"} : ~At(r, t, l)'
  BY <1>2 DEF At
<1>14. Runs("pending", t)' = n2 /\ Rest(Runs("running", t)') = q
  BY <1>6, <1>8
<1>. QED
  BY <1>10, <1>11, <1>12, <1>13, <1>14 DEF Budget

\* What a daemon at the end of its task leaves in running/, or takes out of
\* it, is not executed again.
LEMMA BudgetOut ==
  ASSUME TypeOK, TypeOK', NEW t \in Tasks, Budget(t), NEW p \in Pids, Complete(p) \/ Unlink(p) PROVE Budget(t)'
<1>1. UNCHANGED <<asked, calls>> /\ pc'[p] \in {"recover", "loop", "release"}
      /\ \A q \in Pids : q # p => pc'[q] = pc[q] /\ local'[q] = local[q]
  BY DEF Complete, Unlink, Goto, TypeOK, repo
<1>2. queue'["pending"][t] = queue["pending"][t]
      /\ (queue'["running"][t] = queue["running"][t] \/ queue'["running"][t] = NoFile)
      /\ (filling'[t] = "pending" <=> filling[t] = "pending")
      /\ (filling'[t] = "running" => filling[t] = "running")
  <2>1. Null \notin {"pending", "running", "done", "failed"}
    BY NullAssumption DEF Buckets
  <2>2. CASE Unlink(p)
    BY <2>1, <2>2 DEF Unlink, TypeOK, Buckets
  <2>3. CASE Complete(p)
    <3>1. local[p].task \in Tasks
      BY <2>3 DEF Complete, TypeOK
    <3>2. PICK b \in {"done", "failed"} :
            \/ queue' = Moved("running", b, local[p].task) /\ filling' = Followed("running", b, local[p].task)
            \/ queue' = queue /\ filling' = filling
      BY <2>3 DEF Complete
    <3>3. PICK u \in Tasks : u = local[p].task
      BY <3>1
    <3>4. CASE queue' = Moved("running", b, u) /\ filling' = Followed("running", b, u)
      <4>1. queue'["pending"][t] = queue["pending"][t]
            /\ (queue'["running"][t] = queue["running"][t] \/ queue'["running"][t] = NoFile)
        BY <3>4 DEF Moved, TypeOK, Buckets
      <4>2. filling'[t] = IF t = u THEN IF filling[t] = "running" THEN b ELSE IF filling[t] = b THEN Null ELSE filling[t]
                                   ELSE filling[t]
        BY <3>4 DEF Followed, TypeOK
      <4>. QED
        BY <2>1, <4>1, <4>2
    <3>. QED
      BY <3>2, <3>3, <3>4
  <2>. QED
    BY <2>2, <2>3
<1>3. Runs("pending", t) \in Nat /\ Runs("running", t) \in Nat /\ MaxRecovery \in Nat
  BY RunsType, BoundAssumption DEF Buckets
<1>4. Runs("pending", t)' = Runs("pending", t)
  BY <1>2, RunsSame DEF Buckets
<1>5. Runs("running", t)' = Runs("running", t) \/ Runs("running", t)' <= Runs("running", t)
  <2>1. Runs("running", t)' \in 0..(MaxRecovery + 1)
    BY RunsTypeNext DEF Buckets
  <2>2. CASE filling[t] = "running"
    BY <1>3, <2>1, <2>2 DEF Runs
  <2>3. CASE filling[t] # "running" /\ queue'["running"][t] = queue["running"][t]
    BY <1>2, <2>3, RunsSame DEF Buckets
  <2>4. CASE filling[t] # "running" /\ queue'["running"][t] = NoFile
    <3>1. Runs("running", t)' = 0
      BY <1>2, <2>4 DEF Runs, NoFile
    <3>. QED
      BY <1>3, <3>1
  <2>. QED
    BY <1>2, <2>2, <2>3, <2>4
<1>. QED
  BY <1>1, <1>3, <1>4, <1>5, BudgetProc

\* A step that neither touches a directory nor calls codex.
LEMMA BudgetIdle ==
  ASSUME TypeOK, TypeOK', Recoverable, NEW t \in Tasks, Budget(t), NEW p \in Pids, UNCHANGED <<disk, calls>>,
         \/ Start(p) \/ Take(p) \/ RecoverEnds(p) \/ Leave(p) \/ Read(p) \/ CheckRefuses(p) \/ CheckPasses(p)
         \/ Commit(p) \/ Tag(p) \/ Release(p) \/ CommandFails(p) \/ Kill(p) \/ Raise(p)
  PROVE  Budget(t)'
<1>1. asked'[t] = asked[t] /\ calls'[t] = calls[t] /\ \A b \in Buckets, u \in Tasks : Runs(b, u)' = Runs(b, u)
  BY RunsSame DEF disk
<1>2. Runs("pending", t) \in Nat /\ Runs("running", t) \in Nat
  BY RunsType, BoundAssumption DEF Buckets
<1>3. Runs("pending", t)' <= Runs("pending", t) /\ Runs("running", t)' <= Runs("running", t)
  BY <1>1, <1>2 DEF Buckets
<1>4. CASE Start(p) \/ Take(p) \/ RecoverEnds(p) \/ Leave(p) \/ Release(p) \/ Kill(p) \/ Raise(p)
  <2>1. pc'[p] \in {"take", "recover", "loop", "release", "off"}
        /\ \A q \in Pids : q # p => pc'[q] = pc[q] /\ local'[q] = local[q]
    BY <1>4 DEF Start, Take, RecoverEnds, Leave, Release, Kill, Raise, Ended, Goto, TypeOK
  <2>. QED
    BY <1>1, <1>3, <2>1, BudgetProc
<1>5. CASE CheckRefuses(p) \/ CheckPasses(p) \/ Commit(p) \/ Tag(p) \/ CommandFails(p)
  <2>1. /\ pc'[p] \in {"commit", "tag", "complete"} /\ pc[p] \in {"check", "commit", "tag"}
        /\ \A q \in Pids : q # p => pc'[q] = pc[q] /\ local'[q] = local[q]
    BY <1>5 DEF CheckRefuses, CheckPasses, Commit, Tag, CommandFails, Goto, TypeOK
  <2>2. local'[p].task = local[p].task
    BY <1>5 DEF CheckRefuses, CheckPasses, Commit, Tag, CommandFails, TypeOK, Locals
  <2>. QED
    BY <1>1, <1>3, <2>1, <2>2, BudgetProc
<1>6. CASE Read(p)
  <2>1. /\ pc[p] = "read" /\ local' = local /\ local[p].task \in Tasks
        /\ \A q \in Pids : q # p => pc'[q] = pc[q]
    BY <1>6 DEF Read, Goto, TypeOK
  <2>2. CASE queue["running"][local[p].task].body = "whole"
    <3>1. pc'[p] = "execute"
      BY <1>6, <2>2 DEF Read, Goto, TypeOK
    <3>2. Runs("running", local[p].task) # 0
      <4>1. queue["running"][local[p].task].tries <= MaxRecovery
        BY <2>1, <2>2 DEF Recoverable
      <4>2. queue["running"][local[p].task] \in File \cup {NoFile} /\ MaxRecovery \in Nat
        BY <2>1, BoundAssumption DEF TypeOK, Buckets
      <4>3. queue["running"][local[p].task].tries \in Nat
        BY <4>2 DEF File, NoFile
      <4>. QED
        BY <2>2, <4>1, <4>2, <4>3 DEF Runs
    <3>. QED
      BY <1>1, <1>3, <2>1, <3>1, <3>2, BudgetProc
  <2>3. CASE queue["running"][local[p].task].body # "whole"
    <3>1. pc'[p] = "complete"
      BY <1>6, <2>3 DEF Read, Goto, TypeOK
    <3>. QED
      BY <1>1, <1>3, <2>1, <3>1, BudgetProc
  <2>. QED
    BY <2>2, <2>3
<1>. QED
  BY <1>4, <1>5, <1>6

LEMMA BudgetInit == Init => Budgeted
<1>. SUFFICES ASSUME Init PROVE Budgeted
  OBVIOUS
<1>1. TypeOK /\ Recoverable
  BY TypeInit, RecoverableInit
<1>2. ASSUME NEW t \in Tasks PROVE Budget(t)
  <2>1. \A b \in Buckets : Runs(b, t) = 0
    BY NullAssumption DEF Init, Runs, NoFile
  <2>2. calls[t] = 0 /\ asked[t] = 0
    BY DEF Init
  <2>3. \A p \in Pids, l \in {"read", "execute", "check", "commit", "tag", "complete"} : ~At(p, t, l)
    BY DEF Init, At
  <2>4. Cost(Runs("pending", t)) = 0 /\ Cost(Rest(Runs("running", t))) = 0
    BY <2>1, CostFacts DEF Rest, Buckets
  <2>5. Allowed(t) \in Nat
    BY <1>1, AllowedFacts
  <2>. QED
    BY <2>2, <2>3, <2>4, <2>5 DEF Budget
<1>. QED
  BY <1>1, <1>2 DEF Budgeted

LEMMA BudgetStep == TypeOK /\ TypeOK' /\ Alone /\ Kept /\ Budgeted /\ [Next]_vars => Budgeted'
<1>. SUFFICES ASSUME TypeOK, TypeOK', Alone, Kept, Budgeted, [Next]_vars PROVE Budgeted'
  OBVIOUS
<1>1. Recoverable /\ Recoverable'
  BY RecoverableStep DEF Budgeted
<1>2. ASSUME NEW t \in Tasks PROVE Budget(t)'
  <2>1. Budget(t)
    BY DEF Budgeted
  <2>2. ASSUME NEW u \in Tasks, Enqueue(u) \/ Fill(u) PROVE Budget(t)'
    BY <2>1, <2>2, BudgetEnqueue, BudgetFill
  <2>3. ASSUME NEW p \in Pids, ExecutePasses(p) \/ ExecuteFails(p) PROVE Budget(t)'
    <3>1. pc[p] = "execute" /\ Calls(p) /\ UNCHANGED disk /\ local[p] \in Locals
      BY <2>3 DEF ExecutePasses, ExecuteFails, TypeOK
    <3>2. \A q \in Pids : q # p => pc'[q] = "off"
      BY <2>3, <3>1 DEF ExecutePasses, ExecuteFails, Goto, Alone, TypeOK
    <3>3. \/ pc'[p] \in {"check", "complete"} /\ local' = local
          \/ pc' = pc /\ Retriable(p) /\ local' = [local EXCEPT ![p].attempt = @ + 1]
      BY <2>3 DEF ExecutePasses, ExecuteFails, Goto, TypeOK
    <3>4. local'[p].task = local[p].task
      BY <3>1, <3>3 DEF TypeOK, Locals
    <3>5. local' = [local EXCEPT ![p].attempt = @ + 1] => local'[p].attempt = local[p].attempt + 1
      BY <3>1 DEF TypeOK, Locals
    <3>. QED
      BY <2>1, <3>1, <3>2, <3>3, <3>4, <3>5, BudgetExecute
  <2>4. ASSUME NEW p \in Pids, RecoverWrite(p) \/ Unlink(p) \/ Claim(p) \/ Complete(p) PROVE Budget(t)'
    BY <2>1, <2>4, BudgetRecover, BudgetClaim, BudgetOut
  <2>5. ASSUME NEW p \in Pids, Start(p) \/ Take(p) \/ RecoverEnds(p) \/ Leave(p) \/ Read(p) \/ CheckRefuses(p)
                               \/ CheckPasses(p) \/ Commit(p) \/ Tag(p) \/ Release(p) \/ CommandFails(p) \/ Kill(p) \/ Raise(p)
        PROVE  Budget(t)'
    <3>1. UNCHANGED <<disk, calls>>
      BY <2>5 DEF Start, Take, RecoverEnds, Leave, Read, CheckRefuses, CheckPasses, Commit, Tag, Release, CommandFails,
                  Kill, Raise, repo
    <3>. QED
      BY <1>1, <2>1, <2>5, <3>1, BudgetIdle
  <2>6. ASSUME UNCHANGED <<disk, proc, calls>> PROVE Budget(t)'
    BY <2>1, <2>6 DEF Budget, Runs, Allowed, At, disk, proc
  <2>7. ASSUME NEW p \in Pids, PidTaken(p) \/ PidFreed(p) PROVE Budget(t)'
    BY <2>6, <2>7 DEF PidTaken, PidFreed, repo
  <2>8. CASE UNCHANGED vars
    BY <2>6, <2>8 DEF vars, repo
  <2>. QED
    BY <2>2, <2>3, <2>4, <2>5, <2>7, <2>8 DEF Next, Step
<1>. QED
  BY <1>1, <1>2 DEF Budgeted

\* A request costs at most MaxRecovery + 1 executions of MaxFix + 1 calls each,
\* whatever is killed or raised, when no two daemons are started together.
THEOREM CallsAreBounded == Racing = FALSE /\ Spec => []CallsBounded
<1>1. SUFFICES ASSUME Racing = FALSE PROVE Spec => []CallsBounded
  OBVIOUS
<1>. DEFINE I == TypeOK /\ Alone /\ Kept /\ Budgeted
<1>2. Init => I
  BY TypeInit, AloneInit, KeptInit, BudgetInit
<1>3. I /\ [Next]_vars => I'
  BY <1>1, TypeStep, AloneStep, KeptStep, BudgetStep
<1>4. I => CallsBounded
  <2>. SUFFICES ASSUME TypeOK, Budgeted, NEW t \in Tasks PROVE calls[t] <= Allowed(t)
    BY DEF CallsBounded, Allowed
  <2>1. calls[t] + Cost(Runs("pending", t)) <= Allowed(t)
    BY DEF Budgeted, Budget
  <2>2. Cost(Runs("pending", t)) \in Nat /\ calls[t] \in Nat /\ Allowed(t) \in Nat
    BY RunsCost, AllowedFacts DEF Buckets, TypeOK
  <2>. QED
    BY <2>1, <2>2
<1>. QED
  BY <1>2, <1>3, <1>4, PTL DEF Spec
=============================================================================
