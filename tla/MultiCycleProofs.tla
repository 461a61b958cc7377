-------------------------- MODULE MultiCycleProofs --------------------------
(***************************************************************************)
(* Proofs, for any number of workers, tasks, cycles and faults, that the   *)
(* executor keeps its data in their sets and that no two workers execute   *)
(* the same child run.                                                     *)
(*                                                                         *)
(* Every action gives one worker w a new local state k: WorkerStep says    *)
(* what k and the files must satisfy for the invariant to hold again, and  *)
(* the lemmas after it show it for record(), write_checkpoint and each     *)
(* group of actions.                                                       *)
(***************************************************************************)
EXTENDS MultiCycleProperties, TLAPS

\* States of a child run that has ended.
Ended == {"completed", "blocked", "failed", "failed_commit"}

\* Checkpoints the executor writes: a task is active only while one is left.
GoodCkpts == {s \in Ckpts : s.life = "active_task" => Len(s.done) < TaskCount}
GoodPairs == [json : GoodCkpts \cup {Null}, sha : GoodCkpts \cup {Null}]

\* The files hold values of their kinds; a state directory is in its cycle.
FilesOK ==
  /\ dirs \subseteq Cycles
  /\ stateDirs \subseteq dirs
  /\ hist \in [Cycles -> Seq(GoodPairs)]
  /\ receipt \in [Cycles -> Receipts \cup {Null}]
  /\ sidecar \in [Cycles -> Receipts \cup {Null}]
  /\ dirty \in BOOLEAN
  /\ faults \in 0..MaxFaults

\* Only a child run that has ended is sealed.
ChildOK(ch) ==
  /\ ch \in [Commits -> ChildRuns]
  /\ \A id \in Commits : ch[id].sealed => ch[id].st \in Ended

\* What a worker in local state k knows, given the directories ds and the child
\* runs ch: it has a cycle, past preflight a base and a head, a complete
\* checkpoint to write, a task left to run, and the child run it executes is there.
WorkerOK(k, ds, ch) ==
  /\ k \in Locals
  /\ k.pc # "idle" => k.c \in ds
  /\ (k.mode = "terminal" => k.pred \in Cycles)
  /\ k.pc \in {"ckpt_json", "ckpt_sha", "loop", "spawn", "child", "seal", "judge"} =>
       k.base \in Heads /\ k.head \in Heads
  /\ k.pc \in {"ckpt_json", "ckpt_sha"} =>
       k.seq # 0 /\ (k.ck.life = "active_task" => Len(k.done) < TaskCount)
  /\ k.pc \in {"ckpt_json", "ckpt_sha", "pair"} => k.ck \in GoodCkpts
  /\ k.pc \in {"spawn", "child", "seal", "judge"} => Len(k.done) < TaskCount
  /\ k.pc = "child" => ch[Current(k)].st # "absent"
  /\ k.pc = "seal" => ch[Current(k)].st \in Ended

\* The inductive invariant.
IInv ==
  /\ FilesOK
  /\ ChildOK(child)
  /\ wk \in [Workers -> Locals]
  /\ \A w \in Workers : WorkerOK(wk[w], dirs, child)
  /\ OneWorkerPerChild

\* The worker executes its current child run.
Claims(k) == k.pc \in {"child", "seal"}

\* Child runs only go forward: a run stays there, and an ended one stays ended.
Progress(ch, ch2) ==
  \A id \in Commits : /\ ch[id].st # "absent" => ch2[id].st # "absent"
                      /\ ch[id].st \in Ended => ch2[id].st \in Ended

\* The chain of a cycle that accepted nothing.
LEMMA EmptyChain == <<>> \in Chains
<1>1. <<>> \in [1..0 -> Commits]
  OBVIOUS
<1>2. 0 \in 0..TaskCount
  BY TaskCountAssumption
<1> QED
  BY <1>1, <1>2 DEF Chains

\* A chain that has not reached the end of the queue has a next task.
LEMMA ChainLength ==
  ASSUME NEW s \in Chains
  PROVE  /\ s \in Seq(Commits) /\ Len(s) \in Nat
         /\ Len(s) < TaskCount => Len(s) + 1 \in Tasks
<1>1. PICK n \in 0..TaskCount : s \in [1..n -> Commits]
  BY DEF Chains
<1>2. n \in Nat
  BY TaskCountAssumption
<1>3. s \in Seq(Commits) /\ Len(s) = n
  BY <1>1, <1>2
<1> QED
  BY <1>2, <1>3, TaskCountAssumption DEF Tasks

\* A chain with a task left can be extended by a commit.
LEMMA ChainGrows ==
  ASSUME NEW s \in Chains, Len(s) < TaskCount, NEW k \in Commits
  PROVE  Append(s, k) \in Chains
<1>1. s \in Seq(Commits) /\ Len(s) \in Nat
  BY ChainLength
<1>2. Append(s, k) \in [1..(Len(s) + 1) -> Commits]
  <2> DEFINE q == Append(s, k)
  <2>1. q \in Seq(Commits) /\ Len(q) = Len(s) + 1
    BY <1>1
  <2>2. \A x \in Seq(Commits) : x \in [1..Len(x) -> Commits]
    OBVIOUS
  <2> QED
    BY <2>1, <2>2
<1>3. Len(s) + 1 \in 0..TaskCount
  BY <1>1, TaskCountAssumption
<1> QED
  BY <1>2, <1>3 DEF Chains

\* load_latest_checkpoint returns a checkpoint the executor wrote.
LEMMA LoadedType ==
  ASSUME hist \in [Cycles -> Seq(GoodPairs)], NEW c \in Cycles, Loadable(c)
  PROVE  LoadedCkpt(c) \in GoodCkpts
<1> DEFINE h == hist[c]
<1>1. h \in Seq(GoodPairs) /\ Len(h) \in Nat /\ Len(h) > 0
  BY DEF Loadable
<1>2. \A i \in 1..Len(h) : h[i] \in GoodPairs
  BY <1>1
<1>3. \A i \in 1..Len(h) : Sealed(h[i]) => h[i].json \in GoodCkpts
  BY <1>2 DEF GoodPairs, Sealed
<1>4. Last(h) = h[Len(h)]
  BY DEF Last
<1>5. CASE HasOrphan(c)
  <2>1. ~Sealed(h[Len(h)])
    BY <1>4, <1>5 DEF HasOrphan, Incomplete, Sealed
  <2>2. Len(h) - 1 \in 1..(Len(h) - 1)
    BY <2>1, <1>1, <1>4 DEF Loadable
  <2>3. Sealed(h[Len(h) - 1])
    BY <2>2 DEF Loadable
  <2> QED
    BY <1>5, <1>1, <1>3, <2>2, <2>3 DEF LoadedCkpt
<1>6. CASE ~HasOrphan(c)
  BY <1>1, <1>3, <1>4, <1>6 DEF LoadedCkpt, HasOrphan, Loadable
<1> QED
  BY <1>5, <1>6

\* Orphan clean-up leaves histories of checkpoint pairs.
LEMMA CleanedType ==
  ASSUME hist \in [Cycles -> Seq(GoodPairs)], NEW cs
  PROVE  Cleaned(cs) \in [Cycles -> Seq(GoodPairs)]
<1>1. ASSUME NEW c \in Cycles PROVE WithoutOrphan(c) \in Seq(GoodPairs)
  <2>1. CASE HasOrphan(c)
    <3>1. Len(hist[c]) \in Nat /\ Len(hist[c]) > 1
      BY <2>1 DEF HasOrphan, Loadable, Sealed, Incomplete
    <3>2. Front(hist[c]) = SubSeq(hist[c], 1, Len(hist[c]) - 1)
      BY <3>1 DEF Front
    <3> QED
      BY <2>1, <3>1, <3>2 DEF WithoutOrphan
  <2> QED
    BY <2>1 DEF WithoutOrphan
<1> QED
  BY <1>1 DEF Cleaned

\* Writing one file of a pair leaves a history of checkpoint pairs.
LEMMA PutType ==
  ASSUME NEW h \in Seq(GoodPairs), NEW i \in Nat \ {0}, NEW v \in GoodCkpts
  PROVE  PutJson(h, i, v) \in Seq(GoodPairs) /\ PutSha(h, i, v) \in Seq(GoodPairs)
<1>1. \A p \in GoodPairs : [p EXCEPT !.json = v] \in GoodPairs /\ [p EXCEPT !.sha = v] \in GoodPairs
  BY DEF GoodPairs
<1>2. [json |-> v, sha |-> Null] \in GoodPairs /\ [json |-> Null, sha |-> v] \in GoodPairs
  BY DEF GoodPairs
<1>3. CASE i \in 1..Len(h)
  <2>1. h[i] \in GoodPairs
    BY <1>3
  <2>2. \A p \in GoodPairs : [h EXCEPT ![i] = p] \in Seq(GoodPairs)
    BY <1>3
  <2> QED
    BY <1>1, <1>3, <2>1, <2>2 DEF PutJson, PutSha
<1>4. CASE ~(i <= Len(h))
  BY <1>2, <1>4 DEF PutJson, PutSha
<1> QED
  BY <1>3, <1>4

\* With a task left, the current child run has an id.
LEMMA CurrentType ==
  ASSUME NEW k \in Locals, k.c \in Cycles, Len(k.done) < TaskCount
  PROVE  Current(k) \in Commits
BY ChainLength DEF Locals, Current, Commits

\* Worker w moves to local state k: nobody else is affected as long as child
\* runs go forward, and w claims no child run another worker executes.
LEMMA WorkerStep ==
  ASSUME IInv, NEW w \in Workers, NEW k, Become(w, k),
         WorkerOK(k, dirs', child'),
         FilesOK', dirs \subseteq dirs', ChildOK(child'), Progress(child, child'),
         Claims(k) => \A v \in Workers \ {w} : Claims(wk[v]) => Current(wk[v]) # Current(k)
  PROVE  IInv'
<1>1. k \in Locals
  BY DEF WorkerOK
<1>2. wk' \in [Workers -> Locals]
  BY <1>1 DEF IInv, Become
<1>3. wk'[w] = k /\ \A v \in Workers \ {w} : wk'[v] = wk[v]
  BY DEF IInv, Become
<1>4. ASSUME NEW v \in Workers PROVE WorkerOK(wk'[v], dirs', child')
  <2>1. CASE v = w
    BY <2>1, <1>3
  <2>2. CASE v # w
    <3> DEFINE l == wk[v]
    <3>1. wk'[v] = l /\ WorkerOK(l, dirs, child) /\ l \in Locals
      BY <2>2, <1>3 DEF IInv, WorkerOK
    <3>2. l.pc \in {"child", "seal"} => Current(l) \in Commits
      BY <3>1, CurrentType DEF WorkerOK, IInv, FilesOK
    <3> HIDE DEF l
    <3> QED
      BY <3>1, <3>2 DEF WorkerOK, Progress
  <2> QED
    BY <2>1, <2>2
<1>5. OneWorkerPerChild'
  <2> SUFFICES ASSUME NEW u \in Workers, NEW v \in Workers, u # v,
                      Claims(wk'[u]), Claims(wk'[v])
               PROVE  Current(wk'[u]) # Current(wk'[v])
    BY DEF OneWorkerPerChild, Claims, Current
  <2>1. CASE u = w
    BY <2>1, <1>3
  <2>2. CASE v = w
    BY <2>2, <1>3
  <2>3. CASE u # w /\ v # w
    BY <2>3, <1>3 DEF IInv, OneWorkerPerChild, Claims
  <2> QED
    BY <2>1, <2>2, <2>3
<1> QED
  BY <1>2, <1>4, <1>5 DEF IInv

\* A step that leaves the child runs alone keeps what is known of them.
LEMMA SameChildren ==
  ASSUME IInv, UNCHANGED child
  PROVE  ChildOK(child') /\ Progress(child, child')
BY DEF IInv, ChildOK, Progress

\* A worker that returns or is killed.
LEMMA IdleStep ==
  ASSUME IInv, NEW w \in Workers, Become(w, Idle), FilesOK', UNCHANGED <<dirs, child>>
  PROVE  IInv'
<1>1. WorkerOK(Idle, dirs', child') /\ ~Claims(Idle)
  BY EmptyChain DEF WorkerOK, Idle, Locals, PCs, Modes, Claims
<1> QED
  BY <1>1, SameChildren, WorkerStep

\* record() from any point of the run.
LEMMA RecordStep ==
  ASSUME IInv, NEW w \in Workers, NEW k \in Locals, k.c \in dirs,
         k.mode = "terminal" => k.pred \in Cycles,
         NEW status \in {"blocked", "failed"}, Record(w, k, status),
         FilesOK', UNCHANGED <<dirs, child>>
  PROVE  IInv'
<1> DEFINE pre == k.head = Anchor /\ k.done = <<>> /\ ~k.stopped
           r == [status |-> status, reason |-> "other",
                 base |-> k.base, head |-> k.head, done |-> k.done,
                 stopped |-> k.stopped, pre |-> pre, by |-> w]
           l == [k EXCEPT !.pc = "rec_json", !.out = r]
<1>1. pre \in BOOLEAN
  OBVIOUS
<1> HIDE DEF pre
<1>2. r \in Receipts
  BY <1>1 DEF Receipts, Locals
<1> HIDE DEF r
<1>3. l \in Locals /\ l.pc = "rec_json"
  BY <1>2 DEF Locals, PCs
<1>4. WorkerOK(l, dirs', child') /\ ~Claims(l)
  BY <1>3 DEF WorkerOK, Claims, Locals
<1>5. Become(w, l)
  BY DEF Record, r, pre
<1> QED
  BY <1>4, <1>5, SameChildren, WorkerStep

\* write_checkpoint, refused or started.
LEMMA CheckpointStep ==
  ASSUME IInv, NEW w \in Workers, NEW k \in Locals, k.c \in dirs,
         k.mode = "terminal" => k.pred \in Cycles,
         k.base \in Heads, k.head \in Heads, NEW life \in Lives, NEW term \in Terms,
         life = "active_task" => Len(k.done) < TaskCount,
         Checkpoint(w, k, life, term),
         FilesOK', UNCHANGED <<dirs, child>>
  PROVE  IInv'
<1>1. CASE AllSealed(hist'[k.c])
  <2> DEFINE s == [life |-> life, base |-> k.base, head |-> k.head,
                   done |-> k.done, term |-> term, by |-> w]
             n == Len(hist'[k.c]) + 1
             l == [k EXCEPT !.pc = "ckpt_json", !.seq = n, !.ck = s]
  <2>1. s \in GoodCkpts /\ s.life = life
    BY DEF GoodCkpts, Ckpts, Locals
  <2>2. n \in Nat \ {0}
    BY DEF IInv, FilesOK
  <2>3. Become(w, l)
    BY <1>1 DEF Checkpoint
  <2> HIDE DEF s, n
  <2>4. l \in Locals /\ l.pc = "ckpt_json"
    BY <2>1, <2>2 DEF Locals, PCs, GoodCkpts
  <2>5. WorkerOK(l, dirs', child') /\ ~Claims(l)
    BY <2>1, <2>2, <2>4 DEF WorkerOK, Claims, Locals
  <2> QED
    BY <2>3, <2>5, SameChildren, WorkerStep
<1>2. CASE ~AllSealed(hist'[k.c]) /\ k.guarded
  BY <1>2, RecordStep DEF Checkpoint
<1>3. CASE ~AllSealed(hist'[k.c]) /\ ~k.guarded
  BY <1>3, IdleStep DEF Checkpoint
<1> QED
  BY <1>1, <1>2, <1>3

\* The local state of a running worker.
LEMMA OwnState ==
  ASSUME IInv, NEW w \in Workers, ~At(w, "idle")
  PROVE  /\ wk[w] \in Locals /\ wk[w].c \in dirs /\ wk[w].c \in Cycles
         /\ wk[w].mode = "terminal" => wk[w].pred \in Cycles
         /\ WorkerOK(wk[w], dirs, child)
BY DEF IInv, WorkerOK, At, FilesOK

\* The two writes of record().
LEMMA RecordFiles ==
  ASSUME IInv, NEW w \in Workers, RecordJson(w) \/ RecordSha(w)
  PROVE  IInv'
<1>1. CASE RecordJson(w)
  <2> DEFINE l == [wk[w] EXCEPT !.pc = "rec_sha"]
  <2>1. wk[w] \in Locals /\ wk[w].c \in dirs /\ wk[w].c \in Cycles
    BY <1>1, OwnState DEF RecordJson, At
  <2>2. FilesOK' /\ dirs' = dirs /\ child' = child
    BY <1>1, <2>1 DEF RecordJson, FilesOK, IInv, Locals
  <2>3. l \in Locals /\ l.pc = "rec_sha" /\ ~Claims(l) /\ l.c \in dirs
    BY <2>1 DEF Locals, PCs, Claims
  <2>4. WorkerOK(l, dirs', child')
    BY <1>1, <2>2, <2>3, OwnState DEF WorkerOK, RecordJson, At, Locals
  <2>5. Become(w, l)
    BY <1>1 DEF RecordJson
  <2> QED
    BY <2>2, <2>3, <2>4, <2>5, SameChildren, WorkerStep
<1>2. CASE RecordSha(w)
  <2>1. FilesOK' /\ Become(w, Idle) /\ UNCHANGED <<dirs, child>>
    BY <1>2, OwnState DEF RecordSha, FilesOK, IInv, At
  <2> QED
    BY <2>1, IdleStep
<1> QED
  BY <1>1, <1>2

\* The two writes of write_checkpoint.
LEMMA CheckpointFiles ==
  ASSUME IInv, NEW w \in Workers, CkptJson(w) \/ CkptSha(w)
  PROVE  IInv'
<1> DEFINE k == wk[w]
           h == hist[k.c]
<1>1. ~At(w, "idle") /\ k.pc \in {"ckpt_json", "ckpt_sha"}
  BY DEF CkptJson, CkptSha, At
<1>2. /\ k \in Locals /\ k.c \in dirs /\ k.c \in Cycles
      /\ (k.mode = "terminal" => k.pred \in Cycles)
      /\ k.base \in Heads /\ k.head \in Heads
      /\ k.ck \in GoodCkpts /\ k.seq \in Nat \ {0}
      /\ k.ck.life = "active_task" => Len(k.done) < TaskCount
  BY <1>1, OwnState DEF WorkerOK, Locals
<1>3. h \in Seq(GoodPairs)
  BY <1>2 DEF IInv, FilesOK
<1>4. PutJson(h, k.seq, k.ck) \in Seq(GoodPairs) /\ PutSha(h, k.seq, k.ck) \in Seq(GoodPairs)
  BY <1>2, <1>3, PutType
<1> HIDE DEF k
<1>5. CASE CkptJson(w)
  <2> DEFINE l == [k EXCEPT !.pc = "ckpt_sha"]
  <2>1. FilesOK' /\ dirs' = dirs /\ child' = child
    BY <1>4, <1>2, <1>5 DEF CkptJson, FilesOK, IInv, k
  <2>2. l \in Locals /\ l.pc = "ckpt_sha"
    BY <1>2 DEF Locals, PCs
  <2>3. WorkerOK(l, dirs', child') /\ ~Claims(l)
    BY <1>2, <2>1, <2>2 DEF WorkerOK, Locals, Claims
  <2>4. Become(w, l)
    BY <1>5 DEF CkptJson, k
  <2> QED
    BY <2>1, <2>3, <2>4, SameChildren, WorkerStep
<1>6. CASE CkptSha(w)
  <2> DEFINE l == [k EXCEPT !.pc = After(k.ck), !.seq = 0,
                            !.ck = IF k.ck.life = "finalizing" THEN @ ELSE Null,
                            !.guarded = @ /\ k.ck.life = "finalizing"]
  <2>1. FilesOK' /\ dirs' = dirs /\ child' = child
    BY <1>4, <1>2, <1>6 DEF CkptSha, FilesOK, IInv, k
  <2>2. k.ck \in Ckpts /\ k.ck.life \in Lives
    BY <1>2 DEF GoodCkpts, Ckpts
  <2>3. /\ After(k.ck) \in {"loop", "spawn", "pair", "reload"}
        /\ After(k.ck) = "spawn" => k.ck.life = "active_task"
        /\ After(k.ck) = "pair" => k.ck.life = "finalizing"
    BY <2>2 DEF After, Lives
  <2>4. (k.guarded /\ k.ck.life = "finalizing") \in BOOLEAN
    OBVIOUS
  <2>5. l \in Locals /\ l.pc = After(k.ck)
    BY <1>2, <2>2, <2>3, <2>4 DEF Locals, PCs
  <2>6. WorkerOK(l, dirs', child') /\ ~Claims(l)
    BY <1>2, <2>1, <2>3, <2>5 DEF WorkerOK, Locals, Claims
  <2>7. Become(w, l)
    BY <1>6 DEF CkptSha, k
  <2> QED
    BY <2>1, <2>6, <2>7, SameChildren, WorkerStep
<1> QED
  BY <1>5, <1>6

\* The head of the task loop.
LEMMA TaskLoop ==
  ASSUME IInv, NEW w \in Workers, NextTask(w) \/ FinishQueue(w)
  PROVE  IInv'
<1>1. /\ wk[w] \in Locals /\ wk[w].c \in dirs /\ wk[w].c \in Cycles
      /\ wk[w].mode = "terminal" => wk[w].pred \in Cycles
      /\ wk[w].base \in Heads /\ wk[w].head \in Heads
  BY OwnState DEF WorkerOK, NextTask, FinishQueue, At
<1>2. FilesOK' /\ dirs' = dirs /\ child' = child
  BY <1>1 DEF NextTask, FinishQueue, Checkpoint, FilesOK, IInv
<1>3. CASE NextTask(w)
  <2> DEFINE k == [wk[w] EXCEPT !.stopped = TRUE]
             l == [k EXCEPT !.pc = "spawn"]
  <2>1. /\ k \in Locals /\ k.c \in dirs /\ (k.mode = "terminal" => k.pred \in Cycles)
        /\ k.base \in Heads /\ k.head \in Heads /\ Len(k.done) < TaskCount
    BY <1>1, <1>3 DEF Locals, NextTask
  <2>2. \/ Become(w, l)
        \/ Checkpoint(w, k, "active_task", "none")
    BY <1>3 DEF NextTask
  <2> HIDE DEF k
  <2>3. CASE Become(w, l)
    <3>1. l \in Locals /\ l.pc = "spawn"
      BY <2>1 DEF Locals, PCs
    <3>2. WorkerOK(l, dirs', child') /\ ~Claims(l)
      BY <2>1, <3>1, <1>2 DEF WorkerOK, Locals, Claims
    <3> QED
      BY <2>3, <3>2, <1>2, SameChildren, WorkerStep
  <2>4. CASE Checkpoint(w, k, "active_task", "none")
    BY <2>1, <2>4, <1>2, CheckpointStep DEF Lives, Terms
  <2> QED
    BY <2>2, <2>3, <2>4
<1>4. CASE FinishQueue(w)
  <2> DEFINE k == [wk[w] EXCEPT !.stopped = FALSE]
  <2>1. /\ k \in Locals /\ k.c \in dirs /\ (k.mode = "terminal" => k.pred \in Cycles)
        /\ k.base \in Heads /\ k.head \in Heads
    BY <1>1 DEF Locals
  <2>2. Checkpoint(w, k, "finalizing", "completed")
    BY <1>4 DEF FinishQueue
  <2> HIDE DEF k
  <2> QED
    BY <2>1, <2>2, <1>2, CheckpointStep DEF Lives, Terms
<1> QED
  BY <1>3, <1>4

\* Accepting a completed child extends the chain.
LEMMA AcceptStep ==
  ASSUME IInv, NEW w \in Workers, NEW k \in Locals, k.c \in dirs,
         k.mode = "terminal" => k.pred \in Cycles, k.base \in Heads, k.head \in Heads,
         Len(k.done) < TaskCount, Accept(w, k), FilesOK', UNCHANGED <<dirs, child>>
  PROVE  IInv'
<1> DEFINE l == [k EXCEPT !.done = Append(@, Current(k)), !.head = Current(k),
                          !.stopped = FALSE, !.active = FALSE]
<1>1. Current(k) \in Commits
  BY CurrentType DEF IInv, FilesOK
<1>2. Append(k.done, Current(k)) \in Chains
  BY <1>1, ChainGrows DEF Locals
<1>3. /\ l \in Locals /\ l.c \in dirs /\ (l.mode = "terminal" => l.pred \in Cycles)
      /\ l.base \in Heads /\ l.head \in Heads
  BY <1>1, <1>2 DEF Locals, Heads
<1>4. Checkpoint(w, l, "accepted_task", "none")
  BY DEF Accept
<1> HIDE DEF l
<1> QED
  BY <1>3, <1>4, CheckpointStep DEF Lives, Terms

\* A child that did not complete gives the terminal outcome.
LEMMA TerminalizeStep ==
  ASSUME IInv, NEW w \in Workers, NEW k \in Locals, k.c \in dirs,
         k.mode = "terminal" => k.pred \in Cycles, k.base \in Heads, k.head \in Heads,
         Len(k.done) < TaskCount, ChildVerified(Current(k), k.head),
         Terminalize(w, k), FilesOK', UNCHANGED <<dirs, child>>
  PROVE  IInv'
<1> DEFINE l  == [k EXCEPT !.stopped = TRUE]
           st == child[Current(k)].st
<1>1. Current(k) \in Commits
  BY CurrentType DEF IInv, FilesOK
<1>2. st \in Terms
  BY <1>1 DEF ChildVerified, IInv, ChildOK, Ended, Terms
<1>3. /\ l \in Locals /\ l.c \in dirs /\ (l.mode = "terminal" => l.pred \in Cycles)
      /\ l.base \in Heads /\ l.head \in Heads
  BY DEF Locals
<1>4. Checkpoint(w, l, "finalizing", st)
  BY DEF Terminalize
<1> HIDE DEF l, st
<1> QED
  BY <1>2, <1>3, <1>4, CheckpointStep DEF Lives

\* The child run: only an absent run can be claimed, which is why no other
\* worker executes it.
LEMMA ChildSteps ==
  ASSUME IInv, NEW w \in Workers,
         SpawnChild(w) \/ ChildEnds(w) \/ ChildRaises(w) \/ SealChild(w) \/ JudgeChild(w)
  PROVE  IInv'
<1> DEFINE k  == wk[w]
           id == Current(k)
<1>1. k.pc \in {"spawn", "child", "seal", "judge"}
  BY DEF SpawnChild, ChildEnds, ChildRaises, SealChild, JudgeChild, At
<1>2. /\ k \in Locals /\ k.c \in dirs /\ k.c \in Cycles /\ WorkerOK(k, dirs, child)
      /\ (k.mode = "terminal" => k.pred \in Cycles)
      /\ k.base \in Heads /\ k.head \in Heads /\ Len(k.done) < TaskCount
  BY <1>1, OwnState DEF WorkerOK, At
<1>3. id \in Commits
  BY <1>2, CurrentType
<1>4. ChildOK(child)
  BY DEF IInv
<1>5. FilesOK' /\ dirs' = dirs
  BY <1>2 DEF SpawnChild, ChildEnds, ChildRaises, SealChild, JudgeChild, Accept,
              Terminalize, Checkpoint, FilesOK, IInv
<1>6. CASE SpawnChild(w) /\ Absent(id)
  <2> DEFINE l == [k EXCEPT !.pc = "child"]
  <2>1. /\ child' = [child EXCEPT ![id] = [@ EXCEPT !.st = "running", !.base = k.head]]
        /\ Become(w, l) /\ child[id].st = "absent"
    BY <1>6 DEF SpawnChild, Absent
  <2>2. ChildOK(child') /\ Progress(child, child') /\ child'[id].st = "running"
    BY <2>1, <1>2, <1>3, <1>4 DEF ChildOK, Progress, ChildRuns, ChildStates, Ended
  <2>3. l \in Locals /\ l.pc = "child" /\ Current(l) = id
    BY <1>2 DEF Locals, PCs, Current
  <2>4. WorkerOK(l, dirs', child')
    BY <2>2, <2>3, <1>2, <1>5 DEF WorkerOK, Locals
  <2>5. \A v \in Workers : Claims(wk[v]) => Current(wk[v]) # id
    BY <2>1 DEF IInv, WorkerOK, Claims, Ended
  <2> QED
    BY <2>1, <2>2, <2>3, <2>4, <2>5, <1>5, WorkerStep
<1>7. CASE SpawnChild(w) /\ ~Absent(id)
  BY <1>7, <1>2, <1>5, RecordStep DEF SpawnChild
<1>8. CASE ChildEnds(w)
  <2> DEFINE l == [k EXCEPT !.pc = "seal"]
  <2>1. PICK st \in Ended :
             child' = [child EXCEPT ![id] = [@ EXCEPT !.st = st, !.written = TRUE]]
    BY <1>8 DEF ChildEnds, Ended
  <2>2. Become(w, l)
    BY <1>8 DEF ChildEnds
  <2>3. ChildOK(child') /\ Progress(child, child') /\ child'[id].st \in Ended
    BY <2>1, <1>3, <1>4 DEF ChildOK, Progress, ChildRuns, ChildStates, Ended
  <2>4. l \in Locals /\ l.pc = "seal" /\ Current(l) = id
    BY <1>2 DEF Locals, PCs, Current
  <2>5. WorkerOK(l, dirs', child')
    BY <2>3, <2>4, <1>2, <1>5 DEF WorkerOK, Locals
  <2>6. k.pc = "child"
    BY <1>8 DEF ChildEnds, At
  <2>7. \A v \in Workers \ {w} : Claims(wk[v]) => Current(wk[v]) # id
    BY <2>6 DEF IInv, OneWorkerPerChild, Claims
  <2> QED
    BY <2>2, <2>3, <2>4, <2>5, <2>7, <1>5, WorkerStep
<1>9. CASE ChildRaises(w)
  BY <1>9, <1>2, <1>5, RecordStep DEF ChildRaises
<1>10. CASE SealChild(w)
  <2> DEFINE l == [k EXCEPT !.pc = "judge"]
  <2>1. child' = [child EXCEPT ![id].sealed = TRUE] /\ Become(w, l) /\ k.pc = "seal"
    BY <1>10 DEF SealChild, At
  <2>2. child[id].st \in Ended
    BY <2>1, <1>2 DEF WorkerOK
  <2>3. ChildOK(child') /\ Progress(child, child')
    BY <2>1, <2>2, <1>3, <1>4 DEF ChildOK, Progress, ChildRuns, ChildStates
  <2>4. l \in Locals /\ l.pc = "judge"
    BY <1>2 DEF Locals, PCs
  <2>5. WorkerOK(l, dirs', child') /\ ~Claims(l)
    BY <2>4, <1>2, <1>5 DEF WorkerOK, Locals, Claims
  <2> QED
    BY <2>1, <2>3, <2>5, <1>5, WorkerStep
<1>11. CASE JudgeChild(w)
  <2>1. child' = child
    BY <1>11 DEF JudgeChild
  <2>2. CASE Record(w, k, "failed")
    BY <2>1, <2>2, <1>2, <1>5, RecordStep
  <2>3. CASE Accept(w, k)
    BY <2>1, <2>3, <1>2, <1>5, AcceptStep
  <2>4. CASE ChildVerified(id, k.head) /\ Terminalize(w, k)
    BY <2>1, <2>4, <1>2, <1>5, TerminalizeStep
  <2> QED
    BY <1>11, <2>2, <2>3, <2>4 DEF JudgeChild
<1> QED
  BY <1>6, <1>7, <1>8, <1>9, <1>10, <1>11

\* The terminal receipt pair.
LEMMA PublishSteps ==
  ASSUME IInv, NEW w \in Workers,
         ReloadTerminal(w) \/ CheckPair(w) \/ PairJson(w) \/ PairSha(w)
  PROVE  IInv'
<1> DEFINE k == wk[w]
<1>1. ~At(w, "idle")
  BY DEF ReloadTerminal, CheckPair, PairJson, PairSha, At
<1>2. /\ k \in Locals /\ k.c \in dirs /\ k.c \in Cycles /\ WorkerOK(k, dirs, child)
      /\ (k.mode = "terminal" => k.pred \in Cycles)
  BY <1>1, OwnState
<1>3. Cleaned({k.c}) \in [Cycles -> Seq(GoodPairs)]
  BY CleanedType DEF IInv, FilesOK
<1>4. FilesOK' /\ dirs' = dirs /\ child' = child
  BY <1>2, <1>3 DEF ReloadTerminal, CheckPair, PairJson, PairSha, FilesOK, IInv, Locals, store
<1>5. CASE ReloadTerminal(w)
  <2>1. CASE Loadable(k.c)
    <3> DEFINE s == LoadedCkpt(k.c)
               l == [k EXCEPT !.pc = "pair", !.ck = s]
    <3>1. s \in GoodCkpts
      BY <1>2, <2>1, LoadedType DEF IInv, FilesOK
    <3>2. Become(w, l)
      BY <1>5, <2>1 DEF ReloadTerminal
    <3> HIDE DEF s
    <3>3. l \in Locals /\ l.pc = "pair" /\ l.ck = s
      BY <1>2, <3>1 DEF Locals, PCs, GoodCkpts
    <3>4. WorkerOK(l, dirs', child') /\ ~Claims(l)
      BY <3>1, <3>3, <1>2, <1>4 DEF WorkerOK, Locals, Claims
    <3> QED
      BY <3>2, <3>4, <1>4, SameChildren, WorkerStep
  <2>2. CASE ~Loadable(k.c) /\ k.guarded
    BY <2>2, <1>2, <1>4, <1>5, RecordStep DEF ReloadTerminal
  <2>3. CASE ~Loadable(k.c) /\ ~k.guarded
    BY <2>3, <1>4, <1>5, IdleStep DEF ReloadTerminal
  <2> QED
    BY <2>1, <2>2, <2>3
<1>6. CASE CheckPair(w)
  <2> DEFINE r  == TerminalReceipt(k.ck)
             pc == IF receipt[k.c] # Null THEN "pair_sha"
                   ELSE IF sidecar[k.c] # Null THEN "pair_json" ELSE "pair_both"
             l  == [k EXCEPT !.out = r, !.ck = Null, !.pc = pc]
  <2>1. Become(w, Idle) \/ Become(w, l)
    BY <1>6 DEF CheckPair
  <2>2. CASE Become(w, Idle)
    BY <2>2, <1>4, IdleStep
  <2>3. CASE Become(w, l)
    <3>1. k.ck \in Ckpts
      BY <1>2, <1>6 DEF WorkerOK, CheckPair, At, GoodCkpts
    <3>2. (k.ck.term \notin {"completed", "none"}) \in BOOLEAN
      OBVIOUS
    <3>3. r \in Receipts
      BY <3>1, <3>2 DEF TerminalReceipt, TermStatus, Receipts, Ckpts, Terms
    <3>4. pc \in {"pair_sha", "pair_json", "pair_both"}
      OBVIOUS
    <3> HIDE DEF r, pc
    <3>5. l \in Locals /\ l.pc = pc
      BY <1>2, <3>3, <3>4 DEF Locals, PCs
    <3>6. WorkerOK(l, dirs', child') /\ ~Claims(l)
      BY <3>4, <3>5, <1>2, <1>4 DEF WorkerOK, Locals, Claims
    <3> QED
      BY <2>3, <3>6, <1>4, SameChildren, WorkerStep
  <2> QED
    BY <2>1, <2>2, <2>3
<1>7. CASE PairJson(w)
  <2> DEFINE l == [k EXCEPT !.pc = "pair_sha"]
  <2>1. CASE Become(w, l)
    <3>1. l \in Locals /\ l.pc = "pair_sha"
      BY <1>2 DEF Locals, PCs
    <3>2. WorkerOK(l, dirs', child') /\ ~Claims(l)
      BY <3>1, <1>2, <1>4 DEF WorkerOK, Locals, Claims
    <3> QED
      BY <2>1, <3>2, <1>4, SameChildren, WorkerStep
  <2>2. CASE Become(w, Idle)
    BY <2>2, <1>4, IdleStep
  <2> QED
    BY <1>7, <2>1, <2>2 DEF PairJson
<1>8. CASE PairSha(w)
  BY <1>8, <1>4, IdleStep DEF PairSha
<1> QED
  BY <1>5, <1>6, <1>7, <1>8

\* The three kinds of launch.
LEMMA Launches ==
  ASSUME IInv, NEW w \in Workers, Launch(w)
  PROVE  IInv'
<1>1. Idle \in Locals /\ Idle.pc = "idle"
  BY EmptyChain DEF Idle, Locals, PCs, Modes
<1>2. ASSUME NEW l \in Locals, l.pc = "preflight", l.c \in dirs',
             l.mode = "terminal" => l.pred \in Cycles, Become(w, l),
             dirs \subseteq dirs', FilesOK', child' = child
      PROVE  IInv'
  <2>1. WorkerOK(l, dirs', child') /\ ~Claims(l)
    BY <1>2 DEF WorkerOK, Locals, Claims
  <2> QED
    BY <1>2, <2>1, SameChildren, WorkerStep
<1>3. ASSUME NEW mode \in Modes, NEW pred \in Cycles \cup {Null},
             mode = "terminal" => pred \in Cycles, NewCycle(w, mode, pred),
             UNCHANGED <<stateDirs, hist, receipt, sidecar, child, dirty, faults>>
      PROVE  IInv'
  <2>1. PICK c \in Cycles :
             /\ dirs' = dirs \cup {c}
             /\ Become(w, [Idle EXCEPT !.pc = "preflight", !.c = c, !.mode = mode, !.pred = pred])
    BY <1>3 DEF NewCycle
  <2> DEFINE l == [Idle EXCEPT !.pc = "preflight", !.c = c, !.mode = mode, !.pred = pred]
  <2>2. FilesOK'
    BY <1>3, <2>1 DEF FilesOK, IInv
  <2>3. l \in Locals /\ l.pc = "preflight" /\ l.mode = mode /\ l.pred = pred /\ l.c = c
    BY <1>1 DEF Locals, PCs
  <2>4. Become(w, l)
    BY <2>1
  <2> HIDE DEF l
  <2> QED
    BY <1>2, <1>3, <2>1, <2>2, <2>3, <2>4
<1>4. CASE StartFresh(w)
  BY <1>3, <1>4 DEF StartFresh, Modes
<1>5. CASE StartTerminalResume(w)
  BY <1>3, <1>5 DEF StartTerminalResume, Modes, IInv, FilesOK
<1>6. CASE StartResume(w)
  <2>1. PICK c \in dirs :
             Become(w, [Idle EXCEPT !.pc = "preflight", !.c = c, !.mode = "resume"])
    BY <1>6 DEF StartResume
  <2>2. c \in Cycles /\ FilesOK' /\ dirs' = dirs /\ child' = child
    BY <1>6 DEF StartResume, IInv, FilesOK, store
  <2> DEFINE l == [Idle EXCEPT !.pc = "preflight", !.c = c, !.mode = "resume"]
  <2>3. l \in Locals /\ l.pc = "preflight" /\ l.mode = "resume" /\ l.c = c
    BY <1>1, <2>2 DEF Locals, PCs, Modes
  <2>4. Become(w, l)
    BY <2>1
  <2> HIDE DEF l
  <2> QED
    BY <1>2, <2>2, <2>3, <2>4
<1> QED
  BY <1>4, <1>5, <1>6 DEF Launch

\* A discovered continuation base is a commit.
LEMMA TipType ==
  ASSUME NEW except, NEW tip \in Discover(except)
  PROVE  tip \in Heads
BY DEF Discover

\* The first checkpoint of a new cycle, or its refusal.
LEMMA AdmitStep ==
  ASSUME IInv, NEW w \in Workers, NEW k \in Locals, k.c \in dirs,
         k.mode = "terminal" => k.pred \in Cycles, k.base \in Heads, k.head \in Heads,
         Admit(w, k), hist' \in [Cycles -> Seq(GoodPairs)],
         UNCHANGED <<dirs, receipt, sidecar, child, dirty, faults>>
  PROVE  IInv'
<1>1. stateDirs' = stateDirs \/ stateDirs' = stateDirs \cup {k.c}
  BY DEF Admit, Checkpoint
<1>2. FilesOK'
  BY <1>1 DEF FilesOK, IInv
<1> QED
  BY <1>2, RecordStep, CheckpointStep DEF Admit, Lives, Terms

\* Preflight, with the continuation base and the seed of a new cycle.
LEMMA PreflightSteps ==
  ASSUME IInv, NEW w \in Workers, Preflight(w)
  PROVE  IInv'
<1> DEFINE k == wk[w]
<1>1. k.pc = "preflight" /\ ~At(w, "idle")
  BY DEF Preflight, PreflightDirty, PreflightResume, PreflightNew, At
<1>2. /\ k \in Locals /\ k.c \in dirs /\ k.c \in Cycles
      /\ (k.mode = "terminal" => k.pred \in Cycles)
  BY <1>1, OwnState
<1>3. CASE PreflightDirty(w)
  <2>1. FilesOK' /\ UNCHANGED <<dirs, child>> /\ Record(w, k, "blocked")
    BY <1>3 DEF PreflightDirty, FilesOK, IInv
  <2> QED
    BY <2>1, <1>2, RecordStep
<1>4. CASE PreflightResume(w)
  <2> DEFINE l == [k EXCEPT !.pc = "verify", !.base = Anchor, !.head = Anchor, !.guarded = TRUE]
  <2>1. FilesOK' /\ dirs' = dirs /\ child' = child /\ Become(w, l)
    BY <1>4 DEF PreflightResume, FilesOK, IInv, store
  <2>2. l \in Locals /\ l.pc = "verify"
    BY <1>2 DEF Locals, PCs, Heads
  <2>3. WorkerOK(l, dirs', child') /\ ~Claims(l)
    BY <2>1, <2>2, <1>2 DEF WorkerOK, Locals, Claims
  <2> QED
    BY <2>1, <2>3, SameChildren, WorkerStep
<1>5. CASE PreflightNew(w)
  <2> DEFINE a == [k EXCEPT !.base = Anchor, !.head = Anchor]
             s == LoadedCkpt(k.pred)
  <2>1. /\ a \in Locals /\ a.c \in dirs /\ (a.mode = "terminal" => a.pred \in Cycles)
        /\ a.pred = k.pred /\ a.mode = k.mode /\ a.c = k.c
    BY <1>2 DEF Locals, Heads
  <2>2. hist' \in [Cycles -> Seq(GoodPairs)]
    <3>1. PICK cs : hist' = Cleaned(cs)
      BY <1>5 DEF PreflightNew
    <3> QED
      BY <3>1, CleanedType DEF IInv, FilesOK
  <2>3. UNCHANGED <<dirs, receipt, sidecar, child, dirty, faults>>
    BY <1>5 DEF PreflightNew
  <2>5. ASSUME NEW b \in Heads, NEW h \in Heads, NEW d \in Chains,
               Admit(w, [a EXCEPT !.base = b, !.head = h, !.done = d])
        PROVE  IInv'
    <3> DEFINE l == [a EXCEPT !.base = b, !.head = h, !.done = d]
    <3>1. /\ l \in Locals /\ l.c \in dirs /\ (l.mode = "terminal" => l.pred \in Cycles)
          /\ l.base \in Heads /\ l.head \in Heads
      BY <2>1, <2>5 DEF Locals
    <3>2. Admit(w, l)
      BY <2>5
    <3> HIDE DEF l
    <3> QED
      BY <3>1, <3>2, <2>2, <2>3, AdmitStep
  <2>4. UNCHANGED stateDirs => FilesOK'
    BY <2>2, <2>3 DEF FilesOK, IInv
  <2>6. CASE Record(w, a, "blocked") /\ UNCHANGED stateDirs
    BY <2>1, <2>6, <2>3, <2>4, RecordStep
  <2>7. ASSUME NEW tip \in Heads, Admit(w, [a EXCEPT !.base = tip, !.head = tip])
        PROVE  IInv'
    <3> DEFINE l == [a EXCEPT !.base = tip, !.head = tip]
    <3>1. /\ l \in Locals /\ l.c \in dirs /\ (l.mode = "terminal" => l.pred \in Cycles)
          /\ l.base \in Heads /\ l.head \in Heads
      BY <2>1, <2>7 DEF Locals
    <3>2. Admit(w, l)
      BY <2>7
    <3> HIDE DEF l
    <3> QED
      BY <3>1, <3>2, <2>2, <2>3, AdmitStep
  <2>8. ASSUME a.mode = "terminal", SeedValid(a.pred),
               Admit(w, [a EXCEPT !.base = s.base, !.head = s.head, !.done = s.done])
        PROVE  IInv'
    <3>1. s \in GoodCkpts
      BY <2>1, <2>8, LoadedType DEF SeedValid, IInv, FilesOK
    <3>2. s.base \in Heads /\ s.head \in Heads /\ s.done \in Chains
      BY <3>1 DEF GoodCkpts, Ckpts
    <3> QED
      BY <2>5, <2>8, <3>2
  <2>9. ASSUME NEW tip \in Heads, Record(w, [a EXCEPT !.base = tip], "blocked"), UNCHANGED stateDirs
        PROVE  IInv'
    <3> DEFINE l == [a EXCEPT !.base = tip]
    <3>1. l \in Locals /\ l.c \in dirs /\ (l.mode = "terminal" => l.pred \in Cycles)
      BY <2>1, <2>9 DEF Locals
    <3>2. Record(w, l, "blocked")
      BY <2>9
    <3> HIDE DEF l
    <3> QED
      BY <3>1, <3>2, <2>9, <2>3, <2>4, RecordStep
  <2> QED
    BY <1>5, <2>1, <2>6, <2>7, <2>8, <2>9, TipType DEF PreflightNew
<1> QED
  BY <1>3, <1>4, <1>5 DEF Preflight

\* Resume of an interrupted cycle.
LEMMA VerifySteps ==
  ASSUME IInv, NEW w \in Workers, Verify(w)
  PROVE  IInv'
<1> DEFINE k == wk[w]
           s == LoadedCkpt(k.c)
           r == Restored(k)
<1>1. k.pc = "verify" /\ ~At(w, "idle")
  BY DEF Verify, ResumeUnloadable, ResumeDrifted, ResumeRebased, ResumeChainInvalid,
         ResumeLoop, ResumeFinalizing, ResumeActive, Trusted, LoadAndDiscover, At
<1>2. /\ k \in Locals /\ k.c \in dirs /\ k.c \in Cycles
      /\ (k.mode = "terminal" => k.pred \in Cycles)
  BY <1>1, OwnState
<1>3. ASSUME NEW cs, hist' = Cleaned(cs) \/ hist' = hist,
             stateDirs' = stateDirs \/ stateDirs' = stateDirs \cup {k.c},
             UNCHANGED <<dirs, receipt, sidecar, child, dirty, faults>>
      PROVE  FilesOK' /\ UNCHANGED <<dirs, child>>
  BY <1>2, <1>3, CleanedType DEF FilesOK, IInv
<1>4. CASE ResumeUnloadable(w)
  <2>1. FilesOK' /\ UNCHANGED <<dirs, child>>
    BY <1>3, <1>4 DEF ResumeUnloadable
  <2> QED
    BY <2>1, <1>2, <1>4, RecordStep DEF ResumeUnloadable
<1>5. CASE ResumeDrifted(w)
  <2>1. FilesOK' /\ UNCHANGED <<dirs, child>>
    BY <1>3, <1>5 DEF ResumeDrifted
  <2> QED
    BY <2>1, <1>2, <1>5, RecordStep DEF ResumeDrifted
<1>6. CASE \/ ResumeRebased(w) \/ ResumeChainInvalid(w) \/ ResumeLoop(w)
           \/ ResumeFinalizing(w) \/ ResumeActive(w)
  <2>1. LoadAndDiscover(w)
    BY <1>6 DEF ResumeRebased, ResumeChainInvalid, ResumeLoop, ResumeFinalizing,
                ResumeActive, Trusted
  <2>2. Loadable(k.c) /\ UNCHANGED <<dirs, receipt, sidecar, child, dirty, faults>>
    BY <2>1 DEF LoadAndDiscover
  <2>3. s \in GoodCkpts
    BY <2>2, <1>2, LoadedType DEF IInv, FilesOK
  <2>4. ASSUME stateDirs' = stateDirs \/ stateDirs' = stateDirs \cup {k.c}
        PROVE  FilesOK' /\ UNCHANGED <<dirs, child>>
    BY <1>3, <2>1, <2>2, <2>4 DEF LoadAndDiscover
  <2>5. /\ r \in Locals /\ r.c = k.c /\ r.c \in dirs
        /\ (r.mode = "terminal" => r.pred \in Cycles)
        /\ r.base \in Heads /\ r.head \in Heads /\ r.done = s.done
    BY <1>2, <2>3 DEF Restored, Locals, GoodCkpts, Ckpts
  <2>6. CASE ResumeRebased(w)
    <3> DEFINE l == [k EXCEPT !.base = s.base]
    <3>1. /\ l \in Locals /\ l.c \in dirs
          /\ (l.mode = "terminal" => l.pred \in Cycles)
      BY <1>2, <2>3 DEF Locals, GoodCkpts, Ckpts
    <3>2. Record(w, l, "blocked") /\ UNCHANGED stateDirs
      BY <2>6 DEF ResumeRebased
    <3> HIDE DEF l
    <3> QED
      BY <2>4, <3>1, <3>2, RecordStep
  <2>7. CASE ResumeChainInvalid(w)
    BY <2>4, <2>5, <2>7, RecordStep DEF ResumeChainInvalid
  <2>8. CASE ResumeLoop(w)
    <3> DEFINE l == [r EXCEPT !.pc = "loop", !.guarded = FALSE]
    <3>1. Become(w, l) /\ UNCHANGED stateDirs
      BY <2>8 DEF ResumeLoop
    <3> HIDE DEF r
    <3>2. l \in Locals /\ l.pc = "loop"
      BY <2>5 DEF Locals, PCs
    <3>3. WorkerOK(l, dirs, child) /\ ~Claims(l)
      BY <2>5, <3>2 DEF WorkerOK, Locals, Claims
    <3> QED
      BY <2>4, <3>1, <3>3, SameChildren, WorkerStep
  <2>9. CASE ResumeFinalizing(w)
    <3> DEFINE l == [r EXCEPT !.pc = "pair", !.ck = s]
    <3>1. (Become(w, l) \/ Become(w, Idle)) /\ UNCHANGED stateDirs
      <4>1. LoadedCkpt(r.c) = s
        BY <2>5
      <4> HIDE DEF r, s
      <4> QED
        BY <2>9, <4>1 DEF ResumeFinalizing, r
    <3> HIDE DEF r, s
    <3>2. l \in Locals /\ l.pc = "pair" /\ l.ck = s
      BY <2>3, <2>5 DEF Locals, PCs, GoodCkpts
    <3>3. WorkerOK(l, dirs, child) /\ ~Claims(l)
      BY <2>3, <2>5, <3>2 DEF WorkerOK, Locals, Claims
    <3>4. CASE Become(w, l)
      BY <2>4, <3>1, <3>3, <3>4, SameChildren, WorkerStep
    <3>5. CASE Become(w, Idle)
      BY <2>4, <3>1, <3>5, IdleStep
    <3> QED
      BY <3>1, <3>4, <3>5
  <2>10. CASE ResumeActive(w)
    <3>1. s.life = "active_task"
      BY <2>10 DEF ResumeActive, Trusted
    <3>2. Len(r.done) < TaskCount
      BY <3>1, <2>3, <2>5 DEF GoodCkpts
    <3>3. CASE Absent(Current(r)) /\ UNCHANGED stateDirs
               /\ Become(w, [r EXCEPT !.pc = "loop", !.active = TRUE, !.guarded = FALSE])
      <4> DEFINE l == [r EXCEPT !.pc = "loop", !.active = TRUE, !.guarded = FALSE]
      <4> HIDE DEF r
      <4>1. l \in Locals /\ l.pc = "loop"
        BY <2>5 DEF Locals, PCs
      <4>2. WorkerOK(l, dirs, child) /\ ~Claims(l)
        BY <2>5, <4>1 DEF WorkerOK, Locals, Claims
      <4> QED
        BY <2>4, <3>3, <4>2, SameChildren, WorkerStep
    <3>4. CASE Record(w, r, "failed") /\ UNCHANGED stateDirs
      BY <2>4, <2>5, <3>4, RecordStep
    <3>5. CASE Record(w, r, "blocked") /\ UNCHANGED stateDirs
      BY <2>4, <2>5, <3>5, RecordStep
    <3>6. Accept(w, r) \/ Terminalize(w, r) => stateDirs' = stateDirs \cup {k.c}
      <4>1. [r EXCEPT !.done = Append(@, Current(r)), !.head = Current(r),
                      !.stopped = FALSE, !.active = FALSE].c = k.c
        BY <2>5 DEF Locals
      <4>2. [r EXCEPT !.stopped = TRUE].c = k.c
        BY <2>5 DEF Locals
      <4> HIDE DEF r
      <4> QED
        BY <4>1, <4>2 DEF Accept, Terminalize, Checkpoint
    <3>7. CASE Accept(w, r)
      BY <2>4, <2>5, <3>2, <3>6, <3>7, AcceptStep
    <3>8. CASE ChildVerified(Current(r), r.head) /\ Terminalize(w, r)
      BY <2>4, <2>5, <3>2, <3>6, <3>8, TerminalizeStep
    <3> QED
      BY <2>10, <3>3, <3>4, <3>5, <3>7, <3>8 DEF ResumeActive
  <2> QED
    BY <1>6, <2>6, <2>7, <2>8, <2>9, <2>10
<1> QED
  BY <1>4, <1>5, <1>6 DEF Verify

\* Initially there are no files and no running workers.
LEMMA InitInv == Init => IInv
<1> SUFFICES ASSUME Init PROVE IInv
  OBVIOUS
<1>1. FilesOK
  <2>1. <<>> \in Seq(GoodPairs)
    OBVIOUS
  <2>2. hist \in [Cycles -> Seq(GoodPairs)]
    BY <2>1 DEF Init, StoreInit
  <2>3. faults \in 0..MaxFaults
    BY MaxFaultsAssumption DEF Init
  <2>4. dirs \subseteq Cycles /\ stateDirs \subseteq dirs /\ dirty \in BOOLEAN
    BY DEF Init, StoreInit
  <2>5. receipt \in [Cycles -> Receipts \cup {Null}] /\ sidecar \in [Cycles -> Receipts \cup {Null}]
    BY DEF Init, StoreInit
  <2> QED
    BY <2>2, <2>3, <2>4, <2>5 DEF FilesOK
<1>2. ChildOK(child)
  BY DEF Init, StoreInit, ChildOK, ChildRuns, ChildStates
<1>3. WorkerOK(Idle, dirs, child) /\ ~Claims(Idle)
  BY EmptyChain DEF WorkerOK, Idle, Locals, PCs, Modes, Claims
<1>4. \A w \in Workers : wk[w] = Idle
  BY DEF Init
<1>5. wk \in [Workers -> Locals]
  BY <1>3 DEF Init, WorkerOK
<1>6. OneWorkerPerChild
  BY <1>3, <1>4 DEF OneWorkerPerChild, Claims
<1> QED
  BY <1>1, <1>2, <1>3, <1>4, <1>5, <1>6 DEF IInv

\* Every step keeps the invariant.
LEMMA NextInv == IInv /\ [Next]_vars => IInv'
<1> SUFFICES ASSUME IInv, [Next]_vars PROVE IInv'
  OBVIOUS
<1>1. ASSUME NEW w \in Workers, Launch(w) PROVE IInv'
  BY <1>1, Launches
<1>2. ASSUME NEW w \in Workers, Work(w) PROVE IInv'
  BY <1>2, PreflightSteps, VerifySteps, TaskLoop, ChildSteps, CheckpointFiles,
     PublishSteps, RecordFiles DEF Work
<1>3. ASSUME NEW w \in Workers, Kill(w) PROVE IInv'
  <2>1. FilesOK' /\ UNCHANGED <<dirs, child>>
    BY <1>3, MaxFaultsAssumption DEF Kill, FilesOK, IInv, store
  <2> QED
    BY <2>1, <1>3, IdleStep DEF Kill
<1>4. CASE EditSource
  <2>1. FilesOK' /\ UNCHANGED <<dirs, child, wk>>
    BY <1>4, MaxFaultsAssumption DEF EditSource, FilesOK, IInv, store
  <2> QED
    BY <2>1 DEF IInv, OneWorkerPerChild
<1>5. CASE RestoreSource
  <2>1. FilesOK' /\ UNCHANGED <<dirs, child, wk>>
    BY <1>5 DEF RestoreSource, FilesOK, IInv, store
  <2> QED
    BY <2>1 DEF IInv, OneWorkerPerChild
<1>6. CASE UNCHANGED vars
  BY <1>6 DEF vars, store, IInv, FilesOK, OneWorkerPerChild
<1> QED
  BY <1>1, <1>2, <1>3, <1>4, <1>5, <1>6 DEF Next

\* The invariant gives the type invariant.
LEMMA InvTypeOK == IInv => TypeOK
<1>1. GoodPairs \subseteq Pairs
  BY DEF GoodPairs, Pairs, GoodCkpts
<1>2. Seq(GoodPairs) \subseteq Seq(Pairs)
  BY <1>1
<1> QED
  BY <1>2 DEF IInv, FilesOK, ChildOK, TypeOK, StoreTypeOK

\* Every file and every local variable of a worker always holds a value of its
\* kind: no interleaving, kill or resume writes a checkpoint or a receipt out of
\* its format.
THEOREM TypeCorrect == Spec => []TypeOK
BY InitInv, NextInv, InvTypeOK, PTL DEF Spec

\* No two workers ever execute the same child run, for any number of workers:
\* mkdir(exist_ok=False) of the run directory is the only arbiter.
THEOREM OneWorker == Spec => []OneWorkerPerChild
<1>1. IInv => OneWorkerPerChild
  BY DEF IInv
<1> QED
  BY <1>1, InitInv, NextInv, PTL DEF Spec
=============================================================================
