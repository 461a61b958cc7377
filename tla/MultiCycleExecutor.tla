------------------------- MODULE MultiCycleExecutor -------------------------
(***************************************************************************)
(* Worker processes that run run_repository_multi_cycle over the evidence  *)
(* of CycleEvidence: a fresh run, the resume of an interrupted cycle, or a *)
(* new cycle seeded from a terminal one.  Every durable write is a step of *)
(* its own, and a worker may be killed between any two of them.            *)
(***************************************************************************)
EXTENDS CycleEvidence

CONSTANTS
  MaxFaults,    \* bound: kills of a worker and edits of the source checkout
  MaxHistory,   \* bound: checkpoints beyond which a cycle is not resumed; only
                \* workers racing on one cycle write more than one run needs
  Supervised    \* TRUE: launches follow the supervisor's choice of cycle;
                \* FALSE: any launch the command line accepts

ASSUME MaxFaultsAssumption  == MaxFaults \in Nat
ASSUME MaxHistoryAssumption == MaxHistory \in Nat
ASSUME SupervisedAssumption == Supervised \in BOOLEAN

VARIABLES
  wk,           \* wk[w]: the local state of worker process w
  dirty,        \* the source checkout has uncommitted changes
  faults        \* faults so far

vars == <<store, wk, dirty, faults>>

Modes == {"fresh", "resume", "terminal"}
PCs == {"idle", "preflight", "verify", "ckpt_json", "ckpt_sha", "loop", "spawn",
        "child", "seal", "judge", "reload", "pair", "pair_both", "pair_json",
        "pair_sha", "rec_json", "rec_sha"}

(***************************************************************************)
(* Local state: the nonlocals of run_repository_multi_cycle (base =        *)
(* continuation_base, head = accepted_head, done = completed, stopped =    *)
(* stopped_task_id is set), active = the resumed active task is still to   *)
(* run, guarded = inside the try block of the resume, and the checkpoint   *)
(* ck with its number seq or the receipt out being written.                *)
(***************************************************************************)
Locals == [pc : PCs, c : Cycles \cup {Null}, mode : Modes, pred : Cycles \cup {Null},
           base : Heads \cup {Null}, head : Heads \cup {Null}, done : Chains,
           stopped : BOOLEAN, active : BOOLEAN, guarded : BOOLEAN,
           ck : Ckpts \cup {Null}, seq : Nat, out : Receipts \cup {Null}]

Idle == [pc |-> "idle", c |-> Null, mode |-> "fresh", pred |-> Null,
         base |-> Null, head |-> Null, done |-> <<>>,
         stopped |-> FALSE, active |-> FALSE, guarded |-> FALSE,
         ck |-> Null, seq |-> 0, out |-> Null]

Init ==
  /\ StoreInit
  /\ wk = [w \in Workers |-> Idle]
  /\ dirty = FALSE
  /\ faults = 0

Become(w, k) == wk' = [wk EXCEPT ![w] = k]
At(w, pc)    == wk[w].pc = pc
Current(k)   == <<k.c, Len(k.done) + 1>>     \* the child run of the next task

(***************************************************************************)
(* record(): receipt.json is replaced, then receipt.sha256 is written from *)
(* what receipt.json holds by then.                                        *)
(***************************************************************************)
Record(w, k, status) ==
  Become(w, [k EXCEPT !.pc = "rec_json", !.out =
     [status |-> status, reason |-> "other",
      base |-> k.base, head |-> k.head, done |-> k.done, stopped |-> k.stopped,
      pre |-> k.head = Anchor /\ k.done = <<>> /\ ~k.stopped, by |-> w]])

RecordJson(w) ==
  /\ At(w, "rec_json")
  /\ receipt' = [receipt EXCEPT ![wk[w].c] = wk[w].out]
  /\ Become(w, [wk[w] EXCEPT !.pc = "rec_sha"])
  /\ UNCHANGED <<dirs, stateDirs, hist, sidecar, child, dirty, faults>>

RecordSha(w) ==
  /\ At(w, "rec_sha")
  /\ sidecar' = [sidecar EXCEPT ![wk[w].c] = receipt[wk[w].c]]
  /\ Become(w, Idle)
  /\ UNCHANGED <<dirs, stateDirs, hist, receipt, child, dirty, faults>>

(***************************************************************************)
(* write_checkpoint: refuse to extend a history that is not sealed, then   *)
(* write the json and, as a second durable step, its sidecar.  The history *)
(* is listed after the caller's own load removed an orphan: hist', which   *)
(* the caller determines.                                                  *)
(***************************************************************************)
Checkpoint(w, k, life, term) ==
  /\ stateDirs' = stateDirs \cup {k.c}
  /\ IF AllSealed(hist'[k.c])
     THEN Become(w, [k EXCEPT !.pc = "ckpt_json", !.seq = Len(hist'[k.c]) + 1,
             !.ck = [life |-> life, base |-> k.base, head |-> k.head,
                     done |-> k.done, term |-> term, by |-> w]])
     ELSE IF k.guarded THEN Record(w, k, "blocked") ELSE Become(w, Idle)

\* os.replace of one file of pair i; the pair may have been removed meanwhile.
PutJson(h, i, v) == IF i <= Len(h) THEN [h EXCEPT ![i].json = v]
                                   ELSE Append(h, [json |-> v, sha |-> Null])
PutSha(h, i, v)  == IF i <= Len(h) THEN [h EXCEPT ![i].sha = v]
                                   ELSE Append(h, [json |-> Null, sha |-> v])

CkptJson(w) ==
  /\ At(w, "ckpt_json")
  /\ hist' = [hist EXCEPT ![wk[w].c] = PutJson(@, wk[w].seq, wk[w].ck)]
  /\ Become(w, [wk[w] EXCEPT !.pc = "ckpt_sha"])
  /\ UNCHANGED <<dirs, stateDirs, receipt, sidecar, child, dirty, faults>>

After(ck) == CASE ck.life \in {"initialized", "accepted_task"} -> "loop"
               [] ck.life = "active_task" -> "spawn"
               [] ck.life = "finalizing" -> IF ck.term = "completed" THEN "pair" ELSE "reload"

CkptSha(w) ==
  LET k == wk[w] IN
  /\ At(w, "ckpt_sha")
  /\ hist' = [hist EXCEPT ![k.c] = PutSha(@, k.seq, k.ck)]
  /\ Become(w, [k EXCEPT !.pc = After(k.ck), !.seq = 0,
                         !.ck = IF k.ck.life = "finalizing" THEN @ ELSE Null,
                         !.guarded = @ /\ k.ck.life = "finalizing"])
  /\ UNCHANGED <<dirs, stateDirs, receipt, sidecar, child, dirty, faults>>

(***************************************************************************)
(* The task loop.                                                          *)
(***************************************************************************)
NextTask(w) ==
  LET k == [wk[w] EXCEPT !.stopped = TRUE] IN
  /\ At(w, "loop") /\ Len(k.done) < TaskCount
  /\ UNCHANGED <<dirs, hist, receipt, sidecar, child, dirty, faults>>
  /\ IF k.active    \* a resumed active task is durable already
     THEN Become(w, [k EXCEPT !.pc = "spawn"]) /\ UNCHANGED stateDirs
     ELSE Checkpoint(w, k, "active_task", "none")

FinishQueue(w) ==
  /\ At(w, "loop") /\ Len(wk[w].done) = TaskCount
  /\ UNCHANGED <<dirs, hist, receipt, sidecar, child, dirty, faults>>
  /\ Checkpoint(w, [wk[w] EXCEPT !.stopped = FALSE], "finalizing", "completed")

(***************************************************************************)
(* The child run: its directory is made with exist_ok=False, it executes   *)
(* in a worktree on the accepted head, and leaves receipt and sidecar.     *)
(***************************************************************************)
\* Fault: the directory of an unfinished run is used again.
AbsentOrLeft(id) == child[id].st \in {"absent", "running"}

Absent(id) == child[id].st = "absent"

SpawnChild(w) ==
  LET k == wk[w] IN
  /\ At(w, "spawn")
  /\ IF Absent(Current(k))
     THEN /\ child' = [child EXCEPT ![Current(k)] = [@ EXCEPT !.st = "running", !.base = k.head]]
          /\ Become(w, [k EXCEPT !.pc = "child"])
     ELSE Record(w, k, "failed") /\ UNCHANGED child
  /\ UNCHANGED <<dirs, stateDirs, hist, receipt, sidecar, dirty, faults>>

ChildEnds(w) ==
  /\ At(w, "child")
  /\ \E st \in {"completed", "blocked", "failed", "failed_commit"} :
       child' = [child EXCEPT ![Current(wk[w])] = [@ EXCEPT !.st = st, !.written = TRUE]]
  /\ Become(w, [wk[w] EXCEPT !.pc = "seal"])
  /\ UNCHANGED <<dirs, stateDirs, hist, receipt, sidecar, dirty, faults>>

\* run_repository_single_task raises: multi_cycle.child.invocation_failed
ChildRaises(w) ==
  /\ At(w, "child")
  /\ Record(w, wk[w], "failed")
  /\ UNCHANGED <<dirs, stateDirs, hist, receipt, sidecar, child, dirty, faults>>

SealChild(w) ==
  /\ At(w, "seal")
  /\ child' = [child EXCEPT ![Current(wk[w])].sealed = TRUE]
  /\ Become(w, [wk[w] EXCEPT !.pc = "judge"])
  /\ UNCHANGED <<dirs, stateDirs, hist, receipt, sidecar, dirty, faults>>

\* _load_verified_child_receipt: a commit must sit on the expected parent.
ChildVerified(id, parent) ==
  /\ child[id].sealed /\ ~dirty
  /\ CommitExists(id) => Parent(id) = parent

\* Fault: any run that left a commit counts as completed.
CompletedOrCommitted(id) == CommitExists(id)

Completed(id) == child[id].st = "completed"

Accept(w, k) ==
  Checkpoint(w, [k EXCEPT !.done = Append(@, Current(k)), !.head = Current(k),
                          !.stopped = FALSE, !.active = FALSE],
             "accepted_task", "none")

Terminalize(w, k) ==
  Checkpoint(w, [k EXCEPT !.stopped = TRUE], "finalizing", child[Current(k)].st)

JudgeChild(w) ==
  LET k == wk[w] IN
  /\ At(w, "judge")
  /\ UNCHANGED <<dirs, hist, receipt, sidecar, child, dirty, faults>>
  /\ \/ /\ ~ChildVerified(Current(k), k.head)
        /\ Record(w, k, "failed") /\ UNCHANGED stateDirs
     \/ /\ ChildVerified(Current(k), k.head)
        /\ IF Completed(Current(k)) THEN Accept(w, k) ELSE Terminalize(w, k)

(***************************************************************************)
(* _recover_terminal_pair: the receipt of the finalizing checkpoint; files *)
(* that exist must hold it already, the missing ones are written.          *)
(***************************************************************************)
\* terminalize reads the checkpoint it wrote back.
ReloadTerminal(w) ==
  LET k == wk[w] IN
  /\ At(w, "reload")
  /\ IF Loadable(k.c)
     THEN /\ Become(w, [k EXCEPT !.pc = "pair", !.ck = LoadedCkpt(k.c)])
          /\ hist' = Cleaned({k.c})
     ELSE /\ IF k.guarded THEN Record(w, k, "blocked") ELSE Become(w, Idle)
          /\ UNCHANGED hist
  /\ UNCHANGED <<dirs, stateDirs, receipt, sidecar, child, dirty, faults>>

\* Fault: the continuation base is published as the accepted head.
TerminalReceiptAtBase(s) ==
  [status |-> TermStatus(s.term), reason |-> IF s.term = "completed" THEN "queue" ELSE "child",
   base |-> s.base, head |-> s.base, done |-> s.done,
   stopped |-> s.term \notin {"completed", "none"}, pre |-> FALSE, by |-> s.by]

TerminalReceipt(s) ==
  [status |-> TermStatus(s.term), reason |-> IF s.term = "completed" THEN "queue" ELSE "child",
   base |-> s.base, head |-> s.head, done |-> s.done,
   stopped |-> s.term \notin {"completed", "none"}, pre |-> FALSE, by |-> s.by]

PairDiffers(c, r) == receipt[c] \notin {Null, r} \/ sidecar[c] \notin {Null, r}

CheckPair(w) ==
  LET k == wk[w]
      r == TerminalReceipt(k.ck)
  IN
  /\ At(w, "pair")
  /\ IF PairDiffers(k.c, r) \/ (receipt[k.c] # Null /\ sidecar[k.c] # Null)
     THEN Become(w, Idle)
     ELSE Become(w, [k EXCEPT !.out = r, !.ck = Null, !.pc =
            IF receipt[k.c] # Null THEN "pair_sha"
            ELSE IF sidecar[k.c] # Null THEN "pair_json" ELSE "pair_both"])
  /\ UNCHANGED <<store, dirty, faults>>

PairJson(w) ==
  /\ wk[w].pc \in {"pair_json", "pair_both"}
  /\ receipt' = [receipt EXCEPT ![wk[w].c] = wk[w].out]
  /\ Become(w, IF At(w, "pair_both") THEN [wk[w] EXCEPT !.pc = "pair_sha"] ELSE Idle)
  /\ UNCHANGED <<dirs, stateDirs, hist, sidecar, child, dirty, faults>>

PairSha(w) ==
  /\ At(w, "pair_sha")
  /\ sidecar' = [sidecar EXCEPT ![wk[w].c] = wk[w].out]
  /\ Become(w, Idle)
  /\ UNCHANGED <<dirs, stateDirs, hist, receipt, child, dirty, faults>>

(***************************************************************************)
(* Launches.  A supervisor scans every cycle of its queue first; the       *)
(* command line takes any cycle that exists.                               *)
(***************************************************************************)
\* _candidates raises on invalid evidence and on a cycle that left nothing.
Scannable == \A c \in dirs : /\ Classify(c) # "INVALID"
                             /\ Classify(c) = "NONE" => c \in stateDirs
Nonterminal == {c \in dirs : Classify(c) = "ACTIVE"}
Terminal    == {c \in dirs : Classify(c) \in {"COMPLETED", "TASK_TERMINAL", "TASK_TERMINAL_RESUMABLE"}}

\* Fault: a settled cycle does not suppress a fresh one.
MayStartFreshAgain == Supervised => Scannable /\ Nonterminal = {}
\* Fault: a cycle that is finalizing counts as settled.
MayResumeUnfinished(c) ==
  Supervised => Scannable /\ Nonterminal = {c} /\ LoadedCkpt(c).life # "finalizing"

MayStartFresh == Supervised => Scannable /\ Nonterminal = {} /\ Terminal = {}
MayResume(c)  == Supervised => Scannable /\ Nonterminal = {c}
MayResumeTerminal(p) == Supervised =>
  /\ Scannable /\ Nonterminal = {}
  /\ p \in Terminal /\ (\A o \in Terminal : o <= p) /\ Classify(p) # "COMPLETED"

\* directory.mkdir(exist_ok=False) under the next timestamp
NewCycle(w, mode, pred) ==
  \E c \in Cycles :
    /\ dirs = 1..(c - 1)
    /\ dirs' = dirs \cup {c}
    /\ Become(w, [Idle EXCEPT !.pc = "preflight", !.c = c, !.mode = mode, !.pred = pred])

StartFresh(w) ==
  /\ At(w, "idle") /\ MayStartFresh
  /\ NewCycle(w, "fresh", Null)
  /\ UNCHANGED <<stateDirs, hist, receipt, sidecar, child, dirty, faults>>

StartTerminalResume(w) ==
  /\ At(w, "idle")
  /\ \E p \in dirs : MayResumeTerminal(p) /\ NewCycle(w, "terminal", p)
  /\ UNCHANGED <<stateDirs, hist, receipt, sidecar, child, dirty, faults>>

StartResume(w) ==
  /\ At(w, "idle")
  /\ \E c \in dirs :
       /\ MayResume(c) /\ Len(hist[c]) <= MaxHistory
       /\ Become(w, [Idle EXCEPT !.pc = "preflight", !.c = c, !.mode = "resume"])
  /\ UNCHANGED <<store, dirty, faults>>

(***************************************************************************)
(* Preflight.  The anchor becomes base and head before discovery runs, so  *)
(* a receipt recorded from here on is anchored.                            *)
(***************************************************************************)
\* Fault: the predecessor's checkpoint need not be the one of its receipt.
SeedUnchecked(p) == ReceiptRead(p) = "verified" /\ Loadable(p)

\* _load_verified_terminal_resume_seed
SeedValid(p) ==
  /\ Classify(p) \notin {"INVALID", "PRE_TASK_NO_PROGRESS"}
  /\ ReceiptRead(p) = "verified" /\ receipt[p].status # "completed"
  /\ Loadable(p) /\ SameTerminal(LoadedCkpt(p), receipt[p])
  /\ LET s == LoadedCkpt(p) IN
       /\ \A i \in 1..Len(s.done) :
            /\ ChildVerified(s.done[i], IF i = 1 THEN s.base ELSE s.done[i-1])
            /\ child[s.done[i]].st = "completed"
       /\ LastHead(s.base, s.done) = s.head
       /\ ChildVerified(<<p, Len(s.done) + 1>>, s.head)
       /\ child[<<p, Len(s.done) + 1>>].st = s.term

\* The checkpoint of the predecessor is loaded once its receipt is accepted.
SeedCleans(p) ==
  IF /\ Classify(p) \notin {"INVALID", "PRE_TASK_NO_PROGRESS"}
     /\ ReceiptRead(p) = "verified" /\ receipt[p].status # "completed"
  THEN {p} ELSE {}

PreflightDirty(w) ==
  /\ At(w, "preflight") /\ dirty
  /\ Record(w, wk[w], "blocked")
  /\ UNCHANGED <<dirs, stateDirs, hist, receipt, sidecar, child, dirty, faults>>

PreflightResume(w) ==
  /\ At(w, "preflight") /\ ~dirty /\ wk[w].mode = "resume"
  /\ Become(w, [wk[w] EXCEPT !.pc = "verify", !.base = Anchor, !.head = Anchor,
                             !.guarded = TRUE])
  /\ UNCHANGED <<store, dirty, faults>>

\* The queue is checked against the profile's limits last.
Admit(w, k) ==
  \/ Record(w, k, "blocked") /\ UNCHANGED stateDirs
  \/ Checkpoint(w, k, "initialized", "none")

PreflightNew(w) ==
  LET k == [wk[w] EXCEPT !.base = Anchor, !.head = Anchor]
      tips == Discover({k.c})
  IN
  /\ At(w, "preflight") /\ ~dirty /\ k.mode # "resume"
  /\ \/ /\ tips = {}
        /\ Record(w, k, "blocked") /\ UNCHANGED stateDirs
        /\ hist' = Cleaned(DiscoveryCleans({k.c}))
     \/ /\ k.mode = "fresh"
        /\ hist' = Cleaned(DiscoveryCleans({k.c}))
        /\ \E tip \in tips : Admit(w, [k EXCEPT !.base = tip, !.head = tip])
     \/ /\ k.mode = "terminal"
        /\ hist' = Cleaned(DiscoveryCleans({k.c}) \cup SeedCleans(k.pred))
        /\ \E tip \in tips :
             LET s == LoadedCkpt(k.pred) IN
             IF SeedValid(k.pred)
             THEN Admit(w, [k EXCEPT !.base = s.base, !.head = s.head, !.done = s.done])
             ELSE Record(w, [k EXCEPT !.base = tip], "blocked") /\ UNCHANGED stateDirs
  /\ UNCHANGED <<dirs, receipt, sidecar, child, dirty, faults>>

(***************************************************************************)
(* Resume of an interrupted cycle from its latest checkpoint.              *)
(***************************************************************************)
ResumeUnloadable(w) ==
  /\ At(w, "verify") /\ ~Loadable(wk[w].c)
  /\ Record(w, wk[w], "blocked")
  /\ UNCHANGED <<dirs, stateDirs, hist, receipt, sidecar, child, dirty, faults>>

\* The queue, registry, bindings or providers file changed since.
ResumeDrifted(w) ==
  /\ At(w, "verify") /\ Loadable(wk[w].c)
  /\ Record(w, wk[w], "blocked")
  /\ hist' = Cleaned({wk[w].c})
  /\ UNCHANGED <<dirs, stateDirs, receipt, sidecar, child, dirty, faults>>

Rebased(c) == Discover({c}) # {LoadedCkpt(c).base}

\* Every accepted task must be a verified run of this very cycle.
OwnChain(c) ==
  LET s == LoadedCkpt(c) IN
  /\ \A i \in 1..Len(s.done) :
       /\ s.done[i] = <<c, i>> /\ child[<<c, i>>].st = "completed"
       /\ ChildVerified(<<c, i>>, IF i = 1 THEN s.base ELSE s.done[i-1])
  /\ LastHead(s.base, s.done) = s.head

\* The nonlocals once the accepted chain of the checkpoint is loaded.
Restored(k) == LET s == LoadedCkpt(k.c) IN
  [k EXCEPT !.base = s.base, !.head = s.head, !.done = s.done]

LoadAndDiscover(w) ==
  /\ At(w, "verify") /\ Loadable(wk[w].c)
  /\ hist' = Cleaned({wk[w].c} \cup DiscoveryCleans({wk[w].c}))
  /\ UNCHANGED <<dirs, receipt, sidecar, child, dirty, faults>>

ResumeRebased(w) ==
  /\ LoadAndDiscover(w) /\ Rebased(wk[w].c)
  /\ Record(w, [wk[w] EXCEPT !.base = LoadedCkpt(wk[w].c).base], "blocked")
  /\ UNCHANGED stateDirs

ResumeChainInvalid(w) ==
  /\ LoadAndDiscover(w) /\ ~Rebased(wk[w].c) /\ ~OwnChain(wk[w].c)
  /\ Record(w, Restored(wk[w]), "blocked")
  /\ UNCHANGED stateDirs

Trusted(w, lives) ==
  /\ LoadAndDiscover(w) /\ ~Rebased(wk[w].c) /\ OwnChain(wk[w].c)
  /\ LoadedCkpt(wk[w].c).life \in lives

ResumeLoop(w) ==
  /\ Trusted(w, {"initialized", "accepted_task"})
  /\ Become(w, [Restored(wk[w]) EXCEPT !.pc = "loop", !.guarded = FALSE])
  /\ UNCHANGED stateDirs

\* A blocked or failed outcome is recovered only if its child still verifies;
\* otherwise the run fails without a receipt.
ResumeFinalizing(w) ==
  LET k == Restored(wk[w])
      s == LoadedCkpt(k.c)
  IN
  /\ Trusted(w, {"finalizing"})
  /\ IF \/ s.term = "completed"
        \/ ChildVerified(Current(k), s.head) /\ child[Current(k)].st = s.term
     THEN Become(w, [k EXCEPT !.pc = "pair", !.ck = s]) ELSE Become(w, Idle)
  /\ UNCHANGED stateDirs

ResumeActive(w) ==
  LET k == Restored(wk[w]) IN
  /\ Trusted(w, {"active_task"})
  /\ \/ /\ Absent(Current(k))
        /\ Become(w, [k EXCEPT !.pc = "loop", !.active = TRUE, !.guarded = FALSE])
        /\ UNCHANGED stateDirs
     \/ /\ ~Absent(Current(k)) /\ ~ChildVerified(Current(k), k.head)
        /\ Record(w, k, IF child[Current(k)].written THEN "failed" ELSE "blocked")
        /\ UNCHANGED stateDirs
     \/ /\ ChildVerified(Current(k), k.head)
        /\ IF Completed(Current(k)) THEN Accept(w, k) ELSE Terminalize(w, k)

(***************************************************************************)
(* Environment: a worker process is killed; the source checkout is edited  *)
(* and put back.                                                           *)
(***************************************************************************)
Kill(w) ==
  /\ ~At(w, "idle") /\ faults < MaxFaults
  /\ Become(w, Idle)
  /\ faults' = faults + 1
  /\ UNCHANGED <<store, dirty>>

EditSource ==
  /\ ~dirty /\ faults < MaxFaults
  /\ dirty' = TRUE /\ faults' = faults + 1
  /\ UNCHANGED <<store, wk>>

RestoreSource == dirty /\ dirty' = FALSE /\ UNCHANGED <<store, wk, faults>>

Preflight(w) == PreflightDirty(w) \/ PreflightResume(w) \/ PreflightNew(w)
Verify(w) == \/ ResumeUnloadable(w) \/ ResumeDrifted(w) \/ ResumeRebased(w)
             \/ ResumeChainInvalid(w) \/ ResumeLoop(w) \/ ResumeFinalizing(w)
             \/ ResumeActive(w)

\* The steps a running worker takes by itself.
Work(w) == \/ Preflight(w) \/ Verify(w)
           \/ NextTask(w) \/ FinishQueue(w)
           \/ SpawnChild(w) \/ ChildEnds(w) \/ ChildRaises(w) \/ SealChild(w) \/ JudgeChild(w)
           \/ CkptJson(w) \/ CkptSha(w)
           \/ ReloadTerminal(w) \/ CheckPair(w) \/ PairJson(w) \/ PairSha(w)
           \/ RecordJson(w) \/ RecordSha(w)

Launch(w) == StartFresh(w) \/ StartResume(w) \/ StartTerminalResume(w)

Next == \/ \E w \in Workers : Launch(w) \/ Work(w) \/ Kill(w)
        \/ EditSource \/ RestoreSource

Spec == Init /\ [][Next]_vars

\* A running worker process is scheduled, and the supervisor relaunches the
\* one cycle that is still active.
FairSpec == Spec /\ \A w \in Workers : WF_vars(Work(w)) /\ WF_vars(StartResume(w))

=============================================================================
