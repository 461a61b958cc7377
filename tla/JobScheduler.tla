---------------------------- MODULE JobScheduler ----------------------------
(***************************************************************************)
(* Registry cycles of the job scheduler (automation/scheduler): processes  *)
(* that share a registry file, a lease file and, per job, the pause file,  *)
(* the audit and the executor's receipt.  A cycle brings the registry up   *)
(* to date from the job's artifacts, takes a snapshot of it, and claims    *)
(* and dispatches the jobs the snapshot calls runnable.                    *)
(*                                                                         *)
(* The registry and the lease file are loaded, changed and rewritten as a  *)
(* whole without a lock: each rewrite is two steps, and in between the     *)
(* process holds a copy.  Time is relative: a lease and a pause carry the  *)
(* time left, which a tick decreases in the files and in every copy.       *)
(***************************************************************************)
EXTENDS Naturals, Sequences

CONSTANTS
  Procs,         \* scheduler processes, each running one cycle after another
  Holders,       \* lease holder names
  HolderOf,      \* HolderOf[p]: --holder of process p
  Dead,          \* holder names of schedulers killed before the run
  Steady,        \* processes that are started again whenever they end
  Jobs,
  JobOrder,      \* the job directories, sorted by name
  Null,
  LeaseTime,     \* lease_seconds, in ticks
  PauseTime,     \* retry_after of a timed pause, in ticks
  MaxRetries,    \* max_retry_dispatches
  MaxJobs,       \* max_jobs per cycle
  MaxEffects,    \* bound: executor calls per job
  MaxFaults      \* bound: kills and runner failures

ASSUME HolderAssumption == HolderOf \in [Procs -> Holders] /\ Dead \subseteq Holders
ASSUME OrderAssumption  == JobOrder \in Seq(Jobs)
ASSUME NamesAssumption  == \A m, n \in DOMAIN JobOrder : JobOrder[m] = JobOrder[n] => m = n
ASSUME TimeAssumption   == LeaseTime \in Nat \ {0} /\ PauseTime \in Nat
ASSUME LimitAssumption  == MaxRetries \in Nat /\ MaxJobs \in Nat /\ MaxEffects \in Nat /\ MaxFaults \in Nat

VARIABLES
  registry,      \* job_registry.json: current_state per job
  leases,        \* job_leases.json: holder and time left per job
  pause,         \* pause_state.json per job
  audit,         \* outcome of the last record of run_audit.json per job
  manifest,      \* manifest.json exists
  receipt,       \* a receipt that settles the executor's action for good
  effects,       \* calls of the action executor per job, ever
  pc, todo, snap, regCopy, leaseCopy, decision, out, retries, processed,
  faults,
  struck         \* history: what a process held of a job when it was killed

artifacts == <<pause, audit, manifest, receipt, effects>>
locals    == <<pc, todo, snap, regCopy, leaseCopy, decision, out, retries, processed>>
vars      == <<registry, leases, artifacts, locals, faults, struck>>

Terminal  == {"completed", "escalated", "failed_terminal"}
States    == Terminal \cup {"pending", "runnable", "paused"}
Registry  == [Jobs -> States \cup {Null}]

Settled   == {"executed", "escalated", "refused"}
Outcomes  == Settled \cup {"paused", "resumed", "retried"}

\* Time left before a pause ends by itself; Null: only an operator ends it.
Pauses    == [active : BOOLEAN, left : (0..PauseTime) \cup {Null}, manual : BOOLEAN, human : BOOLEAN]
Lease     == [holder : Holders, left : 0..LeaseTime]
LeaseFile == [Jobs -> Lease \cup {Null}]

ASSUME NullAssumption == Null \notin Registry \cup LeaseFile \cup States \cup Outcomes \cup Pauses

\* What next_action.json and action_handoff.json ask for.
RetryRouted == {"retry", "refuse", "wait_untimed", "wait_timed"}
Decisions   == RetryRouted \cup {"execute", "escalate", "wait_human"}

PCs == {"off", "sync", "sync_put", "cycle", "claim_put", "gate", "audit_resumed", "run",
        "route", "audit_paused", "receipt", "audit_out", "result", "result_put", "release",
        "release_put"}

\* A process at one of these steps has a job in hand, and then its lease.
InJob  == {"claim_put", "gate", "audit_resumed", "run", "route", "audit_paused", "receipt",
           "audit_out", "result", "result_put", "release", "release_put"}
Owning == InJob \ {"claim_put"}

\* Nothing has been run yet, but for leases of killed schedulers.
Init ==
  /\ leases \in [Jobs -> [holder : Dead, left : 0..LeaseTime] \cup {Null}]
  /\ registry = [j \in Jobs |-> Null]
  /\ pause = [j \in Jobs |-> Null] /\ audit = [j \in Jobs |-> Null]
  /\ manifest = [j \in Jobs |-> FALSE] /\ receipt = [j \in Jobs |-> Null]
  /\ effects = [j \in Jobs |-> 0]
  /\ pc = [p \in Procs |-> "off"] /\ todo = [p \in Procs |-> <<>>]
  /\ snap = [p \in Procs |-> Null]
  /\ regCopy = [p \in Procs |-> Null] /\ leaseCopy = [p \in Procs |-> Null]
  /\ decision = [p \in Procs |-> Null] /\ out = [p \in Procs |-> Null]
  /\ retries = [p \in Procs |-> 0] /\ processed = [p \in Procs |-> 0]
  /\ faults = 0 /\ struck = [j \in Jobs |-> {}]

Goto(p, l)  == pc' = [pc EXCEPT ![p] = l]
Set(f, p, v) == [f EXCEPT ![p] = v]
Job(p)      == Head(todo[p])

(***************************************************************************)
(* The registry: sync_registry_from_artifacts                              *)
(***************************************************************************)
PauseActive(j)   == pause[j] # Null /\ pause[j].active

\* Fault: the eligible time is ignored.
ManualOnly(j) == PauseActive(j) /\ pause[j].manual

PauseEligible(j) == PauseActive(j) /\ (pause[j].manual \/ pause[j].left = 0)

\* Fault: a job with a manifest is runnable, whatever its audit says.
ManifestFirst(j) ==
  IF PauseActive(j) THEN IF PauseEligible(j) THEN "runnable" ELSE "paused"
  ELSE IF manifest[j] THEN "runnable" ELSE "pending"

\* _derive_authoritative_state: an active pause first, then the last audit
\* record, then what the registry said, then the manifest.
Derived(j) ==
  IF PauseActive(j) THEN IF PauseEligible(j) THEN "runnable" ELSE "paused"
  ELSE CASE audit[j] = "executed"  -> "completed"
         [] audit[j] = "refused"   -> "failed_terminal"
         [] audit[j] = "escalated" -> "escalated"
         [] audit[j] = "paused"    -> "paused"
         [] OTHER -> IF registry[j] \in Terminal THEN registry[j]
                     ELSE IF manifest[j] THEN "runnable" ELSE "pending"

\* Fault: a settled record is not derived again.
SyncedUnlessSettled(j) == [registry EXCEPT ![j] = IF @ \in Terminal THEN @ ELSE Derived(j)]

Synced(j) == [registry EXCEPT ![j] = Derived(j)]

Start(p) ==
  /\ pc[p] = "off"
  /\ Goto(p, "sync") /\ todo' = Set(todo, p, JobOrder) /\ processed' = Set(processed, p, 0)
  /\ UNCHANGED <<registry, leases, artifacts, snap, regCopy, leaseCopy, decision, out, retries, faults, struck>>

\* Derives the state of the next job and loads the registry to record it.
SyncRead(p) ==
  /\ pc[p] = "sync" /\ todo[p] # <<>>
  /\ regCopy' = Set(regCopy, p, Synced(Job(p)))
  /\ Goto(p, "sync_put")
  /\ UNCHANGED <<registry, leases, artifacts, todo, snap, leaseCopy, decision, out, retries, processed, faults, struck>>

SyncWrite(p) ==
  /\ pc[p] = "sync_put"
  /\ registry' = regCopy[p]
  /\ regCopy' = Set(regCopy, p, Null) /\ todo' = Set(todo, p, Tail(todo[p]))
  /\ Goto(p, "sync")
  /\ UNCHANGED <<leases, artifacts, snap, leaseCopy, decision, out, retries, processed, faults, struck>>

\* registry.list(): all that the rest of the cycle knows of the registry.
Snapshot(p) ==
  /\ pc[p] = "sync" /\ todo[p] = <<>>
  /\ snap' = Set(snap, p, registry) /\ todo' = Set(todo, p, JobOrder)
  /\ Goto(p, "cycle")
  /\ UNCHANGED <<registry, leases, artifacts, regCopy, leaseCopy, decision, out, retries, processed, faults, struck>>

(***************************************************************************)
(* The cycle: run_registry_cycle                                           *)
(***************************************************************************)
Runnable(p, j) == snap[p][j] \in {"pending", "runnable"}

\* Fault: the expiry is ignored.
LeasePresent(l) == l # Null

LeaseActive(l) == l # Null /\ l.left > 0

\* FileJobLease.claim refuses.
Foreign(p, file, j) == LeaseActive(file[j]) /\ file[j].holder # HolderOf[p]

NextJob(p) ==
  /\ Goto(p, "cycle") /\ todo' = Set(todo, p, Tail(todo[p]))

\* Fault: a job that is skipped counts towards max_jobs.
SkipCounted(p) ==
  /\ pc[p] = "cycle" /\ todo[p] # <<>>
  /\ \/ ~Runnable(p, Job(p))
     \/ processed[p] < MaxJobs /\ Foreign(p, leases, Job(p))
  /\ NextJob(p) /\ processed' = Set(processed, p, processed[p] + 1)
  /\ UNCHANGED <<registry, leases, artifacts, snap, regCopy, leaseCopy, decision, out, retries, faults, struck>>

\* Settled, paused or claimed by another holder.
Skip(p) ==
  /\ pc[p] = "cycle" /\ todo[p] # <<>>
  /\ \/ ~Runnable(p, Job(p))
     \/ processed[p] < MaxJobs /\ Foreign(p, leases, Job(p))
  /\ NextJob(p)
  /\ UNCHANGED <<registry, leases, artifacts, snap, regCopy, leaseCopy, decision, out, retries, processed, faults, struck>>

\* claim(): the lease file is loaded and found free.
ClaimRead(p) ==
  /\ pc[p] = "cycle" /\ todo[p] # <<>>
  /\ Runnable(p, Job(p)) /\ processed[p] < MaxJobs
  /\ ~Foreign(p, leases, Job(p))
  /\ leaseCopy' = Set(leaseCopy, p, leases)
  /\ Goto(p, "claim_put")
  /\ UNCHANGED <<registry, leases, artifacts, todo, snap, regCopy, decision, out, retries, processed, faults, struck>>

ClaimWrite(p) ==
  /\ pc[p] = "claim_put"
  /\ leases' = [leaseCopy[p] EXCEPT ![Job(p)] = [holder |-> HolderOf[p], left |-> LeaseTime]]
  /\ leaseCopy' = Set(leaseCopy, p, Null) /\ retries' = Set(retries, p, 0)
  /\ Goto(p, "gate")
  /\ UNCHANGED <<registry, artifacts, todo, snap, regCopy, decision, out, processed, faults, struck>>

\* End of the cycle: no job left, or max_jobs reached at a runnable one.
Finish(p) ==
  /\ pc[p] = "cycle"
  /\ todo[p] # <<>> => Runnable(p, Job(p)) /\ processed[p] >= MaxJobs
  /\ Goto(p, "off") /\ todo' = Set(todo, p, <<>>) /\ snap' = Set(snap, p, Null)
  /\ processed' = Set(processed, p, 0)
  /\ UNCHANGED <<registry, leases, artifacts, regCopy, leaseCopy, decision, out, retries, faults, struck>>

(***************************************************************************)
(* Dispatch: RunDispatcher.dispatch_once                                   *)
(***************************************************************************)
Auditing(j, o) == audit' = [audit EXCEPT ![j] = o]

\* _record_audit of the final outcome; the result goes to the registry.
Conclude(p, o) == Auditing(Job(p), o) /\ out' = Set(out, p, o) /\ Goto(p, "result")

\* _handle_existing_pause_if_any: still paused.
GateHolds(p) ==
  /\ pc[p] = "gate"
  /\ PauseActive(Job(p)) /\ ~PauseEligible(Job(p))
  /\ Conclude(p, "paused")
  /\ UNCHANGED <<registry, leases, pause, manifest, receipt, effects, todo, snap, regCopy, leaseCopy, decision, retries, processed, faults, struck>>

\* mark_pause_resumed.
GateResumes(p) ==
  /\ pc[p] = "gate"
  /\ PauseEligible(Job(p))
  /\ pause' = [pause EXCEPT ![Job(p)].active = FALSE]
  /\ Goto(p, "audit_resumed")
  /\ UNCHANGED <<registry, leases, audit, manifest, receipt, effects, todo, snap, regCopy, leaseCopy, decision, out, retries, processed, faults, struck>>

\* Fault: the end of the pause is not audited.
ResumeUnaudited(p) ==
  /\ pc[p] = "audit_resumed"
  /\ Goto(p, "run")
  /\ UNCHANGED <<registry, leases, artifacts, todo, snap, regCopy, leaseCopy, decision, out, retries, processed, faults, struck>>

AuditResumed(p) ==
  /\ pc[p] = "audit_resumed"
  /\ Auditing(Job(p), "resumed") /\ Goto(p, "run")
  /\ UNCHANGED <<registry, leases, pause, manifest, receipt, effects, todo, snap, regCopy, leaseCopy, decision, out, retries, processed, faults, struck>>

GateOpen(p) ==
  /\ pc[p] = "gate"
  /\ ~PauseActive(Job(p))
  /\ Goto(p, "run")
  /\ UNCHANGED <<registry, leases, artifacts, todo, snap, regCopy, leaseCopy, decision, out, retries, processed, faults, struck>>

\* runner.run: executes the plan, writes the manifest and the decision.
Run(p) ==
  /\ pc[p] = "run"
  /\ manifest' = [manifest EXCEPT ![Job(p)] = TRUE]
  /\ \E d \in Decisions : decision' = Set(decision, p, d)
  /\ Goto(p, "route")
  /\ UNCHANGED <<registry, leases, pause, audit, receipt, effects, todo, snap, regCopy, leaseCopy, out, retries, processed, faults, struck>>

\* _select_retry_short_circuit_candidate: an earlier receipt settles the job.
ShortCircuit(p) ==
  /\ pc[p] = "route"
  /\ decision[p] \in RetryRouted /\ receipt[Job(p)] # Null
  /\ Conclude(p, receipt[Job(p)])
  /\ UNCHANGED <<registry, leases, pause, manifest, receipt, effects, todo, snap, regCopy, leaseCopy, decision, retries, processed, faults, struck>>

Routed(p) == pc[p] = "route" /\ ~(decision[p] \in RetryRouted /\ receipt[Job(p)] # Null)

\* persist_pause_payload, by classify_pause_condition or the retry policy.
Pause(p) ==
  /\ Routed(p) /\ decision[p] \in {"wait_untimed", "wait_timed", "wait_human"}
  /\ pause' = [pause EXCEPT ![Job(p)] =
       [active |-> TRUE, manual |-> FALSE, human |-> decision[p] = "wait_human",
        left   |-> IF decision[p] = "wait_timed" THEN PauseTime ELSE Null]]
  /\ Goto(p, "audit_paused")
  /\ UNCHANGED <<registry, leases, audit, manifest, receipt, effects, todo, snap, regCopy, leaseCopy, decision, out, retries, processed, faults, struck>>

AuditPaused(p) ==
  /\ pc[p] = "audit_paused"
  /\ Conclude(p, "paused")
  /\ UNCHANGED <<registry, leases, pause, manifest, receipt, effects, todo, snap, regCopy, leaseCopy, decision, retries, processed, faults, struck>>

\* _retry_allowed and the attempt counters: at most MaxRetries, maybe fewer.
Retry(p) ==
  /\ Routed(p) /\ decision[p] = "retry"
  /\ retries[p] < MaxRetries
  /\ retries' = Set(retries, p, retries[p] + 1)
  /\ Auditing(Job(p), "retried") /\ Goto(p, "run")
  /\ UNCHANGED <<registry, leases, pause, manifest, receipt, effects, todo, snap, regCopy, leaseCopy, decision, out, processed, faults, struck>>

\* Fault: an executor action that is not consumable counts as done.
NothingToDo(d) == IF d = "execute" THEN "executed" ELSE "escalated"

\* A terminal refusal of the retry policy says so in its routing reason.
RefusalOutcome(d) == IF d = "refuse" THEN "refused" ELSE "escalated"

\* Every branch that audits "escalated" without calling the executor.
Escalate(p) ==
  /\ Routed(p) /\ decision[p] \in {"retry", "escalate", "execute", "refuse"}
  /\ Conclude(p, RefusalOutcome(decision[p]))
  /\ UNCHANGED <<registry, leases, pause, manifest, receipt, effects, todo, snap, regCopy, leaseCopy, decision, retries, processed, faults, struck>>

\* action_executor.execute_from_run_dir: the write to the outside ...
Execute(p) ==
  /\ Routed(p) /\ decision[p] = "execute"
  /\ effects[Job(p)] < MaxEffects
  /\ effects' = [effects EXCEPT ![Job(p)] = @ + 1]
  /\ \E o \in {"executed", "escalated"} : out' = Set(out, p, o)
  /\ Goto(p, "receipt")
  /\ UNCHANGED <<registry, leases, pause, audit, manifest, receipt, todo, snap, regCopy, leaseCopy, decision, retries, processed, faults, struck>>

\* ... and its receipt, which may settle the action for good.
WriteReceipt(p) ==
  /\ pc[p] = "receipt"
  /\ \E r \in {Null, IF out[p] = "executed" THEN "executed" ELSE "refused"} :
       receipt' = [receipt EXCEPT ![Job(p)] = r]
  /\ Goto(p, "audit_out")
  /\ UNCHANGED <<registry, leases, pause, audit, manifest, effects, todo, snap, regCopy, leaseCopy, decision, out, retries, processed, faults, struck>>

AuditOut(p) ==
  /\ pc[p] = "audit_out"
  /\ Conclude(p, out[p])
  /\ UNCHANGED <<registry, leases, pause, manifest, receipt, effects, todo, snap, regCopy, leaseCopy, decision, retries, processed, faults, struck>>

(***************************************************************************)
(* After the dispatch                                                      *)
(***************************************************************************)
\* Fault: the dispatch status is stored as it is.
StatusAsState(o) == o

\* _update_registry_from_dispatch_result.  The audit it looks up the routing
\* reason in is the whole audit file, which has none: a refusal is recorded
\* as an escalation.
ResultState(o) ==
  CASE o = "executed" -> "completed"
    [] o = "paused"   -> "paused"
    [] OTHER          -> "escalated"

ResultRead(p) ==
  /\ pc[p] = "result"
  /\ regCopy' = Set(regCopy, p, [registry EXCEPT ![Job(p)] = ResultState(out[p])])
  /\ processed' = Set(processed, p, processed[p] + 1)
  /\ Goto(p, "result_put")
  /\ UNCHANGED <<registry, leases, artifacts, todo, snap, leaseCopy, decision, out, retries, faults, struck>>

ResultWrite(p) ==
  /\ pc[p] = "result_put"
  /\ registry' = regCopy[p]
  /\ regCopy' = Set(regCopy, p, Null) /\ decision' = Set(decision, p, Null)
  /\ out' = Set(out, p, Null) /\ retries' = Set(retries, p, 0)
  /\ Goto(p, "release")
  /\ UNCHANGED <<leases, artifacts, todo, snap, leaseCopy, processed, faults, struck>>

\* release(): a lease of the same holder name, whoever took it.
Releasable(p, l) == l # Null /\ l.holder = HolderOf[p]

ReleaseRead(p) ==
  /\ pc[p] = "release"
  /\ Releasable(p, leases[Job(p)])
  /\ leaseCopy' = Set(leaseCopy, p, leases)
  /\ Goto(p, "release_put")
  /\ UNCHANGED <<registry, leases, artifacts, todo, snap, regCopy, decision, out, retries, processed, faults, struck>>

ReleaseWrite(p) ==
  /\ pc[p] = "release_put"
  /\ leases' = [leaseCopy[p] EXCEPT ![Job(p)] = Null]
  /\ leaseCopy' = Set(leaseCopy, p, Null)
  /\ NextJob(p)
  /\ UNCHANGED <<registry, artifacts, snap, regCopy, decision, out, retries, processed, faults, struck>>

ReleaseNothing(p) ==
  /\ pc[p] = "release"
  /\ ~Releasable(p, leases[Job(p)])
  /\ NextJob(p)
  /\ UNCHANGED <<registry, leases, artifacts, snap, regCopy, leaseCopy, decision, out, retries, processed, faults, struck>>

(***************************************************************************)
(* Surroundings                                                            *)
(***************************************************************************)
\* The lease, and between the end of a pause and its audit the pause as well.
Grip(p) == IF pc[p] = "audit_resumed" THEN {"lease", "pause"} ELSE {"lease"}

\* A process dies; whatever it wrote stays.
Kill(p) ==
  /\ pc[p] # "off" /\ faults < MaxFaults
  /\ faults' = faults + 1
  /\ struck' = IF pc[p] \in Owning THEN [struck EXCEPT ![Job(p)] = @ \cup Grip(p)] ELSE struck
  /\ Goto(p, "off") /\ todo' = Set(todo, p, <<>>) /\ snap' = Set(snap, p, Null)
  /\ regCopy' = Set(regCopy, p, Null) /\ leaseCopy' = Set(leaseCopy, p, Null)
  /\ decision' = Set(decision, p, Null) /\ out' = Set(out, p, Null)
  /\ retries' = Set(retries, p, 0) /\ processed' = Set(processed, p, 0)
  /\ UNCHANGED <<registry, leases, artifacts>>

Lapsing(l)  == l # Null /\ l.left > 0
Elapse(l)   == IF Lapsing(l) THEN [l EXCEPT !.left = @ - 1] ELSE l
ElapsedFile(file) == [j \in Jobs |-> Elapse(file[j])]
Waiting(j)  == PauseActive(j) /\ pause[j].left # Null /\ pause[j].left > 0

\* One tick, for everything that compares a time with now().
Tick ==
  /\ \E j \in Jobs : Lapsing(leases[j]) \/ Waiting(j)
  /\ leases' = ElapsedFile(leases)
  /\ leaseCopy' = [p \in Procs |-> IF leaseCopy[p] = Null THEN Null ELSE ElapsedFile(leaseCopy[p])]
  /\ pause' = [j \in Jobs |-> IF Waiting(j) THEN [pause[j] EXCEPT !.left = @ - 1] ELSE pause[j]]
  /\ UNCHANGED <<registry, audit, manifest, receipt, effects, pc, todo, snap, regCopy, decision, out, retries, processed, faults, struck>>

\* An operator sets manual_resume_requested in the pause file.
ManualResume(j) ==
  /\ PauseActive(j) /\ ~pause[j].manual
  /\ pause' = [pause EXCEPT ![j].manual = TRUE]
  /\ UNCHANGED <<registry, leases, audit, manifest, receipt, effects, locals, faults, struck>>

\* Fault: no finally, the exception leaves the cycle and the lease stays.
RaisesUnreleased(p) ==
  /\ pc[p] = "run" /\ faults < MaxFaults
  /\ faults' = faults + 1
  /\ todo' = Set(todo, p, <<>>) /\ snap' = Set(snap, p, Null) /\ retries' = Set(retries, p, 0)
  /\ decision' = Set(decision, p, Null) /\ processed' = Set(processed, p, 0)
  /\ Goto(p, "off")
  /\ UNCHANGED <<registry, leases, artifacts, regCopy, leaseCopy, out, struck>>

\* The runner raises: the finally clause releases the lease, and no other job
\* is looked at.
RunRaises(p) ==
  /\ pc[p] = "run" /\ faults < MaxFaults
  /\ faults' = faults + 1
  /\ todo' = Set(todo, p, <<Job(p)>>) /\ retries' = Set(retries, p, 0)
  /\ decision' = Set(decision, p, Null)
  /\ Goto(p, "release")
  /\ UNCHANGED <<registry, leases, artifacts, snap, regCopy, leaseCopy, out, processed, struck>>

Syncing(p)   == Start(p) \/ SyncRead(p) \/ SyncWrite(p) \/ Snapshot(p)
Claiming(p)  == Skip(p) \/ ClaimRead(p) \/ ClaimWrite(p) \/ Finish(p)
Gating(p)    == GateHolds(p) \/ GateResumes(p) \/ AuditResumed(p) \/ GateOpen(p)
Routing(p)   == Run(p) \/ ShortCircuit(p) \/ Pause(p) \/ AuditPaused(p) \/ Retry(p) \/ Escalate(p)
Executing(p) == Execute(p) \/ WriteReceipt(p) \/ AuditOut(p)
Closing(p)   == ResultRead(p) \/ ResultWrite(p) \/ ReleaseRead(p) \/ ReleaseWrite(p) \/ ReleaseNothing(p)

Work(p) == Syncing(p) \/ Claiming(p) \/ Gating(p) \/ Routing(p) \/ Executing(p) \/ Closing(p)

Next ==
  \/ \E p \in Procs : Work(p) \/ Kill(p) \/ RunRaises(p)
  \/ Tick
  \/ \E j \in Jobs : ManualResume(j)

Spec == Init /\ [][Next]_vars

\* Steady processes run cycle after cycle; time passes.
FairSpec == Spec /\ (\A p \in Steady : WF_vars(Work(p))) /\ WF_vars(Tick)

=============================================================================
