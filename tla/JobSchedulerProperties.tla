----------------------- MODULE JobSchedulerProperties -----------------------
(***************************************************************************)
(* What registry cycles of the job scheduler must guarantee.               *)
(***************************************************************************)
EXTENDS JobScheduler, FiniteSets

\* Files, copies and counters hold values of their kinds; a process that has
\* a job in hand has a snapshot, and a copy exactly between load and rewrite.
TypeOK ==
  /\ registry \in Registry /\ leases \in LeaseFile
  /\ pause \in [Jobs -> Pauses \cup {Null}]
  /\ audit \in [Jobs -> Outcomes \cup {Null}]
  /\ manifest \in [Jobs -> BOOLEAN]
  /\ receipt \in [Jobs -> {"executed", "refused", Null}]
  /\ effects \in [Jobs -> Nat]
  /\ pc \in [Procs -> PCs] /\ todo \in [Procs -> Seq(Jobs)]
  /\ snap \in [Procs -> Registry \cup {Null}]
  /\ regCopy \in [Procs -> Registry \cup {Null}]
  /\ leaseCopy \in [Procs -> LeaseFile \cup {Null}]
  /\ decision \in [Procs -> Decisions \cup {Null}]
  /\ out \in [Procs -> Outcomes \cup {Null}]
  /\ retries \in [Procs -> Nat] /\ processed \in [Procs -> Nat] /\ faults \in Nat
  /\ struck \in [Jobs -> SUBSET {"lease", "pause"}]
  /\ \A p \in Procs :
       /\ pc[p] \in InJob \cup {"sync_put"} => todo[p] # <<>>
       /\ pc[p] \in InJob \cup {"cycle"} => snap[p] # Null
       /\ pc[p] \in {"sync_put", "result_put"} <=> regCopy[p] # Null
       /\ pc[p] \in {"claim_put", "release_put"} <=> leaseCopy[p] # Null
       /\ pc[p] \in {"receipt", "audit_out", "result"} => out[p] \in Outcomes

\* Nothing is reported as completed, by the audit, by the registry or by a
\* short circuit over an old receipt, unless the executor was called for it.
\* Holds however many schedulers overwrite each other's files.
CompletedBacked ==
  \A j \in Jobs : audit[j] = "executed" \/ registry[j] = "completed" => effects[j] > 0

\* dispatch_once calls the executor for a job again only after a kill took
\* the audit of an earlier call, each kill at most one.
RepeatsNeedKills == Cardinality({c \in Jobs \X (2..MaxEffects) : effects[c[1]] >= c[2]}) <= faults

\* The jobs a cycle has still to look at.
Ahead(p) == IF pc[p] = "cycle" THEN todo[p]
            ELSE IF pc[p] \in InJob THEN Tail(todo[p]) ELSE <<>>

\* With one scheduler the snapshot never goes stale: what the cycle decides on
\* is what the artifacts say at that time, unless a pause has ended meanwhile.
SnapshotCurrent ==
  \A p \in Procs : \A i \in DOMAIN Ahead(p) :
    LET j == Ahead(p)[i] IN
    snap[p][j] = Derived(j) \/ (snap[p][j] = "paused" /\ PauseEligible(j))

\* run_registry_cycle leaves no lease behind, also when the runner of a job
\* raises: only a kill between claim and release leaves one, that of the job
\* then in hand.
LeasesReturned ==
  (\A p \in Procs : pc[p] = "off") =>
    \A j \in Jobs : leases[j] = Null \/ leases[j].holder \in Dead \/ "lease" \in struck[j]

\* Whatever the audit calls paused has an active pause that can end, except
\* between the end of the pause and its audit: a kill just there, and none
\* elsewhere, leaves a job that no cycle ever dispatches again.
PausedHasPause ==
  \A j \in Jobs : audit[j] = "paused" =>
    \/ PauseActive(j)
    \/ \E p \in Procs : pc[p] = "audit_resumed" /\ Job(p) = j
    \/ "pause" \in struck[j]

\* What cycles leave to the next one, over kills, restarts and runners that
\* raise: no lease and no lost pause, but for the job a kill met.
CyclesLeaveNothing == LeasesReturned /\ PausedHasPause

\* The audit files and the executor calls implement the outcome of a job.
Outcome(j) == IF audit[j] \in Settled THEN audit[j] ELSE "open"
Abstract   == INSTANCE JobOutcome WITH outcome <- [j \in Jobs |-> Outcome(j)]

JobsImplemented == Abstract!Spec

Dispatched(j) == \E p \in Procs : pc[p] = "gate" /\ Job(p) = j

\* A job with a smaller name takes one of the max_jobs of a cycle.
Overtaken(n) == \E m \in 1..(n - 1) : Dispatched(JobOrder[m])

\* A pause with an eligible time is ended by some later cycle without an
\* operator, in spite of kills and of leases that dead schedulers left, unless
\* a job with a smaller name is dispatched first, and so on from there: only
\* earlier jobs that are dispatched for ever keep a pause from ending.
TimedPausesEnd ==
  \A n \in DOMAIN JobOrder :
    LET j == JobOrder[n] IN
    PauseActive(j) /\ pause[j].left # Null ~> ~PauseActive(j) \/ Overtaken(n)

Ready(j) == Derived(j) \in {"pending", "runnable"}

\* A job that is ready is dispatched by some later cycle, unless another
\* outcome, a pause or a job with a smaller name comes first, and so on from
\* there: only earlier jobs that are dispatched for ever starve it.
ReadyJobsRun ==
  \A n \in DOMAIN JobOrder :
    LET j == JobOrder[n] IN
    Ready(j) ~> Dispatched(j) \/ ~Ready(j) \/ Overtaken(n)

=============================================================================
