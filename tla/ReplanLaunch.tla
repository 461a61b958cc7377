---------------------------- MODULE ReplanLaunch ----------------------------
(***************************************************************************)
(* The launch of one replan successor: supervisor processes that share the *)
(* attempt directory of an accepted replan acquire its launch claim        *)
(* (repository_multi_cycle_replan_launch.py) and execute it                *)
(* (repository_multi_cycle_replan_launch_execution.py) at most once.  Both *)
(* run under a flock on the attempt directory, which the kernel drops when *)
(* a process dies.  Every write of a file is a step of its own.            *)
(*                                                                         *)
(* A file is the value it holds and a sidecar is the value whose digest it *)
(* holds.  The claim files are created empty and then filled ("torn" until *)
(* filled); the execution record is replaced atomically.                   *)
(***************************************************************************)
EXTENDS Naturals

CONSTANTS
  Procs,       \* supervisor processes
  Null,        \* an absent file, no holder of the lock
  MaxFaults    \* bound: deaths of a process and I/O errors

ASSUME NullAssumption      == Null \notin Procs \cup {"torn", "pending", "launching", "launched", "launch_uncertain"}
ASSUME MaxFaultsAssumption == MaxFaults \in Nat

VARIABLES
  claim, claimSha,    \* launch_claim.json and launch_claim.sha256
  rec, recSha,        \* launch_execution.json and launch_execution.sha256
  authority,          \* the accepted replan and campaign still verify
  lock,               \* holder of the flock on the attempt directory
  pc,                 \* pc[p]: next step of process p
  told,               \* told[p]: the last status p's supervisor was given
  stop,               \* stop[p]: shutdown of p was requested
  spawned,            \* worker processes started for this launch, ever
  faults

files == <<claim, claimSha, rec, recSha>>
vars  == <<claim, claimSha, rec, recSha, authority, lock, pc, told, stop, spawned, faults>>

ClaimFiles == {Null, "torn", "pending"}
Records    == {Null, "launching", "launched", "launch_uncertain"}

\* Steps made while holding the lock.
Locked == {"claim", "claim_fill", "claim_sha", "claim_sha_fill", "claim_load",
           "execute", "begin", "launching_sha", "launcher", "started", "uncertain", "outcome_sha"}
PCs    == {"idle", "claim_lock", "verify", "execute_lock"} \cup Locked

Statuses == {"none", "blocked", "launched", "launch_uncertain"}

Init ==
  /\ claim = Null /\ claimSha = Null /\ rec = Null /\ recSha = Null
  /\ authority = TRUE /\ lock = Null /\ spawned = 0 /\ faults = 0
  /\ pc = [p \in Procs |-> "idle"]
  /\ told = [p \in Procs |-> "none"]
  /\ stop = [p \in Procs |-> FALSE]

Goto(p, l) == pc' = [pc EXCEPT ![p] = l]

\* Fault: the descriptor stays open when the call is blocked.
ReturnKeepsLock(p, status) ==
  /\ pc' = [pc EXCEPT ![p] = "idle"]
  /\ told' = [told EXCEPT ![p] = status]
  /\ lock' = IF lock = p /\ status # "blocked" THEN Null ELSE lock

\* The call returns: descriptor closed, flock dropped if it was held.
Return(p, status) ==
  /\ Goto(p, "idle")
  /\ told' = [told EXCEPT ![p] = status]
  /\ lock' = IF lock = p THEN Null ELSE lock

\* Fault: no flock.
TakeNoLock(p) == lock' = p

TakeLock(p) == lock = Null /\ lock' = p

ClaimLoads == claim = "pending" /\ claimSha = "pending"
Verified   == authority /\ ClaimLoads            \* _verified_claim

(***************************************************************************)
(* acquire_replan_launch_claim                                             *)
(***************************************************************************)
\* _launch_replan_successor, at every poll of the terminal predecessor.
Acquire(p) ==
  /\ pc[p] = "idle"
  /\ IF authority
     THEN Goto(p, "claim_lock") /\ UNCHANGED <<told, lock>>
     ELSE Return(p, "blocked")
  /\ UNCHANGED <<files, authority, stop, spawned, faults>>

LockClaim(p) ==
  /\ pc[p] = "claim_lock" /\ TakeLock(p)
  /\ Goto(p, "claim")
  /\ UNCHANGED <<files, authority, told, stop, spawned, faults>>

\* os.open(O_CREAT | O_EXCL) of the json, or an existing claim is loaded.
OpenClaim(p) ==
  /\ pc[p] = "claim"
  /\ IF claim # Null \/ claimSha # Null
     THEN Goto(p, "claim_load") /\ UNCHANGED claim
     ELSE Goto(p, "claim_fill") /\ claim' = "torn"
  /\ UNCHANGED <<claimSha, rec, recSha, authority, lock, told, stop, spawned, faults>>

FillClaim(p) ==
  /\ pc[p] = "claim_fill"
  /\ claim' = "pending"
  /\ Goto(p, "claim_sha")
  /\ UNCHANGED <<claimSha, rec, recSha, authority, lock, told, stop, spawned, faults>>

OpenClaimSha(p) ==
  /\ pc[p] = "claim_sha"
  /\ claimSha' = "torn"
  /\ Goto(p, "claim_sha_fill")
  /\ UNCHANGED <<claim, rec, recSha, authority, lock, told, stop, spawned, faults>>

FillClaimSha(p) ==
  /\ pc[p] = "claim_sha_fill"
  /\ claimSha' = "pending"
  /\ Goto(p, "claim_load")
  /\ UNCHANGED <<claim, rec, recSha, authority, lock, told, stop, spawned, faults>>

\* The lock is dropped between the claim and its execution.
LoadClaim(p) ==
  /\ pc[p] = "claim_load"
  /\ IF ClaimLoads
     THEN Goto(p, "verify") /\ lock' = Null /\ UNCHANGED told
     ELSE Return(p, "blocked")
  /\ UNCHANGED <<files, authority, stop, spawned, faults>>

(***************************************************************************)
(* execute_replan_launch                                                   *)
(***************************************************************************)
VerifyClaim(p) ==
  /\ pc[p] = "verify"
  /\ IF Verified THEN Goto(p, "execute_lock") /\ UNCHANGED <<told, lock>>
                 ELSE Return(p, "blocked")
  /\ UNCHANGED <<files, authority, stop, spawned, faults>>

LockExecution(p) ==
  /\ pc[p] = "execute_lock" /\ TakeLock(p)
  /\ Goto(p, "execute")
  /\ UNCHANGED <<files, authority, told, stop, spawned, faults>>

\* The claim is verified again under the lock.
ExecuteBlocked(p) ==
  /\ pc[p] = "execute" /\ ~Verified
  /\ Return(p, "blocked")
  /\ UNCHANGED <<files, authority, stop, spawned, faults>>

\* Fault: a launch that was only begun is reported as launched.
StatusOptimistic(r) == IF r = "launch_uncertain" THEN r ELSE "launched"

\* _result: a record that is still launching is uncertain to whoever finds it.
StatusOf(r) == IF r = "launched" THEN "launched" ELSE "launch_uncertain"

\* Fault: a record that does not verify is taken for none.
UnexecutedOrTorn == rec = Null \/ recSha # rec

Unexecuted == rec = Null /\ recSha = Null

\* Any file of an earlier execution: reported, never executed again.
ReportExisting(p) ==
  /\ pc[p] = "execute" /\ Verified /\ ~Unexecuted
  /\ Return(p, IF rec = Null \/ recSha # rec THEN "blocked" ELSE StatusOf(rec))
  /\ UNCHANGED <<files, authority, stop, spawned, faults>>

FindUnexecuted(p) ==
  /\ pc[p] = "execute" /\ Verified /\ Unexecuted
  /\ Goto(p, "begin")
  /\ UNCHANGED <<files, authority, lock, told, stop, spawned, faults>>

BeginLaunch(p) ==
  /\ pc[p] = "begin"
  /\ rec' = "launching"
  /\ Goto(p, "launching_sha")
  /\ UNCHANGED <<claim, claimSha, recSha, authority, lock, told, stop, spawned, faults>>

SealLaunching(p) ==
  /\ pc[p] = "launching_sha"
  /\ recSha' = rec
  /\ Goto(p, "launcher")
  /\ UNCHANGED <<claim, claimSha, rec, authority, lock, told, stop, spawned, faults>>

\* _launch_or_shutdown: the gate orders the spawn and the shutdown request.
Spawn(p) ==
  /\ pc[p] = "launcher" /\ ~stop[p]
  /\ spawned' = spawned + 1
  /\ Goto(p, "started")
  /\ UNCHANGED <<files, authority, lock, told, stop, faults>>

\* Shutdown came first (not_confirmed), or the launcher raised.
SpawnFails(p) ==
  /\ pc[p] = "launcher"
  /\ Goto(p, "uncertain")
  /\ UNCHANGED <<files, authority, lock, told, stop, spawned, faults>>

RecordLaunched(p) ==
  /\ pc[p] = "started"
  /\ rec' = "launched"
  /\ Goto(p, "outcome_sha")
  /\ UNCHANGED <<claim, claimSha, recSha, authority, lock, told, stop, spawned, faults>>

RecordUncertain(p) ==
  /\ pc[p] = "uncertain"
  /\ rec' = "launch_uncertain"
  /\ Goto(p, "outcome_sha")
  /\ UNCHANGED <<claim, claimSha, recSha, authority, lock, told, stop, spawned, faults>>

SealOutcome(p) ==
  /\ pc[p] = "outcome_sha"
  /\ recSha' = rec
  /\ Return(p, StatusOf(rec))
  /\ UNCHANGED <<claim, claimSha, rec, authority, stop, spawned, faults>>

(***************************************************************************)
(* Environment.                                                            *)
(***************************************************************************)
Fault == faults < MaxFaults /\ faults' = faults + 1

\* The process dies; a new supervisor takes its place.
Die(p) ==
  /\ pc[p] # "idle" /\ Fault
  /\ Goto(p, "idle")
  /\ told' = [told EXCEPT ![p] = "none"]
  /\ stop' = [stop EXCEPT ![p] = FALSE]
  /\ lock' = IF lock = p THEN Null ELSE lock
  /\ UNCHANGED <<files, authority, spawned>>

\* A file operation raises OSError: the call is blocked, and what was written
\* so far stays.
IoFails(p) ==
  /\ pc[p] \in Locked \ {"launcher"} /\ Fault
  /\ Return(p, "blocked")
  /\ UNCHANGED <<files, authority, stop, spawned>>

RequestShutdown(p) ==
  /\ ~stop[p]
  /\ stop' = [stop EXCEPT ![p] = TRUE]
  /\ UNCHANGED <<files, authority, lock, pc, told, spawned, faults>>

\* The replan artifacts are damaged or superseded, or restored.
ChangeAuthority ==
  /\ authority' = ~authority
  /\ UNCHANGED <<files, lock, pc, told, stop, spawned, faults>>

Step(p) == \/ LockClaim(p) \/ OpenClaim(p) \/ FillClaim(p) \/ OpenClaimSha(p)
           \/ FillClaimSha(p) \/ LoadClaim(p)
           \/ VerifyClaim(p) \/ LockExecution(p) \/ ExecuteBlocked(p) \/ ReportExisting(p)
           \/ FindUnexecuted(p) \/ BeginLaunch(p) \/ SealLaunching(p) \/ Spawn(p) \/ SpawnFails(p)
           \/ RecordLaunched(p) \/ RecordUncertain(p) \/ SealOutcome(p)

Next == \/ \E p \in Procs : Acquire(p) \/ Step(p) \/ Die(p) \/ IoFails(p) \/ RequestShutdown(p)
        \/ ChangeAuthority

Spec == Init /\ [][Next]_vars

\* A process inside the calls keeps running; flock does not starve a waiter.
FairSpec == Spec /\ \A p \in Procs : WF_vars(Step(p)) /\ SF_vars(LockClaim(p)) /\ SF_vars(LockExecution(p))

=============================================================================
