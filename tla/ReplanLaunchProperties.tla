----------------------- MODULE ReplanLaunchProperties -----------------------
(***************************************************************************)
(* What claiming and executing a replan launch must guarantee.             *)
(***************************************************************************)
EXTENDS ReplanLaunch

\* Files, lock and process counters hold values of their kinds.
TypeOK ==
  /\ claim \in ClaimFiles /\ claimSha \in ClaimFiles
  /\ rec \in Records /\ recSha \in Records
  /\ authority \in BOOLEAN
  /\ lock \in Procs \cup {Null}
  /\ pc \in [Procs -> PCs]
  /\ told \in [Procs -> Statuses]
  /\ stop \in [Procs -> BOOLEAN]
  /\ spawned \in Nat /\ faults \in Nat

\* execute_replan_launch starts at most one worker for an accepted replan, in
\* all processes together and over every death, I/O error and restart.
AtMostOneWorker == spawned <= 1

\* The record on disk never claims a worker that was not started, nor denies
\* or forgets one that was.
RecordTruthful ==
  /\ rec = "launched" => spawned = 1
  /\ spawned > 0 => rec \in {"launching", "launched"}

\* A supervisor is told "launched" only of a worker that exists and whose
\* launch is recorded for whoever asks later.
ToldTruthful ==
  \A p \in Procs : told[p] = "launched" => spawned = 1 /\ rec = "launched"

\* What each step of the launch can rely on while it holds the lock of the
\* attempt directory, whatever the other processes did before and after.
StagesHold ==
  \A p \in Procs :
    /\ pc[p] \in Locked => lock = p
    /\ pc[p] = "begin" => Unexecuted /\ spawned = 0 /\ ClaimLoads
    /\ pc[p] = "launching_sha" => rec = "launching" /\ spawned = 0 /\ ClaimLoads
    /\ pc[p] = "launcher" => /\ rec = "launching" /\ recSha = rec
                             /\ spawned = 0 /\ ClaimLoads
    /\ pc[p] = "started" => rec = "launching" /\ spawned = 1
    /\ pc[p] = "uncertain" => rec = "launching" /\ spawned = 0
    /\ pc[p] = "outcome_sha" => rec \in {"launched", "launch_uncertain"}

\* The record and the one worker agree, whatever any process is just doing.
RecordSound == TypeOK /\ AtMostOneWorker /\ RecordTruthful /\ StagesHold

\* The evidence of a launch is durable, with its sidecars, before the worker
\* starts, and the recorded outcome is never replaced by another.
EvidenceFirst ==
  [][/\ spawned' # spawned => rec = "launching" /\ recSha = rec /\ ClaimLoads
     /\ rec # Null => rec' # Null
     /\ rec \in {"launched", "launch_uncertain"} => rec' = rec]_vars

\* acquire_replan_launch_claim and execute_replan_launch always return: no
\* process waits for the attempt directory's lock for ever.
CallsReturn == \A p \in Procs : pc[p] # "idle" ~> pc[p] = "idle"

\* The record and the workers implement the at-most-once launch.
Phase  == IF rec = Null THEN "none" ELSE rec
Launch == INSTANCE AtMostOnceLaunch WITH phase <- Phase, workers <- spawned

LaunchImplemented == Launch!Spec

=============================================================================
