------------------------- MODULE ReplanLaunchProofs -------------------------
(***************************************************************************)
(* Proofs, for any number of supervisor processes and of faults, of the    *)
(* safety properties of the replan launch.                                 *)
(*                                                                         *)
(* The inductive invariant adds to the properties what a process knows at  *)
(* each step under the lock (StagesHold).  A step by the holder of the     *)
(* lock can break no other process's knowledge because only one process    *)
(* is ever inside.                                                         *)
(***************************************************************************)
EXTENDS ReplanLaunchProperties, TLAPS

\* The inductive invariant.
IInv ==
  /\ TypeOK
  /\ AtMostOneWorker
  /\ RecordTruthful
  /\ ToldTruthful
  /\ StagesHold

\* The initial state: no file, no worker, every process idle.
LEMMA InitIInv == Init => IInv
<1> SUFFICES ASSUME Init PROVE IInv
  OBVIOUS
<1>1. TypeOK
  BY DEF Init, TypeOK, ClaimFiles, Records, PCs, Statuses
<1>2. AtMostOneWorker /\ RecordTruthful
  BY NullAssumption DEF Init, AtMostOneWorker, RecordTruthful
<1>3. ToldTruthful /\ StagesHold
  BY DEF Init, ToldTruthful, StagesHold, Locked
<1> QED
  BY <1>1, <1>2, <1>3 DEF IInv

\* Every step keeps every variable in its set.
LEMMA TypeStep == TypeOK /\ [Next]_vars => TypeOK'
<1> SUFFICES ASSUME TypeOK, [Next]_vars PROVE TypeOK'
  OBVIOUS
<1> USE DEF TypeOK, files, Goto, Return, TakeLock, ClaimFiles, Records, PCs, Locked, Statuses
<1>1. CASE UNCHANGED vars
  BY <1>1 DEF vars
<1>2. CASE ChangeAuthority
  BY <1>2 DEF ChangeAuthority
<1>3. ASSUME NEW p \in Procs, Acquire(p) \/ Die(p) \/ IoFails(p) \/ RequestShutdown(p)
      PROVE  TypeOK'
  <2>1. CASE Acquire(p)
    BY <2>1 DEF Acquire
  <2>2. CASE Die(p)
    BY <2>2 DEF Die, Fault
  <2>3. CASE IoFails(p)
    BY <2>3 DEF IoFails, Fault
  <2>4. CASE RequestShutdown(p)
    BY <2>4 DEF RequestShutdown
  <2> QED
    BY <1>3, <2>1, <2>2, <2>3, <2>4
<1>4. ASSUME NEW p \in Procs,
             LockClaim(p) \/ OpenClaim(p) \/ FillClaim(p) \/ OpenClaimSha(p) \/ FillClaimSha(p) \/ LoadClaim(p)
      PROVE  TypeOK'
  BY <1>4 DEF LockClaim, OpenClaim, FillClaim, OpenClaimSha, FillClaimSha, LoadClaim
<1>5. ASSUME NEW p \in Procs,
             VerifyClaim(p) \/ LockExecution(p) \/ ExecuteBlocked(p) \/ ReportExisting(p) \/ FindUnexecuted(p)
      PROVE  TypeOK'
  BY <1>5 DEF VerifyClaim, LockExecution, ExecuteBlocked, ReportExisting, FindUnexecuted, StatusOf
<1>6. ASSUME NEW p \in Procs,
             BeginLaunch(p) \/ SealLaunching(p) \/ Spawn(p) \/ SpawnFails(p) \/ RecordLaunched(p) \/ RecordUncertain(p)
      PROVE  TypeOK'
  BY <1>6 DEF BeginLaunch, SealLaunching, Spawn, SpawnFails, RecordLaunched, RecordUncertain
<1>7. ASSUME NEW p \in Procs, SealOutcome(p) PROVE TypeOK'
  BY <1>7 DEF SealOutcome, StatusOf
<1> QED
  BY <1>1, <1>2, <1>3, <1>4, <1>5, <1>6, <1>7 DEF Next, Step

\* Steps of the environment and of callers that hold no lock yet.
LEMMA OutsideStep ==
  ASSUME IInv, NEW p \in Procs,
         \/ Acquire(p) \/ LockClaim(p) \/ VerifyClaim(p) \/ LockExecution(p)
         \/ Die(p) \/ IoFails(p) \/ RequestShutdown(p)
  PROVE  StagesHold' /\ AtMostOneWorker' /\ RecordTruthful' /\ ToldTruthful'
<1> USE DEF IInv, TypeOK, files, Goto, Return, TakeLock, Locked
<1>1. AtMostOneWorker' /\ RecordTruthful'
  BY DEF Acquire, LockClaim, VerifyClaim, LockExecution, Die, IoFails, RequestShutdown,
         AtMostOneWorker, RecordTruthful
<1>2. ToldTruthful'
  BY DEF Acquire, LockClaim, VerifyClaim, LockExecution, Die, IoFails, RequestShutdown,
         ToldTruthful
<1>3. StagesHold'
  BY NullAssumption
     DEF Acquire, LockClaim, VerifyClaim, LockExecution, Die, IoFails, RequestShutdown,
         StagesHold, ClaimLoads, Unexecuted
<1> QED
  BY <1>1, <1>2, <1>3

\* Steps of acquire_replan_launch_claim under the lock.
LEMMA ClaimStep ==
  ASSUME IInv, NEW p \in Procs,
         OpenClaim(p) \/ FillClaim(p) \/ OpenClaimSha(p) \/ FillClaimSha(p) \/ LoadClaim(p)
  PROVE  StagesHold' /\ AtMostOneWorker' /\ RecordTruthful' /\ ToldTruthful'
<1> USE DEF IInv, TypeOK, files, Goto, Return, Locked
<1>1. AtMostOneWorker' /\ RecordTruthful'
  BY DEF OpenClaim, FillClaim, OpenClaimSha, FillClaimSha, LoadClaim,
         AtMostOneWorker, RecordTruthful
<1>2. ToldTruthful'
  BY DEF OpenClaim, FillClaim, OpenClaimSha, FillClaimSha, LoadClaim, ToldTruthful
<1>3. StagesHold'
  BY NullAssumption
     DEF OpenClaim, FillClaim, OpenClaimSha, FillClaimSha, LoadClaim, StagesHold, ClaimLoads, Unexecuted
<1> QED
  BY <1>1, <1>2, <1>3

\* Steps of execute_replan_launch under the lock.
LEMMA ExecuteStep ==
  ASSUME IInv, NEW p \in Procs,
         \/ ExecuteBlocked(p) \/ ReportExisting(p) \/ FindUnexecuted(p)
         \/ BeginLaunch(p) \/ SealLaunching(p)
         \/ Spawn(p) \/ SpawnFails(p) \/ RecordLaunched(p) \/ RecordUncertain(p)
         \/ SealOutcome(p)
  PROVE  StagesHold' /\ AtMostOneWorker' /\ RecordTruthful' /\ ToldTruthful'
<1> USE NullAssumption DEF IInv, TypeOK, files, Goto, Return, Locked, StagesHold, ClaimLoads, Unexecuted
<1>1. CASE ExecuteBlocked(p) \/ ReportExisting(p)
  BY <1>1 DEF ExecuteBlocked, ReportExisting, StatusOf, AtMostOneWorker, RecordTruthful, ToldTruthful
<1>2. CASE FindUnexecuted(p)
  BY <1>2 DEF FindUnexecuted, Verified, Records, AtMostOneWorker, RecordTruthful, ToldTruthful
<1>3. CASE BeginLaunch(p)
  BY <1>3 DEF BeginLaunch, Records, AtMostOneWorker, RecordTruthful, ToldTruthful
<1>4. CASE SealLaunching(p) \/ SpawnFails(p)
  BY <1>4 DEF SealLaunching, SpawnFails, AtMostOneWorker, RecordTruthful, ToldTruthful
<1>5. CASE Spawn(p)
  BY <1>5 DEF Spawn, AtMostOneWorker, RecordTruthful, ToldTruthful
<1>6. CASE RecordLaunched(p) \/ RecordUncertain(p)
  BY <1>6 DEF RecordLaunched, RecordUncertain, AtMostOneWorker, RecordTruthful, ToldTruthful
<1>7. CASE SealOutcome(p)
  BY <1>7 DEF SealOutcome, StatusOf, AtMostOneWorker, RecordTruthful, ToldTruthful
<1> QED
  BY <1>1, <1>2, <1>3, <1>4, <1>5, <1>6, <1>7

\* The invariant is inductive.
LEMMA IInvStep == IInv /\ [Next]_vars => IInv'
<1> SUFFICES ASSUME IInv, [Next]_vars PROVE IInv'
  OBVIOUS
<1>1. TypeOK'
  BY TypeStep DEF IInv
<1>2. StagesHold' /\ AtMostOneWorker' /\ RecordTruthful' /\ ToldTruthful'
  <2>1. CASE UNCHANGED vars
    BY <2>1 DEF vars, IInv, StagesHold, AtMostOneWorker, RecordTruthful, ToldTruthful, ClaimLoads,
                Unexecuted
  <2>2. CASE ChangeAuthority
    BY <2>2 DEF ChangeAuthority, files, IInv, StagesHold, AtMostOneWorker, RecordTruthful,
                ToldTruthful, ClaimLoads, Unexecuted
  <2>3. ASSUME NEW p \in Procs,
               Acquire(p) \/ Step(p) \/ Die(p) \/ IoFails(p) \/ RequestShutdown(p)
        PROVE  StagesHold' /\ AtMostOneWorker' /\ RecordTruthful' /\ ToldTruthful'
    BY <2>3, OutsideStep, ClaimStep, ExecuteStep DEF Step
  <2> QED
    BY <2>1, <2>2, <2>3 DEF Next
<1> QED
  BY <1>1, <1>2 DEF IInv

\* The inductive invariant holds throughout.
THEOREM Invariance == Spec => []IInv
BY InitIInv, IInvStep, PTL DEF Spec

\* Files, lock, process counters and statuses stay in their sets.
THEOREM TypeCorrect == Spec => []TypeOK
<1>1. IInv => TypeOK
  BY DEF IInv
<1> QED
  BY <1>1, Invariance, PTL

\* execute_replan_launch starts at most one worker per accepted replan.
THEOREM LaunchedAtMostOnce == Spec => []AtMostOneWorker
<1>1. IInv => AtMostOneWorker
  BY DEF IInv
<1> QED
  BY <1>1, Invariance, PTL

\* The record of a launch and the workers that run for it agree at all times.
THEOREM RecordIsTruthful == Spec => []RecordTruthful
<1>1. IInv => RecordTruthful
  BY DEF IInv
<1> QED
  BY <1>1, Invariance, PTL

\* A supervisor that is told "launched" is told so of a worker that runs.
THEOREM ToldIsTruthful == Spec => []ToldTruthful
<1>1. IInv => ToldTruthful
  BY DEF IInv
<1> QED
  BY <1>1, Invariance, PTL

\* What a process knows under the lock of the attempt directory stays true.
THEOREM StagesAreHeld == Spec => []StagesHold
<1>1. IInv => StagesHold
  BY DEF IInv
<1> QED
  BY <1>1, Invariance, PTL

\* All of what the runs ask of the record.
THEOREM RecordIsSound == Spec => []RecordSound
<1>1. IInv => RecordSound
  BY DEF IInv, RecordSound
<1> QED
  BY <1>1, Invariance, PTL

\* Evidence is durable before the launch, and the outcome is written once.
THEOREM EvidenceIsFirst == Spec => EvidenceFirst
<1> DEFINE A == /\ spawned' # spawned => rec = "launching" /\ recSha = rec /\ ClaimLoads
                /\ rec # Null => rec' # Null
                /\ rec \in {"launched", "launch_uncertain"} => rec' = rec
<1>1. ASSUME IInv, [Next]_vars PROVE A \/ UNCHANGED vars
  <2>1. CASE UNCHANGED vars
    BY <2>1
  <2>2. CASE ChangeAuthority
    BY <2>2 DEF ChangeAuthority, files
  <2>3. ASSUME NEW p \in Procs,
               \/ Acquire(p) \/ LockClaim(p) \/ VerifyClaim(p) \/ LockExecution(p)
               \/ Die(p) \/ IoFails(p) \/ RequestShutdown(p)
        PROVE  A
    BY <2>3 DEF Acquire, LockClaim, VerifyClaim, LockExecution, Die, IoFails,
                RequestShutdown, files
  <2>4. ASSUME NEW p \in Procs,
               OpenClaim(p) \/ FillClaim(p) \/ OpenClaimSha(p) \/ FillClaimSha(p) \/ LoadClaim(p)
        PROVE  A
    BY <2>4 DEF OpenClaim, FillClaim, OpenClaimSha, FillClaimSha, LoadClaim, files
  <2>5. ASSUME NEW p \in Procs,
               \/ ExecuteBlocked(p) \/ ReportExisting(p) \/ FindUnexecuted(p)
               \/ SealLaunching(p) \/ SpawnFails(p) \/ SealOutcome(p)
        PROVE  A
    BY <2>5
       DEF ExecuteBlocked, ReportExisting, FindUnexecuted, SealLaunching, SpawnFails,
           SealOutcome, files
  <2>6. ASSUME NEW p \in Procs,
               BeginLaunch(p) \/ Spawn(p) \/ RecordLaunched(p) \/ RecordUncertain(p)
        PROVE  A
    BY <1>1, <2>6, NullAssumption
       DEF IInv, StagesHold, Unexecuted, BeginLaunch, Spawn, RecordLaunched, RecordUncertain, files
  <2> QED
    BY <1>1, <2>1, <2>2, <2>3, <2>4, <2>5, <2>6 DEF Next, Step
<1> QED
  BY <1>1, Invariance, PTL DEF Spec, EvidenceFirst

\* Claiming and executing implement the at-most-once launch: every step is a
\* step of AtMostOnceLaunch or leaves its variables alone.
THEOREM Implementation == Spec => LaunchImplemented
<1>1. Init => Launch!Init
  BY DEF Init, Launch!Init, Phase
<1>2. ASSUME IInv, [Next]_vars PROVE [Launch!Next]_(Launch!vars)
  <2> USE DEF Phase, Launch!vars
  <2>1. CASE UNCHANGED vars
    BY <2>1 DEF vars
  <2>2. CASE ChangeAuthority
    BY <2>2 DEF ChangeAuthority, files
  <2>3. ASSUME NEW p \in Procs,
               \/ Acquire(p) \/ LockClaim(p) \/ VerifyClaim(p) \/ LockExecution(p)
               \/ Die(p) \/ IoFails(p) \/ RequestShutdown(p)
        PROVE  UNCHANGED Launch!vars
    BY <2>3 DEF Acquire, LockClaim, VerifyClaim, LockExecution, Die, IoFails,
                RequestShutdown, files
  <2>4. ASSUME NEW p \in Procs,
               \/ OpenClaim(p) \/ FillClaim(p) \/ OpenClaimSha(p) \/ FillClaimSha(p)
               \/ LoadClaim(p) \/ ExecuteBlocked(p) \/ ReportExisting(p)
               \/ FindUnexecuted(p) \/ SealLaunching(p) \/ SpawnFails(p) \/ SealOutcome(p)
        PROVE  UNCHANGED Launch!vars
    BY <2>4 DEF OpenClaim, FillClaim, OpenClaimSha, FillClaimSha, LoadClaim, ExecuteBlocked,
                ReportExisting, FindUnexecuted, SealLaunching, SpawnFails, SealOutcome, files
  <2>5. ASSUME NEW p \in Procs, BeginLaunch(p) PROVE Launch!Begin
    BY <1>2, <2>5, NullAssumption DEF IInv, StagesHold, BeginLaunch, Unexecuted, Launch!Begin
  <2>6. ASSUME NEW p \in Procs, Spawn(p) PROVE Launch!Start
    BY <1>2, <2>6, NullAssumption DEF IInv, StagesHold, Spawn, files, Launch!Start
  <2>7. ASSUME NEW p \in Procs, RecordLaunched(p) PROVE Launch!Confirm
    BY <1>2, <2>7, NullAssumption DEF IInv, StagesHold, RecordLaunched, Launch!Confirm
  <2>8. ASSUME NEW p \in Procs, RecordUncertain(p) PROVE Launch!GiveUp
    BY <1>2, <2>8, NullAssumption DEF IInv, StagesHold, RecordUncertain, Launch!GiveUp
  <2> QED
    BY <1>2, <2>1, <2>2, <2>3, <2>4, <2>5, <2>6, <2>7, <2>8 DEF Next, Step, Launch!Next
<1> QED
  BY <1>1, <1>2, Invariance, PTL DEF Spec, LaunchImplemented, Launch!Spec

=============================================================================
