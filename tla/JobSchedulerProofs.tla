------------------------- MODULE JobSchedulerProofs -------------------------
(***************************************************************************)
(* Theorems about the job scheduler, for any number of processes and jobs. *)
(***************************************************************************)
EXTENDS JobSchedulerProperties, SequenceTheorems, FiniteSetTheorems, TLAPS

USE HolderAssumption, OrderAssumption, TimeAssumption, LimitAssumption, NullAssumption

LEMMA SetType ==
  ASSUME NEW S, NEW f \in [Procs -> S], NEW p \in Procs, NEW v \in S
  PROVE  /\ Set(f, p, v) \in [Procs -> S]
         /\ Set(f, p, v)[p] = v
         /\ \A q \in Procs \ {p} : Set(f, p, v)[q] = f[q]
  BY DEF Set

LEMMA JobType ==
  ASSUME NEW p \in Procs, todo \in [Procs -> Seq(Jobs)], todo[p] # <<>>
  PROVE  /\ Job(p) \in Jobs /\ Tail(todo[p]) \in Seq(Jobs)
         /\ <<Job(p)>> \in Seq(Jobs) /\ <<Job(p)>> # <<>>
  BY DEF Job

LEMMA DerivedType ==
  ASSUME TypeOK, NEW j \in Jobs
  PROVE  Derived(j) \in States
  BY DEF TypeOK, Derived, States, Terminal, Registry

LEMMA PauseType ==
  ASSUME TypeOK, NEW j \in Jobs, PauseActive(j)
  PROVE  /\ pause[j] \in Pauses
         /\ [pause[j] EXCEPT !.active = FALSE] \in Pauses
         /\ [pause[j] EXCEPT !.manual = TRUE] \in Pauses
  <1>1. pause[j] \in Pauses
    BY DEF TypeOK, PauseActive
  <1> QED
    BY <1>1 DEF Pauses

LEMMA InitType == Init => TypeOK
  <1> SUFFICES ASSUME Init PROVE TypeOK
    OBVIOUS
  <1> <<>> \in Seq(Jobs)
    OBVIOUS
  <1> QED
    BY DEF Init, TypeOK, Registry, LeaseFile, Lease, PCs, InJob

LEMMA SyncingType ==
  ASSUME TypeOK, NEW p \in Procs, Syncing(p)
  PROVE  TypeOK'
  <1> <<>> \in Seq(Jobs)
    OBVIOUS
  <1>1. CASE Start(p)
    BY <1>1 DEF Start, TypeOK, artifacts, Goto, Set, InJob, PCs
  <1>2. CASE SyncRead(p)
    <2>1. Job(p) \in Jobs
      BY <1>2, JobType DEF SyncRead, TypeOK
    <2>2. Synced(Job(p)) \in Registry
      BY <2>1, DerivedType DEF Synced, TypeOK, Registry
    <2>3. Synced(Job(p)) # Null
      BY <2>2
    <2> QED
      BY <1>2, <2>2, <2>3 DEF SyncRead, TypeOK, artifacts, Goto, Set, InJob, PCs
  <1>3. CASE SyncWrite(p)
    BY <1>3, JobType DEF SyncWrite, TypeOK, artifacts, Goto, Set, InJob, PCs
  <1>4. CASE Snapshot(p)
    BY <1>4 DEF Snapshot, TypeOK, artifacts, Goto, Set, InJob, PCs
  <1> QED
    BY <1>1, <1>2, <1>3, <1>4 DEF Syncing

LEMMA ClaimingType ==
  ASSUME TypeOK, NEW p \in Procs, Claiming(p)
  PROVE  TypeOK'
  <1> <<>> \in Seq(Jobs)
    OBVIOUS
  <1>1. CASE Skip(p)
    BY <1>1, JobType DEF Skip, NextJob, TypeOK, artifacts, Goto, Set, InJob, PCs
  <1>2. CASE ClaimRead(p)
    BY <1>2 DEF ClaimRead, TypeOK, artifacts, Goto, Set, InJob, PCs
  <1>3. CASE ClaimWrite(p)
    BY <1>3, JobType DEF ClaimWrite, TypeOK, artifacts, Goto, Set, InJob, PCs, LeaseFile, Lease
  <1>4. CASE Finish(p)
    BY <1>4 DEF Finish, TypeOK, artifacts, Goto, Set, InJob, PCs
  <1> QED
    BY <1>1, <1>2, <1>3, <1>4 DEF Claiming

LEMMA GatingType ==
  ASSUME TypeOK, NEW p \in Procs, Gating(p)
  PROVE  TypeOK'
  <1>1. CASE GateHolds(p)
    BY <1>1, JobType DEF GateHolds, Conclude, Auditing, TypeOK, Goto, Set, InJob, PCs, Outcomes
  <1>2. CASE GateResumes(p)
    <2>1. Job(p) \in Jobs /\ todo[p] # <<>>
      BY <1>2, JobType DEF GateResumes, TypeOK, InJob
    <2>2. pause' \in [Jobs -> Pauses \cup {Null}]
      BY <1>2, <2>1, PauseType DEF GateResumes, PauseEligible, TypeOK
    <2> QED
      BY <1>2, <2>1, <2>2 DEF GateResumes, TypeOK, Goto, Set, InJob, PCs
  <1>3. CASE AuditResumed(p)
    BY <1>3, JobType DEF AuditResumed, Auditing, TypeOK, Goto, Set, InJob, PCs, Outcomes
  <1>4. CASE GateOpen(p)
    BY <1>4 DEF GateOpen, TypeOK, artifacts, Goto, Set, InJob, PCs
  <1> QED
    BY <1>1, <1>2, <1>3, <1>4 DEF Gating

LEMMA RoutingType ==
  ASSUME TypeOK, NEW p \in Procs, Routing(p)
  PROVE  TypeOK'
  <1>1. CASE Run(p)
    BY <1>1, JobType DEF Run, TypeOK, Goto, Set, InJob, PCs
  <1>2. CASE ShortCircuit(p)
    BY <1>2, JobType DEF ShortCircuit, Conclude, Auditing, TypeOK, Goto, Set, InJob, PCs, Outcomes, Settled
  <1>3. CASE Pause(p)
    BY <1>3, JobType DEF Pause, Routed, TypeOK, Goto, Set, InJob, PCs, Pauses
  <1>4. CASE AuditPaused(p)
    BY <1>4, JobType DEF AuditPaused, Conclude, Auditing, TypeOK, Goto, Set, InJob, PCs, Outcomes
  <1>5. CASE Retry(p)
    BY <1>5, JobType DEF Retry, Routed, Auditing, TypeOK, Goto, Set, InJob, PCs, Outcomes
  <1>6. CASE Escalate(p)
    BY <1>6, JobType DEF Escalate, Routed, RefusalOutcome, Conclude, Auditing, TypeOK, Goto, Set, InJob, PCs, Outcomes, Settled
  <1> QED
    BY <1>1, <1>2, <1>3, <1>4, <1>5, <1>6 DEF Routing

LEMMA ExecutingType ==
  ASSUME TypeOK, NEW p \in Procs, Executing(p)
  PROVE  TypeOK'
  <1>1. CASE Execute(p)
    <2>1. Job(p) \in Jobs /\ todo[p] # <<>> /\ pc[p] = "route"
      BY <1>1, JobType DEF Execute, Routed, TypeOK, InJob
    <2>2. effects' \in [Jobs -> Nat]
      BY <1>1, <2>1 DEF Execute, TypeOK
    <2>3. PICK o \in {"executed", "escalated"} : out' = Set(out, p, o)
      BY <1>1 DEF Execute
    <2>4. out' \in [Procs -> Outcomes \cup {Null}] /\ out'[p] \in Outcomes
          /\ \A q \in Procs \ {p} : out'[q] = out[q]
      BY <2>3, SetType DEF TypeOK, Outcomes, Settled, Set
    <2> QED
      BY <1>1, <2>1, <2>2, <2>4 DEF Execute, TypeOK, Goto, Set, InJob, PCs
  <1>2. CASE WriteReceipt(p)
    BY <1>2, JobType DEF WriteReceipt, TypeOK, Goto, Set, InJob, PCs
  <1>3. CASE AuditOut(p)
    BY <1>3, JobType DEF AuditOut, Conclude, Auditing, TypeOK, Goto, Set, InJob, PCs
  <1> QED
    BY <1>1, <1>2, <1>3 DEF Executing

LEMMA ClosingType ==
  ASSUME TypeOK, NEW p \in Procs, Closing(p)
  PROVE  TypeOK'
  <1>1. CASE ResultRead(p)
    <2>1. Job(p) \in Jobs /\ todo[p] # <<>>
      BY <1>1, JobType DEF ResultRead, TypeOK, InJob
    <2>2. [registry EXCEPT ![Job(p)] = ResultState(out[p])] \in Registry
      BY <2>1 DEF ResultState, TypeOK, Registry, States, Terminal
    <2>3. [registry EXCEPT ![Job(p)] = ResultState(out[p])] # Null
      BY <2>2
    <2> QED
      BY <1>1, <2>1, <2>2, <2>3 DEF ResultRead, TypeOK, artifacts, Goto, Set, InJob, PCs
  <1>2. CASE ResultWrite(p)
    BY <1>2 DEF ResultWrite, TypeOK, artifacts, Goto, Set, InJob, PCs
  <1>3. CASE ReleaseRead(p)
    BY <1>3 DEF ReleaseRead, TypeOK, artifacts, Goto, Set, InJob, PCs
  <1>4. CASE ReleaseWrite(p)
    BY <1>4, JobType DEF ReleaseWrite, NextJob, TypeOK, artifacts, Goto, Set, InJob, PCs, LeaseFile
  <1>5. CASE ReleaseNothing(p)
    BY <1>5, JobType DEF ReleaseNothing, NextJob, TypeOK, artifacts, Goto, Set, InJob, PCs
  <1> QED
    BY <1>1, <1>2, <1>3, <1>4, <1>5 DEF Closing

LEMMA ElapsedType ==
  ASSUME NEW file \in LeaseFile
  PROVE  ElapsedFile(file) \in LeaseFile
  <1> SUFFICES ASSUME NEW l \in Lease \cup {Null} PROVE Elapse(l) \in Lease \cup {Null}
    BY DEF ElapsedFile, LeaseFile
  <1> QED
    BY DEF Elapse, Lapsing, Lease

LEMMA SurroundingsType ==
  ASSUME TypeOK
  PROVE  /\ \A p \in Procs : Kill(p) \/ RunRaises(p) => TypeOK'
         /\ Tick => TypeOK'
         /\ \A j \in Jobs : ManualResume(j) => TypeOK'
  <1> <<>> \in Seq(Jobs)
    OBVIOUS
  <1>1. ASSUME NEW p \in Procs, Kill(p) PROVE TypeOK'
    <2>1. pc[p] \in Owning => Job(p) \in Jobs
      BY JobType DEF TypeOK, Owning
    <2>2. struck' \in [Jobs -> SUBSET {"lease", "pause"}]
      BY <1>1, <2>1 DEF Kill, Grip, TypeOK
    <2> QED
      BY <1>1, <2>2 DEF Kill, TypeOK, artifacts, Goto, Set, InJob, PCs
  <1>2. ASSUME NEW p \in Procs, RunRaises(p) PROVE TypeOK'
    BY <1>2, JobType DEF RunRaises, TypeOK, artifacts, Goto, Set, InJob, PCs
  <1>3. ASSUME Tick PROVE TypeOK'
    <2>1. leases' \in LeaseFile /\ leaseCopy' \in [Procs -> LeaseFile \cup {Null}]
      BY <1>3, ElapsedType DEF Tick, TypeOK
    <2>2. \A p \in Procs : leaseCopy'[p] # Null <=> leaseCopy[p] # Null
      BY <1>3, ElapsedType DEF Tick, TypeOK
    <2>3. pause' \in [Jobs -> Pauses \cup {Null}]
      <3> SUFFICES ASSUME NEW j \in Jobs PROVE pause'[j] \in Pauses \cup {Null}
        BY <1>3 DEF Tick
      <3>1. CASE Waiting(j)
        <4>1. pause[j] \in Pauses /\ pause[j].left \in 1..PauseTime
          <5>1. PauseActive(j) /\ pause[j].left # Null /\ pause[j].left > 0
            BY <3>1 DEF Waiting
          <5>2. pause[j] \in Pauses
            BY <5>1, PauseType
          <5>3. pause[j].left \in 0..PauseTime
            BY <5>1, <5>2 DEF Pauses
          <5> QED
            BY <5>1, <5>2, <5>3
        <4>2. pause[j].left - 1 \in 0..PauseTime
          BY <4>1
        <4>3. [pause[j] EXCEPT !.left = @ - 1] \in Pauses
          BY <4>1, <4>2 DEF Pauses
        <4> QED
          BY <1>3, <3>1, <4>3 DEF Tick
      <3>2. CASE ~Waiting(j)
        BY <1>3, <3>2 DEF Tick, TypeOK
      <3> QED
        BY <3>1, <3>2
    <2> QED
      BY <1>3, <2>1, <2>2, <2>3 DEF Tick, TypeOK
  <1>4. ASSUME NEW j \in Jobs, ManualResume(j) PROVE TypeOK'
    <2>1. pause' \in [Jobs -> Pauses \cup {Null}]
      BY <1>4, PauseType DEF ManualResume, TypeOK
    <2> QED
      BY <1>4, <2>1 DEF ManualResume, TypeOK, locals
  <1> QED
    BY <1>1, <1>2, <1>3, <1>4

LEMMA StutterType == TypeOK /\ UNCHANGED vars => TypeOK'
  BY DEF TypeOK, vars, artifacts, locals

LEMMA NextType == TypeOK /\ [Next]_vars => TypeOK'
  BY SyncingType, ClaimingType, GatingType, RoutingType, ExecutingType, ClosingType,
     SurroundingsType, StutterType DEF Next, Work

\* Type correctness of the scheduler's files and of every process.
THEOREM TypeCorrect == Spec => []TypeOK
  BY InitType, NextType, PTL DEF Spec

(***************************************************************************)
(* CompletedBacked is not inductive: a completion also travels through the *)
(* receipt, the copies of the registry and the outcome a process holds.    *)
(***************************************************************************)
FilesBacked ==
  \A j \in Jobs : audit[j] = "executed" \/ registry[j] = "completed" \/ receipt[j] = "executed"
                    => effects[j] > 0

CopiesBacked ==
  \A p \in Procs : regCopy[p] # Null =>
    \A j \in Jobs : regCopy[p][j] = "completed" => effects[j] > 0

OutcomesBacked ==
  \A p \in Procs : pc[p] \in {"receipt", "audit_out", "result"} /\ out[p] = "executed"
                     => effects[Job(p)] > 0

Backed == FilesBacked /\ CopiesBacked /\ OutcomesBacked

LEMMA InitBacked == Init => Backed
  <1>1. Null # "completed" /\ Null # "executed"
    BY DEF States, Terminal, Outcomes, Settled
  <1> QED
    BY <1>1 DEF Init, Backed, FilesBacked, CopiesBacked, OutcomesBacked

LEMMA DerivedBacked ==
  ASSUME TypeOK, FilesBacked, NEW j \in Jobs, Derived(j) = "completed"
  PROVE  effects[j] > 0
  BY DEF Derived, FilesBacked, Terminal

LEMMA SyncingBacked ==
  ASSUME TypeOK, Backed, NEW p \in Procs, Syncing(p)
  PROVE  Backed'
  <1> USE DEF Backed, FilesBacked, CopiesBacked, OutcomesBacked
  <1>1. CASE Start(p)
    BY <1>1 DEF Start, TypeOK, artifacts, Goto, Set, Job
  <1>2. CASE SyncRead(p)
    <2>1. Job(p) \in Jobs
      BY <1>2, JobType DEF SyncRead, TypeOK
    <2>2. \A j \in Jobs : Synced(Job(p))[j] = "completed" => effects[j] > 0
      BY <2>1, DerivedBacked DEF Synced, TypeOK, Registry
    <2> QED
      BY <1>2, <2>2 DEF SyncRead, TypeOK, artifacts, Goto, Set, Job
  <1>3. CASE SyncWrite(p)
    <2>1. regCopy[p] # Null
      BY <1>3 DEF SyncWrite, TypeOK
    <2> QED
      BY <1>3, <2>1 DEF SyncWrite, TypeOK, artifacts, Goto, Set, Job
  <1>4. CASE Snapshot(p)
    BY <1>4 DEF Snapshot, TypeOK, artifacts, Goto, Set, Job
  <1> QED
    BY <1>1, <1>2, <1>3, <1>4 DEF Syncing

LEMMA ClaimingBacked ==
  ASSUME TypeOK, Backed, NEW p \in Procs, Claiming(p)
  PROVE  Backed'
  <1> USE DEF artifacts, Goto, Set, Job, Backed, FilesBacked, CopiesBacked, OutcomesBacked
  <1>1. CASE Skip(p)
    BY <1>1 DEF Skip, NextJob, TypeOK
  <1>2. CASE ClaimRead(p)
    BY <1>2 DEF ClaimRead, TypeOK
  <1>3. CASE ClaimWrite(p)
    BY <1>3 DEF ClaimWrite, TypeOK
  <1>4. CASE Finish(p)
    BY <1>4 DEF Finish, TypeOK
  <1> QED
    BY <1>1, <1>2, <1>3, <1>4 DEF Claiming

\* An audit of an outcome that is backed, with the job still in hand.
LEMMA ConcludeBacked ==
  ASSUME TypeOK, Backed, NEW p \in Procs, NEW o, todo[p] # <<>>, Conclude(p, o),
         o = "executed" => effects[Job(p)] > 0,
         UNCHANGED <<registry, receipt, effects, todo, regCopy>>
  PROVE  Backed'
  BY JobType DEF Conclude, Auditing, TypeOK, Goto, Set, Job, Backed, FilesBacked, CopiesBacked, OutcomesBacked

LEMMA GatingBacked ==
  ASSUME TypeOK, Backed, NEW p \in Procs, Gating(p)
  PROVE  Backed'
  <1>1. CASE GateHolds(p)
    BY <1>1, ConcludeBacked DEF GateHolds, TypeOK, InJob
  <1>2. CASE ~GateHolds(p)
    BY <1>2 DEF Gating, GateResumes, AuditResumed, Auditing, GateOpen, TypeOK, artifacts, Goto, Set, Job,
                Backed, FilesBacked, CopiesBacked, OutcomesBacked
  <1> QED
    BY <1>1, <1>2

LEMMA RoutingBacked ==
  ASSUME TypeOK, Backed, NEW p \in Procs, Routing(p)
  PROVE  Backed'
  <1>1. CASE ShortCircuit(p)
    <2>1. Job(p) \in Jobs /\ todo[p] # <<>>
      BY <1>1, JobType DEF ShortCircuit, TypeOK, InJob
    <2>2. receipt[Job(p)] = "executed" => effects[Job(p)] > 0
      BY <2>1 DEF Backed, FilesBacked
    <2> QED
      BY <1>1, <2>1, <2>2, ConcludeBacked DEF ShortCircuit
  <1>2. CASE AuditPaused(p)
    BY <1>2, ConcludeBacked DEF AuditPaused, TypeOK, InJob
  <1>3. CASE Escalate(p)
    BY <1>3, ConcludeBacked DEF Escalate, Routed, RefusalOutcome, TypeOK, InJob
  <1>4. CASE Run(p)
    BY <1>4 DEF Run, TypeOK, Goto, Set, Job, Backed, FilesBacked, CopiesBacked, OutcomesBacked
  <1>5. CASE Pause(p)
    BY <1>5 DEF Pause, Routed, TypeOK, Goto, Set, Job, Backed, FilesBacked, CopiesBacked, OutcomesBacked
  <1>6. CASE Retry(p)
    <2>1. Job(p) \in Jobs
      BY <1>6, JobType DEF Retry, Routed, TypeOK, InJob
    <2> QED
      BY <1>6, <2>1 DEF Retry, Auditing, TypeOK, Goto, Set, Job, Backed, FilesBacked, CopiesBacked, OutcomesBacked
  <1> QED
    BY <1>1, <1>2, <1>3, <1>4, <1>5, <1>6 DEF Routing

LEMMA ExecutingBacked ==
  ASSUME TypeOK, Backed, NEW p \in Procs, Executing(p)
  PROVE  Backed'
  <1>0. Job(p) \in Jobs /\ todo[p] # <<>>
    BY JobType DEF Executing, Execute, Routed, WriteReceipt, AuditOut, TypeOK, InJob
  <1>1. CASE Execute(p)
    <2>1. \A j \in Jobs : effects[j] > 0 => effects'[j] > 0
      BY <1>0, <1>1 DEF Execute, TypeOK
    <2>2. effects'[Job(p)] > 0
      BY <1>0, <1>1 DEF Execute, TypeOK
    <2>3. Job(p)' = Job(p) /\ UNCHANGED <<registry, audit, receipt, regCopy, todo>>
      BY <1>1 DEF Execute, Job
    <2>4. FilesBacked' /\ CopiesBacked'
      BY <2>1, <2>3 DEF Backed, FilesBacked, CopiesBacked
    <2>5. \A q \in Procs \ {p} : pc'[q] = pc[q] /\ out'[q] = out[q]
      BY <1>1 DEF Execute, Goto, Set, TypeOK
    <2>6. ASSUME NEW q \in Procs, pc'[q] \in {"receipt", "audit_out", "result"}, out'[q] = "executed"
          PROVE  effects'[Job(q)'] > 0
      <3>1. CASE q = p
        BY <2>2, <2>3, <3>1
      <3>2. CASE q # p
        <4>1. effects[Job(q)] > 0
          BY <2>5, <2>6, <3>2 DEF Backed, OutcomesBacked
        <4>2. Job(q) \in Jobs /\ Job(q)' = Job(q)
          BY <2>3, <2>5, <2>6, <3>2, JobType DEF TypeOK, InJob, Job
        <4> QED
          BY <2>1, <4>1, <4>2
      <3> QED
        BY <3>1, <3>2
    <2>7. OutcomesBacked'
      BY <2>6 DEF OutcomesBacked
    <2> QED
      BY <2>4, <2>7 DEF Backed
  <1>2. CASE WriteReceipt(p)
    <2>0. PICK r \in {Null, IF out[p] = "executed" THEN "executed" ELSE "refused"} :
            receipt' = [receipt EXCEPT ![Job(p)] = r]
      BY <1>2 DEF WriteReceipt
    <2>1. \A j \in Jobs : receipt'[j] = "executed" => effects[j] > 0
      <3>1. r = "executed" => out[p] = "executed"
        BY DEF Outcomes, Settled
      <3>2. out[p] = "executed" => effects[Job(p)] > 0
        BY <1>2 DEF WriteReceipt, Backed, OutcomesBacked
      <3> QED
        BY <1>0, <2>0, <3>1, <3>2 DEF TypeOK, Backed, FilesBacked
    <2> QED
      BY <1>2, <2>1 DEF WriteReceipt, TypeOK, Goto, Set, Job, Backed, FilesBacked, CopiesBacked, OutcomesBacked
  <1>3. CASE AuditOut(p)
    <2>1. out[p] = "executed" => effects[Job(p)] > 0
      BY <1>3 DEF AuditOut, Backed, OutcomesBacked
    <2> QED
      BY <1>0, <1>3, <2>1, ConcludeBacked DEF AuditOut
  <1> QED
    BY <1>1, <1>2, <1>3 DEF Executing

LEMMA ClosingBacked ==
  ASSUME TypeOK, Backed, NEW p \in Procs, Closing(p)
  PROVE  Backed'
  <1>1. CASE ResultRead(p)
    <2>1. Job(p) \in Jobs
      BY <1>1, JobType DEF ResultRead, TypeOK, InJob
    <2>2. \A j \in Jobs : [registry EXCEPT ![Job(p)] = ResultState(out[p])][j] = "completed" => effects[j] > 0
      BY <1>1, <2>1 DEF ResultRead, ResultState, TypeOK, Registry, Backed, FilesBacked, OutcomesBacked
    <2> QED
      BY <1>1, <2>2 DEF ResultRead, TypeOK, artifacts, Goto, Set, Job,
                        Backed, FilesBacked, CopiesBacked, OutcomesBacked
  <1>2. CASE ResultWrite(p)
    <2>1. regCopy[p] # Null
      BY <1>2 DEF ResultWrite, TypeOK
    <2> QED
      BY <1>2, <2>1 DEF ResultWrite, TypeOK, artifacts, Goto, Set, Job,
                        Backed, FilesBacked, CopiesBacked, OutcomesBacked
  <1>3. CASE ReleaseRead(p) \/ ReleaseWrite(p) \/ ReleaseNothing(p)
    BY <1>3 DEF ReleaseRead, ReleaseWrite, ReleaseNothing, NextJob, TypeOK, artifacts, Goto, Set, Job,
                Backed, FilesBacked, CopiesBacked, OutcomesBacked
  <1> QED
    BY <1>1, <1>2, <1>3 DEF Closing

LEMMA SurroundingsBacked ==
  ASSUME TypeOK, Backed
  PROVE  /\ \A p \in Procs : Kill(p) \/ RunRaises(p) => Backed'
         /\ Tick => Backed'
         /\ \A j \in Jobs : ManualResume(j) => Backed'
         /\ UNCHANGED vars => Backed'
  <1> USE DEF artifacts, Goto, Set, Job, Backed, FilesBacked, CopiesBacked, OutcomesBacked
  <1>1. ASSUME NEW p \in Procs, Kill(p) PROVE Backed'
    BY <1>1 DEF Kill, TypeOK
  <1>2. ASSUME NEW p \in Procs, RunRaises(p) PROVE Backed'
    BY <1>2 DEF RunRaises, TypeOK
  <1>3. ASSUME Tick PROVE Backed'
    BY <1>3 DEF Tick
  <1>4. ASSUME NEW j \in Jobs, ManualResume(j) PROVE Backed'
    BY <1>4 DEF ManualResume, locals
  <1>5. ASSUME UNCHANGED vars PROVE Backed'
    BY <1>5 DEF vars, locals
  <1> QED
    BY <1>1, <1>2, <1>3, <1>4, <1>5

LEMMA NextBacked == TypeOK /\ Backed /\ [Next]_vars => Backed'
  BY SyncingBacked, ClaimingBacked, GatingBacked, RoutingBacked, ExecutingBacked, ClosingBacked,
     SurroundingsBacked DEF Next, Work

\* A job is reported as completed only after a call of the executor, however
\* many schedulers overwrite each other's registry, die, or take a lease over.
THEOREM CompletionBacked == Spec => []CompletedBacked
  <1>1. Backed => CompletedBacked
    BY DEF Backed, FilesBacked, CompletedBacked
  <1> QED
    BY <1>1, TypeCorrect, InitBacked, NextBacked, PTL DEF Spec

(***************************************************************************)
(* One scheduler implements JobOutcome.  A job that is settled is never    *)
(* dispatched again: its pause has ended, the registry is brought up to    *)
(* date before the snapshot, and no job comes twice in a cycle.            *)
(***************************************************************************)
Elems(s)    == {s[k] : k \in DOMAIN s}
Distinct(s) == \A m, n \in DOMAIN s : s[m] = s[n] => m = n

\* A file does not call a job runnable that is settled.
Unsettled(file, j) == file[j] \in {"pending", "runnable"} => audit[j] \notin Settled

PausesOpen == \A j \in Jobs : PauseActive(j) => audit[j] \notin Settled

\* The steps before the outcome of a dispatch, and those after its gate.
Undecided == {"claim_put", "gate", "audit_resumed", "run", "route", "audit_paused", "receipt", "audit_out"}
Passed    == {"audit_resumed", "run", "route", "receipt", "audit_out"}

Held(p) ==
  /\ Distinct(todo[p])
  /\ pc[p] = "sync" => \A j \in Elems(JobOrder) \ Elems(todo[p]) : Unsettled(registry, j)
  /\ pc[p] = "sync_put" => \A j \in Elems(JobOrder) \ Elems(Tail(todo[p])) : Unsettled(regCopy[p], j)
  /\ \A j \in Elems(Ahead(p)) : Unsettled(snap[p], j)
  /\ pc[p] \in Undecided => audit[Job(p)] \notin Settled
  /\ pc[p] \in Passed => ~PauseActive(Job(p))

OneScheduler == \A p, q \in Procs : p = q

Holding == PausesOpen /\ \A p \in Procs : Held(p)

LEMMA ElemsFacts ==
  ASSUME NEW s \in Seq(Jobs), s # <<>>
  PROVE  /\ Tail(s) \in Seq(Jobs) /\ Head(s) \in Jobs
         /\ Elems(s) = {Head(s)} \cup Elems(Tail(s)) /\ Elems(s) \subseteq Jobs
         /\ Distinct(s) => Distinct(Tail(s)) /\ Head(s) \notin Elems(Tail(s))
  <1>1. Tail(s) \in Seq(Jobs) /\ Len(s) \in Nat \ {0} /\ Len(Tail(s)) = Len(s) - 1 /\ Head(s) = s[1]
    OBVIOUS
  <1>2. \A k \in DOMAIN Tail(s) : Tail(s)[k] = s[k + 1] /\ k + 1 \in DOMAIN s /\ k + 1 # 1
    BY <1>1
  <1>3. \A k \in DOMAIN s : k = 1 \/ (k - 1 \in DOMAIN Tail(s) /\ Tail(s)[k - 1] = s[k])
    BY <1>1
  <1>4. 1 \in DOMAIN s /\ \A k \in DOMAIN s : s[k] \in Jobs
    BY <1>1
  <1>5. Elems(s) = {Head(s)} \cup Elems(Tail(s))
    <2>1. ASSUME NEW x \in Elems(s) PROVE x = Head(s) \/ x \in Elems(Tail(s))
      <3>1. PICK k \in DOMAIN s : x = s[k]
        BY <2>1 DEF Elems
      <3>2. CASE k = 1
        BY <1>1, <3>1, <3>2
      <3>3. CASE k # 1
        <4>1. k - 1 \in DOMAIN Tail(s) /\ Tail(s)[k - 1] = x
          BY <1>3, <3>1, <3>3
        <4> QED
          BY <4>1 DEF Elems
      <3> QED
        BY <3>2, <3>3
    <2>2. ASSUME NEW x \in Elems(Tail(s)) PROVE x \in Elems(s)
      BY <1>2, <2>2 DEF Elems
    <2>3. Head(s) \in Elems(s)
      BY <1>1, <1>4 DEF Elems
    <2> QED
      BY <2>1, <2>2, <2>3
  <1>6. Distinct(s) => Distinct(Tail(s)) /\ Head(s) \notin Elems(Tail(s))
    BY <1>1, <1>2, <1>4 DEF Distinct, Elems
  <1>7. Elems(s) \subseteq Jobs
    BY <1>4 DEF Elems
  <1> QED
    BY <1>1, <1>4, <1>5, <1>6, <1>7

LEMMA EmptyFacts == Elems(<<>>) = {} /\ Distinct(<<>>) /\ <<>> \in Seq(Jobs)
  BY DEF Elems, Distinct

LEMMA SingleFacts ==
  ASSUME NEW j PROVE Distinct(<<j>>) /\ Elems(Tail(<<j>>)) = {}
  BY DEF Distinct, Elems

LEMMA OrderFacts == Distinct(JobOrder) /\ Elems(JobOrder) \subseteq Jobs
  BY NamesAssumption DEF Distinct, Elems

\* What the registry is brought up to date to.
LEMMA DerivedUnsettled ==
  ASSUME PausesOpen, NEW j \in Jobs, Derived(j) \in {"pending", "runnable"}
  PROVE  audit[j] \notin Settled
  BY DEF Derived, PausesOpen, Settled, Terminal

\* A step of the scheduler that leaves audits and pauses alone.
LEMMA QuietHolds ==
  ASSUME TypeOK, Holding, NEW p \in Procs, \A q \in Procs : q = p, UNCHANGED <<audit, pause>>,
         Held(p)'
  PROVE  Holding'
  BY DEF Holding, PausesOpen, PauseActive

LEMMA SyncingHolds ==
  ASSUME TypeOK, Holding, NEW p \in Procs, \A q \in Procs : q = p, Syncing(p)
  PROVE  Holding'
  <1>0. Held(p) /\ PausesOpen
    BY DEF Holding
  <1>1. CASE Start(p)
    <2>1. pc'[p] = "sync" /\ todo'[p] = JobOrder /\ UNCHANGED artifacts
      BY <1>1 DEF Start, Goto, Set, TypeOK
    <2>2. Held(p)'
      BY <2>1, OrderFacts, EmptyFacts DEF Held, Ahead, InJob, Undecided, Passed
    <2> QED
      BY <2>1, <2>2, QuietHolds DEF artifacts
  <1>2. CASE SyncRead(p)
    <2>1. Job(p) \in Jobs /\ Elems(todo[p]) = {Job(p)} \cup Elems(Tail(todo[p]))
      BY <1>2, ElemsFacts DEF SyncRead, TypeOK, Job
    <2>2. pc'[p] = "sync_put" /\ todo'[p] = todo[p] /\ regCopy'[p] = Synced(Job(p)) /\ UNCHANGED artifacts
      BY <1>2 DEF SyncRead, Goto, Set, TypeOK
    <2>3. ASSUME NEW j \in Elems(JobOrder) \ Elems(Tail(todo[p])) PROVE Unsettled(Synced(Job(p)), j)
      <3>1. CASE j = Job(p)
        BY <1>0, <2>1, <3>1, DerivedUnsettled DEF Unsettled, Synced, TypeOK, Registry
      <3>2. CASE j # Job(p)
        BY <1>0, <1>2, <2>1, <2>3, <3>2, OrderFacts DEF SyncRead, Held, Unsettled, Synced, TypeOK, Registry
      <3> QED
        BY <3>1, <3>2
    <2>4. Held(p)'
      BY <1>0, <2>2, <2>3, EmptyFacts DEF Held, Ahead, InJob, Undecided, Passed, Unsettled, artifacts
    <2> QED
      BY <2>2, <2>4, QuietHolds DEF artifacts
  <1>3. CASE SyncWrite(p)
    <2>1. Distinct(Tail(todo[p]))
      BY <1>0, <1>3, ElemsFacts DEF SyncWrite, TypeOK, Held
    <2>2. pc'[p] = "sync" /\ todo'[p] = Tail(todo[p]) /\ registry' = regCopy[p] /\ UNCHANGED artifacts
      BY <1>3 DEF SyncWrite, Goto, Set, TypeOK
    <2>3. Held(p)'
      BY <1>0, <1>3, <2>1, <2>2, EmptyFacts DEF SyncWrite, Held, Ahead, InJob, Undecided, Passed, Unsettled, artifacts
    <2> QED
      BY <2>2, <2>3, QuietHolds DEF artifacts
  <1>4. CASE Snapshot(p)
    <2>1. pc'[p] = "cycle" /\ todo'[p] = JobOrder /\ snap'[p] = registry /\ UNCHANGED artifacts
      BY <1>4 DEF Snapshot, Goto, Set, TypeOK
    <2>2. Held(p)'
      BY <1>0, <1>4, <2>1, OrderFacts, EmptyFacts DEF Snapshot, Held, Ahead, Undecided, Passed, Unsettled, artifacts
    <2> QED
      BY <2>1, <2>2, QuietHolds DEF artifacts
  <1> QED
    BY <1>1, <1>2, <1>3, <1>4 DEF Syncing

\* The next job of the cycle.
LEMMA NextJobHolds ==
  ASSUME TypeOK, Holding, NEW p \in Procs, \A q \in Procs : q = p,
         pc[p] \in {"cycle", "release", "release_put"}, todo[p] # <<>>, NextJob(p), UNCHANGED <<artifacts, snap>>
  PROVE  Holding'
  <1>1. pc'[p] = "cycle" /\ todo'[p] = Tail(todo[p])
    BY DEF NextJob, Goto, Set, TypeOK
  <1>2. Held(p) /\ todo[p] \in Seq(Jobs)
    BY DEF Holding, TypeOK
  <1>3. Elems(Tail(todo[p])) \subseteq Elems(Ahead(p))
    BY <1>2, ElemsFacts DEF Ahead, InJob
  <1>4. Held(p)'
    BY <1>1, <1>2, <1>3, ElemsFacts DEF Held, Ahead, Undecided, Passed, Unsettled, artifacts
  <1> QED
    BY <1>4, QuietHolds DEF artifacts

\* The next step on the same job, which leaves audits and pauses alone.
LEMMA SameJobHolds ==
  ASSUME TypeOK, Holding, NEW p \in Procs, \A q \in Procs : q = p, NEW l \in InJob, Goto(p, l),
         pc[p] \in InJob \cup {"cycle"}, todo[p] # <<>>, UNCHANGED <<audit, pause, todo, snap>>,
         l \in Undecided => pc[p] \in Undecided \/ (pc[p] = "cycle" /\ Runnable(p, Job(p))),
         l \in Passed => pc[p] \in Passed \/ ~PauseActive(Job(p))
  PROVE  Holding'
  <1>1. pc'[p] = l /\ todo'[p] = todo[p] /\ Job(p)' = Job(p)
    BY DEF Goto, TypeOK, Job
  <1>2. Held(p) /\ todo[p] \in Seq(Jobs)
    BY DEF Holding, TypeOK
  <1>3. Elems(Tail(todo[p])) \subseteq Elems(Ahead(p)) /\ (pc[p] = "cycle" => Job(p) \in Elems(Ahead(p)))
    BY <1>2, ElemsFacts DEF Ahead, Job
  <1>4. pc[p] = "cycle" /\ Runnable(p, Job(p)) => audit[Job(p)] \notin Settled
    BY <1>2, <1>3 DEF Held, Runnable, Unsettled
  <1>5. Ahead(p)' = Tail(todo[p])
    BY <1>1 DEF Ahead, InJob
  <1>6. l \notin {"sync", "sync_put"}
    BY DEF InJob
  <1>7. Held(p)'
    BY <1>1, <1>2, <1>3, <1>4, <1>5, <1>6 DEF Held, Unsettled, PauseActive
  <1> QED
    BY <1>7, QuietHolds

LEMMA ClaimingHolds ==
  ASSUME TypeOK, Holding, NEW p \in Procs, \A q \in Procs : q = p, Claiming(p)
  PROVE  Holding'
  <1>1. CASE Skip(p)
    BY <1>1, NextJobHolds DEF Skip
  <1>2. CASE ClaimRead(p)
    BY <1>2, SameJobHolds DEF ClaimRead, artifacts, InJob, Passed
  <1>3. CASE ClaimWrite(p)
    BY <1>3, SameJobHolds DEF ClaimWrite, artifacts, InJob, Undecided, Passed, TypeOK
  <1>4. CASE Finish(p)
    <2>1. pc'[p] = "off" /\ todo'[p] = <<>> /\ UNCHANGED artifacts
      BY <1>4 DEF Finish, Goto, Set, TypeOK
    <2>2. Held(p)'
      BY <2>1, EmptyFacts DEF Held, Ahead, InJob, Undecided, Passed
    <2> QED
      BY <2>1, <2>2, QuietHolds DEF artifacts
  <1> QED
    BY <1>1, <1>2, <1>3, <1>4 DEF Claiming

\* An audit of the job in hand.
LEMMA AuditHolds ==
  ASSUME TypeOK, Holding, NEW p \in Procs, \A q \in Procs : q = p, NEW o, NEW l \in InJob,
         pc[p] \in InJob, todo[p] # <<>>, Auditing(Job(p), o), Goto(p, l), UNCHANGED <<pause, todo, snap>>,
         o \in Settled => l \notin Undecided /\ ~PauseActive(Job(p)),
         l \in Passed => ~PauseActive(Job(p))
  PROVE  Holding'
  <1>1. pc'[p] = l /\ todo'[p] = todo[p] /\ Job(p)' = Job(p)
    BY DEF Goto, TypeOK, Job
  <1>2. Held(p) /\ PausesOpen /\ todo[p] \in Seq(Jobs) /\ Job(p) \in Jobs /\ Elems(Tail(todo[p])) \subseteq Jobs
        /\ (Distinct(todo[p]) => Job(p) \notin Elems(Tail(todo[p])))
    BY ElemsFacts DEF Holding, TypeOK, Job
  <1>3. audit'[Job(p)] = o /\ \A j \in Jobs : j # Job(p) => audit'[j] = audit[j]
    BY <1>2 DEF Auditing, TypeOK
  <1>4. Ahead(p) = Tail(todo[p]) /\ Ahead(p)' = Tail(todo[p])
    BY <1>1 DEF Ahead, InJob
  <1>5. \A j \in Elems(Tail(todo[p])) : audit'[j] = audit[j]
    BY <1>2, <1>3 DEF Held
  <1>6. l \notin {"sync", "sync_put"}
    BY DEF InJob
  <1>7. Held(p)'
    BY <1>1, <1>2, <1>3, <1>4, <1>5, <1>6 DEF Held, Unsettled, PauseActive
  <1>8. PausesOpen'
    BY <1>2, <1>3 DEF PausesOpen, PauseActive
  <1> QED
    BY <1>7, <1>8 DEF Holding

LEMMA GatingHolds ==
  ASSUME TypeOK, Holding, NEW p \in Procs, \A q \in Procs : q = p, Gating(p)
  PROVE  Holding'
  <1>0. Held(p) /\ PausesOpen /\ pc[p] \in InJob /\ todo[p] # <<>>
    BY DEF Holding, Gating, GateHolds, GateResumes, AuditResumed, GateOpen, TypeOK, InJob
  <1>1. CASE GateHolds(p)
    <2>1. Auditing(Job(p), "paused") /\ Goto(p, "result") /\ UNCHANGED <<pause, todo, snap>>
      BY <1>1 DEF GateHolds, Conclude
    <2> QED
      BY <1>0, <2>1, AuditHolds DEF InJob, Settled, Passed
  <1>2. CASE GateResumes(p)
    <2>1. pc[p] = "gate" /\ pc'[p] = "audit_resumed" /\ Job(p)' = Job(p) /\ UNCHANGED <<audit, todo, snap>>
      BY <1>2 DEF GateResumes, Goto, Job, TypeOK
    <2>2. Job(p) \in Jobs /\ PauseActive(Job(p))
      BY <1>0, <1>2, JobType DEF GateResumes, PauseEligible, TypeOK
    <2>3. pause'[Job(p)] = [pause[Job(p)] EXCEPT !.active = FALSE] /\ pause[Job(p)] \in Pauses
      BY <1>2, <2>2, PauseType DEF GateResumes, TypeOK
    <2>4. ~PauseActive(Job(p))'
      BY <2>1, <2>3 DEF PauseActive, Pauses
    <2>5. \A j \in Jobs : PauseActive(j)' => PauseActive(j)
      <3> SUFFICES ASSUME NEW j \in Jobs, PauseActive(j)' PROVE PauseActive(j)
        OBVIOUS
      <3>1. j # Job(p)
        BY <2>1, <2>4
      <3>2. pause'[j] = pause[j]
        BY <1>2, <2>2, <3>1 DEF GateResumes, TypeOK
      <3> QED
        BY <3>2 DEF PauseActive
    <2>6. PausesOpen'
      BY <1>0, <2>1, <2>5 DEF PausesOpen
    <2>7. Ahead(p) = Tail(todo[p]) /\ Ahead(p)' = Tail(todo[p])
      BY <2>1 DEF Ahead, InJob
    <2>8. Held(p)'
      BY <1>0, <2>1, <2>4, <2>7 DEF Held, Unsettled, Undecided
    <2> QED
      BY <2>6, <2>8 DEF Holding
  <1>3. CASE AuditResumed(p)
    <2>1. ~PauseActive(Job(p))
      BY <1>0, <1>3 DEF AuditResumed, Held, Passed
    <2> QED
      BY <1>0, <1>3, <2>1, AuditHolds DEF AuditResumed, InJob, Settled
  <1>4. CASE GateOpen(p)
    BY <1>0, <1>4, SameJobHolds DEF GateOpen, artifacts, InJob, Undecided
  <1> QED
    BY <1>1, <1>2, <1>3, <1>4 DEF Gating

LEMMA RoutingHolds ==
  ASSUME TypeOK, Holding, NEW p \in Procs, \A q \in Procs : q = p, Routing(p)
  PROVE  Holding'
  <1>0. Held(p) /\ PausesOpen /\ pc[p] \in InJob /\ todo[p] # <<>>
    BY DEF Holding, Routing, Run, ShortCircuit, Routed, Pause, AuditPaused, Retry, Escalate, TypeOK, InJob
  <1>1. CASE Run(p)
    BY <1>0, <1>1, SameJobHolds DEF Run, InJob, Undecided, Passed
  <1>2. CASE pc[p] = "route" /\ \E o : Conclude(p, o) /\ UNCHANGED <<pause, todo, snap>>
    <2>1. PICK o : Conclude(p, o) /\ UNCHANGED <<pause, todo, snap>>
      BY <1>2
    <2>2. ~PauseActive(Job(p))
      BY <1>0, <1>2 DEF Held, Passed
    <2>3. "result" \in InJob /\ "result" \notin Undecided
      BY DEF InJob, Undecided
    <2>4. Auditing(Job(p), o) /\ Goto(p, "result")
      BY <2>1 DEF Conclude
    <2> QED
      BY <1>0, <2>1, <2>2, <2>3, <2>4, AuditHolds
  <1>3. CASE Pause(p)
    <2>1. pc[p] = "route" /\ pc'[p] = "audit_paused" /\ Job(p)' = Job(p) /\ UNCHANGED <<audit, todo, snap>>
      BY <1>3 DEF Pause, Routed, Goto, Job, TypeOK
    <2>2. Job(p) \in Jobs /\ audit[Job(p)] \notin Settled
      BY <1>0, <2>1, JobType DEF Held, Undecided, TypeOK
    <2>3. \A j \in Jobs : j # Job(p) => pause'[j] = pause[j]
      BY <1>3, <2>2 DEF Pause, TypeOK
    <2>4. PausesOpen'
      BY <1>0, <2>1, <2>2, <2>3 DEF PausesOpen, PauseActive
    <2>5. Ahead(p) = Tail(todo[p]) /\ Ahead(p)' = Tail(todo[p])
      BY <2>1 DEF Ahead, InJob
    <2>6. Held(p)'
      BY <1>0, <2>1, <2>2, <2>5 DEF Held, Unsettled, Passed
    <2> QED
      BY <2>4, <2>6 DEF Holding
  <1>4. CASE AuditPaused(p)
    <2>1. Auditing(Job(p), "paused") /\ Goto(p, "result") /\ UNCHANGED <<pause, todo, snap>>
      BY <1>4 DEF AuditPaused, Conclude
    <2> QED
      BY <1>0, <2>1, AuditHolds DEF InJob, Settled, Passed
  <1>5. CASE Retry(p)
    <2>1. ~PauseActive(Job(p))
      BY <1>0, <1>5 DEF Retry, Routed, Held, Passed
    <2> QED
      BY <1>0, <1>5, <2>1, AuditHolds DEF Retry, InJob, Settled
  <1>6. ShortCircuit(p) \/ Escalate(p) => pc[p] = "route" /\ \E o : Conclude(p, o) /\ UNCHANGED <<pause, todo, snap>>
    BY DEF ShortCircuit, Escalate, Routed
  <1> QED
    BY <1>1, <1>2, <1>3, <1>4, <1>5, <1>6 DEF Routing

LEMMA ExecutingHolds ==
  ASSUME TypeOK, Holding, NEW p \in Procs, \A q \in Procs : q = p, Executing(p)
  PROVE  Holding'
  <1>0. Held(p) /\ pc[p] \in InJob /\ todo[p] # <<>>
    BY DEF Holding, Executing, Execute, Routed, WriteReceipt, AuditOut, TypeOK, InJob
  <1>1. CASE Execute(p)
    BY <1>0, <1>1, SameJobHolds DEF Execute, Routed, InJob, Undecided, Passed
  <1>2. CASE WriteReceipt(p)
    BY <1>0, <1>2, SameJobHolds DEF WriteReceipt, InJob, Undecided, Passed
  <1>3. CASE AuditOut(p)
    <2>1. Auditing(Job(p), out[p]) /\ Goto(p, "result") /\ UNCHANGED <<pause, todo, snap>> /\ ~PauseActive(Job(p))
      BY <1>0, <1>3 DEF AuditOut, Conclude, Held, Passed
    <2> QED
      BY <1>0, <2>1, AuditHolds DEF InJob, Undecided
  <1> QED
    BY <1>1, <1>2, <1>3 DEF Executing

LEMMA ClosingHolds ==
  ASSUME TypeOK, Holding, NEW p \in Procs, \A q \in Procs : q = p, Closing(p)
  PROVE  Holding'
  <1>0. pc[p] \in InJob /\ todo[p] # <<>>
    BY DEF Closing, ResultRead, ResultWrite, ReleaseRead, ReleaseWrite, ReleaseNothing, TypeOK, InJob
  <1>1. CASE ResultRead(p)
    BY <1>0, <1>1, SameJobHolds DEF ResultRead, artifacts, InJob, Undecided, Passed
  <1>2. CASE ResultWrite(p)
    BY <1>0, <1>2, SameJobHolds DEF ResultWrite, artifacts, InJob, Undecided, Passed
  <1>3. CASE ReleaseRead(p)
    BY <1>0, <1>3, SameJobHolds DEF ReleaseRead, artifacts, InJob, Undecided, Passed
  <1>4. CASE ReleaseWrite(p)
    BY <1>0, <1>4, NextJobHolds DEF ReleaseWrite
  <1>5. CASE ReleaseNothing(p)
    BY <1>0, <1>5, NextJobHolds DEF ReleaseNothing
  <1> QED
    BY <1>1, <1>2, <1>3, <1>4, <1>5 DEF Closing

LEMMA SurroundingsHold ==
  ASSUME TypeOK, Holding, NEW p \in Procs, \A q \in Procs : q = p
  PROVE  /\ Kill(p) \/ RunRaises(p) => Holding'
         /\ Tick => Holding'
         /\ \A j \in Jobs : ManualResume(j) => Holding'
         /\ UNCHANGED vars => Holding'
  <1>0. Held(p) /\ PausesOpen
    BY DEF Holding
  <1>1. ASSUME Kill(p) PROVE Holding'
    <2>1. pc'[p] = "off" /\ todo'[p] = <<>> /\ UNCHANGED artifacts
      BY <1>1 DEF Kill, Goto, Set, TypeOK
    <2>2. Held(p)'
      BY <2>1, EmptyFacts DEF Held, Ahead, InJob, Undecided, Passed
    <2> QED
      BY <2>1, <2>2, QuietHolds DEF artifacts
  <1>2. ASSUME RunRaises(p) PROVE Holding'
    <2>1. pc'[p] = "release" /\ todo'[p] = <<Job(p)>> /\ UNCHANGED artifacts
      BY <1>2 DEF RunRaises, Goto, Set, TypeOK
    <2>2. Held(p)'
      BY <2>1, SingleFacts DEF Held, Ahead, InJob, Undecided, Passed
    <2> QED
      BY <2>1, <2>2, QuietHolds DEF artifacts
  \* A pause may pass or be resumed; it never becomes active.
  <1>3. ASSUME \A j \in Jobs : PauseActive(j)' => PauseActive(j),
               UNCHANGED <<registry, audit, pc, todo, snap, regCopy>>
        PROVE  Holding'
    <2>1. PausesOpen'
      BY <1>0, <1>3 DEF PausesOpen
    <2>2. Ahead(p)' = Ahead(p) /\ Job(p)' = Job(p)
      BY <1>3 DEF Ahead, Job
    <2>3. pc[p] \in Passed => Job(p) \in Jobs
      BY JobType DEF Passed, TypeOK, InJob
    <2>4. Held(p)'
      BY <1>0, <1>3, <2>2, <2>3 DEF Held, Unsettled
    <2> QED
      BY <2>1, <2>4 DEF Holding
  <1>4. ASSUME Tick PROVE Holding'
    <2>1. \A j \in Jobs : PauseActive(j)' => PauseActive(j)
      BY <1>4 DEF Tick, Waiting, PauseActive
    <2> QED
      BY <1>3, <1>4, <2>1 DEF Tick
  <1>5. ASSUME NEW j \in Jobs, ManualResume(j) PROVE Holding'
    <2>1. \A i \in Jobs : PauseActive(i)' => PauseActive(i)
      BY <1>5 DEF ManualResume, PauseActive, TypeOK
    <2> QED
      BY <1>3, <1>5, <2>1 DEF ManualResume, locals
  <1>6. ASSUME UNCHANGED vars PROVE Holding'
    <2>1. \A j \in Jobs : PauseActive(j)' => PauseActive(j)
      BY <1>6 DEF vars, artifacts, PauseActive
    <2> QED
      BY <1>3, <1>6, <2>1 DEF vars, artifacts, locals
  <1> QED
    BY <1>1, <1>2, <1>4, <1>5, <1>6

LEMMA InitHolding == Init => Holding
  <1> SUFFICES ASSUME Init PROVE Holding
    OBVIOUS
  <1>1. \A j \in Jobs : ~PauseActive(j)
    BY DEF Init, PauseActive
  <1>2. ASSUME NEW p \in Procs PROVE Held(p)
    BY EmptyFacts DEF Init, Held, Ahead, InJob, Undecided, Passed
  <1> QED
    BY <1>1, <1>2 DEF Holding, PausesOpen

LEMMA NextHolding ==
  ASSUME OneScheduler, TypeOK, Holding, [Next]_vars
  PROVE  Holding'
  <1>1. ASSUME NEW p \in Procs PROVE \A q \in Procs : q = p
    BY DEF OneScheduler
  <1>2. ASSUME NEW p \in Procs, Work(p) \/ Kill(p) \/ RunRaises(p) PROVE Holding'
    BY <1>1, <1>2, SyncingHolds, ClaimingHolds, GatingHolds, RoutingHolds, ExecutingHolds,
       ClosingHolds, SurroundingsHold DEF Work
  <1>3. CASE Procs = {}
    <2>1. UNCHANGED <<audit, pc>> /\ \A j \in Jobs : PauseActive(j)' => PauseActive(j)
      BY <1>3 DEF Next, Tick, ManualResume, Waiting, PauseActive, TypeOK, vars, artifacts, locals
    <2> QED
      BY <1>3, <2>1 DEF Holding, PausesOpen
  <1>4. CASE Procs # {}
    <2>1. PICK p \in Procs : TRUE
      BY <1>4
    <2> QED
      BY <1>1, <1>2, <2>1, SurroundingsHold DEF Next
  <1> QED
    BY <1>3, <1>4

\* An audit by the scheduler settles an open job or leaves it open.
LEMMA AuditSteps ==
  ASSUME TypeOK, Holding, NEW p \in Procs, NEW o \in Outcomes, pc[p] \in Undecided,
         Auditing(Job(p), o), UNCHANGED effects, o = "executed" => effects[Job(p)] > 0
  PROVE  [Abstract!Next]_(Abstract!vars)
  <1>0. PICK i \in Jobs : i = Job(p)
    BY JobType DEF Undecided, TypeOK, InJob
  <1>1. audit[i] \notin Settled
    BY <1>0 DEF Holding, Held
  <1>2. audit'[i] = o /\ \A j \in Jobs : j # i => audit'[j] = audit[j]
    BY <1>0 DEF Auditing, TypeOK
  <1>3. CASE o \in Settled
    <2>1. \A j \in Jobs : j # i => Outcome(j)' = Outcome(j)
      BY <1>2 DEF Outcome
    <2>2. Outcome(i) = "open" /\ Outcome(i)' = o
      BY <1>1, <1>2, <1>3 DEF Outcome
    <2>3. Abstract!Settle(i, o)
      BY <1>0, <2>1, <2>2 DEF Abstract!Settle
    <2> QED
      BY <1>3, <2>3 DEF Abstract!Next, Settled
  <1>4. CASE o \notin Settled
    <2>1. \A j \in Jobs : Outcome(j)' = Outcome(j)
      BY <1>1, <1>2, <1>4 DEF Outcome
    <2> QED
      BY <2>1 DEF Abstract!vars
  <1> QED
    BY <1>3, <1>4

LEMMA SilentSteps ==
  ASSUME UNCHANGED <<audit, effects>>
  PROVE  UNCHANGED Abstract!vars
  BY DEF Abstract!vars, Outcome

LEMMA WorkSteps ==
  ASSUME TypeOK, Backed, Holding, NEW p \in Procs, Work(p)
  PROVE  [Abstract!Next]_(Abstract!vars)
  <1>1. CASE Syncing(p) \/ Claiming(p) \/ Closing(p)
    BY <1>1, SilentSteps
       DEF Syncing, Start, SyncRead, SyncWrite, Snapshot, Claiming, Skip, ClaimRead, ClaimWrite, Finish,
           Closing, ResultRead, ResultWrite, ReleaseRead, ReleaseWrite, ReleaseNothing, artifacts
  <1>2. CASE GateResumes(p) \/ GateOpen(p) \/ Run(p) \/ Pause(p) \/ WriteReceipt(p)
    BY <1>2, SilentSteps DEF GateResumes, GateOpen, Run, Pause, WriteReceipt, artifacts
  <1>3. CASE GateHolds(p) \/ AuditResumed(p) \/ AuditPaused(p) \/ Retry(p)
    BY <1>3, AuditSteps
       DEF GateHolds, AuditResumed, AuditPaused, Retry, Routed, Conclude, Undecided, Outcomes
  <1>4. CASE Escalate(p)
    BY <1>4, AuditSteps DEF Escalate, Routed, Conclude, RefusalOutcome, Undecided, Outcomes, Settled
  <1>5. CASE ShortCircuit(p)
    <2>1. Job(p) \in Jobs /\ receipt[Job(p)] \in {"executed", "refused"}
      BY <1>5, JobType DEF ShortCircuit, TypeOK, InJob
    <2>2. receipt[Job(p)] = "executed" => effects[Job(p)] > 0
      BY <2>1 DEF Backed, FilesBacked
    <2> QED
      BY <1>5, <2>1, <2>2, AuditSteps DEF ShortCircuit, Conclude, Undecided, Outcomes, Settled
  <1>6. CASE AuditOut(p)
    <2>1. out[p] \in Outcomes /\ (out[p] = "executed" => effects[Job(p)] > 0)
      BY <1>6 DEF AuditOut, TypeOK, Backed, OutcomesBacked
    <2> QED
      BY <1>6, <2>1, AuditSteps DEF AuditOut, Conclude, Undecided
  <1>7. CASE Execute(p)
    <2>1. Job(p) \in Jobs /\ audit[Job(p)] \notin Settled
      BY <1>7, JobType DEF Execute, Routed, Holding, Held, Undecided, TypeOK, InJob
    <2>2. Abstract!Act(Job(p))
      BY <1>7, <2>1 DEF Execute, Outcome, Abstract!Act
    <2> QED
      BY <2>1, <2>2 DEF Abstract!Next
  <1> QED
    BY <1>1, <1>2, <1>3, <1>4, <1>5, <1>6, <1>7 DEF Work, Gating, Routing, Executing

\* The cycles of one scheduler, killed and started again as often as may be,
\* implement the outcome of a job: it is settled once, as executed only after
\* the executor was called, and the executor is never called for it again.
THEOREM JobsAreImplemented ==
  ASSUME OneScheduler
  PROVE  Spec => JobsImplemented
  <1>1. Init => Abstract!Init
    BY DEF Init, Abstract!Init, Outcome, Outcomes
  <1>2. ASSUME TypeOK, Backed, Holding, [Next]_vars PROVE [Abstract!Next]_(Abstract!vars)
    <2>1. ASSUME NEW p \in Procs, Kill(p) \/ RunRaises(p) PROVE UNCHANGED Abstract!vars
      BY <2>1, SilentSteps DEF Kill, RunRaises, artifacts
    <2>2. CASE Tick
      BY <2>2, SilentSteps DEF Tick
    <2>3. ASSUME NEW j \in Jobs, ManualResume(j) PROVE UNCHANGED Abstract!vars
      BY <2>3, SilentSteps DEF ManualResume
    <2>4. CASE UNCHANGED vars
      BY <2>4, SilentSteps DEF vars, artifacts
    <2> QED
      BY <1>2, <2>1, <2>2, <2>3, <2>4, WorkSteps DEF Next
  <1>3. TypeOK /\ Holding /\ [Next]_vars => Holding'
    BY NextHolding
  <1> QED
    BY <1>1, <1>2, <1>3, TypeCorrect, InitBacked, NextBacked, InitHolding, PTL
       DEF Spec, JobsImplemented, Abstract!Spec

(***************************************************************************)
(* A repeated call of the executor is paid for by a kill: the kill takes   *)
(* the outcome of an earlier call before it is audited, and the job counts *)
(* as lost until it is called again or settled.                            *)
(***************************************************************************)
Repeats == {c \in Jobs \X (2..MaxEffects) : effects[c[1]] >= c[2]}

\* The processes between the call and the audit of its outcome.
Late == {q \in Procs : pc[q] \in {"receipt", "audit_out"}}

Lost == {j \in Jobs : effects[j] > 0 /\ audit[j] \notin Settled /\ \A q \in Late : Job(q) # j}

Counted ==
  /\ \A q \in Late : out[q] \in Settled
  /\ IsFiniteSet(Repeats) /\ IsFiniteSet(Lost)
  /\ Cardinality(Repeats) + Cardinality(Lost) <= faults

\* A step that calls no executor and loses no call.
LEMMA NothingCounted ==
  ASSUME TypeOK, TypeOK', Counted, UNCHANGED effects, Lost' \subseteq Lost, faults' >= faults,
         \A q \in Late' : out'[q] \in Settled
  PROVE  Counted'
  <1>1. Repeats' = Repeats
    BY DEF Repeats
  <1>2. IsFiniteSet(Lost') /\ Cardinality(Lost') <= Cardinality(Lost)
    BY FS_Subset DEF Counted
  <1>3. /\ Cardinality(Repeats) \in Nat /\ Cardinality(Lost) \in Nat /\ Cardinality(Lost') \in Nat
        /\ faults \in Nat /\ faults' \in Nat
    BY <1>2, FS_CardinalityType DEF Counted, TypeOK
  <1> QED
    BY <1>1, <1>2, <1>3 DEF Counted

\* A step after which no process is late that was not, and no audit is new.
LEMMA QuietCounted ==
  ASSUME TypeOK, TypeOK', Counted, UNCHANGED <<audit, effects, faults>>,
         \A q \in Procs : q \in Late' <=> q \in Late,
         \A q \in Late : out'[q] = out[q] /\ todo'[q] = todo[q]
  PROVE  Counted'
  <1>1. \A q \in Late : Job(q)' = Job(q)
    BY DEF Job
  <1>2. Lost' = Lost
    BY <1>1 DEF Lost, Late
  <1>3. \A q \in Late' : out'[q] \in Settled
    BY DEF Counted, Late
  <1>4. faults' >= faults
    BY DEF TypeOK
  <1> QED
    BY <1>2, <1>3, <1>4, NothingCounted

\* An audit of the job in hand, which is not settled yet.
LEMMA AuditCounted ==
  ASSUME TypeOK, TypeOK', Counted, NEW p \in Procs, NEW o, NEW l \in PCs \ {"receipt", "audit_out"},
         todo[p] # <<>>, Auditing(Job(p), o), Goto(p, l), UNCHANGED <<effects, todo, faults>>,
         \A q \in Procs \ {p} : out'[q] = out[q],
         audit[Job(p)] \notin Settled,
         p \in Late => o \in Settled
  PROVE  Counted'
  <1>1. Job(p) \in Jobs /\ audit'[Job(p)] = o /\ \A j \in Jobs : j # Job(p) => audit'[j] = audit[j]
    BY JobType DEF TypeOK, Auditing
  <1>2. pc'[p] = l /\ \A q \in Procs \ {p} : pc'[q] = pc[q]
    BY DEF Goto, TypeOK
  <1>3. \A q \in Procs : Job(q)' = Job(q)
    BY DEF Job
  <1>4. Late' = Late \ {p}
    BY <1>2 DEF Late
  <1>5. Lost' \subseteq Lost
    <2> SUFFICES ASSUME NEW j \in Lost' PROVE j \in Lost
      OBVIOUS
    <2>1. j \in Jobs /\ effects[j] > 0 /\ audit'[j] \notin Settled /\ \A q \in Late' : Job(q)' # j
      BY DEF Lost
    <2>2. \A q \in Late : q # p => Job(q) # j
      BY <1>3, <1>4, <2>1 DEF Late
    <2>3. CASE j = Job(p)
      <3>1. p \notin Late
        BY <1>1, <2>1, <2>3
      <3> QED
        BY <2>1, <2>2, <2>3, <3>1 DEF Lost
    <2>4. CASE j # Job(p)
      BY <1>1, <2>1, <2>2, <2>4 DEF Lost
    <2> QED
      BY <2>3, <2>4
  <1>6. \A q \in Late' : out'[q] \in Settled
    BY <1>4 DEF Counted, Late
  <1>7. faults' >= faults
    BY DEF TypeOK
  <1> QED
    BY <1>5, <1>6, <1>7, NothingCounted

\* The call itself: the job is no longer lost, or it was never called.
LEMMA ExecuteCounted ==
  ASSUME TypeOK, TypeOK', Counted, Holding, NEW p \in Procs, \A q \in Procs : q = p, Execute(p)
  PROVE  Counted'
  <1>1. PICK j \in Jobs : j = Job(p)
    BY JobType DEF Execute, Routed, TypeOK, InJob
  <1>2. pc[p] = "route" /\ pc'[p] = "receipt" /\ Late = {} /\ Late' = {p} /\ Job(p)' = j
    BY <1>1 DEF Execute, Routed, Goto, TypeOK, Late, Job
  <1>3. out'[p] \in Settled
    BY DEF Execute, Set, TypeOK, Settled
  <1>4. audit[j] \notin Settled
    BY <1>1, <1>2 DEF Holding, Held, Undecided
  <1>5. PICK n \in Nat : n = effects[j]
    BY DEF TypeOK
  <1>6. /\ n < MaxEffects /\ effects'[j] = n + 1 /\ \A i \in Jobs : i # j => effects'[i] = effects[i]
        /\ UNCHANGED <<audit, faults>>
    BY <1>1, <1>5 DEF Execute, TypeOK
  <1>7. Lost' = Lost \ {j}
    BY <1>2, <1>6 DEF Lost
  <1>8. n > 0 => j \in Lost
    BY <1>2, <1>4, <1>5 DEF Lost
  <1>9. Repeats' = IF n = 0 THEN Repeats ELSE Repeats \cup {<<j, n + 1>>}
    <2> USE DEF Repeats
    <2>1. ASSUME NEW i \in Jobs, NEW m \in 2..MaxEffects
          PROVE  effects'[i] >= m <=> effects[i] >= m \/ (n # 0 /\ i = j /\ m = n + 1)
      <3>1. CASE i # j
        BY <1>6, <3>1
      <3>2. CASE i = j
        <4>1. m \in Nat /\ m >= 2
          OBVIOUS
        <4> QED
          BY <1>5, <1>6, <3>2, <4>1
      <3> QED
        BY <3>1, <3>2
    <2>2. n # 0 => n + 1 \in 2..MaxEffects
      BY <1>6
    <2>3. CASE n = 0
      BY <2>1, <2>3
    <2>4. CASE n # 0
      <3>1. ASSUME NEW c \in Repeats' PROVE c \in Repeats \cup {<<j, n + 1>>}
        <4>1. PICK i \in Jobs, m \in 2..MaxEffects : c = <<i, m>> /\ effects'[i] >= m
          OBVIOUS
        <4> QED
          BY <2>1, <4>1
      <3>2. ASSUME NEW c \in Repeats \cup {<<j, n + 1>>} PROVE c \in Repeats'
        <4>1. PICK i \in Jobs, m \in 2..MaxEffects : c = <<i, m>> /\ (effects[i] >= m \/ c = <<j, n + 1>>)
          BY <2>2, <2>4
        <4>2. effects'[i] >= m
          BY <2>1, <2>4, <4>1
        <4> QED
          BY <4>1, <4>2
      <3> QED
        BY <2>4, <3>1, <3>2
    <2> QED
      BY <2>3, <2>4
  <1>10. \A q \in Late' : out'[q] \in Settled
    BY <1>2, <1>3
  <1>11. IsFiniteSet(Lost') /\ Cardinality(Lost') = IF j \in Lost THEN Cardinality(Lost) - 1 ELSE Cardinality(Lost)
    BY <1>7, FS_RemoveElement DEF Counted
  <1>12. IsFiniteSet(Repeats') /\ Cardinality(Repeats') <= IF n = 0 THEN Cardinality(Repeats) ELSE Cardinality(Repeats) + 1
    <2>1. IsFiniteSet(Repeats) /\ Cardinality(Repeats) \in Nat
      BY FS_CardinalityType DEF Counted
    <2>2. /\ IsFiniteSet(Repeats \cup {<<j, n + 1>>})
          /\ Cardinality(Repeats \cup {<<j, n + 1>>}) \in {Cardinality(Repeats), Cardinality(Repeats) + 1}
      BY <2>1, FS_AddElement
    <2> QED
      BY <1>9, <2>1, <2>2
  <1>13. Cardinality(Repeats) \in Nat /\ Cardinality(Lost) \in Nat /\ Cardinality(Repeats') \in Nat /\ faults \in Nat
    BY <1>12, FS_CardinalityType DEF Counted, TypeOK
  <1> QED
    BY <1>6, <1>8, <1>10, <1>11, <1>12, <1>13 DEF Counted

\* A kill loses at most the call whose outcome the process had in hand.
LEMMA KillCounted ==
  ASSUME TypeOK, TypeOK', Counted, NEW p \in Procs, Kill(p)
  PROVE  Counted'
  <1>1. UNCHANGED <<audit, effects>> /\ faults' = faults + 1 /\ faults \in Nat
    BY DEF Kill, artifacts, TypeOK
  <1>2. Late' = Late \ {p} /\ \A q \in Procs \ {p} : out'[q] = out[q] /\ todo'[q] = todo[q]
    BY DEF Kill, Goto, Set, TypeOK, Late
  <1>3. \A q \in Late' : Job(q)' = Job(q) /\ out'[q] \in Settled
    BY <1>2 DEF Job, Counted, Late
  <1>4. Lost' \subseteq Lost \cup {Job(p)}
    BY <1>1, <1>2, <1>3 DEF Lost
  <1>5. /\ IsFiniteSet(Lost \cup {Job(p)})
        /\ Cardinality(Lost \cup {Job(p)}) = IF Job(p) \in Lost THEN Cardinality(Lost) ELSE Cardinality(Lost) + 1
    BY FS_AddElement DEF Counted
  <1>6. IsFiniteSet(Lost') /\ Cardinality(Lost') <= Cardinality(Lost \cup {Job(p)})
    BY <1>4, <1>5, FS_Subset
  <1>7. Repeats' = Repeats
    BY <1>1 DEF Repeats
  <1>8. Cardinality(Repeats) \in Nat /\ Cardinality(Lost) \in Nat /\ Cardinality(Lost') \in Nat
    BY <1>6, FS_CardinalityType DEF Counted
  <1> QED
    BY <1>1, <1>3, <1>5, <1>6, <1>7, <1>8 DEF Counted

LEMMA WorkCounted ==
  ASSUME TypeOK, TypeOK', Counted, Holding, NEW p \in Procs, \A q \in Procs : q = p, Work(p)
  PROVE  Counted'
  <1>1. CASE Syncing(p) \/ Claiming(p) \/ Closing(p)
    <2>1. /\ UNCHANGED <<audit, effects, faults>>
          /\ pc[p] \notin {"receipt", "audit_out"} /\ pc'[p] \notin {"receipt", "audit_out"}
      BY <1>1
       DEF Syncing, Start, SyncRead, SyncWrite, Snapshot, Claiming, Skip, ClaimRead, ClaimWrite, Finish, NextJob,
           Closing, ResultRead, ResultWrite, ReleaseRead, ReleaseWrite, ReleaseNothing, artifacts, Goto, TypeOK
    <2> QED
      BY <2>1, QuietCounted DEF Late
  <1>2. CASE GateResumes(p) \/ GateOpen(p) \/ Run(p) \/ Pause(p)
    <2>1. /\ UNCHANGED <<audit, effects, faults>>
          /\ pc[p] \notin {"receipt", "audit_out"} /\ pc'[p] \notin {"receipt", "audit_out"}
      BY <1>2 DEF GateResumes, GateOpen, Run, Pause, Routed, artifacts, Goto, TypeOK
    <2> QED
      BY <2>1, QuietCounted DEF Late
  <1>3. CASE WriteReceipt(p)
    BY <1>3, QuietCounted DEF WriteReceipt, Goto, TypeOK, Late
  <1>4. CASE GateHolds(p) \/ AuditResumed(p) \/ AuditPaused(p) \/ Retry(p) \/ Escalate(p) \/ ShortCircuit(p) \/ AuditOut(p)
    <2>1. /\ pc[p] \in Undecided /\ todo[p] # <<>> /\ UNCHANGED <<effects, todo, faults>>
          /\ \E o, l : /\ Auditing(Job(p), o) /\ Goto(p, l) /\ l \in {"run", "result"}
                       /\ p \in Late => o = out[p]
      BY <1>4 DEF GateHolds, AuditResumed, AuditPaused, Retry, Escalate, ShortCircuit, AuditOut, Conclude, Routed,
                  Undecided, TypeOK, InJob, Late
    <2>2. PICK o, l : /\ Auditing(Job(p), o) /\ Goto(p, l) /\ l \in {"run", "result"}
                      /\ p \in Late => o = out[p]
      BY <2>1
    <2>3. l \in PCs \ {"receipt", "audit_out"}
      BY <2>2 DEF PCs
    <2>4. audit[Job(p)] \notin Settled /\ (p \in Late => o \in Settled)
      BY <2>1, <2>2 DEF Holding, Held, Counted
    <2> QED
      BY <2>1, <2>2, <2>3, <2>4, AuditCounted
  <1>5. CASE Execute(p)
    BY <1>5, ExecuteCounted
  <1> QED
    BY <1>1, <1>2, <1>3, <1>4, <1>5 DEF Work, Gating, Routing, Executing

LEMMA InitCounted == Init => Counted
  <1> SUFFICES ASSUME Init PROVE Counted
    OBVIOUS
  <1>1. Late = {} /\ Lost = {} /\ Repeats = {} /\ faults = 0
    BY DEF Init, Late, Lost, Repeats
  <1>2. IsFiniteSet({}) /\ Cardinality({}) = 0
    BY FS_EmptySet
  <1> QED
    BY <1>1, <1>2 DEF Counted

LEMMA NextCounted ==
  ASSUME OneScheduler, TypeOK, TypeOK', Holding, Counted, [Next]_vars
  PROVE  Counted'
  <1>1. ASSUME NEW p \in Procs PROVE \A q \in Procs : q = p
    BY DEF OneScheduler
  <1>2. ASSUME NEW p \in Procs, Work(p) PROVE Counted'
    BY <1>1, <1>2, WorkCounted
  <1>3. ASSUME NEW p \in Procs, RunRaises(p) PROVE Counted'
    <2>1. /\ UNCHANGED <<audit, effects, out>> /\ faults' = faults + 1 /\ faults \in Nat
          /\ pc[p] = "run" /\ pc'[p] = "release" /\ \A q \in Procs \ {p} : pc'[q] = pc[q] /\ todo'[q] = todo[q]
      BY <1>3 DEF RunRaises, artifacts, Goto, Set, TypeOK
    <2>2. Late' = Late /\ p \notin Late /\ \A q \in Late : Job(q)' = Job(q)
      BY <2>1 DEF Late, Job
    <2>3. Lost' \subseteq Lost
      BY <2>1, <2>2 DEF Lost
    <2> QED
      BY <2>1, <2>2, <2>3, NothingCounted DEF Counted
  <1>4. CASE Tick \/ (\E j \in Jobs : ManualResume(j)) \/ UNCHANGED vars
    BY <1>4, QuietCounted DEF Tick, ManualResume, vars, artifacts, locals, Late
  <1> QED
    BY <1>2, <1>3, <1>4, KillCounted DEF Next

\* One scheduler calls the executor for a job again only after a kill took the
\* audit of an earlier call: over all jobs, there are no more repeated calls
\* than kills, however many jobs there are and however often it is restarted.
THEOREM RepeatsAreKills ==
  ASSUME OneScheduler
  PROVE  Spec => []RepeatsNeedKills
  <1>1. TypeOK /\ Counted => RepeatsNeedKills
    <2> SUFFICES ASSUME TypeOK, Counted PROVE Cardinality(Repeats) <= faults
      BY DEF RepeatsNeedKills, Repeats
    <2>1. Cardinality(Repeats) \in Nat /\ Cardinality(Lost) \in Nat /\ faults \in Nat
      BY FS_CardinalityType DEF Counted, TypeOK
    <2> QED
      BY <2>1 DEF Counted
  <1>2. TypeOK /\ Holding /\ [Next]_vars => Holding'
    BY NextHolding
  <1>3. TypeOK /\ TypeOK' /\ Holding /\ Counted /\ [Next]_vars => Counted'
    BY NextCounted
  <1> QED
    BY <1>1, <1>2, <1>3, TypeCorrect, InitHolding, InitCounted, PTL DEF Spec

(***************************************************************************)
(* The snapshot is current: what a file says of a job stays what the       *)
(* artifacts say, until the job is taken in hand.                          *)
(***************************************************************************)
\* The file says of j what its artifacts do, unless its pause has passed since.
Current(file, j) == file[j] = Derived(j) \/ (file[j] = "paused" /\ PauseEligible(j))

Fresh(p) ==
  /\ pc[p] = "sync" => \A j \in Elems(JobOrder) \ Elems(todo[p]) : Current(registry, j)
  /\ pc[p] = "sync_put" => \A j \in Elems(JobOrder) \ Elems(Tail(todo[p])) : Current(regCopy[p], j)
  /\ pc[p] \in {"sync_put", "result_put"} => \A j \in Jobs : j # Job(p) => regCopy[p][j] = registry[j]
  /\ \A j \in Elems(Ahead(p)) : Current(snap[p], j)

\* Time passes and operators resume; the other artifacts of j stay.
LEMMA CurrentKept ==
  ASSUME TypeOK, NEW j \in Jobs, NEW file, Current(file, j),
         audit'[j] = audit[j], manifest'[j] = manifest[j],
         registry'[j] = registry[j] \/ registry'[j] = file[j],
         PauseActive(j)' <=> PauseActive(j), PauseEligible(j) => PauseEligible(j)'
  PROVE  Current(file, j)'
  <1>1. PauseEligible(j) => PauseActive(j)
    BY DEF PauseEligible
  <1>2. CASE PauseActive(j)
    <2>1. Derived(j) = (IF PauseEligible(j) THEN "runnable" ELSE "paused")
      BY <1>2 DEF Derived
    <2>2. PauseActive(j)'
      BY <1>2
    <2>3. Derived(j)' = (IF PauseEligible(j)' THEN "runnable" ELSE "paused")
      BY <2>2 DEF Derived
    <2> QED
      BY <2>1, <2>3 DEF Current
  <1>3. CASE ~PauseActive(j)
    <2>1. file[j] = Derived(j)
      BY <1>1, <1>3 DEF Current
    <2>2. Derived(j)' = Derived(j)
      BY <1>3, <2>1 DEF Derived, Terminal
    <2> QED
      BY <2>1, <2>2 DEF Current
  <1> QED
    BY <1>2, <1>3

\* What is said of jobs that a step leaves alone.
LEMMA SameCurrent ==
  ASSUME TypeOK, NEW j \in Jobs, NEW file, Current(file, j),
         pause'[j] = pause[j], audit'[j] = audit[j], manifest'[j] = manifest[j],
         registry'[j] = registry[j] \/ registry'[j] = file[j]
  PROVE  Current(file, j)'
  BY CurrentKept DEF PauseActive, PauseEligible

LEMMA SyncingFresh ==
  ASSUME TypeOK, TypeOK', Holding, NEW p \in Procs, Fresh(p), Syncing(p)
  PROVE  Fresh(p)'
  <1>0. UNCHANGED artifacts /\ Held(p)
    BY DEF Syncing, Start, SyncRead, SyncWrite, Snapshot, Holding
  <1>1. \A j \in Jobs : pause'[j] = pause[j] /\ audit'[j] = audit[j] /\ manifest'[j] = manifest[j]
    BY <1>0 DEF artifacts
  <1>2. pc'[p] \notin InJob \cup {"cycle"} => Elems(Ahead(p)') = {}
    BY EmptyFacts DEF Ahead
  <1>3. CASE Start(p)
    <2>1. pc'[p] = "sync" /\ todo'[p] = JobOrder
      BY <1>3 DEF Start, Goto, Set, TypeOK
    <2> QED
      BY <1>2, <2>1 DEF Fresh, InJob
  <1>4. CASE SyncRead(p)
    <2>1. Job(p) \in Jobs /\ Elems(todo[p]) = {Job(p)} \cup Elems(Tail(todo[p]))
      BY <1>4, ElemsFacts DEF SyncRead, TypeOK, Job
    <2>2. /\ pc[p] = "sync" /\ pc'[p] = "sync_put" /\ todo'[p] = todo[p] /\ registry' = registry /\ Job(p)' = Job(p)
          /\ regCopy'[p] = Synced(Job(p))
      BY <1>4 DEF SyncRead, Goto, Set, TypeOK, Job
    <2>3. PICK file : file = Synced(Job(p))
      OBVIOUS
    <2>4. file[Job(p)] = Derived(Job(p)) /\ \A j \in Jobs : j # Job(p) => file[j] = registry[j]
      BY <2>1, <2>3 DEF Synced, TypeOK, Registry
    <2>5. \A j \in Elems(JobOrder) \ Elems(Tail(todo[p])) : j \in Jobs /\ Current(file, j)
      BY <2>1, <2>2, <2>4, OrderFacts DEF Fresh, Current
    <2>6. \A j \in Elems(JobOrder) \ Elems(Tail(todo[p])) : Current(file, j)'
      BY <1>1, <2>2, <2>5, SameCurrent
    <2> QED
      BY <1>2, <2>2, <2>3, <2>4, <2>6 DEF Fresh, InJob
  <1>5. CASE SyncWrite(p)
    <2>1. /\ pc[p] = "sync_put" /\ pc'[p] = "sync" /\ todo'[p] = Tail(todo[p]) /\ registry' = regCopy[p]
      BY <1>5 DEF SyncWrite, Goto, Set, TypeOK
    <2>2. PICK file : file = regCopy[p]
      OBVIOUS
    <2>3. \A j \in Elems(JobOrder) \ Elems(Tail(todo[p])) : j \in Jobs /\ Current(file, j)
      BY <2>1, <2>2, OrderFacts DEF Fresh
    <2>4. \A j \in Elems(JobOrder) \ Elems(Tail(todo[p])) : Current(file, j)'
      BY <1>1, <2>1, <2>2, <2>3, SameCurrent
    <2> QED
      BY <1>2, <2>1, <2>2, <2>4 DEF Fresh, InJob
  <1>6. CASE Snapshot(p)
    <2>1. pc[p] = "sync" /\ pc'[p] = "cycle" /\ todo[p] = <<>> /\ todo'[p] = JobOrder /\ snap'[p] = registry /\ registry' = registry
      BY <1>6 DEF Snapshot, Goto, Set, TypeOK
    <2>2. PICK file : file = registry
      OBVIOUS
    <2>3. \A j \in Elems(JobOrder) : j \in Jobs /\ Current(file, j)
      BY <2>1, <2>2, OrderFacts, EmptyFacts DEF Fresh
    <2>4. \A j \in Elems(JobOrder) : Current(file, j)'
      BY <1>1, <2>1, <2>2, <2>3, SameCurrent
    <2>5. Ahead(p)' = JobOrder
      BY <2>1 DEF Ahead
    <2> QED
      BY <2>1, <2>2, <2>4, <2>5 DEF Fresh, InJob
  <1> QED
    BY <1>3, <1>4, <1>5, <1>6 DEF Syncing

\* A step in the cycle changes nothing but the job in hand.
LEMMA JobFresh ==
  ASSUME TypeOK, TypeOK', Holding, NEW p \in Procs, Fresh(p), NEW l \in InJob \cup {"cycle"}, pc'[p] = l,
         pc[p] \in InJob \cup {"cycle"}, todo[p] # <<>>, snap'[p] = snap[p],
         todo'[p] = IF l = "cycle" THEN Tail(todo[p]) ELSE todo[p],
         \A j \in Jobs : j # Job(p) => /\ pause'[j] = pause[j] /\ audit'[j] = audit[j]
                                       /\ manifest'[j] = manifest[j] /\ registry'[j] = registry[j],
         l = "result_put" => \A j \in Jobs : j # Job(p) => regCopy'[p][j] = registry'[j]
  PROVE  Fresh(p)'
  <1>1. Held(p) /\ todo[p] \in Seq(Jobs)
    BY DEF Holding, TypeOK
  <1>2. /\ Elems(Tail(todo[p])) \subseteq Elems(Ahead(p)) /\ Elems(Tail(todo[p])) \subseteq Jobs
        /\ Job(p) \notin Elems(Tail(todo[p]))
    BY <1>1, ElemsFacts DEF Ahead, Job, Held
  <1>3. Ahead(p)' = Tail(todo[p])
    BY DEF Ahead, InJob
  <1>4. PICK file : file = snap[p]
    OBVIOUS
  <1>5. \A j \in Elems(Tail(todo[p])) : Current(file, j)'
    BY <1>2, <1>4, SameCurrent DEF Fresh
  <1>6. l # "cycle" => Job(p)' = Job(p)
    BY DEF Job
  <1>7. l \notin {"sync", "sync_put"}
    BY DEF InJob
  <1> QED
    BY <1>3, <1>4, <1>5, <1>6, <1>7 DEF Fresh

LEMMA WorkFresh ==
  ASSUME TypeOK, TypeOK', Holding, NEW p \in Procs, Fresh(p), Work(p)
  PROVE  Fresh(p)'
  <1>1. CASE Syncing(p)
    BY <1>1, SyncingFresh
  <1>2. CASE Finish(p)
    <2>1. pc'[p] = "off"
      BY <1>2 DEF Finish, Goto, TypeOK
    <2> QED
      BY <2>1, EmptyFacts DEF Fresh, Ahead, InJob
  <1>3. CASE Skip(p) \/ ReleaseWrite(p) \/ ReleaseNothing(p)
    <2>1. /\ pc[p] \in {"cycle", "release", "release_put"} /\ todo[p] # <<>> /\ pc'[p] = "cycle"
          /\ todo'[p] = Tail(todo[p]) /\ UNCHANGED <<registry, artifacts, snap>>
      BY <1>3 DEF Skip, ReleaseWrite, ReleaseNothing, NextJob, Goto, Set, TypeOK, InJob
    <2> QED
      BY <2>1, JobFresh DEF InJob, artifacts
  <1>4. CASE ClaimRead(p) \/ ClaimWrite(p) \/ ReleaseRead(p) \/ ResultRead(p) \/ GateOpen(p) \/ WriteReceipt(p) \/ Execute(p)
    <2>1. /\ pc[p] \in InJob \cup {"cycle"} /\ todo[p] # <<>> /\ pc'[p] \in InJob
          /\ UNCHANGED <<registry, pause, audit, manifest, snap, todo>>
          /\ pc'[p] = "result_put" => ResultRead(p)
      BY <1>4 DEF ClaimRead, ClaimWrite, ReleaseRead, ResultRead, GateOpen, WriteReceipt, Execute, Routed,
                  Goto, Set, TypeOK, InJob, artifacts
    <2>2. ResultRead(p) => \A j \in Jobs : j # Job(p) => regCopy'[p][j] = registry[j]
      BY DEF ResultRead, Set, TypeOK, Registry
    <2>3. pc'[p] # "cycle"
      BY <2>1 DEF InJob
    <2> QED
      BY <2>1, <2>2, <2>3, JobFresh
  <1>5. CASE ResultWrite(p)
    <2>1. /\ pc[p] = "result_put" /\ todo[p] # <<>> /\ pc'[p] = "release" /\ registry' = regCopy[p]
          /\ UNCHANGED <<artifacts, snap, todo>>
      BY <1>5 DEF ResultWrite, Goto, Set, TypeOK, InJob
    <2>2. \A j \in Jobs : j # Job(p) => registry'[j] = registry[j]
      BY <2>1 DEF Fresh
    <2> QED
      BY <2>1, <2>2, JobFresh DEF InJob, artifacts
  <1>6. CASE \/ GateHolds(p) \/ AuditResumed(p) \/ AuditPaused(p) \/ Retry(p) \/ Escalate(p) \/ ShortCircuit(p)
             \/ AuditOut(p) \/ GateResumes(p) \/ Pause(p) \/ Run(p)
    <2>0. UNCHANGED <<registry, snap, todo>> /\ pc[p] \in InJob
      BY <1>6 DEF GateHolds, AuditResumed, AuditPaused, Retry, Escalate, ShortCircuit, AuditOut, GateResumes,
                  Pause, Run, Routed, InJob
    <2>1. todo[p] # <<>> /\ pc'[p] \in InJob \ {"result_put"}
      <3>1. todo[p] # <<>>
        BY <2>0 DEF TypeOK
      <3>2. pc'[p] \in {"result", "run", "audit_resumed", "audit_paused", "route"}
        <4>1. CASE GateHolds(p) \/ AuditResumed(p) \/ AuditPaused(p) \/ GateResumes(p)
          BY <4>1 DEF GateHolds, AuditResumed, AuditPaused, GateResumes, Conclude, Goto, TypeOK
        <4>2. CASE Retry(p) \/ Escalate(p) \/ ShortCircuit(p) \/ AuditOut(p) \/ Pause(p) \/ Run(p)
          BY <4>2 DEF Retry, Escalate, ShortCircuit, AuditOut, Pause, Run, Conclude, Goto, TypeOK
        <4> QED
          BY <1>6, <4>1, <4>2
      <3> QED
        BY <3>1, <3>2 DEF InJob
    <2>2. \A j \in Jobs : j # Job(p) => pause'[j] = pause[j] /\ audit'[j] = audit[j] /\ manifest'[j] = manifest[j]
      <3>1. CASE GateHolds(p) \/ AuditResumed(p) \/ AuditPaused(p) \/ Retry(p) \/ Escalate(p) \/ ShortCircuit(p) \/ AuditOut(p)
        <4>1. PICK o : audit' = [audit EXCEPT ![Job(p)] = o]
          BY <3>1 DEF GateHolds, AuditResumed, AuditPaused, Retry, Escalate, ShortCircuit, AuditOut, Conclude, Auditing
        <4>2. UNCHANGED <<pause, manifest>>
          BY <3>1 DEF GateHolds, AuditResumed, AuditPaused, Retry, Escalate, ShortCircuit, AuditOut
        <4> QED
          BY <4>1, <4>2 DEF TypeOK
      <3>2. CASE GateResumes(p)
        BY <3>2 DEF GateResumes, TypeOK
      <3>3. CASE Pause(p)
        BY <3>3 DEF Pause, TypeOK
      <3>4. CASE Run(p)
        BY <3>4 DEF Run, TypeOK
      <3> QED
        BY <1>6, <3>1, <3>2, <3>3, <3>4
    <2>3. pc'[p] # "cycle"
      BY <2>1 DEF InJob
    <2> QED
      BY <2>0, <2>1, <2>2, <2>3, JobFresh
  <1> QED
    BY <1>1, <1>2, <1>3, <1>4, <1>5, <1>6 DEF Work, Claiming, Gating, Routing, Executing, Closing

\* A tick or an operator lets pauses pass, and keeps them active.
LEMMA PassingPauses ==
  ASSUME TypeOK, Tick \/ (\E i \in Jobs : ManualResume(i)) \/ UNCHANGED vars, NEW j \in Jobs
  PROVE  (PauseActive(j)' <=> PauseActive(j)) /\ (PauseEligible(j) => PauseEligible(j)')
  <1>1. CASE Tick
    <2>1. CASE Waiting(j)
      <3>1. pause[j] \in Pauses /\ pause[j].left > 0 /\ PauseActive(j)
        BY <2>1, PauseType DEF Waiting
      <3>2. PICK q : q = pause[j]
        OBVIOUS
      <3>3. pause'[j] = [q EXCEPT !.left = @ - 1] /\ q \in Pauses
        BY <1>1, <2>1, <3>1, <3>2 DEF Tick
      <3>4. pause'[j].active = q.active /\ pause'[j].manual = q.manual /\ q.left # 0 /\ pause'[j] # Null
        <4>1. pause'[j].active = q.active /\ pause'[j].manual = q.manual
          BY <3>3 DEF Pauses
        <4>2. q.left # 0
          BY <2>1, <3>2 DEF Waiting
        <4>3. PauseActive(j)
          BY <3>1
        <4>4. pause'[j].left \in 0..PauseTime
          <5>1. q.left \in 0..PauseTime /\ q.left > 0
            BY <2>1, <3>2, <3>3 DEF Waiting, Pauses
          <5> QED
            BY <3>3, <5>1 DEF Pauses
        <4>5. pause'[j] # Null
          <5>1. pause'[j] \in Pauses
            BY <3>3, <4>4 DEF Pauses
          <5> QED
            BY <5>1, NullAssumption
        <4> QED
          BY <4>1, <4>2, <4>5
      <3> QED
        BY <3>1, <3>2, <3>4 DEF PauseActive, PauseEligible
    <2>2. CASE ~Waiting(j)
      <3>1. pause'[j] = pause[j]
        BY <1>1, <2>2 DEF Tick
      <3> QED
        BY <3>1 DEF PauseActive, PauseEligible
    <2> QED
      BY <2>1, <2>2
  <1>2. CASE \E i \in Jobs : ManualResume(i)
    <2>1. PICK i \in Jobs : ManualResume(i)
      BY <1>2
    <2>2. CASE j # i
      BY <2>1, <2>2 DEF ManualResume, PauseActive, PauseEligible, TypeOK
    <2>3. CASE j = i
      <3>1. PICK q : q = pause[j]
        OBVIOUS
      <3>2. q # Null /\ q.active = TRUE /\ pause[j].active
        BY <2>1, <2>3, <3>1, PauseType DEF ManualResume, PauseActive, Pauses
      <3>3. q \in Pauses /\ pause'[j] = [q EXCEPT !.manual = TRUE]
        BY <2>1, <2>3, <3>1, <3>2 DEF ManualResume, TypeOK
      <3>4. pause'[j] \in Pauses /\ pause'[j].active = q.active /\ pause'[j].manual = TRUE
        BY <3>3 DEF Pauses
      <3>5. pause'[j] # Null
        BY <3>4, NullAssumption
      <3> QED
        BY <3>1, <3>2, <3>4, <3>5 DEF PauseActive, PauseEligible
    <2> QED
      BY <2>2, <2>3
  <1>3. CASE UNCHANGED vars
    BY <1>3 DEF vars, artifacts, PauseActive, PauseEligible
  <1> QED
    BY <1>1, <1>2, <1>3

LEMMA PassingFresh ==
  ASSUME TypeOK, Tick \/ (\E i \in Jobs : ManualResume(i)) \/ UNCHANGED vars, NEW p \in Procs, Fresh(p)
  PROVE  Fresh(p)'
  <1>1. UNCHANGED <<registry, audit, manifest, pc, todo, snap, regCopy>>
    BY DEF Tick, ManualResume, vars, artifacts, locals
  <1>2. Job(p)' = Job(p) /\ Ahead(p)' = Ahead(p)
    BY <1>1 DEF Job, Ahead
  <1>3. ASSUME NEW file, NEW j \in Jobs, Current(file, j) PROVE Current(file, j)'
    BY <1>1, <1>3, CurrentKept, PassingPauses
  <1>4. Ahead(p) \in Seq(Jobs)
    BY ElemsFacts, EmptyFacts DEF Ahead, TypeOK
  <1>5. Elems(JobOrder) \subseteq Jobs /\ Elems(Ahead(p)) \subseteq Jobs
    BY <1>4, OrderFacts DEF Elems
  <1>6. PICK reg, copy, sn : reg = registry /\ copy = regCopy[p] /\ sn = snap[p]
    OBVIOUS
  <1>7. pc[p] = "sync" => \A j \in Elems(JobOrder) \ Elems(todo[p]) : Current(reg, j)'
    BY <1>3, <1>5, <1>6 DEF Fresh
  <1>8. pc[p] = "sync_put" => \A j \in Elems(JobOrder) \ Elems(Tail(todo[p])) : Current(copy, j)'
    BY <1>3, <1>5, <1>6 DEF Fresh
  <1>9. \A j \in Elems(Ahead(p)) : Current(sn, j)'
    BY <1>3, <1>5, <1>6 DEF Fresh
  <1>10. registry' = reg /\ regCopy'[p] = copy /\ snap'[p] = sn /\ pc'[p] = pc[p] /\ todo'[p] = todo[p]
    BY <1>1, <1>6
  <1> QED
    BY <1>2, <1>6, <1>7, <1>8, <1>9, <1>10 DEF Fresh

LEMMA InitFresh == Init => \A p \in Procs : Fresh(p)
  <1> SUFFICES ASSUME Init, NEW p \in Procs PROVE Fresh(p)
    OBVIOUS
  <1>1. pc[p] = "off"
    BY DEF Init
  <1>2. Elems(Ahead(p)) = {}
    BY <1>1, EmptyFacts DEF Ahead, InJob
  <1> QED
    BY <1>1, <1>2 DEF Fresh

LEMMA NextFresh ==
  ASSUME OneScheduler, TypeOK, TypeOK', Holding, \A p \in Procs : Fresh(p), [Next]_vars
  PROVE  \A p \in Procs : Fresh(p)'
  <1> SUFFICES ASSUME NEW p \in Procs PROVE Fresh(p)'
    OBVIOUS
  <1>1. \A q \in Procs : q = p
    BY DEF OneScheduler
  <1>2. CASE Work(p)
    BY <1>2, WorkFresh
  <1>3. CASE Kill(p)
    <2>1. pc'[p] = "off"
      BY <1>3 DEF Kill, Goto, TypeOK
    <2> QED
      BY <2>1, EmptyFacts DEF Fresh, Ahead, InJob
  <1>4. CASE RunRaises(p)
    <2>1. pc'[p] = "release" /\ todo'[p] = <<Job(p)>>
      BY <1>4 DEF RunRaises, Goto, Set, TypeOK
    <2>2. Tail(todo'[p]) = <<>>
      BY <2>1
    <2>3. Ahead(p)' = <<>>
      BY <2>1, <2>2 DEF Ahead, InJob
    <2> QED
      BY <2>1, <2>3, EmptyFacts DEF Fresh
  <1>5. CASE Tick \/ (\E j \in Jobs : ManualResume(j)) \/ UNCHANGED vars
    BY <1>5, PassingFresh
  <1> QED
    BY <1>1, <1>2, <1>3, <1>4, <1>5 DEF Next

\* With one scheduler run_registry_cycle decides on no stale snapshot: what it
\* says of each job still ahead is what the job's artifacts say at that time,
\* unless the job was paused and its pause has ended meanwhile; crashes,
\* restarts and resumes by operators included.
THEOREM SnapshotsAreCurrent ==
  ASSUME OneScheduler
  PROVE  Spec => []SnapshotCurrent
  <1>1. (\A p \in Procs : Fresh(p)) => SnapshotCurrent
    BY DEF Fresh, SnapshotCurrent, Current, Elems
  <1>2. TypeOK /\ Holding /\ [Next]_vars => Holding'
    BY NextHolding
  <1>3. TypeOK /\ TypeOK' /\ Holding /\ (\A p \in Procs : Fresh(p)) /\ [Next]_vars => (\A p \in Procs : Fresh(p))'
    BY NextFresh
  <1> QED
    BY <1>1, <1>2, <1>3, TypeCorrect, InitHolding, InitFresh, PTL DEF Spec

(***************************************************************************)
(* What a cycle leaves behind.  A live holder's lease is that of the job in *)
(* hand or of one that a kill met, and what the audit calls paused has a   *)
(* pause unless a kill met it between the end of that and its audit.       *)
(***************************************************************************)
Alive(file, j) == file[j] # Null /\ file[j].holder \notin Dead

LeasesOwned ==
  \A j \in Jobs : Alive(leases, j) =>
    \/ \E p \in Procs : pc[p] \in Owning /\ Job(p) = j /\ leases[j].holder = HolderOf[p]
    \/ "lease" \in struck[j]

CopiesExact == \A p \in Procs : pc[p] \in {"claim_put", "release_put"} => leaseCopy[p] = leases

PausesBehind ==
  /\ \A j \in Jobs : audit[j] = "paused" =>
       PauseActive(j) \/ (\E p \in Procs : pc[p] = "audit_resumed" /\ Job(p) = j) \/ "pause" \in struck[j]
  /\ \A p \in Procs : pc[p] = "audit_paused" => PauseActive(Job(p))
  /\ \A p \in Late : out[p] # "paused"

Tidy == LeasesOwned /\ CopiesExact /\ PausesBehind

LEMMA WorkLeases ==
  ASSUME TypeOK, TypeOK', LeasesOwned, CopiesExact, NEW p \in Procs, \A q \in Procs : q = p, Work(p), struck' = struck
  PROVE  (LeasesOwned /\ CopiesExact)'
  <1>1. CASE Gating(p) \/ Routing(p) \/ Executing(p) \/ ResultRead(p) \/ ResultWrite(p)
    <2>1. UNCHANGED <<leases, leaseCopy, todo>> /\ pc[p] \in Owning /\ pc'[p] \in Owning \ {"release_put"}
      <3>1. CASE Gating(p)
        BY <3>1 DEF Gating, GateHolds, GateResumes, AuditResumed, GateOpen, Conclude, artifacts, Goto, TypeOK, Owning, InJob
      <3>2. CASE Routing(p)
        BY <3>2 DEF Routing, Run, ShortCircuit, Pause, AuditPaused, Retry, Escalate, Routed, Conclude, Goto, TypeOK, Owning, InJob
      <3>3. CASE Executing(p) \/ ResultRead(p) \/ ResultWrite(p)
        BY <3>3 DEF Executing, Execute, WriteReceipt, AuditOut, ResultRead, ResultWrite, Routed, Conclude, artifacts,
                    Goto, TypeOK, Owning, InJob
      <3> QED
        BY <1>1, <3>1, <3>2, <3>3
    <2> QED
      BY <2>1 DEF LeasesOwned, CopiesExact, Alive, Job, Owning
  <1>2. CASE Syncing(p) \/ Skip(p) \/ Finish(p)
    <2>1. UNCHANGED leases /\ pc[p] \notin Owning /\ pc'[p] \notin {"claim_put", "release_put"}
      BY <1>2 DEF Syncing, Start, SyncRead, SyncWrite, Snapshot, Skip, Finish, NextJob, Goto, TypeOK, Owning, InJob
    <2> QED
      BY <2>1 DEF LeasesOwned, CopiesExact, Alive
  <1>3. CASE ClaimRead(p) \/ ReleaseRead(p)
    <2>1. UNCHANGED <<leases, todo>> /\ leaseCopy'[p] = leases /\ (pc[p] \in Owning => pc'[p] \in Owning)
      BY <1>3 DEF ClaimRead, ReleaseRead, Goto, Set, TypeOK, Owning, InJob
    <2> QED
      BY <2>1 DEF LeasesOwned, CopiesExact, Alive, Job
  <1>4. CASE ClaimWrite(p)
    <2>1. /\ leases' = [leases EXCEPT ![Job(p)] = [holder |-> HolderOf[p], left |-> LeaseTime]]
          /\ pc[p] \notin Owning /\ pc'[p] = "gate" /\ Job(p)' = Job(p)
      BY <1>4 DEF ClaimWrite, CopiesExact, Goto, TypeOK, Owning, Job
    <2>2. pc'[p] \in Owning \ {"release_put"}
      BY <2>1 DEF Owning, InJob
    <2>3. ASSUME NEW j \in Jobs, Alive(leases, j)'
          PROVE  (j = Job(p) /\ leases'[j].holder = HolderOf[p]) \/ "lease" \in struck[j]
      BY <2>1, <2>3 DEF LeasesOwned, Alive, TypeOK, LeaseFile
    <2> QED
      BY <2>1, <2>2, <2>3 DEF LeasesOwned, CopiesExact, Owning
  <1>5. CASE ReleaseWrite(p)
    <2>1. leases' = [leases EXCEPT ![Job(p)] = Null] /\ pc'[p] = "cycle"
      BY <1>5 DEF ReleaseWrite, NextJob, CopiesExact, Goto, TypeOK
    <2>2. ASSUME NEW j \in Jobs PROVE ~Alive(leases, j)' \/ "lease" \in struck[j]
      BY <2>1 DEF LeasesOwned, Alive, TypeOK, LeaseFile
    <2> QED
      BY <2>1, <2>2 DEF LeasesOwned, CopiesExact
  <1>6. CASE ReleaseNothing(p)
    <2>1. UNCHANGED leases /\ pc'[p] = "cycle"
      BY <1>6 DEF ReleaseNothing, NextJob, Goto, TypeOK
    <2>2. ASSUME NEW j \in Jobs PROVE ~Alive(leases, j) \/ "lease" \in struck[j]
      BY <1>6 DEF ReleaseNothing, Releasable, LeasesOwned, Alive
    <2> QED
      BY <2>1, <2>2 DEF LeasesOwned, CopiesExact, Alive
  <1> QED
    BY <1>1, <1>2, <1>3, <1>4, <1>5, <1>6 DEF Work, Claiming, Closing

LEMMA WorkPauses ==
  ASSUME TypeOK, TypeOK', Holding, PausesBehind, NEW p \in Procs, \A q \in Procs : q = p, Work(p), struck' = struck
  PROVE  PausesBehind'
  <1>0. pc[p] \in InJob => Job(p) \in Jobs
    BY JobType DEF TypeOK
  <1>1. CASE \/ Syncing(p) \/ Claiming(p) \/ GateOpen(p) \/ Run(p) \/ Execute(p) \/ WriteReceipt(p) \/ Closing(p)
    <2>1. UNCHANGED <<pause, audit>>
      BY <1>1 DEF Syncing, Start, SyncRead, SyncWrite, Snapshot, Claiming, Skip, ClaimRead, ClaimWrite, Finish,
                  GateOpen, Run, Execute, WriteReceipt, Closing, ResultRead, ResultWrite, ReleaseRead, ReleaseWrite,
                  ReleaseNothing, artifacts
    <2>2. pc[p] # "audit_resumed" /\ pc'[p] # "audit_paused"
      <3>1. CASE Syncing(p) \/ Claiming(p)
        BY <3>1 DEF Syncing, Start, SyncRead, SyncWrite, Snapshot, Claiming, Skip, ClaimRead, ClaimWrite, Finish,
                    NextJob, Goto, TypeOK
      <3>2. CASE GateOpen(p) \/ Run(p) \/ Execute(p) \/ WriteReceipt(p)
        BY <3>2 DEF GateOpen, Run, Execute, WriteReceipt, Routed, Goto, TypeOK
      <3>3. CASE Closing(p)
        BY <3>3 DEF Closing, ResultRead, ResultWrite, ReleaseRead, ReleaseWrite, ReleaseNothing, NextJob, Goto, TypeOK
      <3> QED
        BY <1>1, <3>1, <3>2, <3>3
    <2>3. p \in Late' => out'[p] # "paused"
      <3>1. CASE Syncing(p) \/ Claiming(p) \/ GateOpen(p) \/ Run(p) \/ Closing(p)
        <4>1. pc'[p] \notin {"receipt", "audit_out"}
          <5>1. CASE Syncing(p) \/ Claiming(p) \/ GateOpen(p) \/ Run(p)
            BY <5>1 DEF Syncing, Start, SyncRead, SyncWrite, Snapshot, Claiming, Skip, ClaimRead, ClaimWrite, Finish,
                        GateOpen, Run, NextJob, Goto, TypeOK
          <5>2. CASE Closing(p)
            BY <5>2 DEF Closing, ResultRead, ResultWrite, ReleaseRead, ReleaseWrite, ReleaseNothing, NextJob, Goto, TypeOK
          <5> QED
            BY <3>1, <5>1, <5>2
        <4> QED
          BY <4>1 DEF Late
      <3>2. CASE Execute(p)
        BY <3>2 DEF Execute, Set, TypeOK
      <3>3. CASE WriteReceipt(p)
        BY <3>3 DEF WriteReceipt, PausesBehind, Late
      <3> QED
        BY <1>1, <3>1, <3>2, <3>3
    <2> QED
      BY <2>1, <2>2, <2>3 DEF PausesBehind, PauseActive, Late
  <1>2. CASE GateResumes(p)
    <2>1. /\ pc'[p] = "audit_resumed" /\ Job(p)' = Job(p) /\ audit' = audit
          /\ \A j \in Jobs : j # Job(p) => pause'[j] = pause[j]
      BY <1>2 DEF GateResumes, Goto, TypeOK, Job
    <2>2. pc[p] = "gate"
      BY <1>2 DEF GateResumes
    <2> QED
      BY <2>1, <2>2 DEF PausesBehind, PauseActive, Late
  <1>3. CASE Pause(p)
    <2>1. /\ pc[p] = "route" /\ pc'[p] = "audit_paused" /\ Job(p)' = Job(p) /\ audit' = audit /\ Job(p) \in Jobs
          /\ \A j \in Jobs : j # Job(p) => pause'[j] = pause[j]
      BY <1>0, <1>3 DEF Pause, Routed, Goto, TypeOK, Job, InJob
    <2>2. pause'[Job(p)].active = TRUE
      BY <1>3, <2>1 DEF Pause, TypeOK
    <2>3. pause'[Job(p)] # Null
      <3>1. pause'[Job(p)] \in Pauses
        <4>1. (decision[p] = "wait_human") \in BOOLEAN /\ PauseTime \in 0..PauseTime
          OBVIOUS
        <4>2. pause'[Job(p)] = [active |-> TRUE, manual |-> FALSE, human |-> decision[p] = "wait_human",
                                left |-> IF decision[p] = "wait_timed" THEN PauseTime ELSE Null]
          BY <1>3, <2>1 DEF Pause, TypeOK
        <4>3. PICK h \in BOOLEAN, t \in (0..PauseTime) \cup {Null} :
                pause'[Job(p)] = [active |-> TRUE, manual |-> FALSE, human |-> h, left |-> t]
          BY <4>1, <4>2
        <4> QED
          BY <4>3 DEF Pauses
      <3> QED
        BY <3>1, NullAssumption
    <2>4. PauseActive(Job(p))'
      BY <2>1, <2>2, <2>3 DEF PauseActive
    <2> QED
      BY <2>1, <2>4 DEF PausesBehind, PauseActive, Late
  <1>4. CASE GateHolds(p) \/ AuditResumed(p) \/ AuditPaused(p) \/ Retry(p) \/ Escalate(p) \/ ShortCircuit(p) \/ AuditOut(p)
    <2>1. PICK o : Auditing(Job(p), o) /\ (o = "paused" => PauseActive(Job(p)))
      <3>1. CASE GateHolds(p)
        BY <3>1 DEF GateHolds, Conclude
      <3>2. CASE AuditResumed(p)
        BY <3>2 DEF AuditResumed
      <3>3. CASE AuditPaused(p)
        BY <3>3 DEF AuditPaused, Conclude, PausesBehind
      <3>4. CASE Retry(p)
        BY <3>4 DEF Retry
      <3>5. CASE Escalate(p)
        BY <3>5 DEF Escalate, Conclude, RefusalOutcome
      <3>6. CASE ShortCircuit(p)
        <4>1. receipt[Job(p)] \in {"executed", "refused"}
          BY <1>0, <3>6 DEF ShortCircuit, TypeOK, InJob
        <4> QED
          BY <3>6, <4>1 DEF ShortCircuit, Conclude
      <3>7. CASE AuditOut(p)
        <4>1. out[p] # "paused"
          BY <3>7 DEF AuditOut, PausesBehind, Late
        <4> QED
          BY <3>7, <4>1 DEF AuditOut, Conclude
      <3> QED
        BY <1>4, <3>1, <3>2, <3>3, <3>4, <3>5, <3>6, <3>7
    <2>2. pc[p] \in InJob /\ (pc[p] = "audit_resumed" => AuditResumed(p)) /\ pc'[p] \in {"run", "result"} /\ pause' = pause
      BY <1>4 DEF GateHolds, AuditResumed, AuditPaused, Retry, Escalate, ShortCircuit, AuditOut, Conclude, Routed,
                  Goto, TypeOK, InJob
    <2>3. audit'[Job(p)] = o /\ \A j \in Jobs : j # Job(p) => audit'[j] = audit[j]
      BY <1>0, <2>1, <2>2 DEF Auditing, TypeOK
    <2>4. ASSUME NEW j \in Jobs, audit'[j] = "paused" PROVE PauseActive(j) \/ "pause" \in struck[j]
      <3>1. CASE j = Job(p)
        BY <2>1, <2>3, <2>4, <3>1
      <3>2. CASE j # Job(p)
        BY <2>3, <2>4, <3>2 DEF PausesBehind
      <3> QED
        BY <3>1, <3>2
    <2> QED
      BY <2>2, <2>4 DEF PausesBehind, PauseActive, Late
  <1> QED
    BY <1>1, <1>2, <1>3, <1>4 DEF Work, Gating, Routing, Executing

LEMMA InitTidy == Init => Tidy
  <1> SUFFICES ASSUME Init PROVE Tidy
    OBVIOUS
  <1>1. LeasesOwned
    BY DEF Init, LeasesOwned, Alive
  <1>2. Null # "paused"
    BY NullAssumption DEF Outcomes
  <1> QED
    BY <1>1, <1>2 DEF Init, Tidy, CopiesExact, PausesBehind, Late

\* A kill leaves the lease, and maybe the pause, of the job in hand only.
LEMMA KillTidy ==
  ASSUME TypeOK, Tidy, NEW p \in Procs, \A q \in Procs : q = p, Kill(p)
  PROVE  Tidy'
  <1>1. pc'[p] = "off" /\ UNCHANGED <<leases, pause, audit>>
    BY DEF Kill, artifacts, Goto, TypeOK
  <1>2. \A j \in Jobs : struck[j] \subseteq struck'[j]
    BY DEF Kill, TypeOK
  <1>3. pc[p] \in Owning => Job(p) \in Jobs /\ Grip(p) \subseteq struck'[Job(p)]
    <2> SUFFICES ASSUME pc[p] \in Owning PROVE Job(p) \in Jobs /\ Grip(p) \subseteq struck'[Job(p)]
      OBVIOUS
    <2>1. Job(p) \in Jobs
      BY JobType DEF TypeOK, Owning
    <2>2. struck' = [struck EXCEPT ![Job(p)] = @ \cup Grip(p)]
      BY DEF Kill
    <2> QED
      BY <2>1, <2>2 DEF TypeOK
  <1>4. LeasesOwned'
    <2> SUFFICES ASSUME NEW j \in Jobs, Alive(leases, j)' PROVE "lease" \in struck'[j]
      BY DEF LeasesOwned
    <2>1. Alive(leases, j)
      BY <1>1 DEF Alive
    <2>2. CASE "lease" \in struck[j]
      BY <1>2, <2>2
    <2>3. CASE pc[p] \in Owning /\ Job(p) = j
      BY <1>3, <2>3 DEF Grip
    <2> QED
      BY <2>1, <2>2, <2>3 DEF Tidy, LeasesOwned
  <1>5. PausesBehind'
    <2>1. ASSUME NEW j \in Jobs, audit'[j] = "paused" PROVE PauseActive(j)' \/ "pause" \in struck'[j]
      <3>1. PauseActive(j)' <=> PauseActive(j)
        BY <1>1 DEF PauseActive
      <3>2. CASE "pause" \in struck[j]
        BY <1>2, <3>2
      <3>3. CASE pc[p] = "audit_resumed" /\ Job(p) = j
        BY <1>3, <3>3 DEF Grip, Owning, InJob
      <3> QED
        BY <1>1, <2>1, <3>1, <3>2, <3>3 DEF Tidy, PausesBehind
    <2> QED
      BY <1>1, <2>1 DEF PausesBehind, Late
  <1> QED
    BY <1>1, <1>4, <1>5 DEF Tidy, CopiesExact

\* The finally clause: a runner that raises still has the lease in hand.
LEMMA RaiseTidy ==
  ASSUME TypeOK, Tidy, NEW p \in Procs, \A q \in Procs : q = p, RunRaises(p)
  PROVE  Tidy'
  <1>1. /\ UNCHANGED <<leases, leaseCopy, pause, audit, struck>>
        /\ pc[p] = "run" /\ pc'[p] = "release" /\ Job(p)' = Job(p)
    BY JobType DEF RunRaises, artifacts, Goto, Set, Job, TypeOK
  <1>2. pc[p] \in Owning /\ pc'[p] \in Owning
    BY <1>1 DEF Owning, InJob
  <1> QED
    BY <1>1, <1>2 DEF Tidy, LeasesOwned, CopiesExact, PausesBehind, PauseActive, Alive, Late, Job

LEMMA NextTidy ==
  ASSUME OneScheduler, TypeOK, TypeOK', Holding, Tidy, [Next]_vars
  PROVE  Tidy'
  <1>1. ASSUME NEW p \in Procs PROVE \A q \in Procs : q = p
    BY DEF OneScheduler
  <1>2. ASSUME NEW p \in Procs, Work(p) PROVE Tidy'
    <2>1. struck' = struck
      BY <1>2 DEF Work, Syncing, Start, SyncRead, SyncWrite, Snapshot, Claiming, Skip, ClaimRead, ClaimWrite, Finish,
                  Gating, GateHolds, GateResumes, AuditResumed, GateOpen, Routing, Run, ShortCircuit, Pause, AuditPaused,
                  Retry, Escalate, Executing, Execute, WriteReceipt, AuditOut, Closing, ResultRead, ResultWrite,
                  ReleaseRead, ReleaseWrite, ReleaseNothing
    <2> QED
      BY <1>1, <1>2, <2>1, WorkLeases, WorkPauses DEF Tidy
  <1>3. ASSUME NEW p \in Procs, Kill(p) \/ RunRaises(p) PROVE Tidy'
    BY <1>1, <1>3, KillTidy, RaiseTidy
  <1>4. CASE Tick \/ (\E j \in Jobs : ManualResume(j)) \/ UNCHANGED vars
    <2>1. UNCHANGED <<audit, pc, todo, out, struck>>
      BY <1>4 DEF Tick, ManualResume, vars, artifacts, locals
    <2>2. PausesBehind => PausesBehind'
      <3>1. \A j \in Jobs : PauseActive(j)' <=> PauseActive(j)
        BY <1>4, PassingPauses
      <3>2. \A p \in Procs : pc[p] = "audit_paused" => Job(p) \in Jobs
        BY JobType DEF TypeOK, InJob
      <3>3. \A p \in Procs : Job(p)' = Job(p)
        BY <2>1 DEF Job
      <3>4. ASSUME PausesBehind, NEW j \in Jobs, audit'[j] = "paused"
            PROVE  PauseActive(j)' \/ (\E p \in Procs : pc'[p] = "audit_resumed" /\ Job(p)' = j) \/ "pause" \in struck'[j]
        BY <2>1, <3>1, <3>3, <3>4 DEF PausesBehind
      <3>5. ASSUME PausesBehind, NEW p \in Procs, pc'[p] = "audit_paused" PROVE PauseActive(Job(p))'
        <4>1. PICK j \in Jobs : j = Job(p) /\ PauseActive(j)
          BY <2>1, <3>2, <3>5 DEF PausesBehind
        <4>2. PauseActive(j)'
          BY <3>1, <4>1
        <4> QED
          BY <3>3, <4>1, <4>2 DEF PauseActive
      <3> QED
        BY <2>1, <3>4, <3>5 DEF PausesBehind, Late
    <2>3. CASE Tick
      <3>1. leases' = ElapsedFile(leases)
        BY <2>3 DEF Tick
      <3>2. ASSUME NEW j \in Jobs PROVE leases'[j] # Null => leases[j] # Null /\ leases'[j].holder = leases[j].holder
        <4>1. leases'[j] = Elapse(leases[j])
          BY <3>1 DEF ElapsedFile
        <4>2. leases[j] # Null => leases[j] \in Lease
          BY DEF TypeOK, LeaseFile
        <4>3. CASE Lapsing(leases[j])
          <5>1. PICK l : l = leases[j] /\ l \in Lease /\ l # Null
            BY <4>2, <4>3 DEF Lapsing
          <5>2. leases'[j] = [holder |-> l.holder, left |-> l.left - 1]
            BY <4>1, <4>3, <5>1 DEF Elapse, Lease
          <5> QED
            BY <5>1, <5>2
        <4>4. CASE ~Lapsing(leases[j])
          BY <4>1, <4>4 DEF Elapse
        <4> QED
          BY <4>3, <4>4
      <3>3. LeasesOwned => LeasesOwned'
        BY <2>1, <3>2 DEF LeasesOwned, Alive, Job
      <3>4. CopiesExact => CopiesExact'
        BY <2>1, <2>3, <3>1 DEF Tick, CopiesExact, TypeOK
      <3> QED
        BY <2>1, <2>2, <3>3, <3>4 DEF Tidy
    <2>4. CASE (\E j \in Jobs : ManualResume(j)) \/ UNCHANGED vars
      <3>1. UNCHANGED <<leases, leaseCopy>>
        BY <2>4 DEF ManualResume, vars, locals
      <3> QED
        BY <2>1, <2>2, <3>1 DEF Tidy, LeasesOwned, CopiesExact, Alive, Job
    <2> QED
      BY <1>4, <2>3, <2>4
  <1> QED
    BY <1>2, <1>3, <1>4 DEF Next

\* With one scheduler, over kills, restarts and runners that raise,
\* run_registry_cycle leaves no lease of its own behind and no job that the
\* audit calls paused without an active pause, except for the job in hand of a
\* killed scheduler, and for the pause only when the kill came between its end
\* and the audit of that.
THEOREM CyclesAreTidy ==
  ASSUME OneScheduler
  PROVE  Spec => []CyclesLeaveNothing
  <1>1. Tidy => CyclesLeaveNothing
    <2>1. "off" \notin Owning
      BY DEF Owning, InJob
    <2> QED
      BY <2>1 DEF Tidy, LeasesOwned, Alive, PausesBehind, CyclesLeaveNothing, LeasesReturned, PausedHasPause
  <1>2. TypeOK /\ Holding /\ [Next]_vars => Holding'
    BY NextHolding
  <1>3. TypeOK /\ TypeOK' /\ Holding /\ Tidy /\ [Next]_vars => Tidy'
    BY NextTidy
  <1> QED
    BY <1>1, <1>2, <1>3, TypeCorrect, InitHolding, InitTidy, PTL DEF Spec

=============================================================================
