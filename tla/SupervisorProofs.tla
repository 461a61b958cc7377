-------------------------- MODULE SupervisorProofs --------------------------
(***************************************************************************)
(* Theorems about the supervisor, for any number of cycles, workers, lives *)
(* and signals.                                                            *)
(***************************************************************************)
EXTENDS SupervisorProperties, SequenceTheorems, FiniteSetTheorems, TLAPS

USE CyclesAssumption, LimitAssumption, OptionAssumption, NullAssumption

(* What the steps rely on: the locals of the main thread are set by the    *)
(* step before, and a worker's cycle is a directory that exists.           *)
Located ==
  /\ pc \in {"terminal", "coordinate"} => sup.target \in Cycles
  /\ pc = "persist" => attempts # <<>>
  /\ pc \in {"spawn", "gated"} => sup.request \in Requests
                                  /\ (sup.request.cycle # Null => sup.request.cycle \in 1..Len(cycles))
  /\ \A w \in 1..Len(workers) : workers[w].cycle # Null => workers[w].cycle \in 1..Len(cycles)

TypeInv == TypeOK /\ lives \in Nat /\ Located

LEMMA InitType == Init => TypeInv
  <1> SUFFICES ASSUME Init PROVE TypeInv
    OBVIOUS
  <1>1. NewSup \in Sups
    BY DEF NewSup, Sups, Queues
  <1>2. /\ <<>> \in Seq(Cycle) /\ <<>> \in Seq(Worker) /\ <<>> \in Seq(Attempt) /\ <<>> \in Seq({"want", "hold"})
        /\ Len(<<>>) = 0
    OBVIOUS
  <1>3. TypeOK
    <2>1. cycles \in Seq(Cycle) /\ Len(cycles) <= MaxCycles
      BY <1>2 DEF Init
    <2>2. workers \in Seq(Worker) /\ frames \in Seq({"want", "hold"})
      BY <1>2 DEF Init
    <2>3. attempts \in Seq(Attempt) /\ Len(attempts) <= MaxReplans
      BY <1>2 DEF Init
    <2>4. execution \in [1..MaxReplans -> Executions]
      BY DEF Init, Executions
    <2> QED
      BY <1>1, <2>1, <2>2, <2>3, <2>4 DEF Init, TypeOK, PCs, Statuses
  <1>4. Located
    BY <1>2 DEF Init, Located
  <1> QED
    BY <1>3, <1>4 DEF Init, TypeInv

(* The steps that change the process and no file.                          *)
LEMMA LocalType ==
  ASSUME TypeInv, UNCHANGED disk, lives' \in Nat, sup' \in Sups, pc' \in PCs, status' \in Statuses,
         gate' \in {"free", "launcher", "handler"}, stop' \in BOOLEAN, frames' \in Seq({"want", "hold"}),
         pc' \in {"terminal", "coordinate"} => sup'.target \in Cycles,
         pc' = "persist" => attempts # <<>>,
         pc' \in {"spawn", "gated"} => sup'.request \in Requests
                                           /\ (sup'.request.cycle # Null => sup'.request.cycle \in 1..Len(cycles))
  PROVE  TypeInv'
  BY DEF TypeInv, TypeOK, Located, disk

LEMMA NewSupType == NewSup \in Sups
  BY DEF NewSup, Sups, Queues

LEMMA LoopType ==
  ASSUME TypeInv, Start \/ Loop \/ Finish \/ Kill \/ Heartbeat \/ WorkerEnded
  PROVE  TypeInv'
  <1> USE DEF PCs, Statuses
  <1>1. TypeOK /\ lives \in Nat
    BY DEF TypeInv
  <1>2. CASE Start
    <2>1. UNCHANGED <<disk, gate, frames>> /\ lives' = lives + 1 /\ sup' = NewSup /\ stop' = FALSE
          /\ status' = "idle" /\ pc' = "loop"
      BY <1>2 DEF Start, Goto
    <2>2. lives' \in Nat /\ gate' \in {"free", "launcher", "handler"} /\ frames' \in Seq({"want", "hold"})
      BY <1>1, <2>1 DEF TypeOK
    <2> QED
      BY <2>1, <2>2, NewSupType, LocalType
  <1>3. CASE Loop
    <2>1. Restarts \in 0..MaxRestarts
      BY <1>1 DEF Restarts, TypeOK, Sups
    <2>2. /\ sup.queue \in Queues /\ sup.worker \in Nat \cup {Null}
          /\ sup.seedUsed \in BOOLEAN /\ sup.flag \in BOOLEAN /\ sup.termWritten \in BOOLEAN
      BY <1>1 DEF TypeOK, Sups
    <2>3. CASE UNCHANGED sup
      BY <1>1, <1>3, <2>3 DEF Loop, TypeInv, TypeOK, Located, Goto, disk, proc
    <2>4. CASE ~UNCHANGED sup
      <3>1. sup' = [NewSup EXCEPT !.queue = sup.queue, !.prev = sup.queue, !.restarts = Restarts,
                      !.worker = sup.worker, !.seedUsed = sup.seedUsed, !.flag = sup.flag,
                      !.termWritten = sup.termWritten]
        BY <1>3, <2>4 DEF Loop
      <3>2. sup' = [queue |-> sup.queue, prev |-> sup.queue, restarts |-> Restarts, worker |-> sup.worker,
                    seedUsed |-> sup.seedUsed, flag |-> sup.flag, termWritten |-> sup.termWritten,
                    observed |-> 0, target |-> Null, from |-> "once", replan |-> "none", attempt |-> 0,
                    launched |-> FALSE, request |-> Null, go |-> FALSE, spawned |-> Null]
        BY <3>1 DEF NewSup
      <3>3. sup' \in Sups
        BY <3>2, <2>1, <2>2 DEF Sups, Queues
      <3> QED
        BY <1>1, <1>3, <3>3 DEF Loop, TypeInv, TypeOK, Located, Goto, disk, proc
    <2> QED
      BY <2>3, <2>4
  <1>4. CASE Finish
    BY <1>4 DEF Finish, FinalStatus, TypeInv, TypeOK, Located, Goto, disk, proc
  <1>5. CASE Kill
    <2>1. UNCHANGED <<disk, status, lives>> /\ sup' = NewSup /\ stop' = FALSE /\ frames' = <<>>
          /\ gate' = "free" /\ pc' = "off"
      BY <1>5 DEF Kill, Goto
    <2>2. lives' \in Nat /\ status' \in Statuses /\ frames' \in Seq({"want", "hold"})
      BY <1>1, <2>1 DEF TypeOK
    <2> QED
      BY <2>1, <2>2, NewSupType, LocalType
  <1>6. CASE Heartbeat
    BY <1>6 DEF Heartbeat, TypeInv, TypeOK, Located, disk, proc
  <1>7. CASE WorkerEnded
    BY <1>7 DEF WorkerEnded, TypeInv, TypeOK, Located, Goto, disk, proc
  <1> QED
    BY <1>2, <1>3, <1>4, <1>5, <1>6, <1>7

LEMMA WithType ==
  ASSUME TypeInv, NEW q, NEW kinds, NEW c \in With(q, kinds)
  PROVE  c \in Cycles /\ c \in 1..Len(cycles)
  BY DEF With, TypeInv, TypeOK

LEMMA ScanType ==
  ASSUME TypeInv, ScanFlagged \/ ScanBlocked \/ ScanTerminal \/ ScanLaunch
  PROVE  TypeInv'
  <1> USE DEF PCs
  <1>1. CASE ScanFlagged
    BY <1>1 DEF ScanFlagged, TypeInv, TypeOK, Located, Goto, disk, proc, Sups
  <1>2. CASE ScanBlocked
    BY <1>2 DEF ScanBlocked, TypeInv, TypeOK, Located, Goto, disk, proc
  <1>3. CASE ScanTerminal
    <2>1. PICK c \in Ended(sup.queue) : sup' = [sup EXCEPT !.target = c, !.from = "once", !.observed = sup.queue]
      BY <1>3 DEF ScanTerminal
    <2>2. c \in Cycles
      BY <2>1, WithType DEF Ended
    <2>3. sup' \in Sups /\ sup'.target \in Cycles
      BY <2>1, <2>2 DEF TypeInv, TypeOK, Sups
    <2> QED
      BY <1>3, <2>3 DEF ScanTerminal, TypeInv, TypeOK, Located, Goto, disk, proc
  <1>4. CASE ScanLaunch
    <2>1. PICK r \in Launchables : sup' = [sup EXCEPT !.observed = sup.queue, !.request = r]
      BY <1>4 DEF ScanLaunch
    <2>2. r \in Requests /\ (r.cycle # Null => r.cycle \in 1..Len(cycles))
      BY <2>1, WithType DEF Launchables, Active, Request, Requests, Modes, TypeInv, TypeOK, Sups
    <2>3. sup' \in Sups /\ sup'.request = r
      BY <2>1, <2>2 DEF Sups, TypeInv, TypeOK
    <2> QED
      BY <1>4, <2>2, <2>3 DEF ScanLaunch, TypeInv, TypeOK, Located, Goto, disk, proc
  <1> QED
    BY <1>1, <1>2, <1>3, <1>4

LEMMA ReplanType ==
  ASSUME TypeInv, NEW result \in {"blocked"} \cup Decisions, NEW n \in Queues, Replan(result, n)
  PROVE  sup' \in Sups /\ pc' \in {"claim", "settled"} /\ (pc' = "claim" => sup'.attempt = n /\ result = "successor")
  BY DEF Replan, Goto, TypeInv, TypeOK, Sups

LEMMA AnswerType ==
  ASSUME TypeInv, NEW n \in DOMAIN attempts
  PROVE  n \in Queues /\ n > 0 /\ attempts[n] \in Attempt /\ attempts[n].decision \in Decisions
  <1>1. attempts \in Seq(Attempt) /\ Len(attempts) <= MaxReplans /\ n \in 1..Len(attempts)
    BY DEF TypeInv, TypeOK
  <1>2. attempts[n] \in Attempt
    BY <1>1, ElementOfSeq
  <1> QED
    BY <1>1, <1>2 DEF Queues, Attempt

LEMMA AppendAttemptType ==
  ASSUME TypeInv, NEW a \in Attempt
  PROVE  /\ Append(attempts, a) \in Seq(Attempt)
         /\ Len(Append(attempts, a)) = Len(attempts) + 1
         /\ Append(attempts, a) # <<>>
  BY DEF TypeInv, TypeOK

LEMMA NextStageType ==
  ASSUME NEW a \in Attempt
  PROVE  [a EXCEPT !.stage = NextStage(a)] \in Attempt
  BY DEF Attempt, NextStage, Stages

LEMMA CoordinateType ==
  ASSUME TypeInv, \/ WriteTerminal \/ CoordinateFails \/ CoordinateBlocked \/ CoordinateKnown \/ CoordinatePlans
                  \/ Persist \/ PersistFails
  PROVE  TypeInv'
  <1> USE DEF PCs
  <1>0. TypeOK /\ lives \in Nat /\ Located
    BY DEF TypeInv
  <1>1. CASE WriteTerminal
    <2>1. sup' \in Sups /\ sup'.target = sup.target
      BY <1>0, <1>1 DEF WriteTerminal, TypeOK, Sups
    <2> QED
      BY <1>0, <1>1, <2>1 DEF WriteTerminal, TypeInv, TypeOK, Located, At, Goto, disk, proc, Statuses
  <1>2. CASE CoordinateFails \/ CoordinateBlocked \/ PersistFails
    <2>1. sup' \in Sups /\ pc' \in {"claim", "settled"}
      BY <1>2, ReplanType DEF CoordinateFails, CoordinateBlocked, PersistFails, Queues
    <2>2. UNCHANGED <<disk, status, gate, stop, frames, lives>>
      BY <1>2 DEF CoordinateFails, CoordinateBlocked, PersistFails, proc
    <2> QED
      BY <1>0, <2>1, <2>2, LocalType DEF TypeOK
  <1>3. CASE CoordinateKnown
    <2>1. PICK n \in Known : Replan(attempts[n].decision, n)
      BY <1>3 DEF CoordinateKnown
    <2>2. n \in Queues /\ attempts[n].decision \in Decisions
      BY AnswerType DEF Known, Answers
    <2>3. sup' \in Sups /\ pc' \in {"claim", "settled"}
      BY <2>1, <2>2, ReplanType
    <2>4. UNCHANGED <<disk, status, gate, stop, frames, lives>>
      BY <1>3 DEF CoordinateKnown, proc
    <2> QED
      BY <1>0, <2>3, <2>4, LocalType DEF TypeOK
  <1>4. CASE CoordinatePlans
    <2>1. PICK d \in Decisions : attempts' = Append(attempts, [cycle |-> sup.target, decision |-> d, stage |-> "dir"])
      BY <1>4 DEF CoordinatePlans
    <2>2. [cycle |-> sup.target, decision |-> d, stage |-> "dir"] \in Attempt
      BY <1>0, <1>4 DEF CoordinatePlans, At, Located, Attempt, Stages
    <2>3. attempts' \in Seq(Attempt) /\ Len(attempts') <= MaxReplans /\ attempts' # <<>>
      <3>1. Len(attempts) \in Nat /\ Len(attempts) < MaxReplans /\ MaxReplans \in Nat
        BY <1>0, <1>4, LimitAssumption DEF CoordinatePlans, TypeOK
      <3>2. LET new == [cycle |-> sup.target, decision |-> d, stage |-> "dir"] IN
              /\ Append(attempts, new) \in Seq(Attempt)
              /\ Len(Append(attempts, new)) = Len(attempts) + 1
              /\ Append(attempts, new) # <<>>
        BY <2>2, AppendAttemptType
      <3> QED
        BY <2>1, <3>1, <3>2
    <2> QED
      BY <1>0, <1>4, <2>3 DEF CoordinatePlans, TypeInv, TypeOK, Located, At, Goto, proc
  <1>5. CASE Persist
    <2> DEFINE n == Len(attempts)
    <2>1. n \in DOMAIN attempts /\ attempts # <<>>
      BY <1>0, <1>5 DEF Persist, At, Located, TypeOK
    <2>2. n \in Queues /\ attempts[n] \in Attempt
      BY <2>1, AnswerType
    <2>3. CASE attempts[n].stage = "campaign"
      <3>1. Replan(attempts[n].decision, n) /\ UNCHANGED attempts
        BY <1>5, <2>3 DEF Persist
      <3>2. sup' \in Sups /\ pc' \in {"claim", "settled"}
        BY <2>1, <3>1, ReplanType, AnswerType
      <3>3. UNCHANGED <<disk, status, gate, stop, frames, lives>>
        BY <1>5, <3>1 DEF Persist, disk, proc
      <3> QED
        BY <1>0, <3>2, <3>3, LocalType DEF TypeOK
    <2>4. CASE attempts[n].stage # "campaign"
      <3>1. attempts' = [attempts EXCEPT ![n] = [attempts[n] EXCEPT !.stage = NextStage(attempts[n])]]
            /\ UNCHANGED <<pc, sup>>
        BY <1>5, <2>4 DEF Persist
      <3>2. attempts' \in Seq(Attempt) /\ Len(attempts') = Len(attempts)
        BY <1>0, <2>1, <2>2, <3>1, NextStageType, ExceptSeq DEF TypeOK
      <3>3. attempts' # <<>>
        BY <2>1, <3>2
      <3> QED
        BY <1>0, <1>5, <3>1, <3>2, <3>3 DEF Persist, TypeInv, TypeOK, Located, proc
    <2> QED
      BY <2>3, <2>4
  <1> QED
    BY <1>1, <1>2, <1>3, <1>4, <1>5

LEMMA LocalsType ==
  ASSUME NEW s \in Sups, NEW b \in BOOLEAN, NEW d \in BOOLEAN, NEW v \in Nat \cup {Null}
  PROVE  /\ [s EXCEPT !.launched = b] \in Sups
         /\ [s EXCEPT !.go = b] \in Sups
         /\ [s EXCEPT !.spawned = v] \in Sups
         /\ [s EXCEPT !.worker = v, !.flag = b] \in Sups
         /\ [s EXCEPT !.worker = v, !.flag = b, !.launched = d] \in Sups
  <1>1. [s EXCEPT !.launched = b] \in Sups
    BY DEF Sups
  <1>2. [s EXCEPT !.go = b] \in Sups
    BY DEF Sups
  <1>3. [s EXCEPT !.spawned = v] \in Sups
    BY DEF Sups
  <1>4. [s EXCEPT !.worker = v] \in Sups
    BY DEF Sups
  <1>5. \A t \in Sups : [t EXCEPT !.flag = b] \in Sups
    BY DEF Sups
  <1>6. \A t \in Sups : [t EXCEPT !.launched = d] \in Sups
    BY DEF Sups
  <1>7. [s EXCEPT !.worker = v, !.flag = b] = [[s EXCEPT !.worker = v] EXCEPT !.flag = b]
    OBVIOUS
  <1>8. [s EXCEPT !.worker = v, !.flag = b, !.launched = d]
          = [[s EXCEPT !.worker = v, !.flag = b] EXCEPT !.launched = d]
    OBVIOUS
  <1> QED
    BY <1>1, <1>2, <1>3, <1>4, <1>5, <1>6, <1>7, <1>8

LEMMA LaunchType ==
  ASSUME TypeInv, \/ ClaimFails \/ ReportExecution \/ BeginExecution \/ EndExecution
                  \/ LauncherEnters \/ LauncherDeclines \/ Joined \/ JoinedNone
  PROVE  TypeInv'
  <1> USE DEF PCs
  <1>0. TypeOK /\ lives \in Nat /\ Located
    BY DEF TypeInv
  <1>1. CASE ClaimFails
    BY <1>0, <1>1 DEF ClaimFails, TypeInv, TypeOK, Located, Goto, disk, proc
  <1>2. CASE ReportExecution
    <2> DEFINE b == execution[sup.attempt] = "launched"
    <2>1. b \in BOOLEAN /\ sup' = [sup EXCEPT !.launched = b]
      BY <1>2 DEF ReportExecution
    <2> HIDE DEF b
    <2>2. sup' \in Sups
      BY <1>0, <2>1, LocalsType DEF TypeOK
    <2> QED
      BY <1>0, <1>2, <2>2 DEF ReportExecution, TypeInv, TypeOK, Located, Goto, disk, proc
  <1>3. CASE BeginExecution
    <2>1. execution' \in [1..MaxReplans -> Executions]
      BY <1>0, <1>3 DEF BeginExecution, TypeOK, Executions
    <2> DEFINE r == Request("successor", sup.attempt, Null)
    <2>2. r \in Requests /\ r.cycle = Null
      BY <1>0 DEF Request, Requests, Modes, TypeOK, Sups
    <2>3. sup' \in Sups /\ sup'.request \in Requests /\ sup'.request.cycle = Null
      BY <1>0, <1>3, <2>2 DEF BeginExecution, TypeOK, Sups
    <2> QED
      BY <1>0, <1>3, <2>1, <2>3 DEF BeginExecution, TypeInv, TypeOK, Located, Goto, proc
  <1>4. CASE EndExecution
    <2>1. execution' \in [1..MaxReplans -> Executions]
      BY <1>0, <1>4 DEF EndExecution, TypeOK, Executions
    <2> DEFINE up == sup.spawned \in DOMAIN workers
               w  == IF up THEN sup.spawned ELSE sup.worker
               f  == up \/ sup.flag
    <2>3. /\ up \in BOOLEAN /\ f \in BOOLEAN
          /\ \/ sup' = [sup EXCEPT !.worker = w, !.flag = f, !.launched = up]
             \/ sup' = [sup EXCEPT !.worker = w, !.flag = f]
      BY <1>4 DEF EndExecution
    <2>4. w \in Nat \cup {Null}
      BY <1>0 DEF TypeOK, Sups
    <2> HIDE DEF up, w, f
    <2>2. sup' \in Sups
      <3>1. CASE sup' = [sup EXCEPT !.worker = w, !.flag = f, !.launched = up]
        BY <1>0, <2>3, <2>4, <3>1, LocalsType DEF TypeOK
      <3>2. CASE sup' = [sup EXCEPT !.worker = w, !.flag = f]
        BY <1>0, <2>3, <2>4, <3>2, LocalsType DEF TypeOK
      <3> QED
        BY <2>3, <3>1, <3>2
    <2> QED
      BY <1>0, <1>4, <2>1, <2>2 DEF EndExecution, TypeInv, TypeOK, Located, Goto, proc
  <1>5. CASE LauncherEnters
    <2> DEFINE b == ~stop
    <2>1. b \in BOOLEAN /\ sup' = [sup EXCEPT !.go = b]
      BY <1>5 DEF LauncherEnters
    <2> HIDE DEF b
    <2>2. sup' \in Sups
      BY <1>0, <2>1, LocalsType DEF TypeOK
    <2>3. sup'.request = sup.request
      BY <1>0, <2>1 DEF TypeOK, Sups
    <2> QED
      BY <1>0, <1>5, <2>2, <2>3 DEF LauncherEnters, TakeGate, TypeInv, TypeOK, Located, Goto, disk
  <1>6. CASE LauncherDeclines
    <2>1. PICK v \in Nat \cup {Null} : sup' = [sup EXCEPT !.spawned = v]
      BY <1>6 DEF LauncherDeclines
    <2>2. sup' \in Sups
      BY <1>0, <2>1, LocalsType DEF TypeOK
    <2> QED
      BY <1>0, <1>6, <2>2 DEF LauncherDeclines, TypeInv, TypeOK, Located, Goto, disk
  <1>7. CASE Joined
    <2>1. sup.spawned \in Nat
      BY <1>0, <1>7 DEF Joined, TypeOK, Sups
    <2>2. sup' \in Sups
      BY <1>0, <1>7, <2>1 DEF Joined, TypeOK, Sups
    <2> QED
      BY <1>0, <1>7, <2>2 DEF Joined, TypeInv, TypeOK, Located, Goto, disk, proc, Statuses
  <1>8. CASE JoinedNone
    BY <1>0, <1>8 DEF JoinedNone, TypeInv, TypeOK, Located, Goto, disk, proc
  <1> QED
    BY <1>1, <1>2, <1>3, <1>4, <1>5, <1>6, <1>7, <1>8

LEMMA SpawnType ==
  ASSUME TypeInv, LauncherSpawns
  PROVE  TypeInv'
  <1>0. TypeOK /\ lives \in Nat /\ Located /\ sup.request \in Requests
    BY DEF TypeInv, Located, LauncherSpawns
  <1>1. Spawned(sup.request) \in Worker /\ Spawned(sup.request).cycle = sup.request.cycle
    BY <1>0 DEF Spawned, Worker, Requests
  <1>2. workers' = Append(workers, Spawned(sup.request))
    BY DEF LauncherSpawns
  <1>3. workers' \in Seq(Worker) /\ Len(workers') = Len(workers) + 1
        /\ \A w \in 1..Len(workers) : workers'[w] = workers[w]
        /\ workers'[Len(workers) + 1] = Spawned(sup.request)
    BY <1>0, <1>1, <1>2, AppendProperties DEF TypeOK
  <1>4. sup' \in Sups
    <2>1. Len(workers) + 1 \in Nat /\ sup' = [sup EXCEPT !.spawned = Len(workers) + 1]
      BY <1>0 DEF LauncherSpawns, TypeOK
    <2> QED
      BY <1>0, <2>1, LocalsType DEF TypeOK
  <1>5. \A w \in 1..Len(workers') : workers'[w].cycle # Null => workers'[w].cycle \in 1..Len(cycles)
    <2> SUFFICES ASSUME NEW w \in 1..Len(workers'), workers'[w].cycle # Null
                 PROVE  workers'[w].cycle \in 1..Len(cycles)
      OBVIOUS
    <2>1. CASE w \in 1..Len(workers)
      BY <1>0, <1>3, <2>1 DEF Located
    <2>2. CASE w = Len(workers) + 1
      BY <1>0, <1>1, <1>3, <2>2 DEF Located, LauncherSpawns
    <2> QED
      BY <1>0, <1>3, <2>1, <2>2 DEF TypeOK
  <1> QED
    BY <1>0, <1>3, <1>4, <1>5 DEF LauncherSpawns, TypeInv, TypeOK, Located, Goto, PCs

LEMMA SettleType ==
  ASSUME TypeInv, SettleSuccessor \/ SettleRetry \/ SettleIdle \/ SettleRescan \/ SettlePreTask
  PROVE  TypeInv'
  <1> USE DEF PCs
  <1>0. TypeOK /\ lives \in Nat /\ Located
    BY DEF TypeInv
  <1>1. CASE SettleSuccessor
    <2>1. sup' \in Sups
      BY <1>0, <1>1 DEF SettleSuccessor, TypeOK, Sups
    <2> QED
      BY <1>0, <1>1, <2>1 DEF SettleSuccessor, TypeInv, TypeOK, Located, Goto, disk, proc
  <1>2. CASE SettleRetry
    <2> DEFINE r == Request("seed", sup.queue, Null)
    <2>1. r \in Requests /\ r.cycle = Null
      BY <1>0 DEF Request, Requests, Modes, TypeOK, Sups
    <2>2. sup' \in Sups /\ sup'.request = r
      BY <1>0, <1>2, <2>1 DEF SettleRetry, TypeOK, Sups
    <2> QED
      BY <1>0, <1>2, <2>1, <2>2 DEF SettleRetry, TypeInv, TypeOK, Located, Goto, disk, proc
  <1>3. CASE SettleIdle \/ SettlePreTask
    BY <1>0, <1>3 DEF SettleIdle, SettlePreTask, TypeInv, TypeOK, Located, Goto, disk, proc
  <1>4. CASE SettleRescan
    <2>1. sup' \in Sups
      BY <1>0, <1>4 DEF SettleRescan, TypeOK, Sups
    <2> QED
      BY <1>0, <1>4, <2>1 DEF SettleRescan, TypeInv, TypeOK, Located, Goto, disk, proc
  <1> QED
    BY <1>1, <1>2, <1>3, <1>4

LEMMA RescanType ==
  ASSUME TypeInv, RescanInvalid \/ RescanTerminal \/ RescanActive
  PROVE  TypeInv'
  <1> USE DEF PCs, Statuses
  <1>0. TypeOK /\ lives \in Nat /\ Located
    BY DEF TypeInv
  <1>1. CASE RescanInvalid
    BY <1>0, <1>1 DEF RescanInvalid, Blocked, TypeInv, TypeOK, Located, Goto, disk, proc
  <1>2. CASE RescanTerminal
    <2>1. PICK c \in DOMAIN cycles, f \in {"rescan", "pre_task"} : sup' = [sup EXCEPT !.target = c, !.from = f]
      BY <1>2 DEF RescanTerminal
    <2>2. c \in Cycles
      BY <1>0 DEF TypeOK
    <2>3. sup' \in Sups /\ sup'.target \in Cycles
      BY <1>0, <2>1, <2>2 DEF TypeOK, Sups
    <2> QED
      BY <1>0, <1>2, <2>3 DEF RescanTerminal, TypeInv, TypeOK, Located, Goto, disk, proc
  <1>3. CASE RescanActive
    <2>1. PICK n \in {sup.restarts, sup.restarts + 1} :
            /\ sup' = [sup EXCEPT !.flag = FALSE, !.restarts = n]
            /\ n # sup.restarts => ~RestartsSpent
      BY <1>3, Zenon DEF RescanActive
    <2>2. n \in 0..MaxRestarts
      BY <1>0, <2>1 DEF RestartsSpent, TypeOK, Sups
    <2>3. sup' \in Sups
      BY <1>0, <2>1, <2>2 DEF TypeOK, Sups
    <2>4. status' \in Statuses /\ pc' \in {"finish", "loop"}
      BY <1>0, <1>3 DEF RescanActive, Blocked, Goto, TypeOK
    <2> QED
      BY <1>0, <1>3, <2>3, <2>4, LocalType DEF RescanActive, TypeOK, proc
  <1> QED
    BY <1>1, <1>2, <1>3

LEMMA SignalType ==
  ASSUME TypeInv, Signal \/ HandlerEnters \/ HandlerStops
  PROVE  TypeInv'
  <1> DEFINE H == {"want", "hold"}
  <1>0. TypeOK /\ lives \in Nat /\ Located /\ frames \in Seq(H)
    BY DEF TypeInv, TypeOK
  <1>1. CASE Signal
    <2>1. frames' \in Seq(H)
      BY <1>0, <1>1 DEF Signal
    <2> QED
      BY <1>0, <1>1, <2>1 DEF Signal, TypeInv, TypeOK, Located, disk
  <1>2. CASE HandlerEnters
    <2>1. Len(frames) \in 1..Len(frames) /\ frames' = [frames EXCEPT ![Len(frames)] = "hold"]
      BY <1>0, <1>2 DEF HandlerEnters
    <2>2. frames' \in Seq(H)
      BY <1>0, <2>1, ExceptSeq
    <2> QED
      BY <1>0, <1>2, <2>2 DEF HandlerEnters, TakeGate, TypeInv, TypeOK, Located, disk
  <1>3. CASE HandlerStops
    <2>1. frames' = SubSeq(frames, 1, Len(frames) - 1)
      BY <1>3 DEF HandlerStops
    <2>2. \A i \in 1..(Len(frames) - 1) : frames[i] \in H
      BY <1>0
    <2>3. frames' \in Seq(H)
      BY <1>0, <2>1, <2>2, SubSeqProperties
    <2> QED
      BY <1>0, <1>3, <2>3 DEF HandlerStops, TypeInv, TypeOK, Located, disk
  <1> QED
    BY <1>1, <1>2, <1>3

LEMMA EvidenceType ==
  ASSUME TypeInv, NEW w \in DOMAIN workers, Has(w), NEW e \in Evidence, SetEvid(w, e), UNCHANGED <<workers, Outside>>
  PROVE  TypeInv'
  <1>0. TypeOK /\ lives \in Nat /\ Located /\ w \in 1..Len(workers)
    BY DEF TypeInv, TypeOK
  <1> DEFINE c == workers[w].cycle
  <1>1. c \in 1..Len(cycles) /\ cycles \in Seq(Cycle)
    BY <1>0 DEF Has, Located, TypeOK
  <1>2. [cycles[c] EXCEPT !.ev = e] \in Cycle
    <2>1. cycles[c] \in Cycle
      BY <1>1, ElementOfSeq
    <2> HIDE DEF c
    <2> QED
      BY <2>1 DEF Cycle
  <1>3. cycles' = [cycles EXCEPT ![c] = [cycles[c] EXCEPT !.ev = e]]
    BY DEF SetEvid
  <1>4. cycles' \in Seq(Cycle) /\ Len(cycles') = Len(cycles)
    BY <1>1, <1>2, <1>3, ExceptSeq
  <1> QED
    BY <1>0, <1>4 DEF TypeInv, TypeOK, Located, Outside

LEMMA WorkerType ==
  ASSUME TypeInv, NEW w \in DOMAIN workers, WorkerStep(w)
  PROVE  TypeInv'
  <1>0. TypeOK /\ lives \in Nat /\ Located /\ w \in 1..Len(workers) /\ workers[w] \in Worker
    BY DEF TypeInv, TypeOK
  <1>1. CASE MakeCycle(w)
    <2>1. cycles' = Append(cycles, [queue |-> workers[w].queue, ev |-> "bare"])
      BY <1>1 DEF MakeCycle
    <2>2. [queue |-> workers[w].queue, ev |-> "bare"] \in Cycle
      BY <1>0 DEF Cycle, Evidence, Worker
    <2>3. cycles' \in Seq(Cycle) /\ Len(cycles') = Len(cycles) + 1 /\ Len(cycles') <= MaxCycles
      BY <1>0, <1>1, <2>1, <2>2, AppendProperties DEF MakeCycle, TypeOK
    <2>4. Len(cycles) + 1 \in Cycles /\ Len(cycles) \in Nat
      BY <1>0, <1>1 DEF MakeCycle, TypeOK
    <2>5. [workers[w] EXCEPT !.cycle = Len(cycles) + 1] \in Worker
      BY <1>0, <2>4 DEF Worker
    <2>6. workers' = [workers EXCEPT ![w] = [workers[w] EXCEPT !.cycle = Len(cycles) + 1]]
      BY <1>1 DEF MakeCycle
    <2>7. /\ workers' \in Seq(Worker) /\ Len(workers') = Len(workers)
          /\ \A v \in 1..Len(workers) : v # w => workers'[v] = workers[v]
          /\ workers'[w].cycle = Len(cycles) + 1
      BY <1>0, <2>5, <2>6, ExceptSeq DEF TypeOK, Worker
    <2>8. \A v \in 1..Len(workers') : workers'[v].cycle # Null => workers'[v].cycle \in 1..Len(cycles')
      <3> SUFFICES ASSUME NEW v \in 1..Len(workers'), workers'[v].cycle # Null
                   PROVE  workers'[v].cycle \in 1..Len(cycles')
        OBVIOUS
      <3>1. CASE v = w
        BY <2>3, <2>4, <2>7, <3>1
      <3>2. CASE v # w
        BY <1>0, <2>3, <2>4, <2>7, <3>2 DEF Located
      <3> QED
        BY <3>1, <3>2
    <2>9. sup.request.cycle \in 1..Len(cycles) => sup.request.cycle \in 1..Len(cycles')
      BY <2>3, <2>4
    <2> QED
      BY <1>0, <1>1, <2>3, <2>7, <2>8, <2>9 DEF MakeCycle, TypeInv, TypeOK, Located, Outside
  <1>2. CASE WriteCheckpoint(w) \/ WriteReceipt(w) \/ SealReceipt(w)
    <2>1. PICK e \in Evidence : SetEvid(w, e)
      BY <1>2 DEF WriteCheckpoint, WriteReceipt, SealReceipt, Evidence, Terminal
    <2> QED
      BY <1>2, <2>1, EvidenceType DEF WriteCheckpoint, WriteReceipt, SealReceipt
  <1>3. CASE Exit(w)
    <2>1. PICK ok \in BOOLEAN : workers' = [workers EXCEPT ![w].alive = FALSE, ![w].ok = ok]
      BY <1>3 DEF Exit
    <2>2. workers' = [workers EXCEPT ![w] = [workers[w] EXCEPT !.alive = FALSE, !.ok = ok]]
      BY <1>0, <2>1
    <2>3. [workers[w] EXCEPT !.alive = FALSE, !.ok = ok] \in Worker
      BY <1>0 DEF Worker
    <2>4. /\ workers' \in Seq(Worker) /\ Len(workers') = Len(workers)
          /\ \A v \in 1..Len(workers) : workers'[v].cycle = workers[v].cycle
      BY <1>0, <2>2, <2>3, ExceptSeq DEF TypeOK, Worker
    <2> QED
      BY <1>0, <1>3, <2>4 DEF Exit, TypeInv, TypeOK, Located, Outside
  <1> QED
    BY <1>1, <1>2, <1>3 DEF WorkerStep

LEMMA StepType == TypeInv /\ [Next]_vars => TypeInv'
  <1> SUFFICES ASSUME TypeInv, [Next]_vars PROVE TypeInv'
    OBVIOUS
  <1>1. CASE UNCHANGED vars
    BY <1>1 DEF vars, TypeInv, TypeOK, Located
  <1>2. CASE MainStep
    BY <1>2, LoopType, ScanType, CoordinateType, LaunchType, SettleType, RescanType DEF MainStep
  <1>3. CASE LauncherStep
    BY <1>3, LaunchType, SpawnType DEF LauncherStep
  <1>4. CASE Start \/ Heartbeat \/ Kill
    BY <1>4, LoopType
  <1>5. CASE Signal \/ HandlerStep
    BY <1>5, SignalType DEF HandlerStep
  <1>6. CASE \E w \in DOMAIN workers : WorkerStep(w)
    BY <1>6, WorkerType
  <1> QED
    BY <1>1, <1>2, <1>3, <1>4, <1>5, <1>6 DEF Next

LEMMA AlwaysTyped == Spec => []TypeInv
  BY InitType, StepType, PTL DEF Spec

(* The supervisor, its campaign and its workers keep to the values the     *)
(* code can give them: a terminal event that is answered names a cycle, a  *)
(* worker a cycle directory that exists, the restarts stay in their budget.*)
THEOREM TypeCorrect == Spec => []TypeOK
  BY AlwaysTyped, PTL DEF TypeInv

(***************************************************************************)
(* The launch gate.                                                        *)
(***************************************************************************)
LEMMA MainQuiet ==
  ASSUME MainStep \/ Heartbeat
  PROVE  pc # "gated" /\ pc' # "gated" /\ UNCHANGED <<workers, gate, stop, frames, lives>>
  <1> USE DEF At, Goto, disk, proc
  <1>1. CASE Loop \/ ScanFlagged \/ ScanBlocked \/ ScanTerminal \/ ScanLaunch
    BY <1>1 DEF Loop, ScanFlagged, ScanBlocked, ScanTerminal, ScanLaunch
  <1>2. CASE WriteTerminal \/ CoordinateFails \/ CoordinateBlocked \/ CoordinateKnown \/ CoordinatePlans
    BY <1>2 DEF WriteTerminal, CoordinateFails, CoordinateBlocked, CoordinateKnown, CoordinatePlans, Replan
  <1>3. CASE Persist \/ PersistFails
    BY <1>3 DEF Persist, PersistFails, Replan
  <1>4. CASE ClaimFails \/ ReportExecution \/ BeginExecution \/ EndExecution \/ Joined \/ JoinedNone
    BY <1>4 DEF ClaimFails, ReportExecution, BeginExecution, EndExecution, Joined, JoinedNone
  <1>5. CASE SettleSuccessor \/ SettleRetry \/ SettleIdle \/ SettleRescan \/ SettlePreTask
    BY <1>5 DEF SettleSuccessor, SettleRetry, SettleIdle, SettleRescan, SettlePreTask, Settled
  <1>6. CASE WorkerEnded \/ RescanInvalid \/ RescanTerminal \/ RescanActive \/ Finish \/ Heartbeat
    BY <1>6 DEF WorkerEnded, RescanInvalid, RescanTerminal, RescanActive, Finish, Heartbeat, Blocked
  <1> QED
    BY <1>1, <1>2, <1>3, <1>4, <1>5, <1>6 DEF MainStep

LEMMA WorkersKept ==
  ASSUME TypeInv, NEW w \in DOMAIN workers, WorkerStep(w)
  PROVE  /\ Len(workers') = Len(workers) /\ DOMAIN workers' = DOMAIN workers
         /\ \A v \in DOMAIN workers : workers'[v].mode = workers[v].mode /\ workers'[v].queue = workers[v].queue
         /\ UNCHANGED Outside
  <1>1. /\ workers \in Seq(Worker) /\ w \in 1..Len(workers) /\ workers[w] \in Worker
        /\ DOMAIN workers = 1..Len(workers)
    BY DEF TypeInv, TypeOK
  <1>2. PICK v \in [queue : {workers[w].queue}, mode : {workers[w].mode}, cycle : Cycles \cup {Null}, life : Nat,
                    alive : BOOLEAN, ok : BOOLEAN] : workers' = [workers EXCEPT ![w] = v]
    <2>1. CASE MakeCycle(w)
      <3>1. Len(cycles) + 1 \in Cycles
        BY <2>1 DEF MakeCycle, TypeInv, TypeOK
      <3> QED
        BY <1>1, <2>1, <3>1 DEF MakeCycle, Worker
    <2>2. CASE WriteCheckpoint(w) \/ WriteReceipt(w) \/ SealReceipt(w)
      BY <1>1, <2>2 DEF WriteCheckpoint, WriteReceipt, SealReceipt, Worker
    <2>3. CASE Exit(w)
      BY <1>1, <2>3 DEF Exit, Worker
    <2> QED
      BY <2>1, <2>2, <2>3 DEF WorkerStep
  <1>3. v \in Worker /\ v.mode = workers[w].mode /\ v.queue = workers[w].queue
    BY <1>1, <1>2 DEF Worker
  <1>4. UNCHANGED Outside
    BY DEF WorkerStep, MakeCycle, WriteCheckpoint, WriteReceipt, SealReceipt, Exit
  <1> QED
    BY <1>1, <1>2, <1>3, <1>4, ExceptSeq

(* The gate has one holder, the launcher or the innermost of the handlers  *)
(* that got it, and what the launcher saw of the stop event stays true     *)
(* while it holds the gate.                                                *)
GateInv ==
  /\ pc = "gated" <=> gate = "launcher"
  /\ \A i \in 1..Len(frames) : frames[i] = "hold" => gate = "handler"
  /\ \A i, j \in 1..Len(frames) : frames[i] = "hold" /\ frames[j] = "hold" => i = j
  /\ pc = "gated" /\ sup.go => ~stop

LEMMA GateStep == TypeInv /\ GateInv /\ [Next]_vars => GateInv'
  <1> SUFFICES ASSUME TypeInv, GateInv, [Next]_vars PROVE GateInv'
    OBVIOUS
  <1>0. frames \in Seq({"want", "hold"})
    BY DEF TypeInv, TypeOK
  <1>1. CASE UNCHANGED vars
    BY <1>1 DEF vars, GateInv
  <1>2. CASE MainStep \/ Heartbeat
    BY <1>2, MainQuiet DEF GateInv
  <1>3. CASE LauncherEnters
    <2>1. sup'.go = ~stop
      BY <1>3 DEF LauncherEnters, TypeInv, TypeOK, Sups
    <2> QED
      BY <1>3, <2>1 DEF LauncherEnters, TakeGate, Goto, GateInv
  <1>4. CASE LauncherSpawns \/ LauncherDeclines
    BY <1>4 DEF LauncherSpawns, LauncherDeclines, Goto, GateInv
  <1>5. CASE Start \/ Kill
    BY <1>5 DEF Start, Kill, Goto, GateInv
  <1>6. CASE Signal
    <2>1. /\ Len(frames') = Len(frames) + 1
          /\ \A i \in 1..Len(frames) : frames'[i] = frames[i]
          /\ frames'[Len(frames) + 1] = "want"
      BY <1>0, <1>6, AppendProperties DEF Signal
    <2>2. \A i \in 1..Len(frames') : frames'[i] = "hold" => i \in 1..Len(frames) /\ frames[i] = "hold"
      BY <1>0, <2>1
    <2> QED
      BY <1>6, <2>2 DEF Signal, GateInv
  <1>7. CASE HandlerEnters
    <2> DEFINE n == Len(frames)
    <2>1. n \in 1..n /\ frames' = [frames EXCEPT ![n] = "hold"] /\ gate = "free" /\ gate' = "handler" /\ UNCHANGED <<pc, sup, stop>>
      BY <1>0, <1>7 DEF HandlerEnters, TakeGate
    <2>2. \A i \in 1..n : frames[i] # "hold"
      BY <2>1 DEF GateInv
    <2>3. Len(frames') = n /\ \A i \in 1..n : frames'[i] = "hold" => i = n
      BY <1>0, <2>1, <2>2, ExceptSeq
    <2> QED
      BY <2>1, <2>3 DEF GateInv
  <1>8. CASE HandlerStops
    <2> DEFINE n == Len(frames)
    <2>1. /\ n \in 1..n /\ frames[n] = "hold" /\ frames' = SubSeq(frames, 1, n - 1)
          /\ stop' /\ gate' = "free" /\ UNCHANGED <<pc, sup>>
      BY <1>0, <1>8 DEF HandlerStops, Top
    <2>2. pc # "gated"
      BY <2>1 DEF GateInv
    <2>3. \A i \in 1..Len(frames') : frames'[i] # "hold"
      <3>1. Len(frames') = n - 1 /\ \A i \in 1..(n - 1) : frames'[i] = frames[i]
        <4>1. \A i \in 1..(n - 1) : frames[i] \in {"want", "hold"}
          BY <1>0
        <4>2. n \in Nat /\ 1 \in Int /\ n - 1 \in Int
          BY <1>0
        <4>3. /\ Len(SubSeq(frames, 1, n - 1)) = IF 1 <= n - 1 THEN n - 1 - 1 + 1 ELSE 0
              /\ \A i \in 1..(n - 1 - 1 + 1) : SubSeq(frames, 1, n - 1)[i] = frames[1 + i - 1]
          BY <4>1, <4>2, SubSeqProperties
        <4> QED
          <5> HIDE DEF n
          <5>1. Len(frames') = n - 1
            BY <2>1, <4>2, <4>3
          <5>2. \A i \in 1..(n - 1) : frames'[i] = frames[i]
            <6> SUFFICES ASSUME NEW i \in 1..(n - 1) PROVE frames'[i] = frames[i]
              OBVIOUS
            <6>1. i \in 1..(n - 1 - 1 + 1) /\ 1 + i - 1 = i
              BY <4>2
            <6> QED
              BY <2>1, <4>3, <6>1
          <5> QED
            BY <5>1, <5>2
      <3>2. \A i \in 1..(n - 1) : frames[i] # "hold"
        BY <1>0, <2>1 DEF GateInv
      <3> QED
        BY <3>1, <3>2
    <2> QED
      BY <2>1, <2>2, <2>3 DEF GateInv
  <1>9. CASE \E w \in DOMAIN workers : WorkerStep(w)
    BY <1>9, WorkersKept DEF GateInv, Outside
  <1> QED
    BY <1>1, <1>2, <1>3, <1>4, <1>5, <1>6, <1>7, <1>8, <1>9 DEF Next, LauncherStep, HandlerStep

(* Once the handler of a shutdown signal has returned no worker is spawned:*)
(* the stop event is set, and looked at before Popen, under the same gate. *)
THEOREM NoneAfterStop == Spec => NoSpawnAfterStop
  <1>1. Init => GateInv
    BY DEF Init, GateInv
  <1>2. TypeInv /\ GateInv /\ [Next]_vars => [stop => Len(workers') = Len(workers)]_vars
    <2> SUFFICES ASSUME TypeInv, GateInv, Next, stop PROVE Len(workers') = Len(workers)
      BY DEF vars
    <2>1. CASE MainStep \/ Heartbeat
      BY <2>1, MainQuiet
    <2>2. ~LauncherSpawns
      BY DEF LauncherSpawns, GateInv
    <2>3. CASE LauncherEnters \/ LauncherDeclines \/ Start \/ Kill \/ Signal \/ HandlerStep
      BY <2>3 DEF LauncherEnters, LauncherDeclines, Start, Kill, Signal, HandlerStep, HandlerEnters, HandlerStops, disk
    <2>4. CASE \E w \in DOMAIN workers : WorkerStep(w)
      BY <2>4, WorkersKept
    <2> QED
      BY <2>1, <2>2, <2>3, <2>4 DEF Next, LauncherStep
  <1> QED
    BY <1>1, <1>2, GateStep, AlwaysTyped, PTL DEF Spec, NoSpawnAfterStop

(***************************************************************************)
(* The campaign.                                                           *)
(***************************************************************************)
LEMMA MainWrites ==
  ASSUME MainStep \/ Heartbeat
  PROVE  /\ UNCHANGED attempts \/ CoordinatePlans \/ Persist
         /\ UNCHANGED execution \/ BeginExecution \/ EndExecution
  <1> USE DEF disk
  <1>1. CASE Loop \/ ScanFlagged \/ ScanBlocked \/ ScanTerminal \/ ScanLaunch
    BY <1>1 DEF Loop, ScanFlagged, ScanBlocked, ScanTerminal, ScanLaunch
  <1>2. CASE WriteTerminal \/ CoordinateFails \/ CoordinateBlocked \/ CoordinateKnown \/ CoordinatePlans
    BY <1>2 DEF WriteTerminal, CoordinateFails, CoordinateBlocked, CoordinateKnown, CoordinatePlans
  <1>3. CASE Persist \/ PersistFails
    BY <1>3 DEF Persist, PersistFails
  <1>4. CASE ClaimFails \/ ReportExecution \/ BeginExecution \/ EndExecution \/ Joined \/ JoinedNone
    BY <1>4 DEF ClaimFails, ReportExecution, BeginExecution, EndExecution, Joined, JoinedNone
  <1>5. CASE SettleSuccessor \/ SettleRetry \/ SettleIdle \/ SettleRescan \/ SettlePreTask
    BY <1>5 DEF SettleSuccessor, SettleRetry, SettleIdle, SettleRescan, SettlePreTask
  <1>6. CASE WorkerEnded \/ RescanInvalid \/ RescanTerminal \/ RescanActive \/ Finish \/ Heartbeat
    BY <1>6 DEF WorkerEnded, RescanInvalid, RescanTerminal, RescanActive, Finish, Heartbeat
  <1> QED
    BY <1>1, <1>2, <1>3, <1>4, <1>5, <1>6 DEF MainStep

LEMMA OthersWrite ==
  ASSUME TypeInv, Start \/ LauncherStep \/ Signal \/ HandlerStep \/ Kill \/ (\E w \in DOMAIN workers : WorkerStep(w))
  PROVE  UNCHANGED <<attempts, execution>>
  <1>1. CASE \E w \in DOMAIN workers : WorkerStep(w)
    BY <1>1, WorkersKept DEF Outside
  <1>2. CASE LauncherStep
    BY <1>2 DEF LauncherStep, LauncherEnters, LauncherSpawns, LauncherDeclines, disk
  <1>3. CASE Start \/ Signal \/ HandlerStep \/ Kill
    BY <1>3 DEF Start, Signal, HandlerStep, HandlerEnters, HandlerStops, Kill, disk
  <1> QED
    BY <1>1, <1>2, <1>3

LEMMA OrderStep == TypeInv /\ EventsInOrder /\ [Next]_vars => EventsInOrder'
  <1> SUFFICES ASSUME TypeInv, EventsInOrder, [Next]_vars PROVE EventsInOrder'
    OBVIOUS
  <1>0. /\ attempts \in Seq(Attempt) /\ DOMAIN attempts = 1..Len(attempts) /\ Len(attempts) \in Nat
        /\ \A n \in DOMAIN attempts : attempts[n].cycle \in Nat
    <2>1. attempts \in Seq(Attempt)
      BY DEF TypeInv, TypeOK
    <2>2. \A n \in 1..Len(attempts) : attempts[n] \in Attempt
      BY <2>1, ElementOfSeq
    <2> QED
      BY <2>1, <2>2 DEF Attempt
  <1>1. CASE UNCHANGED attempts
    BY <1>1 DEF EventsInOrder
  <1>2. CASE CoordinatePlans
    <2>1. PICK a \in Attempt : /\ attempts' = Append(attempts, a) /\ a.cycle = sup.target /\ a.cycle \in Nat
                               /\ attempts # <<>> => sup.target > attempts[Len(attempts)].cycle
      BY <1>2 DEF CoordinatePlans, Unanswered, Fresh, At, TypeInv, Located, Attempt, Stages
    <2>2. /\ Len(attempts') = Len(attempts) + 1 /\ DOMAIN attempts' = 1..(Len(attempts) + 1)
          /\ \A n \in 1..Len(attempts) : attempts'[n] = attempts[n]
          /\ attempts'[Len(attempts) + 1] = a
      BY <1>0, <2>1, AppendProperties
    <2>3. \A m \in DOMAIN attempts : attempts[m].cycle < a.cycle
      BY <1>0, <2>1 DEF EventsInOrder
    <2> QED
      BY <1>0, <2>2, <2>3 DEF EventsInOrder
  <1>3. CASE Persist /\ ~UNCHANGED attempts
    <2> DEFINE n == Len(attempts)
    <2>1. attempts' = [attempts EXCEPT ![n] = [attempts[n] EXCEPT !.stage = NextStage(attempts[n])]]
      BY <1>3 DEF Persist
    <2>2. n \in DOMAIN attempts /\ attempts[n] \in Attempt
      BY <1>0, <1>3, ElementOfSeq DEF Persist, At, TypeInv, Located
    <2>3. [attempts[n] EXCEPT !.stage = NextStage(attempts[n])] \in Attempt
      BY <2>2, NextStageType
    <2>4. DOMAIN attempts' = DOMAIN attempts /\ \A m \in DOMAIN attempts : attempts'[m].cycle = attempts[m].cycle
      BY <1>0, <2>1, <2>2, <2>3, ExceptSeq DEF Attempt
    <2> QED
      BY <2>4 DEF EventsInOrder
  <1> QED
    BY <1>1, <1>2, <1>3, MainWrites, OthersWrite DEF Next, vars

(* A terminal event is answered by one attempt at most, whatever number of *)
(* supervisors is killed and started again, and the attempts answer ever   *)
(* later events.                                                           *)
THEOREM Ordered == Spec => []EventsInOrder
  <1>1. Init => EventsInOrder
    BY DEF Init, EventsInOrder
  <1> QED
    BY <1>1, OrderStep, AlwaysTyped, PTL DEF Spec

(***************************************************************************)
(* The launch of a successor.                                              *)
(***************************************************************************)
Successors == 1..MaxReplans
Launching  == sup.attempt \in Successors /\ execution[sup.attempt] = "launching"

(* The record of a launch and the workers that run for it agree, and from  *)
(* the claim on the main thread works on a launch that it began itself.    *)
LaunchInv ==
  /\ \A n \in Successors :
       /\ execution[n] \in {Null, "launch_uncertain"} => Started(n) = {}
       /\ execution[n] = "launched" => \E w : Started(n) = {w}
  /\ pc = "claim" => sup.attempt \in Successors
  /\ pc \in {"spawn", "gated"} /\ sup.request.mode = "successor" =>
       Launching /\ sup.request.queue = sup.attempt /\ Started(sup.attempt) = {}
  /\ pc = "joined" /\ sup.request.mode = "successor" =>
       /\ Launching
       /\ Started(sup.attempt) = IF sup.spawned \in DOMAIN workers THEN {sup.spawned} ELSE {}

LEMMA StartedKept ==
  ASSUME DOMAIN workers' = DOMAIN workers,
         \A v \in DOMAIN workers : workers'[v].mode = workers[v].mode /\ workers'[v].queue = workers[v].queue
  PROVE  \A n : Started(n)' = Started(n)
  BY DEF Started

LEMMA MainLaunch ==
  ASSUME TypeInv, MainStep \/ Heartbeat
  PROVE  \/ pc' \notin {"claim", "spawn", "gated", "joined"}
         \/ pc' = "claim" /\ sup'.attempt \in Successors
         \/ pc' = "spawn" /\ sup'.request.mode # "successor"
         \/ BeginExecution
  <1> USE DEF At, Goto
  <1>0. TypeOK
    BY DEF TypeInv
  <1>1. CASE Loop \/ ScanFlagged \/ ScanBlocked \/ ScanTerminal \/ WriteTerminal \/ CoordinatePlans
    BY <1>1 DEF Loop, ScanFlagged, ScanBlocked, ScanTerminal, WriteTerminal, CoordinatePlans
  <1>2. CASE ScanLaunch
    <2>1. PICK r \in Launchables : sup' = [sup EXCEPT !.observed = sup.queue, !.request = r]
      BY <1>2 DEF ScanLaunch
    <2>2. r.mode # "successor"
      BY <2>1 DEF Launchables, Request
    <2> QED
      BY <1>0, <1>2, <2>1, <2>2 DEF ScanLaunch, TypeOK, Sups
  <1>3. CASE CoordinateFails \/ CoordinateBlocked \/ PersistFails
    BY <1>3 DEF CoordinateFails, CoordinateBlocked, PersistFails, Replan
  <1>4. CASE CoordinateKnown
    <2>1. PICK n \in Known : Replan(attempts[n].decision, n)
      BY <1>4 DEF CoordinateKnown
    <2>2. n \in Successors /\ n \in Queues /\ attempts[n].decision \in Decisions
      BY AnswerType DEF Known, Answers, Successors, Queues
    <2> QED
      BY <2>1, <2>2, ReplanType
  <1>5. CASE Persist
    <2>1. CASE UNCHANGED pc
      BY <1>5, <2>1 DEF Persist
    <2>2. CASE ~UNCHANGED pc
      <3>1. Replan(attempts[Len(attempts)].decision, Len(attempts))
        BY <1>5, <2>2 DEF Persist
      <3>2. Len(attempts) \in DOMAIN attempts
        BY <1>0, <1>5 DEF Persist, TypeInv, Located, TypeOK
      <3>3. Len(attempts) \in Successors /\ Len(attempts) \in Queues /\ attempts[Len(attempts)].decision \in Decisions
        BY <3>2, AnswerType DEF Successors, Queues
      <3> QED
        BY <3>1, <3>3, ReplanType
    <2> QED
      BY <2>1, <2>2
  <1>6. CASE ClaimFails \/ ReportExecution \/ BeginExecution \/ EndExecution \/ Joined \/ JoinedNone
    BY <1>6 DEF ClaimFails, ReportExecution, EndExecution, Joined, JoinedNone
  <1>7. CASE SettleRetry
    <2>1. sup' = [sup EXCEPT !.seedUsed = TRUE, !.request = Request("seed", sup.queue, Null)]
      BY <1>7 DEF SettleRetry
    <2>2. sup'.request.mode # "successor"
      BY <1>0, <2>1 DEF TypeOK, Sups, Request
    <2> QED
      BY <1>7, <2>2 DEF SettleRetry
  <1>8. CASE SettleSuccessor \/ SettleIdle \/ SettleRescan \/ SettlePreTask
    BY <1>8 DEF SettleSuccessor, SettleIdle, SettleRescan, SettlePreTask
  <1>9. CASE WorkerEnded \/ RescanInvalid \/ RescanTerminal \/ RescanActive \/ Finish \/ Heartbeat
    BY <1>9 DEF WorkerEnded, RescanInvalid, RescanTerminal, RescanActive, Finish, Heartbeat, Blocked
  <1> QED
    BY <1>1, <1>2, <1>3, <1>4, <1>5, <1>6, <1>7, <1>8, <1>9 DEF MainStep

LEMMA SpawnedWorker ==
  ASSUME TypeInv, LauncherSpawns
  PROVE  LET r == sup.request
             k == Len(workers) + 1
         IN  /\ DOMAIN workers' = DOMAIN workers \cup {k} /\ k \notin DOMAIN workers
             /\ sup'.spawned = k /\ sup'.request = r /\ sup'.attempt = sup.attempt
             /\ \A n : Started(n)' = IF r.mode = "successor" /\ r.queue = n THEN Started(n) \cup {k} ELSE Started(n)
  <1> DEFINE r == sup.request
             k == Len(workers) + 1
  <1>1. TypeOK /\ r \in Requests /\ lives \in Nat /\ Len(workers) \in Nat /\ DOMAIN workers = 1..Len(workers)
    BY DEF TypeInv, Located, LauncherSpawns, TypeOK
  <1>2. Spawned(r) \in Worker /\ Spawned(r).mode = r.mode /\ Spawned(r).queue = r.queue
    BY <1>1 DEF Spawned, Worker, Requests
  <1>3. workers' = Append(workers, Spawned(r)) /\ workers \in Seq(Worker)
    BY <1>1 DEF LauncherSpawns, TypeOK
  <1>4. /\ workers' \in Seq(Worker) /\ Len(workers') = k
        /\ \A v \in DOMAIN workers : workers'[v] = workers[v]
        /\ workers'[k] = Spawned(r)
    BY <1>1, <1>2, <1>3, AppendProperties
  <1>5. DOMAIN workers' = DOMAIN workers \cup {k} /\ k \notin DOMAIN workers
    BY <1>1, <1>4
  <1>6. sup'.spawned = k /\ sup'.request = r /\ sup'.attempt = sup.attempt
    BY <1>1 DEF LauncherSpawns, TypeOK, Sups
  <1>7. ASSUME NEW n
        PROVE  Started(n)' = IF r.mode = "successor" /\ r.queue = n THEN Started(n) \cup {k} ELSE Started(n)
    BY <1>2, <1>4, <1>5 DEF Started
  <1> QED
    BY <1>5, <1>6, <1>7

LEMMA LaunchStep == TypeInv /\ LaunchInv /\ [Next]_vars => LaunchInv'
  <1> SUFFICES ASSUME TypeInv, LaunchInv, [Next]_vars PROVE LaunchInv'
    OBVIOUS
  <1>0. TypeOK /\ execution \in [Successors -> Executions]
    BY DEF TypeInv, TypeOK, Successors
  <1>1. CASE UNCHANGED vars
    BY <1>1 DEF vars, LaunchInv, Launching, Started
  <1>2. CASE (MainStep \/ Heartbeat) /\ UNCHANGED execution /\ ~BeginExecution
    <2>1. UNCHANGED workers
      BY <1>2, MainQuiet
    <2>2. \A n : Started(n)' = Started(n)
      BY <2>1 DEF Started
    <2>3. /\ pc' = "claim" => sup'.attempt \in Successors
          /\ pc' \in {"spawn", "gated"} => sup'.request.mode # "successor"
          /\ pc' # "joined"
      BY <1>2, MainLaunch
    <2> QED
      BY <1>2, <2>2, <2>3 DEF LaunchInv
  <1>3. CASE BeginExecution
    <2> DEFINE a == sup.attempt
    <2>1. a \in Successors /\ execution[a] = Null /\ execution' = [execution EXCEPT ![a] = "launching"]
          /\ sup' = [sup EXCEPT !.request = Request("successor", a, Null)] /\ pc' = "spawn" /\ UNCHANGED workers
      BY <1>3 DEF BeginExecution, Unexecuted, At, Goto, LaunchInv
    <2>2. \A n : Started(n)' = Started(n)
      BY <2>1 DEF Started
    <2>3. Started(a) = {}
      BY <2>1 DEF LaunchInv
    <2>4. sup'.attempt = a /\ sup'.request.queue = a
      BY <1>0, <2>1 DEF TypeOK, Sups, Request
    <2>5. /\ execution'[a] = "launching" /\ "launching" \notin {Null, "launched", "launch_uncertain"}
          /\ \A n \in Successors : n # a => execution'[n] = execution[n]
      BY <1>0, <2>1
    <2> QED
      BY <2>1, <2>2, <2>3, <2>4, <2>5 DEF LaunchInv, Launching
  <1>4. CASE EndExecution
    <2> DEFINE a  == sup.attempt
               up == sup.spawned \in DOMAIN workers
    <2>1. /\ UNCHANGED workers /\ pc' = "settled"
          /\ Launching /\ Started(a) = IF up THEN {sup.spawned} ELSE {}
          /\ execution' \in {execution, [execution EXCEPT ![a] = IF up THEN "launched" ELSE "launch_uncertain"]}
      BY <1>4 DEF EndExecution, At, Goto, LaunchInv
    <2>2. \A n : Started(n)' = Started(n)
      BY <2>1 DEF Started
    <2>3. \A n \in Successors : execution'[n] # execution[n] =>
            n = a /\ execution'[n] = IF up THEN "launched" ELSE "launch_uncertain"
      BY <1>0, <2>1
    <2> QED
      BY <2>1, <2>2, <2>3 DEF LaunchInv
  <1>5. CASE LauncherEnters
    <2>1. UNCHANGED <<workers, execution>> /\ pc = "spawn" /\ pc' = "gated"
      BY <1>5 DEF LauncherEnters, Goto, disk
    <2>2. sup'.attempt = sup.attempt /\ sup'.request = sup.request
      BY <1>0, <1>5 DEF LauncherEnters, TypeOK, Sups
    <2> QED
      BY <2>1, <2>2 DEF LaunchInv, Launching, Started
  <1>6. CASE LauncherDeclines
    <2>1. UNCHANGED <<workers, execution>> /\ pc = "gated" /\ pc' = "joined"
      BY <1>6 DEF LauncherDeclines, Goto, disk
    <2>2. sup'.attempt = sup.attempt /\ sup'.request = sup.request /\ sup'.spawned \in {Null, 0}
      BY <1>0, <1>6 DEF LauncherDeclines, TypeOK, Sups
    <2>3. Null \notin DOMAIN workers /\ 0 \notin DOMAIN workers
      BY <1>0 DEF TypeOK
    <2> QED
      BY <2>1, <2>2, <2>3 DEF LaunchInv, Launching, Started
  <1>7. CASE LauncherSpawns
    <2> DEFINE a == sup.attempt
               r == sup.request
               k == Len(workers) + 1
    <2>1. UNCHANGED execution /\ pc = "gated" /\ pc' = "joined"
      BY <1>7 DEF LauncherSpawns, Goto
    <2>2. /\ k \in DOMAIN workers' /\ sup'.spawned = k /\ sup'.request = r /\ sup'.attempt = a
          /\ \A n : Started(n)' = IF r.mode = "successor" /\ r.queue = n THEN Started(n) \cup {k} ELSE Started(n)
      BY <1>7, SpawnedWorker
    <2>3. CASE r.mode # "successor"
      BY <2>1, <2>2, <2>3 DEF LaunchInv
    <2>4. CASE r.mode = "successor"
      <3>1. Launching /\ r.queue = a /\ Started(a) = {}
        BY <2>1, <2>4 DEF LaunchInv
      <3>2. Started(a)' = {k} /\ \A n : n # a => Started(n)' = Started(n)
        BY <2>2, <2>4, <3>1
      <3>3. execution[a] \notin {Null, "launch_uncertain", "launched"}
        BY <3>1 DEF Launching
      <3> QED
        BY <2>1, <2>2, <3>1, <3>2, <3>3 DEF LaunchInv, Launching
    <2> QED
      BY <2>3, <2>4
  <1>8. CASE Start \/ Kill
    <2>1. UNCHANGED <<workers, execution>> /\ pc' \in {"off", "loop"}
      BY <1>8 DEF Start, Kill, Goto, disk
    <2>2. \A n : Started(n)' = Started(n)
      BY <2>1 DEF Started
    <2> QED
      BY <2>1, <2>2 DEF LaunchInv
  <1>9. CASE Signal \/ HandlerStep
    <2>1. UNCHANGED <<workers, execution, pc, sup>>
      BY <1>9 DEF Signal, HandlerStep, HandlerEnters, HandlerStops, disk
    <2> QED
      BY <2>1 DEF LaunchInv, Launching, Started
  <1>10. CASE \E w \in DOMAIN workers : WorkerStep(w)
    <2>1. DOMAIN workers' = DOMAIN workers /\ UNCHANGED Outside
      BY <1>10, WorkersKept
    <2>2. \A n : Started(n)' = Started(n)
      BY <1>10, WorkersKept, StartedKept
    <2> QED
      BY <2>1, <2>2 DEF LaunchInv, Launching, Outside
  <1>11. MainStep \/ Heartbeat => UNCHANGED execution \/ BeginExecution \/ EndExecution
    BY MainWrites
  <1> QED
    BY <1>1, <1>2, <1>3, <1>4, <1>5, <1>6, <1>7, <1>8, <1>9, <1>10, <1>11 DEF Next, LauncherStep

(* The launch of every successor is one that AtMostOnceLaunch allows: it   *)
(* is begun once, starts one worker at most, and its record says launched  *)
(* only if it did and uncertain only if it did not, over the kills and     *)
(* restarts of the supervisors that share the campaign.                    *)
THEOREM SuccessorsOnce == Spec => LaunchOnce
  <1>1. Init => LaunchInv /\ \A n \in 1..MaxReplans : Launch(n)!Init
    <2> SUFFICES ASSUME Init PROVE LaunchInv /\ \A n \in 1..MaxReplans : Launch(n)!Init
      OBVIOUS
    <2>1. \A n : Started(n) = {}
      BY DEF Init, Started
    <2>2. \A n \in Successors : execution[n] = Null
      BY DEF Init, Successors
    <2> QED
      BY <2>1, <2>2, FS_EmptySet DEF Init, LaunchInv, Launch!Init, Successors
  <1>2. TypeInv /\ LaunchInv /\ [Next]_vars => [\A n \in 1..MaxReplans : [Launch(n)!Next]_(Launch(n)!vars)]_vars
    <2> SUFFICES ASSUME TypeInv, LaunchInv, Next, NEW n \in Successors PROVE [Launch(n)!Next]_(Launch(n)!vars)
      BY DEF Successors
    <2> USE DEF Launch!vars, Launch!Next
    <2>0. TypeOK /\ execution \in [Successors -> Executions]
      BY DEF TypeInv, TypeOK, Successors
    <2>1. CASE UNCHANGED execution /\ Started(n)' = Started(n)
      BY <2>1
    <2>2. CASE BeginExecution
      <3>1. Launch(n)!Begin \/ UNCHANGED execution[n]
        BY <2>0, <2>2 DEF BeginExecution, Unexecuted, Launch!Begin, Started
      <3>2. Started(n)' = Started(n)
        BY <2>2 DEF BeginExecution, Started
      <3> QED
        BY <3>1, <3>2
    <2>3. CASE EndExecution
      <3> DEFINE up == sup.spawned \in DOMAIN workers
      <3>1. /\ UNCHANGED workers /\ Launching
            /\ Started(sup.attempt) = IF up THEN {sup.spawned} ELSE {}
            /\ execution' \in {execution, [execution EXCEPT ![sup.attempt] = IF up THEN "launched" ELSE "launch_uncertain"]}
        BY <2>3 DEF EndExecution, At, LaunchInv
      <3>2. Started(n)' = Started(n)
        BY <3>1 DEF Started
      <3>3. CASE execution'[n] = execution[n]
        BY <3>2, <3>3
      <3>4. CASE execution'[n] # execution[n]
        <4>1. n = sup.attempt /\ execution[n] = "launching"
              /\ execution'[n] = IF up THEN "launched" ELSE "launch_uncertain"
          BY <2>0, <3>1, <3>4 DEF Launching
        <4>2. CASE up
          <5>1. Cardinality(Started(n)) = 1
            BY <3>1, <4>1, <4>2, FS_Singleton
          <5> QED
            BY <3>2, <4>1, <4>2, <5>1 DEF Launch!Confirm
        <4>3. CASE ~up
          <5>1. Cardinality(Started(n)) = 0
            BY <3>1, <4>1, <4>3, FS_EmptySet
          <5> QED
            BY <3>2, <4>1, <4>3, <5>1 DEF Launch!GiveUp
        <4> QED
          BY <4>2, <4>3
      <3> QED
        BY <3>3, <3>4
    <2>4. CASE LauncherSpawns /\ Started(n)' # Started(n)
      <3> DEFINE k == Len(workers) + 1
      <3>1. UNCHANGED execution /\ pc = "gated"
        BY <2>4 DEF LauncherSpawns
      <3>2. sup.request.mode = "successor" /\ sup.request.queue = n /\ Started(n)' = Started(n) \cup {k}
        BY <2>4, SpawnedWorker
      <3>3. execution[n] = "launching" /\ Started(n) = {}
        BY <3>1, <3>2 DEF LaunchInv, Launching
      <3>4. Cardinality(Started(n)) = 0 /\ Cardinality(Started(n)') = 1
        <4>1. Started(n)' = {k} /\ Started(n) = {}
          BY <3>2, <3>3
        <4>2. Cardinality({k}) = 1 /\ Cardinality({}) = 0
          BY FS_EmptySet, FS_Singleton
        <4>3. Cardinality(Started(n))' = Cardinality(Started(n)')
          OBVIOUS
        <4> QED
          BY <4>1, <4>2, <4>3
      <3> QED
        BY <3>1, <3>3, <3>4 DEF Launch!Start
    <2>5. CASE (MainStep \/ Heartbeat) /\ ~BeginExecution /\ ~EndExecution
      BY <2>1, <2>5, MainQuiet, MainWrites DEF Started
    <2>6. CASE Start \/ LauncherEnters \/ LauncherDeclines \/ Signal \/ HandlerStep \/ Kill
      <3>1. UNCHANGED <<workers, execution>>
        BY <2>6 DEF Start, LauncherEnters, LauncherDeclines, Signal, HandlerStep, HandlerEnters, HandlerStops, Kill, disk
      <3> QED
        BY <2>1, <3>1 DEF Started
    <2>7. CASE \E w \in DOMAIN workers : WorkerStep(w)
      BY <2>1, <2>7, WorkersKept, StartedKept DEF Outside
    <2>8. CASE LauncherSpawns /\ Started(n)' = Started(n)
      BY <2>1, <2>8 DEF LauncherSpawns
    <2> QED
      BY <2>2, <2>3, <2>4, <2>5, <2>6, <2>7, <2>8 DEF Next, LauncherStep
  <1> QED
    BY <1>1, <1>2, LaunchStep, AlwaysTyped, PTL DEF Spec, LaunchOnce

(***************************************************************************)
(* The workers of a supervisor without --auto-replan.                      *)
(***************************************************************************)
Attended ==
  /\ pc \notin {"coordinate", "persist", "claim"}
  /\ pc \in {"spawn", "gated", "joined"} => sup.request.mode # "successor"
  /\ \A w \in DOMAIN workers : workers[w].life <= lives
  /\ \A life : \E w : LiveOf(life) \subseteq {w}
  /\ pc = "wait" => LiveOf(lives) \subseteq {sup.worker}
  /\ pc = "joined" => LiveOf(lives) \subseteq {sup.spawned}
  /\ pc \notin {"wait", "joined", "off"} => LiveOf(lives) = {}

LEMMA WorkerLives ==
  ASSUME TypeInv, NEW w \in DOMAIN workers, WorkerStep(w)
  PROVE  /\ \A v \in DOMAIN workers : workers'[v].life = workers[v].life
         /\ \A life : LiveOf(life)' \subseteq LiveOf(life)
  <1>1. /\ workers \in Seq(Worker) /\ w \in 1..Len(workers) /\ DOMAIN workers = 1..Len(workers)
        /\ workers[w] \in Worker
    BY DEF TypeInv, TypeOK
  <1>2. PICK v \in [queue : Queues, mode : Modes, cycle : Cycles \cup {Null}, life : {workers[w].life},
                    alive : BOOLEAN, ok : BOOLEAN] : workers' = [workers EXCEPT ![w] = v] /\ (v.alive => Alive(w))
    <2>1. CASE MakeCycle(w)
      <3>1. Len(cycles) + 1 \in Cycles
        BY <2>1 DEF MakeCycle, TypeInv, TypeOK
      <3> QED
        BY <1>1, <2>1, <3>1 DEF MakeCycle, Worker, Alive
    <2>2. CASE WriteCheckpoint(w) \/ WriteReceipt(w) \/ SealReceipt(w)
      BY <1>1, <2>2 DEF WriteCheckpoint, WriteReceipt, SealReceipt, Worker, Alive
    <2>3. CASE Exit(w)
      BY <1>1, <2>3 DEF Exit, Worker
    <2> QED
      BY <2>1, <2>2, <2>3 DEF WorkerStep
  <1>3. v \in Worker /\ v.life = workers[w].life
    BY <1>1, <1>2 DEF Worker
  <1>4. \A u \in DOMAIN workers : workers'[u] = IF u = w THEN v ELSE workers[u]
    BY <1>1, <1>2, <1>3, ExceptSeq
  <1>5. DOMAIN workers' = DOMAIN workers
    BY WorkersKept
  <1> QED
    BY <1>1, <1>2, <1>3, <1>4, <1>5 DEF LiveOf, Alive

LEMMA NoCampaign ==
  ASSUME ~AutoReplan, MainStep \/ Heartbeat, pc \notin {"coordinate", "persist", "claim"}
  PROVE  pc' \notin {"coordinate", "persist", "claim"}
  <1> USE DEF At, Goto
  <1>1. CASE Loop \/ ScanFlagged \/ ScanBlocked \/ ScanTerminal \/ ScanLaunch
    BY <1>1 DEF Loop, ScanFlagged, ScanBlocked, ScanTerminal, ScanLaunch
  <1>2. CASE WriteTerminal
    BY <1>2 DEF WriteTerminal
  <1>3. CASE \/ CoordinateFails \/ CoordinateBlocked \/ CoordinateKnown \/ CoordinatePlans \/ Persist \/ PersistFails
             \/ ClaimFails \/ ReportExecution \/ BeginExecution
    BY <1>3 DEF CoordinateFails, CoordinateBlocked, CoordinateKnown, CoordinatePlans, Persist, PersistFails,
                ClaimFails, ReportExecution, BeginExecution
  <1>4. CASE EndExecution \/ Joined \/ JoinedNone
    BY <1>4 DEF EndExecution, Joined, JoinedNone
  <1>5. CASE SettleSuccessor \/ SettleRetry \/ SettleIdle \/ SettleRescan \/ SettlePreTask
    BY <1>5 DEF SettleSuccessor, SettleRetry, SettleIdle, SettleRescan, SettlePreTask
  <1>6. CASE WorkerEnded \/ RescanInvalid \/ RescanTerminal \/ RescanActive \/ Finish \/ Heartbeat
    BY <1>6 DEF WorkerEnded, RescanInvalid, RescanTerminal, RescanActive, Finish, Heartbeat, Blocked
  <1> QED
    BY <1>1, <1>2, <1>3, <1>4, <1>5, <1>6 DEF MainStep

LEMMA MainAttended ==
  ASSUME ~AutoReplan, TypeInv, Attended, MainStep \/ Heartbeat
  PROVE  Attended'
  <1>1. /\ UNCHANGED <<workers, lives>> /\ pc' # "gated"
        /\ \A life : LiveOf(life)' = LiveOf(life)
    BY MainQuiet DEF LiveOf, Alive
  <1>2. pc' \notin {"coordinate", "persist", "claim"}
    BY NoCampaign DEF Attended
  <1>3. /\ pc' # "joined"
        /\ pc' = "spawn" => sup'.request.mode # "successor"
    BY <1>2, MainLaunch DEF Attended, BeginExecution, At
  <1>4. CASE pc \notin {"wait", "joined"}
    <2>1. pc # "off"
      BY DEF MainStep, Heartbeat, Loop, ScanFlagged, ScanBlocked, ScanTerminal, ScanLaunch, WriteTerminal,
             CoordinateFails, CoordinateBlocked, CoordinateKnown, CoordinatePlans, Persist, PersistFails,
             ClaimFails, ReportExecution, BeginExecution, EndExecution, Joined, JoinedNone, SettleSuccessor,
             SettleRetry, SettleIdle, WorkerEnded, RescanInvalid, RescanTerminal, SettleRescan, SettlePreTask,
             RescanActive, Finish, Settled, At
    <2>2. LiveOf(lives) = {}
      BY <1>4, <2>1 DEF Attended
    <2> QED
      BY <1>1, <1>2, <1>3, <2>2 DEF Attended
  <1>5. CASE pc = "wait"
    <2>1. Heartbeat \/ WorkerEnded
      BY <1>5 DEF MainStep, Loop, ScanFlagged, ScanBlocked, ScanTerminal, ScanLaunch, WriteTerminal,
             CoordinateFails, CoordinateBlocked, CoordinateKnown, CoordinatePlans, Persist, PersistFails,
             ClaimFails, ReportExecution, BeginExecution, EndExecution, Joined, JoinedNone, SettleSuccessor,
             SettleRetry, SettleIdle, RescanInvalid, RescanTerminal, SettleRescan, SettlePreTask,
             RescanActive, Finish, Settled, At
    <2>2. CASE Heartbeat
      BY <1>1, <1>2, <1>3, <2>2 DEF Heartbeat, Attended
    <2>3. CASE WorkerEnded
      <3>1. LiveOf(lives) = {}
        BY <1>5, <2>3 DEF WorkerEnded, Waited, Attended, LiveOf
      <3> QED
        BY <1>1, <1>2, <1>3, <3>1 DEF Attended
    <2> QED
      BY <2>1, <2>2, <2>3
  <1>6. CASE pc = "joined"
    <2>1. Joined \/ JoinedNone
      BY <1>6 DEF Attended, MainStep, Heartbeat, Loop, ScanFlagged, ScanBlocked, ScanTerminal, ScanLaunch, WriteTerminal,
             CoordinateFails, CoordinateBlocked, CoordinateKnown, CoordinatePlans, Persist, PersistFails,
             ClaimFails, ReportExecution, BeginExecution, EndExecution, WorkerEnded, SettleSuccessor,
             SettleRetry, SettleIdle, RescanInvalid, RescanTerminal, SettleRescan, SettlePreTask,
             RescanActive, Finish, Settled, At
    <2>2. CASE Joined
      <3>1. sup'.worker = sup.spawned /\ pc' = "wait"
        BY <2>2 DEF Joined, Goto, TypeInv, TypeOK, Sups
      <3> QED
        BY <1>1, <1>2, <1>3, <1>6, <3>1 DEF Attended
    <2>3. CASE JoinedNone
      <3>1. LiveOf(lives) = {}
        BY <1>6, <2>3 DEF JoinedNone, Attended, LiveOf
      <3> QED
        BY <1>1, <1>2, <1>3, <3>1 DEF Attended
    <2> QED
      BY <2>1, <2>2, <2>3
  <1> QED
    BY <1>4, <1>5, <1>6

LEMMA AttendedStep == ASSUME ~AutoReplan PROVE TypeInv /\ Attended /\ [Next]_vars => Attended'
  <1> SUFFICES ASSUME TypeInv, Attended, [Next]_vars PROVE Attended'
    OBVIOUS
  <1>0. /\ lives \in Nat /\ workers \in Seq(Worker) /\ DOMAIN workers = 1..Len(workers) /\ Len(workers) \in Nat
        /\ sup \in Sups
    BY DEF TypeInv, TypeOK
  <1>1. CASE UNCHANGED <<workers, lives, pc>> /\ UNCHANGED sup
    BY <1>1 DEF Attended, LiveOf, Alive
  <1>2. CASE MainStep \/ Heartbeat
    BY <1>2, MainAttended
  <1>3. CASE LauncherEnters
    <2>1. UNCHANGED <<workers, lives>> /\ pc = "spawn" /\ pc' = "gated" /\ sup'.request = sup.request
      BY <1>0, <1>3 DEF LauncherEnters, Goto, disk, Sups
    <2> QED
      BY <2>1 DEF Attended, LiveOf, Alive
  <1>4. CASE LauncherDeclines
    <2>1. UNCHANGED <<workers, lives>> /\ pc = "gated" /\ pc' = "joined" /\ sup'.request = sup.request
      BY <1>0, <1>4 DEF LauncherDeclines, Goto, disk, Sups
    <2> QED
      BY <2>1 DEF Attended, LiveOf, Alive
  <1>5. CASE LauncherSpawns
    <2> DEFINE k == Len(workers) + 1
    <2>1. /\ UNCHANGED lives /\ pc = "gated" /\ pc' = "joined"
          /\ workers' = Append(workers, Spawned(sup.request)) /\ Spawned(sup.request) \in Worker
      BY <1>5 DEF LauncherSpawns, Goto, Spawned, Worker, Requests, TypeInv, Located
    <2>2. /\ DOMAIN workers' = DOMAIN workers \cup {k} /\ k \notin DOMAIN workers
          /\ sup'.spawned = k /\ sup'.request = sup.request
      BY <1>5, SpawnedWorker
    <2>3. /\ \A v \in DOMAIN workers : workers'[v] = workers[v]
          /\ workers'[k] = Spawned(sup.request) /\ workers'[k].life = lives
      BY <1>0, <2>1, AppendProperties DEF Spawned
    <2>4. \A life : life # lives => LiveOf(life)' = LiveOf(life)
      BY <2>2, <2>3 DEF LiveOf, Alive
    <2>5. LiveOf(lives) = {} /\ \A v \in DOMAIN workers : workers[v].life <= lives
      BY <2>1 DEF Attended
    <2>6. \A v \in LiveOf(lives)' : v = k
      BY <2>1, <2>2, <2>3, <2>5 DEF LiveOf, Alive
    <2>7. \A life : \E w : LiveOf(life)' \subseteq {w}
      BY <2>1, <2>4, <2>6 DEF Attended
    <2>8. \A v \in DOMAIN workers' : workers'[v].life <= lives'
      BY <1>0, <2>1, <2>2, <2>3, <2>5
    <2> QED
      BY <2>1, <2>2, <2>6, <2>7, <2>8 DEF Attended
  <1>6. CASE Start
    <2>1. UNCHANGED workers /\ lives' = lives + 1 /\ pc' = "loop"
      BY <1>6 DEF Start, Goto, disk
    <2>2. \A v \in DOMAIN workers : workers[v].life \in Nat /\ workers[v].life <= lives
      <3>1. \A v \in DOMAIN workers : workers[v] \in Worker
        BY <1>0, ElementOfSeq
      <3> QED
        BY <3>1 DEF Attended, Worker
    <2>3. \A v \in DOMAIN workers : workers[v].life # lives + 1 /\ workers[v].life <= lives + 1
      BY <1>0, <2>2
    <2>4. \A life : LiveOf(life)' = LiveOf(life)
      BY <2>1 DEF LiveOf, Alive
    <2>5. LiveOf(lives)' = {}
      BY <2>1, <2>3 DEF LiveOf
    <2>6. \A v \in DOMAIN workers' : workers'[v].life <= lives'
      BY <2>1, <2>3
    <2> QED
      BY <2>1, <2>4, <2>5, <2>6 DEF Attended
  <1>7. CASE Kill
    <2>1. UNCHANGED <<workers, lives>> /\ pc' = "off"
      BY <1>7 DEF Kill, Goto, disk
    <2> QED
      BY <2>1 DEF Attended, LiveOf, Alive
  <1>8. CASE Signal \/ HandlerStep
    BY <1>1, <1>8 DEF Signal, HandlerStep, HandlerEnters, HandlerStops, disk
  <1>9. CASE \E w \in DOMAIN workers : WorkerStep(w)
    <2>1. /\ DOMAIN workers' = DOMAIN workers /\ UNCHANGED <<pc, sup, lives>>
          /\ \A v \in DOMAIN workers : workers'[v].life = workers[v].life
          /\ \A life : LiveOf(life)' \subseteq LiveOf(life)
      BY <1>9, WorkersKept, WorkerLives DEF Outside
    <2> QED
      BY <2>1 DEF Attended
  <1> QED
    BY <1>1, <1>2, <1>3, <1>4, <1>5, <1>6, <1>7, <1>8, <1>9 DEF Next, LauncherStep, vars

(* Without --auto-replan a supervisor runs one worker at a time, whatever  *)
(* the signals, the kills and the evidence its workers leave: a retry      *)
(* never races the worker it follows.                                      *)
THEOREM OneWorkerAtATime == ASSUME ~AutoReplan PROVE Spec => []OneWorkerPerLife
  <1>1. Init => Attended
    BY DEF Init, Attended, LiveOf
  <1>2. Attended => OneWorkerPerLife
    <2> SUFFICES ASSUME Attended, NEW life \in 1..lives PROVE Cardinality(LiveOf(life)) <= 1
      BY DEF OneWorkerPerLife
    <2>1. PICK w : LiveOf(life) \subseteq {w}
      BY DEF Attended
    <2>2. IsFiniteSet({w}) /\ Cardinality({w}) = 1
      BY FS_Singleton
    <2> QED
      BY <2>1, <2>2, FS_Subset
  <1> QED
    BY <1>1, <1>2, AttendedStep, AlwaysTyped, PTL DEF Spec

(* Without --auto-replan a supervisor that returns by itself leaves none   *)
(* of its workers behind.                                                  *)
THEOREM WorkersAttended == ASSUME ~AutoReplan PROVE Spec => []NoWorkerLeft
  <1>1. Init => Attended
    BY DEF Init, Attended, LiveOf
  <1>2. Attended => NoWorkerLeft
    BY DEF NoWorkerLeft, Attended
  <1> QED
    BY <1>1, <1>2, AttendedStep, AlwaysTyped, PTL DEF Spec

(***************************************************************************)
(* The restarts of a supervisor without --auto-replan, while workers of    *)
(* killed supervisors go on.  A cycle is ours where a worker of this life  *)
(* has it, and old where one of an earlier life does.  A resume is either  *)
(* counted as a restart, or pays with an old cycle that is ours from then  *)
(* on, or with one that hid a crash and is over.                           *)
(***************************************************************************)
Resumes == {w \in DOMAIN workers : workers[w].life = lives /\ workers[w].mode = "resume"}

Ours == {c \in DOMAIN cycles : \E w \in DOMAIN workers : workers[w].life = lives /\ workers[w].cycle = c}
Old  == {c \in DOMAIN cycles : \E w \in DOMAIN workers : workers[w].life < lives /\ workers[w].cycle = c}

\* Evidence before the first checkpoint, and after the last.
Young == {"bare", "empty"}
Over  == Terminal \cup {"pre_task", "closing", "refusing"}

\* Old cycles that pay for no further resume.
Spent == {c \in Old : c \in Ours \/ cycles[c].ev \in Over}

\* Cycles that are active, or can be again without a new worker.
Able(c) == \/ cycles[c].ev = "active"
           \/ cycles[c].ev \in {"bare", "empty", "broken"} /\ \E w \in DOMAIN workers : Alive(w) /\ workers[w].cycle = c

AbleOurs == {c \in Ours : Able(c)}

\* An active cycle of an earlier life, next to which a crash is not counted.
Hidden == \E d \in Old \ Ours : cycles[d].ev \in {"active", "broken"}

\* A resume that is paid for and not made yet.
Room == Cardinality(Resumes) < sup.restarts + Cardinality(Spent)
Calm == AbleOurs = {} \/ Room \/ Hidden

Charged(c) == Cardinality(Resumes) < sup.restarts + Cardinality(Spent \cup ({c} \cap Old))

Resuming(r) ==
  IF r.mode = "resume"
  THEN /\ r.cycle \in Old \cup Ours /\ cycles[r.cycle].ev \notin Young
       /\ AbleOurs \subseteq {r.cycle} /\ Charged(r.cycle)
  ELSE r.cycle = Null /\ AbleOurs = {}

\* A worker of this life has the only one of our cycles that can be active.
Attends(w) == w \in DOMAIN workers /\ workers[w].life = lives /\ AbleOurs \subseteq {workers[w].cycle}

Placed ==
  /\ pc \in {"loop", "scan"} => Calm
  /\ pc \in {"spawn", "gated"} => Resuming(sup.request)
  /\ pc = "joined" => IF sup.spawned \in DOMAIN workers THEN Attends(sup.spawned) ELSE Calm
  /\ pc \in {"terminal", "settled"} => AbleOurs = {}
  /\ pc \in {"wait", "rescan"} => Attends(sup.worker)

Completions ==
  \A w \in DOMAIN workers : workers[w].ok => workers[w].cycle # Null /\ cycles[workers[w].cycle].ev = "completed"

\* Every cycle is some worker's, and of one alone until its first checkpoint.
Owned ==
  /\ \A c \in DOMAIN cycles : \E w \in DOMAIN workers : workers[w].cycle = c
  /\ \A v, w \in DOMAIN workers :
       workers[v].cycle # Null /\ workers[v].cycle = workers[w].cycle /\ cycles[workers[v].cycle].ev \in Young => v = w

RootOnly ==
  /\ \A c \in DOMAIN cycles : cycles[c].queue = 0
  /\ \A w \in DOMAIN workers : workers[w].queue = 0

Rooted ==
  /\ sup.queue = 0 /\ sup.observed = 0 /\ sup.prev \in {0, Null} /\ ~sup.flag /\ ~sup.launched
  /\ sup.prev = Null => sup.restarts = 0
  /\ pc \notin {"off", "loop", "finish", "ended"} => sup.prev # Null
  /\ pc \in {"spawn", "gated"} => sup.request.queue = 0

Budget == pc # "off" => Cardinality(Resumes) <= sup.restarts + Cardinality(Spent)

Evidenced == Completions /\ Owned /\ RootOnly

\* The bound, for the lives that are over.
PastBounded ==
  \A life \in 1..lives, q \in Queues :
    life < lives \/ pc = "off" => Cardinality(Resumed(life, q)) <= MaxRestarts + Cardinality(Inherited(life, q))

Restarted == Rooted /\ Evidenced /\ Placed /\ Budget /\ PastBounded

\* The sets can be counted.
LEMMA RestartSets ==
  ASSUME TypeInv
  PROVE  /\ DOMAIN cycles = 1..Len(cycles) /\ DOMAIN workers = 1..Len(workers)
         /\ Len(cycles) \in Nat /\ Len(workers) \in Nat
         /\ IsFiniteSet(Old) /\ IsFiniteSet(Spent) /\ IsFiniteSet(Resumes) /\ IsFiniteSet(Active(0))
         /\ Cardinality(Old) \in Nat /\ Cardinality(Spent) \in Nat /\ Cardinality(Resumes) \in Nat
         /\ Cardinality(Active(0)) \in Nat
         /\ Cardinality(Spent) <= Cardinality(Old)
         /\ sup \in Sups /\ sup.restarts \in 0..MaxRestarts /\ sup.restarts \in Nat
  <1>1. /\ DOMAIN cycles = 1..Len(cycles) /\ DOMAIN workers = 1..Len(workers)
        /\ Len(cycles) \in Nat /\ Len(workers) \in Nat /\ sup \in Sups
    BY DEF TypeInv, TypeOK
  <1>2. ASSUME NEW n \in Nat PROVE IsFiniteSet(1..n)
    <2>1. 1 \in Int /\ n \in Int
      OBVIOUS
    <2> QED
      BY ONLY <2>1, FS_Interval
  <1>3. IsFiniteSet(DOMAIN cycles) /\ IsFiniteSet(DOMAIN workers)
    BY <1>1, <1>2
  <1>4. Old \subseteq DOMAIN cycles /\ Active(0) \subseteq DOMAIN cycles /\ Resumes \subseteq DOMAIN workers /\ Spent \subseteq Old
    BY DEF Old, Active, With, Resumes, Spent
  <1>5. IsFiniteSet(Old) /\ IsFiniteSet(Active(0)) /\ IsFiniteSet(Resumes)
    BY <1>3, <1>4, FS_Subset
  <1>6. IsFiniteSet(Spent) /\ Cardinality(Spent) <= Cardinality(Old)
    BY <1>4, <1>5, FS_Subset
  <1>7. /\ Cardinality(Old) \in Nat /\ Cardinality(Spent) \in Nat /\ Cardinality(Resumes) \in Nat
        /\ Cardinality(Active(0)) \in Nat
    BY <1>5, <1>6, FS_CardinalityType
  <1>8. sup.restarts \in 0..MaxRestarts /\ sup.restarts \in Nat
    BY <1>1, LimitAssumption DEF Sups
  <1> QED
    BY <1>1, <1>5, <1>6, <1>7, <1>8

\* More spent cycles, and more room where one is new.
LEMMA SpentMore ==
  ASSUME NEW S, NEW T, IsFiniteSet(S), IsFiniteSet(T), S \subseteq T
  PROVE  /\ Cardinality(S) \in Nat /\ Cardinality(T) \in Nat /\ Cardinality(S) <= Cardinality(T)
         /\ S # T => Cardinality(S) < Cardinality(T)
  <1>1. Cardinality(S) \in Nat /\ Cardinality(T) \in Nat
    BY FS_CardinalityType
  <1>2. Cardinality(S) <= Cardinality(T) /\ (Cardinality(T) = Cardinality(S) => T = S)
    BY FS_Subset
  <1> QED
    BY <1>1, <1>2

\* A step of a worker: it makes its cycle, or moves the evidence of the one it
\* has, or ends.
Made(w) ==
  /\ Alive(w) /\ workers[w].cycle = Null
  /\ DOMAIN cycles' = DOMAIN cycles \cup {workers'[w].cycle} /\ workers'[w].cycle \notin DOMAIN cycles
  /\ cycles'[workers'[w].cycle] = [queue |-> workers[w].queue, ev |-> "bare"]
  /\ \A c \in DOMAIN cycles : cycles'[c] = cycles[c]
  /\ workers'[w].alive = workers[w].alive /\ workers'[w].ok = workers[w].ok

Moved(w) ==
  /\ Alive(w) /\ workers[w].cycle \in DOMAIN cycles /\ UNCHANGED workers
  /\ DOMAIN cycles' = DOMAIN cycles
  /\ \A c \in DOMAIN cycles : c # workers[w].cycle => cycles'[c] = cycles[c]
  /\ LET e == cycles[workers[w].cycle].ev
         n == cycles'[workers[w].cycle].ev
     IN  /\ e \notin Terminal \cup {"pre_task"}
         /\ e \in Over => n \in Over
         /\ e \notin Young => n \notin Young
         /\ e \in {"active", "broken"} => n \in {"active", "broken"} \cup Over
  /\ cycles'[workers[w].cycle].queue = cycles[workers[w].cycle].queue

Left(w) ==
  /\ UNCHANGED cycles /\ workers'[w].cycle = workers[w].cycle /\ ~workers'[w].alive
  /\ workers'[w].ok => workers[w].cycle \in DOMAIN cycles /\ cycles[workers[w].cycle].ev = "completed"

LEMMA WorkerEffect ==
  ASSUME TypeInv, NEW w \in DOMAIN workers, WorkerStep(w)
  PROVE  /\ Made(w) \/ Moved(w) \/ Left(w)
         /\ Alive(w) /\ DOMAIN workers' = DOMAIN workers
         /\ \A v \in DOMAIN workers : v # w => workers'[v] = workers[v]
         /\ \A v \in DOMAIN workers : /\ workers'[v].mode = workers[v].mode /\ workers'[v].queue = workers[v].queue
                                      /\ workers'[v].life = workers[v].life
  <1>a. /\ workers \in Seq(Worker) /\ Len(workers) \in Nat /\ DOMAIN workers = 1..Len(workers)
        /\ cycles \in Seq(Cycle) /\ Len(cycles) \in Nat /\ DOMAIN cycles = 1..Len(cycles)
    BY DEF TypeInv, TypeOK
  <1>b. w \in 1..Len(workers) /\ workers[w] \in Worker
    BY <1>a, ElementOfSeq
  <1>c. \A v \in DOMAIN workers : workers[v].cycle # Null => workers[v].cycle \in DOMAIN cycles
    BY <1>a DEF TypeInv, Located
  <1>d. DOMAIN workers' = DOMAIN workers
    BY WorkersKept
  <1>0. /\ workers \in Seq(Worker) /\ w \in 1..Len(workers) /\ DOMAIN workers = 1..Len(workers)
        /\ workers[w] \in Worker /\ cycles \in Seq(Cycle) /\ Len(cycles) \in Nat /\ DOMAIN cycles = 1..Len(cycles)
        /\ \A v \in DOMAIN workers : workers[v].cycle # Null => workers[v].cycle \in DOMAIN cycles
        /\ DOMAIN workers' = DOMAIN workers
    BY <1>a, <1>b, <1>c, <1>d
  <1>1. ASSUME MakeCycle(w)
        PROVE  Made(w) /\ \A v \in DOMAIN workers : v # w => workers'[v] = workers[v]
    <2> DEFINE k == Len(cycles) + 1
               r == [queue |-> workers[w].queue, ev |-> "bare"]
    <2>1. /\ Alive(w) /\ workers[w].cycle = Null /\ cycles' = Append(cycles, r) /\ k \in Cycles
          /\ workers' = [workers EXCEPT ![w] = [workers[w] EXCEPT !.cycle = k]]
      BY <1>1 DEF MakeCycle, TypeInv, TypeOK
    <2>2. r \in Cycle
      BY <1>0 DEF Cycle, Evidence, Worker
    <2>3. /\ DOMAIN cycles' = DOMAIN cycles \cup {k} /\ cycles'[k] = r
          /\ \A c \in DOMAIN cycles : cycles'[c] = cycles[c]
      BY <1>0, <2>1, <2>2, AppendProperties
    <2>4. [workers[w] EXCEPT !.cycle = k] \in Worker
      BY <1>0, <2>1 DEF Worker
    <2>5. /\ \A v \in DOMAIN workers : v # w => workers'[v] = workers[v]
          /\ workers'[w].ok = workers[w].ok /\ workers'[w].alive = workers[w].alive /\ workers'[w].cycle = k
      BY <1>0, <2>1, <2>4, ExceptSeq DEF Worker
    <2>6. k \notin DOMAIN cycles
      BY <1>0
    <2> QED
      BY <2>1, <2>3, <2>5, <2>6 DEF Made, Alive
  <1>2. ASSUME WriteCheckpoint(w) \/ WriteReceipt(w) \/ SealReceipt(w)
        PROVE  Moved(w)
    <2> DEFINE c == workers[w].cycle
    <2>1. /\ UNCHANGED workers /\ c # Null /\ Alive(w)
          /\ \E e \in Evidence :
               /\ SetEvid(w, e)
               /\ Evid(w) \notin Terminal \cup {"pre_task"}
               /\ Evid(w) \in Over => e \in Over
               /\ Evid(w) \notin Young => e \notin Young
               /\ Evid(w) \in {"active", "broken"} => e \in {"active", "broken"} \cup Over
      <3>1. CASE WriteCheckpoint(w)
        BY <3>1 DEF WriteCheckpoint, Evidence, Terminal, Has, Over, Young
      <3>2. CASE WriteReceipt(w)
        BY <3>2 DEF WriteReceipt, Evidence, Terminal, Has, Over, Young
      <3>3. CASE SealReceipt(w)
        BY <3>3 DEF SealReceipt, Evidence, Terminal, Has, Over, Young
      <3> QED
        BY <1>2, <3>1, <3>2, <3>3
    <2>2. PICK e \in Evidence :
               /\ SetEvid(w, e)
               /\ Evid(w) \notin Terminal \cup {"pre_task"}
               /\ Evid(w) \in Over => e \in Over
               /\ Evid(w) \notin Young => e \notin Young
               /\ Evid(w) \in {"active", "broken"} => e \in {"active", "broken"} \cup Over
      BY <2>1
    <2>3. c \in DOMAIN cycles /\ cycles[c] \in Cycle
      BY <1>0, <2>1, ElementOfSeq
    <2>4. PICK r : r = [cycles[c] EXCEPT !.ev = e]
      OBVIOUS
    <2>5. cycles' = [cycles EXCEPT ![c] = r] /\ r \in Cycle /\ r.ev = e /\ r.queue = cycles[c].queue
      BY <2>2, <2>3, <2>4 DEF SetEvid, Cycle
    <2>6. /\ DOMAIN cycles' = DOMAIN cycles /\ \A d \in DOMAIN cycles : d # c => cycles'[d] = cycles[d]
          /\ cycles'[c] = r
      BY <1>0, <2>3, <2>5, ExceptSeq
    <2> QED
      BY <2>1, <2>2, <2>3, <2>5, <2>6 DEF Moved, Evid
  <1>3. ASSUME Exit(w)
        PROVE  Left(w) /\ Alive(w) /\ \A v \in DOMAIN workers : v # w => workers'[v] = workers[v]
    <2>1. PICK ok \in BOOLEAN : /\ workers' = [workers EXCEPT ![w].alive = FALSE, ![w].ok = ok]
                                /\ ok => Has(w) /\ Evid(w) = "completed"
      BY <1>3 DEF Exit
    <2>2. workers' = [workers EXCEPT ![w] = [workers[w] EXCEPT !.alive = FALSE, !.ok = ok]]
      BY <1>0, <2>1
    <2>3. [workers[w] EXCEPT !.alive = FALSE, !.ok = ok] \in Worker
      BY <1>0 DEF Worker
    <2>4. /\ \A v \in DOMAIN workers : v # w => workers'[v] = workers[v]
          /\ workers'[w].cycle = workers[w].cycle /\ workers'[w].ok = ok /\ ~workers'[w].alive
      BY <1>0, <2>2, <2>3, ExceptSeq DEF Worker
    <2>5. UNCHANGED cycles /\ Alive(w)
      BY <1>3 DEF Exit
    <2> QED
      BY <1>0, <2>1, <2>4, <2>5 DEF Left, Has, Evid
  <1>4. \A v \in DOMAIN workers : /\ workers'[v].mode = workers[v].mode /\ workers'[v].queue = workers[v].queue
                                  /\ workers'[v].life = workers[v].life
    BY WorkersKept, WorkerLives
  <1>5. CASE MakeCycle(w)
    BY <1>0, <1>1, <1>4, <1>5 DEF Made
  <1>6. CASE WriteCheckpoint(w) \/ WriteReceipt(w) \/ SealReceipt(w)
    BY <1>0, <1>2, <1>4, <1>6 DEF Moved
  <1>7. CASE Exit(w)
    BY <1>0, <1>3, <1>4, <1>7
  <1> QED
    BY <1>5, <1>6, <1>7 DEF WorkerStep

\* What a worker does to the cycles of this life and of earlier ones.
LEMMA WorkerSets ==
  ASSUME TypeInv, TypeInv', Attended, Evidenced, NEW w \in DOMAIN workers, WorkerStep(w)
  PROVE  /\ Resumes' = Resumes /\ Spent \subseteq Spent' /\ (Hidden => Hidden' \/ Spent # Spent')
         /\ Old \subseteq Old' /\ \A c \in DOMAIN cycles : cycles[c].ev \notin Young => cycles'[c].ev \notin Young
         /\ workers[w].life # lives => Ours' = Ours /\ AbleOurs' \subseteq AbleOurs
         /\ \A v : Attends(v) /\ (workers[w].life = lives => v = w) => Attends(v)'
         /\ Evidenced'
  <1>1. /\ Made(w) \/ Moved(w) \/ Left(w)
        /\ Alive(w) /\ DOMAIN workers' = DOMAIN workers
        /\ \A v \in DOMAIN workers : v # w => workers'[v] = workers[v]
        /\ \A v \in DOMAIN workers : /\ workers'[v].mode = workers[v].mode /\ workers'[v].queue = workers[v].queue
                                     /\ workers'[v].life = workers[v].life
    BY WorkerEffect
  <1>2. UNCHANGED <<lives, pc, sup>>
    BY WorkersKept DEF Outside
  <1>3. /\ Completions /\ Owned /\ RootOnly
        /\ \A v \in DOMAIN workers : workers[v].cycle # Null => workers[v].cycle \in DOMAIN cycles
        /\ \A v \in DOMAIN workers : workers[v].life <= lives
        /\ DOMAIN cycles \subseteq Nat /\ Null \notin Nat
    <2>1. DOMAIN cycles = 1..Len(cycles) /\ DOMAIN workers = 1..Len(workers) /\ Len(cycles) \in Nat
      BY RestartSets
    <2>2. \A v \in DOMAIN workers : workers[v].cycle # Null => workers[v].cycle \in DOMAIN cycles
      BY <2>1 DEF TypeInv, Located
    <2> QED
      BY <2>1, <2>2 DEF Evidenced, Attended
  <1>4. Resumes' = Resumes
    BY <1>1, <1>2 DEF Resumes
  <1>5. CASE Made(w)
    <2> DEFINE k == workers'[w].cycle
    <2>1. /\ workers[w].cycle = Null
          /\ DOMAIN cycles' = DOMAIN cycles \cup {k} /\ k \notin DOMAIN cycles
          /\ cycles'[k].queue = workers[w].queue /\ cycles'[k].ev = "bare"
          /\ \A c \in DOMAIN cycles : cycles'[c] = cycles[c]
          /\ workers'[w].alive = workers[w].alive /\ workers'[w].ok = workers[w].ok
      BY <1>5 DEF Made
    <2> HIDE DEF k
    <2>2. \A v \in DOMAIN workers : v # w => workers'[v].cycle = workers[v].cycle /\ workers'[v].alive = workers[v].alive
      BY <1>1
    <2>3. \A v \in DOMAIN workers : workers'[v].alive = workers[v].alive
      BY <2>1, <2>2
    <2>4. workers'[w].cycle = k
      BY DEF k
    <2>5. \A c \in DOMAIN cycles, v \in DOMAIN workers : workers'[v].cycle = c <=> workers[v].cycle = c
      BY <1>3, <2>1, <2>2, <2>4
    <2>6. \A c \in DOMAIN cycles : (c \in Ours' <=> c \in Ours) /\ (c \in Old' <=> c \in Old)
      BY <1>1, <1>2, <2>1, <2>5 DEF Ours, Old
    <2>7. \A v \in DOMAIN workers : workers'[v].cycle = k <=> v = w
      <3>1. DOMAIN cycles' \subseteq Nat
        BY DEF TypeInv, TypeOK
      <3>2. k # Null
        BY <1>3, <2>1, <3>1
      <3> QED
        BY <1>3, <2>1, <2>2, <2>4, <3>2
    <2>8. Ours' \subseteq Ours \cup {k} /\ (workers[w].life # lives => k \notin Ours')
      BY <1>1, <1>2, <2>1, <2>6, <2>7 DEF Ours
    <2>9. \A c \in DOMAIN cycles : Able(c)' <=> Able(c)
      BY <1>1, <2>1, <2>3, <2>5 DEF Able, Alive
    <2>10. Ours \subseteq DOMAIN cycles /\ Old \subseteq DOMAIN cycles
      BY DEF Ours, Old
    <2>11. Spent \subseteq Spent' /\ Old \subseteq Old'
      BY <2>1, <2>6, <2>10 DEF Spent
    <2>12. Hidden => Hidden'
      BY <2>1, <2>6, <2>10 DEF Hidden
    <2>13. AbleOurs' \subseteq AbleOurs \cup {k} /\ (workers[w].life # lives => Ours' = Ours /\ AbleOurs' \subseteq AbleOurs)
      BY <2>6, <2>8, <2>9, <2>10 DEF AbleOurs
    <2>14. ASSUME NEW v, Attends(v), workers[w].life = lives => v = w PROVE Attends(v)'
      <3>1. v \in DOMAIN workers /\ workers'[v].life = lives' /\ AbleOurs \subseteq {workers[v].cycle}
        BY <1>1, <1>2, <2>14 DEF Attends
      <3>2. CASE v = w
        <4>1. AbleOurs = {}
          BY <1>3, <2>1, <2>10, <3>1, <3>2 DEF AbleOurs
        <4> QED
          BY <1>1, <2>4, <2>13, <3>1, <3>2, <4>1 DEF Attends
      <3>3. CASE v # w
        BY <1>1, <2>2, <2>13, <2>14, <3>1, <3>3 DEF Attends
      <3> QED
        BY <3>2, <3>3
    <2>15. Completions'
      <3>1. ~workers[w].ok
        BY <1>3, <2>1 DEF Completions
      <3> QED
        BY <1>1, <1>3, <2>1, <3>1 DEF Completions
    <2>16. Owned'
      <3>1. \A c \in DOMAIN cycles' : \E v \in DOMAIN workers' : workers'[v].cycle = c
        BY <1>1, <1>3, <2>1, <2>4, <2>5 DEF Owned
      <3>2. ASSUME NEW u \in DOMAIN workers, NEW v \in DOMAIN workers, workers'[u].cycle # Null,
                   workers'[u].cycle = workers'[v].cycle, cycles'[workers'[u].cycle].ev \in Young
            PROVE  u = v
        <4>1. CASE u = w \/ v = w
          BY <2>4, <2>7, <3>2, <4>1
        <4>2. CASE u # w /\ v # w
          BY <1>3, <2>1, <2>2, <3>2, <4>2 DEF Owned
        <4> QED
          BY <4>1, <4>2
      <3> QED
        BY <1>1, <3>1, <3>2 DEF Owned
    <2>17. RootOnly'
      BY <1>1, <1>3, <2>1 DEF RootOnly
    <2> QED
      BY <1>4, <2>1, <2>11, <2>12, <2>13, <2>14, <2>15, <2>16, <2>17 DEF Evidenced
  <1>6. CASE Moved(w)
    <2>0. PICK c : c = workers[w].cycle
      OBVIOUS
    <2>1. /\ c \in DOMAIN cycles /\ UNCHANGED workers /\ DOMAIN cycles' = DOMAIN cycles
          /\ \A d \in DOMAIN cycles : d # c => cycles'[d] = cycles[d]
          /\ cycles[c].ev \notin Terminal \cup {"pre_task"}
          /\ cycles[c].ev \in Over => cycles'[c].ev \in Over
          /\ cycles[c].ev \notin Young => cycles'[c].ev \notin Young
          /\ cycles[c].ev \in {"active", "broken"} => cycles'[c].ev \in {"active", "broken"} \cup Over
          /\ cycles'[c].queue = cycles[c].queue
      BY <1>6, <2>0 DEF Moved
    <2>2. Ours' = Ours /\ Old' = Old
      BY <1>2, <2>1 DEF Ours, Old
    <2>3. \A d \in DOMAIN cycles : /\ cycles[d].ev \in Over => cycles'[d].ev \in Over
                                   /\ cycles'[d].ev \in Young => cycles[d].ev \in Young
      BY <2>1
    <2>4. Ours \subseteq DOMAIN cycles /\ Old \subseteq DOMAIN cycles
      BY DEF Ours, Old
    <2>5. Spent \subseteq Spent'
      BY <2>2, <2>3, <2>4 DEF Spent
    <2>6. \A d \in DOMAIN cycles : d # c => (Able(d)' <=> Able(d))
      BY <2>1 DEF Able, Alive
    <2>7. Able(c)' => Able(c)
      <3>1. cycles[c] \in Cycle
        BY <2>1, ElementOfSeq DEF TypeInv, TypeOK
      <3>2. cycles[c].ev \in {"bare", "empty", "broken", "active", "refusing", "closing"}
        BY <2>1, <3>1 DEF Cycle, Evidence
      <3>3. cycles[c].ev \in {"bare", "empty", "broken", "active"} => Able(c)
        BY <1>1, <2>0 DEF Able
      <3>4. cycles[c].ev \in {"refusing", "closing"} => ~Able(c)'
        BY <2>1 DEF Able, Over, Terminal
      <3> QED
        BY <3>2, <3>3, <3>4
    <2>8. AbleOurs' \subseteq AbleOurs
      <3>1. \A d \in DOMAIN cycles : Able(d)' => Able(d)
        BY <2>6, <2>7
      <3> QED
        BY <2>2, <2>4, <3>1 DEF AbleOurs
    <2>9. Hidden => Hidden' \/ Spent # Spent'
      <3> SUFFICES ASSUME NEW d \in Old \ Ours, cycles[d].ev \in {"active", "broken"}, ~Hidden' PROVE Spent # Spent'
        BY DEF Hidden
      <3>1. d = c /\ cycles'[d].ev \in Over
        BY <2>1, <2>2, <2>4 DEF Hidden
      <3>2. d \in Spent'
        BY <2>2, <3>1 DEF Spent
      <3>3. d \notin Spent
        BY DEF Spent, Over, Terminal
      <3> QED
        BY <3>2, <3>3
    <2>10. \A v : Attends(v) => Attends(v)'
      BY <1>2, <2>1, <2>8 DEF Attends
    <2>11. Completions'
      BY <1>3, <2>1 DEF Completions, Terminal
    <2>12. Owned'
      BY <1>3, <2>1, <2>3 DEF Owned
    <2>13. RootOnly'
      BY <1>3, <2>1 DEF RootOnly
    <2> QED
      BY <1>4, <2>2, <2>3, <2>5, <2>8, <2>9, <2>10, <2>11, <2>12, <2>13 DEF Evidenced
  <1>7. CASE Left(w)
    <2>1. /\ UNCHANGED cycles /\ workers'[w].cycle = workers[w].cycle /\ ~workers'[w].alive
          /\ workers'[w].ok => workers[w].cycle \in DOMAIN cycles /\ cycles[workers[w].cycle].ev = "completed"
      BY <1>7 DEF Left
    <2>2. \A v \in DOMAIN workers : workers'[v].cycle = workers[v].cycle /\ (workers'[v].alive => workers[v].alive)
      BY <1>1, <2>1
    <2>3. Ours' = Ours /\ Old' = Old
      BY <1>1, <1>2, <2>1, <2>2 DEF Ours, Old
    <2>4. Spent' = Spent /\ (Hidden' <=> Hidden)
      BY <2>1, <2>3 DEF Spent, Hidden
    <2>5. AbleOurs' \subseteq AbleOurs
      BY <1>1, <2>1, <2>2, <2>3 DEF AbleOurs, Able, Alive
    <2>6. \A v : Attends(v) => Attends(v)'
      BY <1>1, <1>2, <2>2, <2>5 DEF Attends
    <2>7. Completions'
      BY <1>1, <1>3, <2>1, <2>2 DEF Completions
    <2>8. Owned'
      BY <1>1, <1>3, <2>1, <2>2 DEF Owned
    <2>9. RootOnly'
      BY <1>1, <1>3, <2>1 DEF RootOnly
    <2> QED
      BY <1>4, <2>1, <2>3, <2>4, <2>5, <2>6, <2>7, <2>8, <2>9 DEF Evidenced
  <1> QED
    BY <1>1, <1>5, <1>6, <1>7

\* Steps of the supervisor alone leave the evidence and what is made of it.
LEMMA SameEvidence ==
  ASSUME UNCHANGED <<cycles, workers, lives>>
  PROVE  /\ Evidenced' <=> Evidenced
         /\ Resumes' = Resumes /\ Spent' = Spent /\ Ours' = Ours /\ Old' = Old /\ (Hidden' <=> Hidden)
         /\ AbleOurs' = AbleOurs /\ Active(0)' = Active(0) /\ \A w : Attends(w)' <=> Attends(w)
  <1>1. /\ Resumes' = Resumes /\ Ours' = Ours /\ Old' = Old /\ Active(0)' = Active(0)
        /\ \A c : Able(c)' <=> Able(c)
    BY DEF Resumes, Ours, Old, Active, With, Able, Alive
  <1>2. Spent' = Spent /\ (Hidden' <=> Hidden) /\ AbleOurs' = AbleOurs
    BY <1>1 DEF Spent, Hidden, AbleOurs
  <1>3. Evidenced' <=> Evidenced
    BY DEF Evidenced, Completions, Owned, RootOnly
  <1> QED
    BY <1>1, <1>2, <1>3 DEF Attends

\* Where no worker of this life is left and the evidence can be judged, only
\* active cycles can be active.
LEMMA AtRest ==
  ASSUME TypeInv, Evidenced, LiveOf(lives) = {}, ~Undecidable(0)
  PROVE  AbleOurs \subseteq Active(0)
  <1> SUFFICES ASSUME NEW c \in AbleOurs PROVE c \in Active(0)
    OBVIOUS
  <1>1. PICK v \in DOMAIN workers : workers[v].life = lives /\ workers[v].cycle = c
    BY DEF AbleOurs, Ours
  <1>2. c \in DOMAIN cycles /\ cycles[c].queue = 0
    BY DEF AbleOurs, Ours, Evidenced, RootOnly
  <1>3. cycles[c].ev \notin {"bare", "broken"}
    BY <1>2 DEF Undecidable
  <1>4. ASSUME cycles[c].ev # "active" PROVE FALSE
    <2>1. cycles[c].ev = "empty" /\ \E u \in DOMAIN workers : Alive(u) /\ workers[u].cycle = c
      BY <1>3, <1>4 DEF AbleOurs, Able
    <2>2. PICK u \in DOMAIN workers : Alive(u) /\ workers[u].cycle = c
      BY <2>1
    <2>3. c # Null
      BY <1>2, RestartSets
    <2>4. u = v
      BY <1>1, <2>1, <2>2, <2>3 DEF Evidenced, Owned, Young
    <2> QED
      BY <1>1, <2>2, <2>4 DEF LiveOf
  <1> QED
    BY <1>2, <1>4 DEF Active, With

LEMMA MainCycles ==
  ASSUME MainStep \/ Heartbeat
  PROVE  UNCHANGED cycles
  <1> USE DEF disk
  <1>1. CASE Loop \/ ScanFlagged \/ ScanBlocked \/ ScanTerminal \/ ScanLaunch \/ WriteTerminal
    BY <1>1 DEF Loop, ScanFlagged, ScanBlocked, ScanTerminal, ScanLaunch, WriteTerminal
  <1>2. CASE \/ CoordinateFails \/ CoordinateBlocked \/ CoordinateKnown \/ CoordinatePlans \/ Persist \/ PersistFails
             \/ ClaimFails \/ ReportExecution \/ BeginExecution \/ EndExecution \/ Joined \/ JoinedNone
    BY <1>2 DEF CoordinateFails, CoordinateBlocked, CoordinateKnown, CoordinatePlans, Persist, PersistFails,
                ClaimFails, ReportExecution, BeginExecution, EndExecution, Joined, JoinedNone
  <1>3. CASE SettleSuccessor \/ SettleRetry \/ SettleIdle \/ SettleRescan \/ SettlePreTask
    BY <1>3 DEF SettleSuccessor, SettleRetry, SettleIdle, SettleRescan, SettlePreTask
  <1>4. CASE WorkerEnded \/ RescanInvalid \/ RescanTerminal \/ RescanActive \/ Finish \/ Heartbeat
    BY <1>4 DEF WorkerEnded, RescanInvalid, RescanTerminal, RescanActive, Finish, Heartbeat
  <1> QED
    BY <1>1, <1>2, <1>3, <1>4 DEF MainStep


(* Up to the launch of a worker: what is launched is paid for.             *)
LEMMA ScanRestarted ==
  ASSUME ~AutoReplan, TypeInv, Attended, Rooted, Placed, Evidenced, Budget,
         Loop \/ ScanFlagged \/ ScanBlocked \/ ScanTerminal \/ ScanLaunch \/ WriteTerminal,
         UNCHANGED <<cycles, workers, lives>>
  PROVE  (Rooted /\ Placed)' /\ sup'.restarts = sup.restarts
  <1>0. /\ sup \in Sups /\ AbleOurs' = AbleOurs /\ Resumes' = Resumes /\ Spent' = Spent /\ (Hidden' <=> Hidden)
        /\ Old' = Old /\ Ours' = Ours /\ \A w : Attends(w)' <=> Attends(w)
    BY SameEvidence, RestartSets
  <1>a. pc \in {"scan", "rescan"} /\ ~Undecidable(0) => AbleOurs \subseteq Active(0)
    BY AtRest DEF Attended
  <1>b. sup'.restarts = sup.restarts => (Room' <=> Room)
    BY <1>0 DEF Room
  <1>1. CASE Loop
    <2>1. pc = "loop" /\ pc' \in {"scan", "finish"} /\ Calm
      BY <1>1 DEF Loop, At, Goto, Placed
    <2>2. CASE LoopEnds
      <3>1. sup' = sup /\ pc' = "finish"
        BY <1>1, <2>2 DEF Loop, Goto
      <3> QED
        BY <3>1 DEF Rooted, Placed
    <2>3. CASE ~LoopEnds
      <3>1. Restarts = sup.restarts
        BY DEF Restarts, Rooted
      <3>2. /\ sup'.queue = sup.queue /\ sup'.observed = 0 /\ sup'.prev = sup.queue /\ sup'.flag = sup.flag
            /\ sup'.launched = FALSE /\ sup'.restarts = Restarts
        <4>1. sup' = [NewSup EXCEPT !.queue = sup.queue, !.prev = sup.queue, !.restarts = Restarts,
                        !.worker = sup.worker, !.seedUsed = sup.seedUsed, !.flag = sup.flag,
                        !.termWritten = sup.termWritten]
          BY <1>1, <2>3 DEF Loop
        <4> QED
          BY <4>1 DEF NewSup
      <3>3. Calm'
        BY <1>0, <1>b, <2>1, <3>1, <3>2 DEF Calm
      <3>4. Rooted'
        BY <2>1, <3>1, <3>2 DEF Rooted
      <3> QED
        BY <2>1, <3>1, <3>2, <3>3, <3>4 DEF Placed
    <2> QED
      BY <2>2, <2>3
  <1>2. CASE ScanFlagged
    BY <1>2 DEF ScanFlagged, Rooted
  <1>3. CASE ScanBlocked
    <2>1. sup' = sup /\ pc' = "finish"
      BY <1>3 DEF ScanBlocked, Goto
    <2> QED
      BY <2>1 DEF Rooted, Placed
  <1>4. CASE ScanTerminal
    <2>1. /\ pc = "scan" /\ pc' = "terminal" /\ Active(0) = {} /\ ~Undecidable(0)
          /\ sup'.queue = sup.queue /\ sup'.observed = sup.queue
          /\ sup'.prev = sup.prev /\ sup'.flag = sup.flag /\ sup'.launched = sup.launched /\ sup'.restarts = sup.restarts
      BY <1>0, <1>4 DEF ScanTerminal, Decidable, At, Goto, Rooted, Sups
    <2>2. AbleOurs = {}
      BY <1>a, <2>1
    <2> QED
      BY <1>0, <2>1, <2>2 DEF Rooted, Placed
  <1>5. CASE ScanLaunch
    <2>1. PICK r \in Launchables : sup' = [sup EXCEPT !.observed = sup.queue, !.request = r]
      BY <1>5 DEF ScanLaunch
    <2>2. /\ pc = "scan" /\ pc' = "spawn" /\ sup'.queue = sup.queue /\ sup'.observed = sup.queue
          /\ sup'.prev = sup.prev /\ sup'.flag = sup.flag /\ sup'.launched = sup.launched /\ sup'.restarts = sup.restarts
          /\ sup'.request = r /\ sup.queue = 0 /\ ~Undecidable(0) /\ Cardinality(Active(0)) <= 1
      BY <1>0, <1>5, <2>1 DEF ScanLaunch, Decidable, At, Goto, Rooted, Sups
    <2>3. r.queue = 0
      BY <2>1, <2>2 DEF Launchables, Request
    <2>4. Rooted'
      BY <2>2, <2>3 DEF Rooted
    <2>5. Resuming(r)
      <3>1. CASE Active(0) = {}
        <4>1. r.mode = "fresh" /\ r.cycle = Null
          BY <2>1, <2>2, <3>1 DEF Launchables, Request
        <4> QED
          BY <1>a, <2>2, <3>1, <4>1 DEF Resuming
      <3>2. CASE Active(0) # {}
        <4>1. PICK c \in Active(0) : r = Request("resume", 0, c)
          BY <2>1, <2>2, <3>2 DEF Launchables
        <4>2. r.mode = "resume" /\ r.cycle = c
          BY <4>1 DEF Request
        <4>3. Active(0) = {c}
          <5>1. IsFiniteSet(Active(0)) /\ Cardinality(Active(0)) = 1
            <6>1. Cardinality(Active(0)) # 0 /\ IsFiniteSet(Active(0)) /\ Cardinality(Active(0)) \in Nat
              BY <3>2, RestartSets, FS_EmptySet
            <6> QED
              BY <2>2, <6>1
          <5>2. PICK d : Active(0) = {d}
            BY <5>1, FS_Singleton
          <5> QED
            BY <5>2
        <4>4. c \in DOMAIN cycles /\ cycles[c].ev = "active"
          BY DEF Active, With
        <4>5. c \in Old \cup Ours
          <5>1. PICK w \in DOMAIN workers : workers[w].cycle = c
            BY <4>4 DEF Evidenced, Owned
          <5>2. workers[w].life \in Nat /\ lives \in Nat /\ workers[w].life <= lives
            <6>1. workers[w] \in Worker /\ lives \in Nat
              BY ElementOfSeq, RestartSets DEF TypeInv, TypeOK
            <6> QED
              BY <6>1 DEF Worker, Attended
          <5> QED
            BY <4>4, <5>1, <5>2 DEF Old, Ours
        <4>6. AbleOurs \subseteq {c}
          BY <1>a, <2>2, <4>3
        <4>7. IsFiniteSet(Spent) /\ Cardinality(Spent) \in Nat /\ Cardinality(Resumes) \in Nat /\ sup.restarts \in Nat
          BY RestartSets
        <4>8. IsFiniteSet(Spent \cup ({c} \cap Old))
          BY <4>7, RestartSets, FS_Subset, FS_Union
        <4>9. Charged(c)
          <5>1. CASE c \in Ours
            <6>1. c \in AbleOurs
              BY <4>4, <5>1 DEF AbleOurs, Able
            <6>2. ~Hidden
              <7> SUFFICES ASSUME NEW d \in Old \ Ours, cycles[d].ev \in {"active", "broken"} PROVE FALSE
                BY DEF Hidden
              <7>1. d \in DOMAIN cycles /\ cycles[d].queue = 0
                BY DEF Old, Evidenced, RootOnly
              <7>2. cycles[d].ev # "broken"
                BY <2>2, <7>1 DEF Undecidable
              <7>3. d \in Active(0)
                BY <7>1, <7>2 DEF Active, With
              <7> QED
                BY <4>3, <5>1, <7>3
            <6>3. Room
              BY <2>2, <6>1, <6>2 DEF Placed, Calm
            <6>4. Cardinality(Spent) <= Cardinality(Spent \cup ({c} \cap Old)) /\ Cardinality(Spent \cup ({c} \cap Old)) \in Nat
              BY <4>7, <4>8, SpentMore
            <6> QED
              BY <4>7, <6>3, <6>4 DEF Room, Charged
          <5>2. CASE c \notin Ours
            <6>1. c \in Old /\ c \notin Spent
              BY <4>4, <4>5, <5>2 DEF Spent, Over, Terminal
            <6>2. /\ Cardinality(Spent) < Cardinality(Spent \cup ({c} \cap Old))
                  /\ Cardinality(Spent \cup ({c} \cap Old)) \in Nat
              BY <4>7, <4>8, <6>1, SpentMore
            <6>3. Cardinality(Resumes) <= sup.restarts + Cardinality(Spent)
              BY <2>2 DEF Budget
            <6> QED
              BY <4>7, <6>2, <6>3 DEF Charged
          <5> QED
            BY <5>1, <5>2
        <4> QED
          BY <4>2, <4>4, <4>5, <4>6, <4>9 DEF Resuming, Young
      <3> QED
        BY <3>1, <3>2
    <2>6. Resuming(r)'
      BY <1>0, <2>2, <2>5 DEF Resuming, Charged
    <2>7. Resuming(sup.request)'
      BY <2>2, <2>6 DEF Resuming, Charged
    <2> QED
      BY <2>2, <2>4, <2>7 DEF Placed
  <1>6. CASE WriteTerminal
    <2>1. /\ pc = "terminal" /\ pc' = "settled" /\ sup'.queue = sup.queue /\ sup'.observed = sup.observed
          /\ sup'.prev = sup.prev /\ sup'.flag = sup.flag /\ sup'.launched = sup.launched /\ sup'.restarts = sup.restarts
      BY <1>0, <1>6 DEF WriteTerminal, At, Goto, Sups
    <2> QED
      BY <1>0, <2>1 DEF Rooted, Placed
  <1> QED
    BY <1>1, <1>2, <1>3, <1>4, <1>5, <1>6

(* From the launch on.                                                     *)
LEMMA RestRestarted ==
  ASSUME ~AutoReplan, TypeInv, Attended, Rooted, Placed, Evidenced, Budget,
         \/ Joined \/ JoinedNone \/ SettleSuccessor \/ SettleRetry \/ SettleIdle \/ SettleRescan \/ SettlePreTask
         \/ WorkerEnded \/ RescanInvalid \/ RescanTerminal \/ RescanActive \/ Finish \/ Heartbeat,
         UNCHANGED <<cycles, workers, lives>>
  PROVE  (Rooted /\ Placed)' /\ sup'.restarts \in Nat /\ sup'.restarts >= sup.restarts
  <1>0. /\ sup \in Sups /\ AbleOurs' = AbleOurs /\ Resumes' = Resumes /\ Spent' = Spent /\ (Hidden' <=> Hidden)
        /\ Old' = Old /\ Ours' = Ours /\ sup.restarts \in Nat /\ \A w : Attends(w)' <=> Attends(w)
    BY SameEvidence, RestartSets
  <1>a. pc \in {"scan", "rescan"} /\ ~Undecidable(0) => AbleOurs \subseteq Active(0)
    BY AtRest DEF Attended
  <1>b. sup'.restarts = sup.restarts => (Room' <=> Room)
    BY <1>0 DEF Room
  <1>1. CASE Joined
    <2>1. /\ pc = "joined" /\ pc' = "wait" /\ sup.spawned \in DOMAIN workers /\ sup'.worker = sup.spawned
          /\ sup'.queue = sup.queue /\ sup'.observed = sup.observed /\ sup'.prev = sup.prev /\ sup'.flag = sup.flag
          /\ sup'.launched = sup.launched /\ sup'.restarts = sup.restarts
      BY <1>0, <1>1 DEF Joined, At, Goto, Sups
    <2>2. Attends(sup.worker)'
      BY <1>0, <2>1 DEF Placed, Attends
    <2> QED
      BY <1>0, <2>1, <2>2 DEF Rooted, Placed
  <1>2. CASE JoinedNone
    <2>1. pc = "joined" /\ pc' \in {"loop", "finish"} /\ sup.spawned \notin DOMAIN workers /\ sup' = sup
      BY <1>2 DEF JoinedNone, At, Goto
    <2>2. Calm'
      BY <1>0, <1>b, <2>1 DEF Placed, Calm
    <2> QED
      BY <1>0, <2>1, <2>2 DEF Rooted, Placed
  <1>3. CASE SettleSuccessor
    BY <1>3 DEF SettleSuccessor, FollowSuccessor, Rooted
  <1>4. CASE SettleRetry
    <2>1. /\ pc = "settled" /\ pc' = "spawn" /\ sup'.request = Request("seed", sup.queue, Null)
          /\ sup'.queue = sup.queue /\ sup'.observed = sup.observed /\ sup'.prev = sup.prev /\ sup'.flag = sup.flag
          /\ sup'.launched = sup.launched /\ sup'.restarts = sup.restarts
      BY <1>0, <1>4 DEF SettleRetry, Settled, At, Goto, Sups
    <2>2. sup'.request.mode = "seed" /\ sup'.request.cycle = Null /\ sup'.request.queue = sup.queue
      BY <2>1 DEF Request
    <2>3. Resuming(sup.request)'
      BY <1>0, <2>1, <2>2 DEF Placed, Resuming
    <2> QED
      BY <1>0, <2>1, <2>2, <2>3 DEF Rooted, Placed
  <1>5. CASE SettleIdle \/ SettleRescan \/ SettlePreTask
    <2>1. /\ pc = "settled" /\ pc' \in {"loop", "finish"} /\ sup'.flag \in {sup.flag, FALSE}
          /\ sup'.queue = sup.queue /\ sup'.observed = sup.observed /\ sup'.prev = sup.prev
          /\ sup'.launched = sup.launched /\ sup'.restarts = sup.restarts
      BY <1>0, <1>5 DEF SettleIdle, SettleRescan, SettlePreTask, Settled, At, Goto, Sups
    <2>2. Calm'
      BY <1>0, <2>1 DEF Placed, Calm
    <2>3. ~sup'.flag
      BY <2>1 DEF Rooted
    <2>4. Rooted'
      BY <2>1, <2>3 DEF Rooted
    <2>5. Placed'
      BY <2>1, <2>2 DEF Placed
    <2> QED
      BY <1>0, <2>1, <2>4, <2>5
  <1>6. CASE WorkerEnded \/ RescanInvalid \/ Finish \/ Heartbeat
    <2>1. /\ sup' = sup /\ pc # "off"
          /\ pc' \in {"finish", "ended"} \/ (pc = "wait" /\ pc' \in {"wait", "rescan"})
      BY <1>6 DEF WorkerEnded, RescanInvalid, Blocked, Finish, Heartbeat, At, Goto
    <2>2. pc = "wait" => Attends(sup.worker)'
      BY <1>0, <2>1 DEF Placed, Attends
    <2> QED
      BY <1>0, <2>1, <2>2 DEF Rooted, Placed
  <1>7. CASE RescanTerminal
    <2>1. PICK c \in Cycles, from \in {"rescan", "pre_task"} : sup' = [sup EXCEPT !.target = c, !.from = from]
      <3>1. DOMAIN cycles \subseteq Cycles
        BY DEF TypeInv, TypeOK
      <3> QED
        BY <1>7, <3>1 DEF RescanTerminal
    <2>2. /\ pc = "rescan" /\ pc' = "terminal" /\ Active(0) = {} /\ ~Undecidable(0)
          /\ sup'.queue = sup.queue /\ sup'.observed = sup.observed /\ sup'.prev = sup.prev /\ sup'.flag = sup.flag
          /\ sup'.launched = sup.launched /\ sup'.restarts = sup.restarts
      BY <1>0, <1>7, <2>1 DEF RescanTerminal, At, Goto, Sups, Rooted
    <2>3. AbleOurs = {}
      BY <1>a, <2>2
    <2> QED
      BY <1>0, <2>2, <2>3 DEF Rooted, Placed
  <1>8. CASE RescanActive
    <2> DEFINE crashed == ~workers[sup.worker].ok /\ Cardinality(Active(0)) = 1
               restart == ~stop /\ crashed /\ ~RestartsSpent
    <2>1. /\ pc = "rescan" /\ pc' \in {"loop", "finish"} /\ sup.observed = 0 /\ ~Undecidable(0)
          /\ sup' = [sup EXCEPT !.flag = FALSE, !.restarts = IF restart THEN @ + 1 ELSE @]
          /\ pc' = "loop" => ~stop /\ ~(crashed /\ RestartsSpent)
      <3>1. sup.observed = 0 /\ At("rescan")
        BY <1>8 DEF RescanActive, Rooted
      <3> QED
        BY <1>8, <3>1 DEF RescanActive, At, Goto, Blocked
    <2>2. /\ sup'.queue = sup.queue /\ sup'.observed = sup.observed /\ sup'.prev = sup.prev /\ sup'.flag = FALSE
          /\ sup'.launched = sup.launched /\ sup'.restarts = IF restart THEN sup.restarts + 1 ELSE sup.restarts
      BY <1>0, <2>1, LimitAssumption DEF Sups
    <2>3. Rooted'
      BY <2>1, <2>2 DEF Rooted
    <2>4. pc' = "loop" => Calm'
      <3> SUFFICES ASSUME pc' = "loop", AbleOurs # {} PROVE Room' \/ Hidden
        BY <1>0 DEF Calm
      <3>1. Attends(sup.worker)
        BY <2>1 DEF Placed
      <3>2. PICK c : c \in AbleOurs
        OBVIOUS
      <3>3. c = workers[sup.worker].cycle /\ c \in Active(0)
        BY <1>a, <2>1, <3>1, <3>2 DEF Attends
      <3>4. ~workers[sup.worker].ok
        BY <3>1, <3>3 DEF Attends, Evidenced, Completions, Active, With
      <3>5. CASE Cardinality(Active(0)) = 1
        <4>1. restart
          BY <2>1, <3>4, <3>5
        <4>2. Cardinality(Resumes) <= sup.restarts + Cardinality(Spent)
          BY <2>1 DEF Budget
        <4>3. sup'.restarts = sup.restarts + 1
          BY <2>2, <4>1
        <4>4. Cardinality(Resumes) \in Nat /\ Cardinality(Spent) \in Nat
          BY RestartSets
        <4> QED
          BY <1>0, <4>2, <4>3, <4>4 DEF Room
      <3>6. CASE Cardinality(Active(0)) # 1
        <4>1. PICK d \in Active(0) : d # c
          <5> SUFFICES ASSUME \A d \in Active(0) : d = c PROVE FALSE
            OBVIOUS
          <5>1. Active(0) = {c}
            BY <3>3
          <5> QED
            BY <3>6, <5>1, FS_Singleton
        <4>2. d \in DOMAIN cycles /\ cycles[d].ev = "active"
          BY DEF Active, With
        <4>3. d \notin Ours
          BY <3>1, <3>3, <4>1, <4>2 DEF Attends, AbleOurs, Able
        <4>4. d \in Old
          <5>1. PICK w \in DOMAIN workers : workers[w].cycle = d
            BY <4>2 DEF Evidenced, Owned
          <5>2. workers[w].life \in Nat /\ lives \in Nat /\ workers[w].life <= lives
            <6>1. workers[w] \in Worker /\ lives \in Nat
              BY ElementOfSeq, RestartSets DEF TypeInv, TypeOK
            <6> QED
              BY <6>1 DEF Worker, Attended
          <5> QED
            BY <4>2, <4>3, <5>1, <5>2 DEF Old, Ours
        <4> QED
          BY <4>2, <4>3, <4>4 DEF Hidden
      <3> QED
        BY <3>5, <3>6
    <2> HIDE DEF restart, crashed
    <2>5. sup'.restarts \in Nat /\ sup'.restarts >= sup.restarts
      BY <1>0, <2>2
    <2> QED
      BY <2>1, <2>3, <2>4, <2>5 DEF Placed
  <1> QED
    BY <1>0, <1>1, <1>2, <1>3, <1>4, <1>5, <1>6, <1>7, <1>8

(* At any time the lives so far are within the bound.                      *)
LEMMA BoundNow ==
  ASSUME TypeInv, Attended, Restarted
  PROVE  RestartsBounded
  <1> SUFFICES ASSUME NEW life \in 1..lives, NEW q \in Queues
               PROVE  Cardinality(Resumed(life, q)) <= MaxRestarts + Cardinality(Inherited(life, q))
    BY DEF RestartsBounded
  <1>0. /\ Evidenced /\ PastBounded /\ lives \in Nat /\ Budget
        /\ IsFiniteSet(DOMAIN cycles) /\ IsFiniteSet(Old) /\ Null \notin DOMAIN cycles
    <2>1. DOMAIN cycles = 1..Len(cycles) /\ 1 \in Int /\ Len(cycles) \in Int /\ Null \notin DOMAIN cycles
      BY RestartSets
    <2>2. IsFiniteSet(1..Len(cycles))
      BY ONLY <2>1, FS_Interval
    <2> QED
      BY <2>1, <2>2, RestartSets DEF Restarted, TypeInv
  <1>1. Inherited(life, q) \subseteq DOMAIN cycles
    <2>1. \A v \in DOMAIN workers : workers[v].cycle # Null => workers[v].cycle \in DOMAIN cycles
      BY RestartSets DEF TypeInv, Located
    <2> QED
      BY <2>1 DEF Inherited
  <1>2. IsFiniteSet(Inherited(life, q)) /\ Cardinality(Inherited(life, q)) \in Nat
    BY <1>0, <1>1, FS_Subset, FS_CardinalityType
  <1>3. CASE life < lives \/ pc = "off"
    BY <1>0, <1>3 DEF PastBounded
  <1>4. CASE life = lives /\ pc # "off" /\ q # 0
    <2>1. Resumed(life, q) = {}
      BY <1>0, <1>4 DEF Resumed, Evidenced, RootOnly
    <2>2. Cardinality(Resumed(life, q)) = 0
      BY <2>1, FS_EmptySet
    <2> QED
      BY <1>2, <2>2, LimitAssumption
  <1>5. CASE life = lives /\ pc # "off" /\ q = 0
    <2>1. Resumed(life, q) \subseteq Resumes
      BY <1>5 DEF Resumed, Resumes
    <2>2. Old \subseteq Inherited(life, q)
      <3> SUFFICES ASSUME NEW c \in Old PROVE c \in Inherited(life, q)
        OBVIOUS
      <3>1. PICK v \in DOMAIN workers : workers[v].life < lives /\ workers[v].cycle = c
        BY DEF Old
      <3>2. c # Null /\ workers[v].queue = 0
        BY <1>0 DEF Old, Evidenced, RootOnly
      <3> QED
        BY <1>5, <3>1, <3>2 DEF Inherited
    <2>3. Cardinality(Resumed(life, q)) <= Cardinality(Resumes) /\ Cardinality(Resumed(life, q)) \in Nat
      BY <2>1, RestartSets, SpentMore, FS_Subset
    <2>4. Cardinality(Old) <= Cardinality(Inherited(life, q))
      BY <1>2, <2>2, FS_Subset
    <2>5. Cardinality(Resumes) <= sup.restarts + Cardinality(Spent)
      BY <1>0, <1>5 DEF Budget
    <2>6. /\ Cardinality(Resumes) \in Nat /\ Cardinality(Spent) \in Nat /\ Cardinality(Old) \in Nat
          /\ Cardinality(Spent) <= Cardinality(Old) /\ sup.restarts \in Nat /\ sup.restarts <= MaxRestarts
      BY RestartSets, LimitAssumption
    <2> QED
      BY <1>2, <2>3, <2>4, <2>5, <2>6, LimitAssumption
  <1> QED
    BY <1>0, <1>3, <1>4, <1>5

\* Workers keep their life, queue and mode, and their cycle once they have one.
Lasting == \A v \in DOMAIN workers :
             /\ v \in DOMAIN workers' /\ workers'[v].life = workers[v].life
             /\ workers'[v].queue = workers[v].queue /\ workers'[v].mode = workers[v].mode
             /\ workers[v].cycle # Null => workers'[v].cycle = workers[v].cycle

LEMMA BoundKept ==
  ASSUME TypeInv, TypeInv', RestartsBounded, Lasting,
         lives' \in {lives, lives + 1}, pc' = "off" => lives' = lives,
         \/ DOMAIN workers' = DOMAIN workers
         \/ pc' # "off" /\ lives' = lives /\ \A v \in DOMAIN workers' \ DOMAIN workers : workers'[v].life = lives
  PROVE  PastBounded'
  <1> SUFFICES ASSUME NEW life \in 1..lives', NEW q \in Queues, life < lives' \/ pc' = "off"
               PROVE  Cardinality(Resumed(life, q)') <= MaxRestarts + Cardinality(Inherited(life, q)')
    BY DEF PastBounded
  <1>0. lives \in Nat /\ life \in 1..lives
    BY DEF TypeInv
  <1>1. DOMAIN workers' = DOMAIN workers \/ \A v \in DOMAIN workers' \ DOMAIN workers : workers'[v].life # life
    BY <1>0
  <1>2. Resumed(life, q)' = Resumed(life, q)
    BY <1>1 DEF Lasting, Resumed
  <1>3. Inherited(life, q) \subseteq Inherited(life, q)'
    BY DEF Lasting, Inherited
  <1>4. IsFiniteSet(Inherited(life, q)')
    <2>1. DOMAIN cycles' = 1..Len(cycles') /\ 1 \in Int /\ Len(cycles') \in Int /\ DOMAIN workers' = 1..Len(workers')
      BY DEF TypeInv, TypeOK
    <2>2. IsFiniteSet(1..Len(cycles'))
      BY ONLY <2>1, FS_Interval
    <2>3. \A v \in DOMAIN workers' : workers'[v].cycle # Null => workers'[v].cycle \in DOMAIN cycles'
      BY <2>1 DEF TypeInv, Located
    <2>4. Inherited(life, q)' \subseteq DOMAIN cycles'
      BY <2>3 DEF Inherited
    <2> QED
      BY <2>1, <2>2, <2>4, FS_Subset
  <1>5. /\ IsFiniteSet(Inherited(life, q)) /\ Cardinality(Inherited(life, q)) \in Nat
        /\ Cardinality(Inherited(life, q)') \in Nat
        /\ Cardinality(Inherited(life, q)) <= Cardinality(Inherited(life, q)')
    BY <1>3, <1>4, FS_Subset, FS_CardinalityType
  <1>6. Cardinality(Resumed(life, q)) <= MaxRestarts + Cardinality(Inherited(life, q))
    BY <1>0 DEF RestartsBounded
  <1>7. Cardinality(Resumed(life, q)) \in Nat
    <2>1. Resumed(life, q) \subseteq DOMAIN workers
      BY DEF Resumed
    <2>2. DOMAIN workers = 1..Len(workers) /\ 1 \in Int /\ Len(workers) \in Int
      BY RestartSets
    <2>3. IsFiniteSet(1..Len(workers))
      BY ONLY <2>2, FS_Interval
    <2> QED
      BY <2>1, <2>2, <2>3, FS_Subset, FS_CardinalityType
  <1> QED
    BY <1>2, <1>5, <1>6, <1>7, LimitAssumption

(* A launch: the cycle resumed is ours from now on.                        *)
LEMMA SpawnRestarted ==
  ASSUME TypeInv, TypeInv', Restarted, LauncherSpawns
  PROVE  Rooted' /\ Evidenced' /\ Placed' /\ Budget' /\ Lasting
         /\ \A v \in DOMAIN workers' \ DOMAIN workers : workers'[v].life = lives
  <1>a. PICK r : r = sup.request
    OBVIOUS
  <1>b. PICK k : k = Len(workers) + 1
    OBVIOUS
  <1>0. /\ Rooted /\ Evidenced /\ Placed /\ Budget /\ sup \in Sups /\ sup.restarts \in Nat
        /\ Null \notin DOMAIN cycles /\ lives \in Nat
    BY RestartSets DEF Restarted, TypeInv
  <1>1. /\ DOMAIN workers' = DOMAIN workers \cup {k} /\ k \notin DOMAIN workers
        /\ sup'.spawned = k /\ pc = "gated" /\ pc' = "joined" /\ UNCHANGED <<cycles, lives>>
    BY <1>b, SpawnedWorker DEF LauncherSpawns, Goto
  <1>2. /\ workers' = Append(workers, Spawned(r)) /\ Spawned(r) \in Worker /\ workers \in Seq(Worker)
        /\ DOMAIN workers = 1..Len(workers)
    BY <1>a DEF LauncherSpawns, Spawned, Worker, Requests, TypeInv, TypeOK, Located
  <1>3. /\ \A v \in DOMAIN workers : workers'[v] = workers[v]
        /\ workers'[k] = Spawned(r)
    BY <1>2, <1>b, AppendProperties
  <1>4. /\ sup'.queue = sup.queue /\ sup'.observed = sup.observed /\ sup'.prev = sup.prev /\ sup'.flag = sup.flag
        /\ sup'.launched = sup.launched /\ sup'.restarts = sup.restarts
    BY <1>0 DEF LauncherSpawns, Sups
  <1>5. /\ workers'[k].life = lives /\ workers'[k].mode = r.mode /\ workers'[k].cycle = r.cycle
        /\ workers'[k].ok = FALSE /\ workers'[k].queue = 0
    BY <1>0, <1>1, <1>3, <1>a DEF Spawned, Rooted
  <1>6. Resuming(r)
    BY <1>0, <1>1, <1>a DEF Placed
  <1>7. r.mode # "resume" => r.cycle = Null /\ AbleOurs = {}
    BY <1>6 DEF Resuming
  <1>8. r.mode = "resume" => /\ r.cycle \in DOMAIN cycles /\ cycles[r.cycle].ev \notin Young
                             /\ AbleOurs \subseteq {r.cycle} /\ Charged(r.cycle)
    BY <1>6 DEF Resuming, Old, Ours
  <1>9. \A c \in DOMAIN cycles : c \in Old' <=> c \in Old
    BY <1>0, <1>1, <1>3, <1>5 DEF Old
  <1>10. Old' = Old
    BY <1>1, <1>9 DEF Old
  <1>11. \A c \in DOMAIN cycles : c \in Ours' <=> c \in Ours \/ c = r.cycle
    BY <1>1, <1>3, <1>5 DEF Ours
  <1>12. \A c \in DOMAIN cycles : c # r.cycle => (Able(c)' <=> Able(c))
    BY <1>1, <1>3, <1>5 DEF Able, Alive
  <1>13. AbleOurs' \subseteq {r.cycle}
    <2>1. Ours' \subseteq DOMAIN cycles
      BY <1>1 DEF Ours
    <2> QED
      BY <1>7, <1>8, <1>11, <1>12, <2>1 DEF AbleOurs
  <1>14. Spent' = Spent \cup ({r.cycle} \cap Old)
    <2>1. Old \subseteq DOMAIN cycles
      BY DEF Old
    <2> QED
      BY <1>1, <1>10, <1>11, <2>1 DEF Spent
  <1>15. Placed'
    <2>1. Attends(k)'
      BY <1>1, <1>5, <1>13 DEF Attends
    <2> QED
      BY <1>1, <2>1 DEF Placed, Attends
  <1>16. Rooted'
    BY <1>0, <1>1, <1>4 DEF Rooted
  <1>17. Budget'
    <2>1. CASE r.mode = "resume"
      <3>1. Resumes' = Resumes \cup {k} /\ k \notin Resumes
        BY <1>1, <1>3, <1>5, <2>1 DEF Resumes
      <3>2. IsFiniteSet(Resumes) /\ Cardinality(Resumes) \in Nat
        BY RestartSets
      <3>3. Cardinality(Resumes \cup {k}) = Cardinality(Resumes) + 1
        BY <3>1, <3>2, FS_AddElement
      <3>4. Cardinality(Resumes) < sup.restarts + Cardinality(Spent')
        BY <1>8, <1>14, <2>1 DEF Charged
      <3>5. Cardinality(Spent') \in Nat
        <4>1. Spent' \subseteq Old
          BY <1>14 DEF Spent
        <4> QED
          BY <4>1, RestartSets, FS_Subset, FS_CardinalityType
      <3>6. Cardinality(Resumes') <= sup'.restarts + Cardinality(Spent')
        BY <1>0, <1>4, <3>1, <3>2, <3>3, <3>4, <3>5
      <3> QED
        BY <3>6 DEF Budget
    <2>2. CASE r.mode # "resume"
      <3>1. Resumes' = Resumes
        BY <1>1, <1>3, <1>5, <2>2 DEF Resumes
      <3>2. Spent' = Spent
        BY <1>0, <1>7, <1>14, <2>2 DEF Old
      <3>3. Cardinality(Resumes) <= sup.restarts + Cardinality(Spent)
        BY <1>0, <1>1 DEF Budget
      <3>4. Cardinality(Resumes') <= sup'.restarts + Cardinality(Spent')
        BY <1>4, <3>1, <3>2, <3>3
      <3> QED
        BY <3>4 DEF Budget
    <2> QED
      BY <2>1, <2>2
  <1>18. Evidenced'
    <2>1. Completions'
      BY <1>0, <1>1, <1>3, <1>5 DEF Evidenced, Completions
    <2>2. \A c \in DOMAIN cycles' : \E w \in DOMAIN workers' : workers'[w].cycle = c
      BY <1>0, <1>1, <1>3 DEF Evidenced, Owned
    <2>3. r.cycle # Null => cycles'[r.cycle].ev \notin Young
      BY <1>1, <1>7, <1>8
    <2>4. ASSUME NEW u \in DOMAIN workers', NEW v \in DOMAIN workers', workers'[u].cycle # Null,
                 workers'[u].cycle = workers'[v].cycle, cycles'[workers'[u].cycle].ev \in Young
          PROVE  u = v
      <3>1. u \in DOMAIN workers /\ v \in DOMAIN workers
        BY <1>1, <1>5, <2>3, <2>4
      <3> QED
        BY <1>0, <1>1, <1>3, <2>4, <3>1 DEF Evidenced, Owned
    <2>5. Owned'
      BY <2>2, <2>4 DEF Owned
    <2>6. RootOnly'
      BY <1>0, <1>1, <1>3, <1>5 DEF Evidenced, RootOnly
    <2> QED
      BY <2>1, <2>5, <2>6 DEF Evidenced
  <1>19. Lasting
    BY <1>1, <1>3 DEF Lasting
  <1> QED
    BY <1>1, <1>5, <1>15, <1>16, <1>17, <1>18, <1>19

(* A worker's step, of this life or of an earlier one.                     *)
LEMMA WorkerRestarted ==
  ASSUME TypeInv, TypeInv', Attended, Restarted, NEW w \in DOMAIN workers, WorkerStep(w)
  PROVE  Rooted' /\ Evidenced' /\ Placed' /\ Budget' /\ Lasting
  <1>0. Rooted /\ Evidenced /\ Placed /\ Budget /\ sup.restarts \in Nat
    BY RestartSets DEF Restarted
  <1>1. /\ Resumes' = Resumes /\ Spent \subseteq Spent' /\ (Hidden => Hidden' \/ Spent # Spent')
        /\ Old \subseteq Old' /\ \A c \in DOMAIN cycles : cycles[c].ev \notin Young => cycles'[c].ev \notin Young
        /\ workers[w].life # lives => Ours' = Ours /\ AbleOurs' \subseteq AbleOurs
        /\ \A v : Attends(v) /\ (workers[w].life = lives => v = w) => Attends(v)'
        /\ Evidenced'
    BY <1>0, WorkerSets
  <1>2. /\ Made(w) \/ Moved(w) \/ Left(w)
        /\ Alive(w) /\ DOMAIN workers' = DOMAIN workers
        /\ \A v \in DOMAIN workers : v # w => workers'[v] = workers[v]
        /\ \A v \in DOMAIN workers : /\ workers'[v].mode = workers[v].mode /\ workers'[v].queue = workers[v].queue
                                     /\ workers'[v].life = workers[v].life
    BY WorkerEffect
  <1>3. UNCHANGED <<lives, pc, sup>>
    BY WorkersKept DEF Outside
  <1>4. Rooted'
    BY <1>0, <1>3 DEF Rooted
  <1>5. Lasting
    BY <1>2 DEF Lasting, Made, Moved, Left
  <1>6. IsFiniteSet(Spent')
    <2>1. DOMAIN cycles' = 1..Len(cycles') /\ 1 \in Int /\ Len(cycles') \in Int
      BY DEF TypeInv, TypeOK
    <2>2. IsFiniteSet(1..Len(cycles'))
      BY ONLY <2>1, FS_Interval
    <2>3. Spent' \subseteq DOMAIN cycles'
      BY DEF Spent, Old
    <2> QED
      BY <2>1, <2>2, <2>3, FS_Subset
  <1>7. /\ Cardinality(Spent) \in Nat /\ Cardinality(Spent') \in Nat /\ Cardinality(Spent) <= Cardinality(Spent')
        /\ Spent # Spent' => Cardinality(Spent) < Cardinality(Spent')
    BY <1>1, <1>6, RestartSets, SpentMore
  <1>8. pc # "off" => Cardinality(Resumes) <= sup.restarts + Cardinality(Spent)
    BY <1>0 DEF Budget
  <1>9. Cardinality(Resumes) \in Nat
    BY RestartSets
  <1>10. Budget'
    <2>1. pc # "off" => Cardinality(Resumes') <= sup'.restarts + Cardinality(Spent')
      BY <1>0, <1>1, <1>3, <1>7, <1>8, <1>9
    <2> QED
      BY <1>3, <2>1 DEF Budget
  <1>11. Placed'
    <2>1. CASE pc = "off"
      BY <1>3, <2>1 DEF Placed
    <2>2. CASE pc # "off" /\ workers[w].life = lives
      <3>1. w \in LiveOf(lives)
        BY <1>2, <2>2 DEF LiveOf
      <3>2. \/ pc = "wait" /\ w = sup.worker
            \/ pc = "joined" /\ w = sup.spawned
        BY <2>2, <3>1 DEF Attended
      <3>3. Attends(w)
        BY <1>0, <3>2 DEF Placed
      <3>4. Attends(w)'
        BY <1>1, <3>3
      <3> QED
        BY <1>2, <1>3, <3>2, <3>4 DEF Placed, Attends
    <2>3. CASE pc # "off" /\ workers[w].life # lives
      <3>1. Ours' = Ours /\ AbleOurs' \subseteq AbleOurs /\ \A v : Attends(v) => Attends(v)'
        BY <1>1, <2>3
      <3>2. Room => Room'
        <4>1. Room' <=> Cardinality(Resumes') < sup'.restarts + Cardinality(Spent')
          BY DEF Room
        <4> QED
          BY <1>0, <1>1, <1>3, <1>7, <1>9, <4>1 DEF Room
      <3>3. Spent # Spent' => Room'
        <4>1. Room' <=> Cardinality(Resumes') < sup'.restarts + Cardinality(Spent')
          BY DEF Room
        <4> QED
          BY <1>0, <1>1, <1>3, <1>7, <1>8, <1>9, <2>3, <4>1
      <3>4. Calm => Calm'
        BY <1>1, <3>1, <3>2, <3>3 DEF Calm
      <3>5. pc \in {"spawn", "gated"} => Resuming(sup.request)'
        <4> SUFFICES ASSUME pc \in {"spawn", "gated"}, NEW r, r = sup.request, Resuming(r) PROVE Resuming(r)'
          BY <1>0, <1>3 DEF Placed, Resuming, Charged
        <4>1. CASE r.mode # "resume"
          BY <3>1, <4>1 DEF Resuming
        <4>2. CASE r.mode = "resume"
          <5> DEFINE S == Spent \cup ({r.cycle} \cap Old)
                     T == Spent' \cup ({r.cycle} \cap Old')
          <5>1. /\ r.cycle \in Old \cup Ours /\ cycles[r.cycle].ev \notin Young
                /\ AbleOurs \subseteq {r.cycle} /\ Cardinality(Resumes) < sup.restarts + Cardinality(S)
            BY <4>2 DEF Resuming, Charged
          <5>2. r.cycle \in DOMAIN cycles
            BY <5>1 DEF Old, Ours
          <5>3. S \subseteq T
            BY <1>1
          <5>4. IsFiniteSet(T)
            <6>1. T \subseteq Spent' \cup {r.cycle}
              OBVIOUS
            <6> QED
              BY <1>6, <6>1, FS_AddElement, FS_Subset
          <5>5. IsFiniteSet(S)
            BY <5>3, <5>4, FS_Subset
          <5>6. Cardinality(S) <= Cardinality(T) /\ Cardinality(S) \in Nat /\ Cardinality(T) \in Nat
            BY <5>3, <5>4, <5>5, SpentMore
          <5>7. Cardinality(Resumes') < sup'.restarts + Cardinality(T)
            BY <1>0, <1>1, <1>3, <1>9, <5>1, <5>6
          <5>8. Charged(r.cycle)'
            BY <1>3, <5>7 DEF Charged
          <5> QED
            BY <1>1, <3>1, <4>2, <5>1, <5>2, <5>8 DEF Resuming
        <4> QED
          BY <4>1, <4>2
      <3>6. pc \in {"loop", "scan"} => Calm'
        BY <1>0, <3>4 DEF Placed
      <3>7. pc = "joined" => IF sup.spawned \in DOMAIN workers THEN Attends(sup.spawned)' ELSE Calm'
        BY <1>0, <1>3, <3>1, <3>4 DEF Placed, Attends
      <3>8. pc \in {"terminal", "settled"} => AbleOurs' = {}
        BY <1>0, <3>1 DEF Placed
      <3>9. pc \in {"wait", "rescan"} => Attends(sup.worker)'
        BY <1>0, <1>3, <3>1 DEF Placed, Attends
      <3> QED
        BY <1>2, <1>3, <3>5, <3>6, <3>7, <3>8, <3>9 DEF Placed
    <2> QED
      BY <2>1, <2>2, <2>3
  <1> QED
    BY <1>1, <1>4, <1>5, <1>10, <1>11

LEMMA RestartedStep == ASSUME ~AutoReplan PROVE TypeInv /\ TypeInv' /\ Attended /\ Restarted /\ [Next]_vars => Restarted'
  <1> SUFFICES ASSUME TypeInv, TypeInv', Attended, Restarted, [Next]_vars PROVE Restarted'
    OBVIOUS
  <1>0. /\ Rooted /\ Evidenced /\ Placed /\ Budget /\ RestartsBounded /\ sup \in Sups /\ sup.restarts \in Nat
        /\ Cardinality(Resumes) \in Nat /\ Cardinality(Spent) \in Nat /\ lives \in Nat
    BY BoundNow, RestartSets DEF Restarted, TypeInv
  <1>1. ASSUME UNCHANGED <<workers, lives>> PROVE PastBounded'
    <2>1. Lasting /\ DOMAIN workers' = DOMAIN workers
      BY <1>1 DEF Lasting
    <2> QED
      BY <1>0, <1>1, <2>1, BoundKept
  <1>2. ASSUME UNCHANGED <<cycles, workers, lives>>, pc # "off", sup'.restarts \in Nat, sup'.restarts >= sup.restarts
        PROVE  Evidenced' /\ Budget'
    <2>1. Evidenced' /\ Resumes' = Resumes /\ Spent' = Spent
      BY <1>0, <1>2, SameEvidence
    <2>2. Cardinality(Resumes) <= sup'.restarts + Cardinality(Spent)
      BY <1>0, <1>2 DEF Budget
    <2>3. Cardinality(Resumes') <= sup'.restarts + Cardinality(Spent')
      BY <2>1, <2>2
    <2> QED
      BY <2>1, <2>3 DEF Budget
  <1>3. CASE MainStep \/ Heartbeat
    <2>1. UNCHANGED <<cycles, workers, lives>>
      BY <1>3, MainCycles, MainQuiet
    <2>2. pc # "off"
      BY <1>3 DEF MainStep, Heartbeat, Loop, ScanFlagged, ScanBlocked, ScanTerminal, ScanLaunch, WriteTerminal,
             CoordinateFails, CoordinateBlocked, CoordinateKnown, CoordinatePlans, Persist, PersistFails,
             ClaimFails, ReportExecution, BeginExecution, EndExecution, Joined, JoinedNone, SettleSuccessor,
             SettleRetry, SettleIdle, WorkerEnded, RescanInvalid, RescanTerminal, SettleRescan, SettlePreTask,
             RescanActive, Finish, Settled, At
    <2>3. Rooted' /\ Placed' /\ sup'.restarts \in Nat /\ sup'.restarts >= sup.restarts
      <3>1. CASE Loop \/ ScanFlagged \/ ScanBlocked \/ ScanTerminal \/ ScanLaunch \/ WriteTerminal
        <4>1. Rooted' /\ Placed' /\ sup'.restarts = sup.restarts
          BY <1>0, <2>1, <3>1, ScanRestarted
        <4> QED
          BY <1>0, <4>1
      <3>2. CASE \/ Joined \/ JoinedNone \/ SettleSuccessor \/ SettleRetry \/ SettleIdle \/ SettleRescan \/ SettlePreTask
                 \/ WorkerEnded \/ RescanInvalid \/ RescanTerminal \/ RescanActive \/ Finish \/ Heartbeat
        BY <1>0, <2>1, <3>2, RestRestarted
      <3>3. CASE \/ CoordinateFails \/ CoordinateBlocked \/ CoordinateKnown \/ CoordinatePlans \/ Persist \/ PersistFails
                 \/ ClaimFails \/ ReportExecution \/ BeginExecution \/ EndExecution
        BY <3>3 DEF CoordinateFails, CoordinateBlocked, CoordinateKnown, CoordinatePlans, Persist, PersistFails,
                    ClaimFails, ReportExecution, BeginExecution, EndExecution, At, Attended
      <3> QED
        BY <1>3, <3>1, <3>2, <3>3 DEF MainStep
    <2>4. Evidenced' /\ Budget' /\ PastBounded'
      BY <1>1, <1>2, <2>1, <2>2, <2>3
    <2> QED
      BY <2>3, <2>4 DEF Restarted
  <1>4. CASE Start
    <2>1. UNCHANGED <<cycles, workers>> /\ lives' = lives + 1 /\ sup' = NewSup /\ pc' = "loop"
      BY <1>4 DEF Start, Goto, disk
    <2>2. \A v \in DOMAIN workers : workers[v].life # lives'
      <3>1. \A v \in DOMAIN workers : workers[v].life \in Nat /\ workers[v].life <= lives
        <4>1. \A v \in DOMAIN workers : workers[v] \in Worker
          BY ElementOfSeq, RestartSets DEF TypeInv, TypeOK
        <4> QED
          BY <4>1 DEF Worker, Attended
      <3> QED
        BY <1>0, <2>1, <3>1
    <2>3. Resumes' = {} /\ Ours' = {}
      BY <2>1, <2>2 DEF Resumes, Ours
    <2>4. Calm'
      BY <2>3 DEF Calm, AbleOurs
    <2>5. Placed'
      BY <2>1, <2>4 DEF Placed
    <2>6. Rooted'
      BY <2>1 DEF Rooted, NewSup
    <2>7. Evidenced'
      BY <1>0, <2>1 DEF Evidenced, Completions, Owned, RootOnly
    <2>8. Budget'
      <3>1. Cardinality(Resumes') = 0
        BY <2>3, FS_EmptySet
      <3>2. Cardinality(Spent') \in Nat
        <4>1. DOMAIN cycles = 1..Len(cycles) /\ 1 \in Int /\ Len(cycles) \in Int
          BY RestartSets
        <4>2. IsFiniteSet(1..Len(cycles))
          BY ONLY <4>1, FS_Interval
        <4>3. Spent' \subseteq DOMAIN cycles
          BY <2>1 DEF Spent, Old
        <4> QED
          BY <4>1, <4>2, <4>3, FS_Subset, FS_CardinalityType
      <3>3. sup'.restarts = 0
        BY <2>1 DEF NewSup
      <3>4. Cardinality(Resumes') <= sup'.restarts + Cardinality(Spent')
        BY <3>1, <3>2, <3>3
      <3> QED
        BY <3>4 DEF Budget
    <2>9. PastBounded'
      <3>1. Lasting /\ DOMAIN workers' = DOMAIN workers
        BY <2>1 DEF Lasting
      <3> QED
        BY <1>0, <2>1, <3>1, BoundKept
    <2> QED
      BY <2>5, <2>6, <2>7, <2>8, <2>9 DEF Restarted
  <1>5. CASE LauncherEnters \/ LauncherDeclines
    <2>1. UNCHANGED <<cycles, workers, lives>>
      BY <1>5 DEF LauncherEnters, LauncherDeclines, disk
    <2>2. /\ AbleOurs' = AbleOurs /\ Resumes' = Resumes /\ Spent' = Spent /\ (Hidden' <=> Hidden)
          /\ Old' = Old /\ Ours' = Ours
      BY <2>1, SameEvidence
    <2>3. /\ sup'.queue = sup.queue /\ sup'.observed = sup.observed /\ sup'.prev = sup.prev /\ sup'.flag = sup.flag
          /\ sup'.launched = sup.launched /\ sup'.restarts = sup.restarts /\ sup'.request = sup.request
          /\ pc \in {"spawn", "gated"} /\ pc' \in {"gated", "joined"}
          /\ pc' = "joined" => sup'.spawned \in {Null, 0}
      BY <1>0, <1>5 DEF LauncherEnters, LauncherDeclines, Goto, Sups
    <2>4. Rooted'
      BY <1>0, <2>3 DEF Rooted
    <2>5. Evidenced' /\ Budget' /\ PastBounded'
      BY <1>0, <1>1, <1>2, <2>1, <2>3
    <2>6. PICK r : r = sup.request
      OBVIOUS
    <2>7. Resuming(r)
      BY <1>0, <2>3, <2>6 DEF Placed
    <2>8. Placed'
      <3>1. CASE pc' = "gated"
        <4>1. Resuming(r)'
          BY <2>1, <2>2, <2>3, <2>7 DEF Resuming, Charged
        <4>2. Resuming(sup.request)'
          BY <2>3, <2>6, <4>1 DEF Resuming, Charged
        <4> QED
          BY <3>1, <4>2 DEF Placed
      <3>2. CASE pc' = "joined"
        <4>1. sup'.spawned \notin DOMAIN workers'
          BY <2>1, <2>3, <3>2, RestartSets
        <4>2. Calm
          <5>1. CASE r.mode # "resume" \/ r.cycle \notin Ours
            BY <2>7, <5>1 DEF Resuming, Calm, AbleOurs
          <5>2. CASE r.mode = "resume" /\ r.cycle \in Ours
            <6>1. Spent \cup ({r.cycle} \cap Old) = Spent
              BY <5>2 DEF Spent
            <6> QED
              BY <2>7, <5>2, <6>1 DEF Resuming, Charged, Calm, Room
          <5> QED
            BY <5>1, <5>2
        <4>3. Calm'
          BY <2>2, <2>3, <4>2 DEF Calm, Room
        <4> QED
          BY <3>2, <4>1, <4>3 DEF Placed
      <3> QED
        BY <2>3, <3>1, <3>2
    <2> QED
      BY <2>4, <2>5, <2>8 DEF Restarted
  <1>6. CASE LauncherSpawns
    <2>1. /\ Rooted' /\ Evidenced' /\ Placed' /\ Budget' /\ Lasting
          /\ \A v \in DOMAIN workers' \ DOMAIN workers : workers'[v].life = lives
      BY <1>6, SpawnRestarted
    <2>2. pc' = "joined" /\ lives' = lives
      BY <1>6 DEF LauncherSpawns, Goto
    <2>3. PastBounded'
      BY <1>0, <2>1, <2>2, BoundKept
    <2> QED
      BY <2>1, <2>3 DEF Restarted
  <1>7. CASE Signal \/ HandlerStep \/ UNCHANGED vars
    <2>1. UNCHANGED <<cycles, workers, lives, pc, sup>>
      BY <1>7 DEF Signal, HandlerStep, HandlerEnters, HandlerStops, disk, vars
    <2>2. /\ AbleOurs' = AbleOurs /\ Resumes' = Resumes /\ Spent' = Spent /\ (Hidden' <=> Hidden)
          /\ Old' = Old /\ Ours' = Ours /\ (Evidenced' <=> Evidenced)
      BY <2>1, SameEvidence
    <2>3. Rooted' /\ Budget'
      BY <1>0, <2>1, <2>2 DEF Rooted, Budget
    <2>4. Placed'
      <3>1. Calm' <=> Calm
        BY <2>1, <2>2 DEF Calm, Room
      <3>2. Resuming(sup.request)' <=> Resuming(sup.request)
        BY <2>1, <2>2 DEF Resuming, Charged
      <3>3. /\ Attends(sup.worker)' <=> Attends(sup.worker)
            /\ Attends(sup.spawned)' <=> Attends(sup.spawned)
        BY <2>1, <2>2 DEF Attends
      <3> QED
        BY <1>0, <2>1, <2>2, <3>1, <3>2, <3>3 DEF Placed
    <2>5. PastBounded'
      BY <1>1, <2>1
    <2> QED
      BY <1>0, <2>2, <2>3, <2>4, <2>5 DEF Restarted
  <1>8. CASE Kill
    <2>1. UNCHANGED <<cycles, workers, lives>> /\ sup' = NewSup /\ pc' = "off"
      BY <1>8 DEF Kill, Goto, disk
    <2>2. Rooted' /\ Placed' /\ Budget'
      BY <2>1 DEF Rooted, Placed, Budget, NewSup
    <2>3. Evidenced' /\ PastBounded'
      BY <1>0, <1>1, <2>1, SameEvidence
    <2> QED
      BY <2>2, <2>3 DEF Restarted
  <1>9. CASE \E w \in DOMAIN workers : WorkerStep(w)
    <2>1. PICK w \in DOMAIN workers : WorkerStep(w)
      BY <1>9
    <2>2. Rooted' /\ Evidenced' /\ Placed' /\ Budget' /\ Lasting
      BY <2>1, WorkerRestarted
    <2>3. DOMAIN workers' = DOMAIN workers /\ lives' = lives
      BY <2>1, WorkersKept DEF Outside
    <2>4. PastBounded'
      BY <1>0, <2>2, <2>3, BoundKept
    <2> QED
      BY <2>2, <2>4 DEF Restarted
  <1> QED
    BY <1>3, <1>4, <1>5, <1>6, <1>7, <1>8, <1>9 DEF Next, LauncherStep

(* Without --auto-replan a supervisor resumes the crashed cycles of its    *)
(* queue no more often than --max-crash-restarts allows, and once more for *)
(* each cycle that the processes before it left, however often it or its   *)
(* workers are killed, shutdowns are asked for and launches fail.  The     *)
(* count that run_forever keeps is never lost or passed by: what it leaves *)
(* out is the crash of a worker that ran next to one of a killed process.  *)
THEOREM RestartsCounted == ASSUME ~AutoReplan PROVE Spec => []RestartsBounded
  <1>1. Init => Restarted
    <2> SUFFICES ASSUME Init PROVE Restarted
      OBVIOUS
    <2>1. Rooted /\ Placed /\ Budget /\ PastBounded
      BY DEF Init, Rooted, Placed, Budget, PastBounded, NewSup
    <2>2. Evidenced
      BY DEF Init, Evidenced, Completions, Owned, RootOnly
    <2> QED
      BY <2>1, <2>2 DEF Restarted
  <1>2. Init => Attended
    BY DEF Init, Attended, LiveOf
  <1>3. TypeInv /\ Attended /\ Restarted => RestartsBounded
    BY BoundNow
  <1> QED
    BY <1>1, <1>2, <1>3, RestartedStep, AttendedStep, AlwaysTyped, PTL DEF Spec

=============================================================================
