----------------------------- MODULE Supervisor -----------------------------
(***************************************************************************)
(* The process supervisor of a repository's multi-cycle runs               *)
(* (repository_multi_cycle_supervisor.py) with the replan coordinator it   *)
(* calls and the workers it launches.  A supervisor discovers the evidence *)
(* of its queue, launches one worker, waits for it, and answers a terminal *)
(* cycle with a replan or a retry.  It may be killed and started again;    *)
(* workers run in a session of their own and outlive it.                   *)
(*                                                                         *)
(* Shutdown signals run their handler in the main thread, on top of what   *)
(* the thread was doing; workers are spawned by a launcher thread.  Both   *)
(* take the launch gate, a lock that is not reentrant.                     *)
(*                                                                         *)
(* Queue 0 is the root queue and queue n the successor of attempt n.  A    *)
(* cycle's evidence is what the classifier can tell of it; how a worker    *)
(* produces it is the subject of MultiCycleExecutor, and how a launch is   *)
(* recorded that of ReplanLaunch.                                          *)
(***************************************************************************)
EXTENDS Naturals, Sequences, FiniteSets, ReplanCampaign

CONSTANTS
  MaxReplans,      \* --max-auto-replans
  MaxRestarts,     \* --max-crash-restarts
  AutoReplan,      \* --auto-replan
  ResumeTerminal,  \* --resume-terminal
  Null,
  MaxCycles,       \* bound: cycle directories
  MaxWorkers,      \* bound: workers ever launched
  MaxLives,        \* bound: supervisors started one after another
  MaxSignals,      \* bound: shutdown signals
  MaxErrors        \* bound: I/O errors and failures to spawn

ASSUME CyclesAssumption  == MaxCycles \in Nat /\ Cycles = 1..MaxCycles
ASSUME LimitAssumption   == MaxReplans \in Nat /\ MaxRestarts \in Nat
ASSUME OptionAssumption  == AutoReplan \in BOOLEAN /\ ResumeTerminal \in BOOLEAN
ASSUME NullAssumption    == Null \notin Nat \cup {"launching", "launched", "launch_uncertain"}

VARIABLES
  cycles,      \* the cycle directories, in the order of their names
  workers,     \* worker processes, in the order of their launches
  attempts,    \* attempt directories of the campaign
  execution,   \* execution[n]: launch_execution.json of attempt n
  status,      \* state of status.json
  pc,          \* next step of the main thread; "ended": it returned
  sup,         \* attributes of the supervisor and locals of its main thread
  gate,        \* holder of _launch_gate
  stop,        \* stop_event
  frames,      \* signal handlers on top of the main thread's code
  lives, signals, errors

vars == <<cycles, workers, attempts, execution, status, pc, sup, gate, stop, frames, lives, signals, errors>>
disk == <<cycles, workers, attempts, execution>>
proc == <<gate, stop, frames, lives, signals>>

Queues     == 0..MaxReplans
Terminal   == {"failed", "final", "completed"}   \* failed: eligible for a replan
Evidence   == Terminal \cup {"bare", "empty", "broken", "active", "refusing", "closing", "pre_task"}
Cycle      == [queue : Queues, ev : Evidence]
Modes      == {"fresh", "resume", "seed", "successor"}
Worker     == [queue : Queues, mode : Modes, cycle : Cycles \cup {Null}, life : Nat, alive : BOOLEAN, ok : BOOLEAN]
Requests   == [mode : Modes, queue : Queues, cycle : Cycles \cup {Null}]
Executions == {Null, "launching", "launched", "launch_uncertain"}
Statuses   == {"none", "idle", "worker_active", "terminal", "blocked"}
PCs        == {"off", "loop", "scan", "terminal", "coordinate", "persist", "claim", "spawn", "gated",
               "joined", "settled", "wait", "rescan", "finish", "ended"}

Sups == [queue : Queues, prev : Queues \cup {Null}, restarts : 0..MaxRestarts, worker : Nat \cup {Null},
         seedUsed : BOOLEAN, flag : BOOLEAN, termWritten : BOOLEAN, observed : Queues,
         target : Cycles \cup {Null}, from : {"once", "rescan", "pre_task"},
         replan : {"none", "blocked"} \cup Decisions, attempt : Queues, launched : BOOLEAN,
         request : Requests \cup {Null}, go : BOOLEAN, spawned : Nat \cup {Null}]

\* queue: queue_spec_path; flag: _auto_successor_worker_active; seedUsed:
\* _terminal_resume_consumed; replan, attempt, launched: the last results of
\* coordinator and launch; go: the guard of the launcher; spawned: its outcome, 0 when it raised;
\* target, from: the cycle given to _write_terminal_status and the caller.
NewSup == [queue |-> 0, prev |-> Null, restarts |-> 0, worker |-> Null, seedUsed |-> FALSE, flag |-> FALSE,
           termWritten |-> FALSE, observed |-> 0, target |-> Null, from |-> "once",
           replan |-> "none", attempt |-> 0, launched |-> FALSE, request |-> Null, go |-> FALSE, spawned |-> Null]

Init ==
  /\ cycles = <<>> /\ workers = <<>> /\ attempts = <<>>
  /\ execution = [n \in 1..MaxReplans |-> Null]
  /\ status = "none" /\ pc = "off" /\ sup = NewSup
  /\ gate = "free" /\ stop = FALSE /\ frames = <<>>
  /\ lives = 0 /\ signals = 0 /\ errors = 0

(***************************************************************************)
(* Discovery: _candidates over classify_cycle_evidence.  A directory with  *)
(* nothing in it and an incomplete checkpoint are invalid to every queue,  *)
(* a receipt without its sidecar to its own.                               *)
(***************************************************************************)
With(q, kinds)  == {c \in DOMAIN cycles : cycles[c].queue = q /\ cycles[c].ev \in kinds}
Active(q)       == With(q, {"active"})
Ended(q)        == With(q, Terminal)
PreTask(q)      == With(q, {"pre_task"})
Undecidable(q)  == With(q, {"refusing", "closing"}) # {} \/ \E c \in DOMAIN cycles : cycles[c].ev \in {"bare", "broken"}

Latest(c, cs) == c \in cs /\ \A d \in cs : d <= c

Alive(w) == workers[w].alive

\* The main thread runs its own code.
At(l)     == pc = l /\ frames = <<>>
Goto(l)   == pc' = l
Fail      == errors < MaxErrors /\ errors' = errors + 1
NoError   == UNCHANGED errors

(***************************************************************************)
(* run_forever                                                             *)
(***************************************************************************)
\* A new process; the flock of the last one is gone with it.
Start ==
  /\ pc \in {"off", "ended"} /\ lives < MaxLives
  /\ lives' = lives + 1
  /\ sup' = NewSup /\ stop' = FALSE /\ status' = "idle"
  /\ Goto("loop")
  /\ UNCHANGED <<disk, gate, frames, signals, errors>>

\* Fault: the restarts of one queue are counted from zero at every pass.
ForgottenRestarts == 0

Restarts == IF sup.queue = sup.prev THEN sup.restarts ELSE 0

\* Fault: the stop event is not looked at between polls.
LoopNeverEnds == FALSE

LoopEnds == stop

Loop ==
  /\ At("loop")
  /\ IF LoopEnds THEN Goto("finish") /\ UNCHANGED sup
     ELSE /\ Goto("scan")
          /\ sup' = [NewSup EXCEPT !.queue = sup.queue, !.prev = sup.queue, !.restarts = Restarts,
                       !.worker = sup.worker, !.seedUsed = sup.seedUsed, !.flag = sup.flag,
                       !.termWritten = sup.termWritten]
  /\ UNCHANGED <<disk, status, proc, errors>>

(***************************************************************************)
(* run_once                                                                *)
(***************************************************************************)
Decidable == ~Undecidable(sup.queue) /\ Cardinality(Active(sup.queue)) <= 1

PreTaskOnly == ResumeTerminal /\ PreTask(sup.queue) # {} /\ Active(sup.queue) = {} /\ Ended(sup.queue) = {}

\* A successor is taken to run already.
ScanFlagged ==
  /\ At("scan") /\ sup.flag
  /\ Goto("wait") /\ sup' = [sup EXCEPT !.observed = sup.queue]
  /\ UNCHANGED <<disk, status, proc, errors>>

\* A blocked result ends the supervisor; status.json keeps what it said.
ScanBlocked ==
  /\ At("scan") /\ ~sup.flag /\ (~Decidable \/ PreTaskOnly)
  /\ Goto("finish")
  /\ UNCHANGED <<disk, status, sup, proc, errors>>

ScanTerminal ==
  /\ At("scan") /\ ~sup.flag /\ Decidable /\ ~PreTaskOnly
  /\ Active(sup.queue) = {} /\ Ended(sup.queue) # {}
  /\ Goto("terminal")
  /\ \E c \in Ended(sup.queue) : /\ Latest(c, Ended(sup.queue))
                                 /\ sup' = [sup EXCEPT !.target = c, !.from = "once", !.observed = sup.queue]
  /\ UNCHANGED <<disk, status, proc, errors>>

Request(mode, queue, c) == [mode |-> mode, queue |-> queue, cycle |-> c]

\* Fault: an active cycle is not resumed.
LaunchFresh == Active(sup.queue) = {} /\ Ended(sup.queue) = {}

\* What is launched: the active cycle, or a fresh one if nothing is recorded.
Launchable == Active(sup.queue) # {} \/ Ended(sup.queue) = {}

Launchables ==
  IF Active(sup.queue) = {} THEN {Request("fresh", sup.queue, Null)}
                            ELSE {Request("resume", sup.queue, c) : c \in Active(sup.queue)}

ScanLaunch ==
  /\ At("scan") /\ ~sup.flag /\ Decidable /\ ~PreTaskOnly /\ Launchable
  /\ Goto("spawn")
  /\ \E r \in Launchables : sup' = [sup EXCEPT !.observed = sup.queue, !.request = r]
  /\ UNCHANGED <<disk, status, proc, errors>>

(***************************************************************************)
(* _write_terminal_status, and the coordinator for an eligible cycle.      *)
(***************************************************************************)
WriteTerminal ==
  /\ At("terminal")
  /\ status' = "terminal"
  /\ sup' = [sup EXCEPT !.termWritten = TRUE]
  /\ Goto(IF AutoReplan /\ cycles[sup.target].ev = "failed" THEN "coordinate" ELSE "settled")
  /\ UNCHANGED <<disk, proc, errors>>

\* Result of the coordinator; a successor is launched next.
Replan(result, n) ==
  /\ sup' = [sup EXCEPT !.replan = result, !.attempt = n]
  /\ Goto(IF result = "successor" THEN "claim" ELSE "settled")

Known == Answers(attempts, sup.target)

CoordinateFails ==
  /\ At("coordinate") /\ Fail
  /\ Replan("blocked", 0)
  /\ UNCHANGED <<disk, status, proc>>

\* Damaged campaign, stale event, spent budget, or the planner declines.
CoordinateBlocked ==
  /\ At("coordinate") /\ (CampaignLoads(attempts) => Known = {})
  /\ Replan("blocked", 0)
  /\ UNCHANGED <<disk, status, proc, errors>>

\* The event was answered before: the persisted decision is returned.
CoordinateKnown ==
  /\ At("coordinate") /\ CampaignLoads(attempts) /\ Known # {}
  /\ \E n \in Known : Replan(attempts[n].decision, n)
  /\ UNCHANGED <<disk, status, proc, errors>>

\* Fault: the event is not compared with those answered before.
AnyEvent == TRUE

\* Neither answered before nor older than what was: it may get an attempt.
Unanswered == Known = {} /\ Fresh(attempts, sup.target)

\* The planner decides; persist_replan_result makes the attempt directory.
CoordinatePlans ==
  /\ At("coordinate") /\ CampaignLoads(attempts) /\ Unanswered
  /\ Len(attempts) < MaxReplans
  /\ \E d \in Decisions :
       attempts' = Append(attempts, [cycle |-> sup.target, decision |-> d, stage |-> "dir"])
  /\ Goto("persist")
  /\ UNCHANGED <<cycles, workers, execution, status, sup, proc, errors>>

Persist ==
  /\ At("persist")
  /\ LET n == Len(attempts) IN
       IF attempts[n].stage = "campaign"
       THEN Replan(attempts[n].decision, n) /\ UNCHANGED attempts
       ELSE /\ attempts' = [attempts EXCEPT ![n].stage = NextStage(attempts[n])]
            /\ UNCHANGED <<pc, sup>>
  /\ UNCHANGED <<cycles, workers, execution, status, proc, errors>>

\* What was written so far stays.
PersistFails ==
  /\ At("persist") /\ Fail
  /\ Replan("blocked", 0)
  /\ UNCHANGED <<disk, status, proc>>

(***************************************************************************)
(* _launch_replan_successor: the claim and its execution, as ReplanLaunch  *)
(* has them: an execution that was begun is reported, never repeated.      *)
(***************************************************************************)
ClaimFails ==
  /\ At("claim") /\ Fail
  /\ Goto("settled")
  /\ UNCHANGED <<disk, status, sup, proc>>

\* Fault: an execution that was begun and not finished is begun again.
Unlaunched(n) == execution[n] # "launched"

Unexecuted(n) == execution[n] = Null

ReportExecution ==
  /\ At("claim") /\ ~Unexecuted(sup.attempt)
  /\ sup' = [sup EXCEPT !.launched = execution[sup.attempt] = "launched"]
  /\ Goto("settled")
  /\ UNCHANGED <<disk, status, proc, errors>>

BeginExecution ==
  /\ At("claim") /\ Unexecuted(sup.attempt)
  /\ execution' = [execution EXCEPT ![sup.attempt] = "launching"]
  /\ sup' = [sup EXCEPT !.request = Request("successor", sup.attempt, Null)]
  /\ Goto("spawn")
  /\ UNCHANGED <<cycles, workers, attempts, status, proc, errors>>

\* The outcome is recorded, unless that fails and the record stays as it is.
EndExecution ==
  /\ At("joined") /\ sup.request.mode = "successor"
  /\ LET up == sup.spawned \in DOMAIN workers IN
     \/ /\ execution' = [execution EXCEPT ![sup.attempt] = IF up THEN "launched" ELSE "launch_uncertain"]
        /\ sup' = [sup EXCEPT !.worker = IF up THEN sup.spawned ELSE @, !.flag = up \/ @, !.launched = up]
        /\ NoError
     \/ /\ Fail
        /\ sup' = [sup EXCEPT !.worker = IF up THEN sup.spawned ELSE @, !.flag = up \/ @]
        /\ UNCHANGED execution
  /\ Goto("settled")
  /\ UNCHANGED <<cycles, workers, attempts, status, proc>>

(***************************************************************************)
(* _launch_or_shutdown: a launcher thread takes the gate, looks at the     *)
(* stop event and spawns.                                                  *)
(***************************************************************************)
\* Fault: the gate is not taken.
GateIgnored(who) == gate' = IF gate = "free" THEN who ELSE gate

TakeGate(who) == gate = "free" /\ gate' = who

LauncherEnters ==
  /\ pc = "spawn" /\ TakeGate("launcher")
  /\ sup' = [sup EXCEPT !.go = ~stop]
  /\ Goto("gated")
  /\ UNCHANGED <<disk, status, stop, frames, lives, signals, errors>>

Spawned(r) == [queue |-> r.queue, mode |-> r.mode, cycle |-> r.cycle, life |-> lives, alive |-> TRUE, ok |-> FALSE]

LauncherSpawns ==
  /\ pc = "gated" /\ sup.go /\ Len(workers) < MaxWorkers
  /\ workers' = Append(workers, Spawned(sup.request))
  /\ sup' = [sup EXCEPT !.spawned = Len(workers) + 1]
  /\ gate' = "free" /\ Goto("joined")
  /\ UNCHANGED <<cycles, attempts, execution, status, stop, frames, lives, signals, errors>>

\* Shutdown came first, or Popen raised.
LauncherDeclines ==
  /\ pc = "gated"
  /\ \/ ~sup.go /\ sup' = [sup EXCEPT !.spawned = Null] /\ NoError
     \/ sup.go /\ Fail /\ sup' = [sup EXCEPT !.spawned = 0]
  /\ gate' = "free" /\ Goto("joined")
  /\ UNCHANGED <<disk, status, stop, frames, lives, signals>>

\* Back in run_once with a worker.
Joined ==
  /\ At("joined") /\ sup.request.mode # "successor" /\ sup.spawned \in DOMAIN workers
  /\ sup' = [sup EXCEPT !.worker = sup.spawned]
  /\ status' = "worker_active"
  /\ Goto("wait")
  /\ UNCHANGED <<disk, proc, errors>>

\* Without one: shutdown, or the exception leaves run_forever.
JoinedNone ==
  /\ At("joined") /\ sup.request.mode # "successor" /\ sup.spawned \notin DOMAIN workers
  /\ Goto(IF sup.spawned = Null THEN "loop" ELSE "finish")
  /\ UNCHANGED <<disk, status, sup, proc, errors>>

(***************************************************************************)
(* After _write_terminal_status, in run_once.                              *)
(***************************************************************************)
Settled(from) == At("settled") /\ sup.from = from

FollowSuccessor == sup.launched /\ sup.worker # Null

Retriable == ResumeTerminal /\ ~sup.seedUsed /\ sup.replan # "successor" /\ cycles[sup.target].ev \in {"failed", "final"}

SettleSuccessor ==
  /\ Settled("once") /\ FollowSuccessor
  /\ sup' = [sup EXCEPT !.queue = sup.attempt, !.observed = sup.attempt]
  /\ Goto("wait")
  /\ UNCHANGED <<disk, status, proc, errors>>

\* --resume-terminal: a new cycle of the same queue, seeded from this one.
SettleRetry ==
  /\ Settled("once") /\ ~FollowSuccessor /\ Retriable
  /\ sup' = [sup EXCEPT !.seedUsed = TRUE, !.request = Request("seed", sup.queue, Null)]
  /\ Goto("spawn")
  /\ UNCHANGED <<disk, status, proc, errors>>

SettleIdle ==
  /\ Settled("once") /\ ~FollowSuccessor /\ ~Retriable
  /\ Goto("loop")
  /\ UNCHANGED <<disk, status, sup, proc, errors>>

(***************************************************************************)
(* _wait_for_worker and the rest of the loop.                              *)
(***************************************************************************)
Heartbeat ==
  /\ At("wait") /\ Alive(sup.worker)
  /\ status' = "worker_active"
  /\ UNCHANGED <<disk, pc, sup, proc, errors>>

\* Fault: the wait is given up at shutdown.
WaitedOrStopped(w) == stop \/ ~Alive(w)

\* Fault: a sealed receipt is taken for the end of the worker.
WaitedForReceipt(w) ==
  ~Alive(w) \/ (workers[w].cycle # Null /\ cycles[workers[w].cycle].ev \in Terminal)

Waited(w) == ~Alive(w)

\* Shutdown ends the heartbeat, not the wait.
WorkerEnded ==
  /\ At("wait") /\ Waited(sup.worker)
  /\ Goto("rescan")
  /\ UNCHANGED <<disk, status, sup, proc, errors>>

Blocked == status' = "blocked" /\ Goto("finish")

RescanInvalid ==
  /\ At("rescan") /\ Undecidable(sup.observed)
  /\ Blocked
  /\ UNCHANGED <<disk, sup, proc, errors>>

RescanTerminal ==
  LET q == sup.observed IN
  /\ At("rescan") /\ ~Undecidable(q) /\ Active(q) = {} /\ Ended(q) \cup PreTask(q) # {}
  /\ \E c \in DOMAIN cycles :
       \/ Latest(c, Ended(q)) /\ sup' = [sup EXCEPT !.target = c, !.from = "rescan"]
       \/ Ended(q) = {} /\ Latest(c, PreTask(q)) /\ sup' = [sup EXCEPT !.target = c, !.from = "pre_task"]
  /\ Goto("terminal")
  /\ UNCHANGED <<disk, status, proc, errors>>

\* Line 392 clears the flag, also of a successor that was just launched.
SettleRescan ==
  /\ Settled("rescan")
  /\ sup' = [sup EXCEPT !.flag = FALSE]
  /\ Goto(IF stop THEN "finish" ELSE "loop")
  /\ UNCHANGED <<disk, status, proc, errors>>

SettlePreTask ==
  /\ Settled("pre_task")
  /\ Goto("finish")
  /\ UNCHANGED <<disk, status, sup, proc, errors>>

RestartsSpent == sup.restarts >= MaxRestarts

EvidenceMissing(q) == With(q, {"active"} \cup Terminal) = {}

RescanActive ==
  LET q == sup.observed
      crashed == ~workers[sup.worker].ok /\ Cardinality(Active(q)) = 1
      restart == ~stop /\ crashed /\ ~RestartsSpent
  IN
  /\ At("rescan") /\ ~Undecidable(q) /\ (Active(q) = {} => Ended(q) \cup PreTask(q) = {})
  /\ sup' = [sup EXCEPT !.flag = FALSE, !.restarts = IF restart THEN @ + 1 ELSE @]
  /\ IF stop THEN Goto("finish") /\ UNCHANGED status
     ELSE IF EvidenceMissing(q) \/ (crashed /\ RestartsSpent) THEN Blocked
     ELSE Goto("loop") /\ UNCHANGED status
  /\ UNCHANGED <<disk, proc, errors>>

FinalStatus == IF stop /\ ~sup.termWritten THEN "idle" ELSE status

\* finally:
Finish ==
  /\ At("finish")
  /\ status' = FinalStatus
  /\ Goto("ended")
  /\ UNCHANGED <<disk, sup, proc, errors>>

(***************************************************************************)
(* Signals and kills.                                                      *)
(***************************************************************************)
Running == pc \notin {"off", "ended"}

Signal ==
  /\ Running /\ signals < MaxSignals
  /\ signals' = signals + 1
  /\ frames' = Append(frames, "want")
  /\ UNCHANGED <<disk, status, pc, sup, gate, stop, lives, errors>>

Top == frames[Len(frames)]

\* request_shutdown
HandlerEnters ==
  /\ frames # <<>> /\ Top = "want" /\ TakeGate("handler")
  /\ frames' = [frames EXCEPT ![Len(frames)] = "hold"]
  /\ UNCHANGED <<disk, status, pc, sup, stop, lives, signals, errors>>

HandlerStops ==
  /\ frames # <<>> /\ Top = "hold"
  /\ stop' = TRUE /\ gate' = "free"
  /\ frames' = SubSeq(frames, 1, Len(frames) - 1)
  /\ UNCHANGED <<disk, status, pc, sup, lives, signals, errors>>

Kill ==
  /\ Running /\ lives < MaxLives
  /\ Goto("off") /\ gate' = "free" /\ frames' = <<>> /\ stop' = FALSE /\ sup' = NewSup
  /\ UNCHANGED <<disk, status, lives, signals, errors>>

(***************************************************************************)
(* Workers.                                                                *)
(***************************************************************************)
Evid(w)     == cycles[workers[w].cycle].ev
SetEvid(w, e) == cycles' = [cycles EXCEPT ![workers[w].cycle].ev = e]
Outside     == <<attempts, execution, status, pc, sup, gate, stop, frames, lives, signals, errors>>
Has(w)      == Alive(w) /\ workers[w].cycle # Null

MakeCycle(w) ==
  /\ Alive(w) /\ workers[w].cycle = Null /\ Len(cycles) < MaxCycles
  /\ cycles' = Append(cycles, [queue |-> workers[w].queue, ev |-> "bare"])
  /\ workers' = [workers EXCEPT ![w].cycle = Len(cycles) + 1]
  /\ UNCHANGED Outside

\* state/ is made, then checkpoints are written, each before its sidecar.
WriteCheckpoint(w) ==
  /\ Has(w)
  /\ \/ Evid(w) = "bare"   /\ SetEvid(w, "empty")
     \/ Evid(w) \in {"empty", "active"} /\ SetEvid(w, "broken")
     \/ Evid(w) = "broken" /\ SetEvid(w, "active")
  /\ UNCHANGED <<workers, Outside>>

\* receipt.json; preflight refuses a cycle that has no checkpoint yet.
WriteReceipt(w) ==
  /\ Has(w)
  /\ \/ Evid(w) = "bare"   /\ SetEvid(w, "refusing")
     \/ Evid(w) = "active" /\ SetEvid(w, "closing")
     \/ Evid(w) = "broken" /\ workers[w].mode = "resume" /\ SetEvid(w, "closing")
  /\ UNCHANGED <<workers, Outside>>

SealReceipt(w) ==
  /\ Has(w)
  /\ \/ Evid(w) = "refusing" /\ \E e \in {"pre_task", "final"} : SetEvid(w, e)
     \/ Evid(w) = "closing"  /\ \E e \in Terminal \cup {"pre_task"} : SetEvid(w, e)
  /\ UNCHANGED <<workers, Outside>>

\* It returns, or dies; exit code 0 says the cycle completed.
Exit(w) ==
  /\ Alive(w)
  /\ \E ok \in {FALSE, Has(w) /\ Evid(w) = "completed"} :
       workers' = [workers EXCEPT ![w].alive = FALSE, ![w].ok = ok]
  /\ UNCHANGED <<cycles, Outside>>

MainStep == \/ Loop \/ ScanFlagged \/ ScanBlocked \/ ScanTerminal \/ ScanLaunch \/ WriteTerminal
            \/ CoordinateFails \/ CoordinateBlocked \/ CoordinateKnown \/ CoordinatePlans \/ Persist \/ PersistFails
            \/ ClaimFails \/ ReportExecution \/ BeginExecution \/ EndExecution \/ Joined \/ JoinedNone
            \/ SettleSuccessor \/ SettleRetry \/ SettleIdle \/ WorkerEnded \/ RescanInvalid \/ RescanTerminal
            \/ SettleRescan \/ SettlePreTask \/ RescanActive \/ Finish

LauncherStep == LauncherEnters \/ LauncherSpawns \/ LauncherDeclines
HandlerStep  == HandlerEnters \/ HandlerStops
WorkerStep(w) == MakeCycle(w) \/ WriteCheckpoint(w) \/ WriteReceipt(w) \/ SealReceipt(w) \/ Exit(w)

Next == \/ Start \/ MainStep \/ Heartbeat \/ LauncherStep \/ Signal \/ HandlerStep \/ Kill
        \/ \E w \in DOMAIN workers : WorkerStep(w)

Spec == Init /\ [][Next]_vars

\* The threads of a running supervisor are scheduled, and every worker ends:
\* its queue is finite and the calls it makes have timeouts.
FairSpec == /\ Spec
            /\ WF_vars(MainStep) /\ WF_vars(LauncherStep) /\ WF_vars(HandlerStep)
            /\ \A w \in 1..MaxWorkers : WF_vars(w \in DOMAIN workers /\ Exit(w))

=============================================================================
