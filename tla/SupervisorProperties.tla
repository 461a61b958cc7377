------------------------ MODULE SupervisorProperties ------------------------
(***************************************************************************)
(* What a supervisor promises about its workers, its replans and its end.  *)
(***************************************************************************)
EXTENDS Supervisor

(* Every variable stays within the values the code can give it.            *)
TypeOK ==
  /\ cycles \in Seq(Cycle) /\ Len(cycles) <= MaxCycles
  /\ workers \in Seq(Worker)
  /\ attempts \in Seq(Attempt) /\ Len(attempts) <= MaxReplans
  /\ execution \in [1..MaxReplans -> Executions]
  /\ status \in Statuses
  /\ pc \in PCs /\ sup \in Sups /\ gate \in {"free", "launcher", "handler"} /\ stop \in BOOLEAN
  /\ frames \in Seq({"want", "hold"})

LiveOf(life) == {w \in DOMAIN workers : Alive(w) /\ workers[w].life = life}

(* One supervisor process never has two workers running, on whatever queue *)
(* and whether launched by discovery, as a retry or as a replan successor: *)
(* "a same-queue retry must not race it or create a second worker".        *)
OneWorkerPerLife == \A life \in 1..lives : Cardinality(LiveOf(life)) <= 1

(* A supervisor that returns by itself leaves no worker of its own behind: *)
(* the wait goes on after shutdown until the worker has ended.             *)
NoWorkerLeft == pc = "ended" => LiveOf(lives) = {}

(* After a successor was launched the next poll says "running" again, as   *)
(* test_auto_replan_same_event_or_durable_execution_never_launches_twice   *)
(* has it: a supervisor that was not asked to stop stays with its worker.  *)
SuccessorFollowed == pc = "ended" /\ ~stop => LiveOf(lives) = {}

Resumed(life, q) == {w \in DOMAIN workers : workers[w].life = life /\ workers[w].queue = q /\ workers[w].mode = "resume"}

(* Cycles of one queue that workers of earlier processes have made.        *)
Inherited(life, q) == {workers[w].cycle : w \in {v \in DOMAIN workers : workers[v].life < life /\ workers[v].queue = q}} \ {Null}

(* A process resumes the crashed cycles of one queue at most MaxRestarts   *)
(* times, and each cycle that it inherited once more: run_forever counts a *)
(* restart only where the worker it waited for left the one active cycle.  *)
RestartsBounded ==
  \A life \in 1..lives, q \in Queues :
    Cardinality(Resumed(life, q)) <= MaxRestarts + Cardinality(Inherited(life, q))

(* A terminal event is answered by one attempt at most, over all restarts, *)
(* and the attempts answer ever later events.                              *)
EventsInOrder == \A m, n \in DOMAIN attempts : m < n => attempts[m].cycle < attempts[n].cycle

(* The launch of each successor keeps what ReplanLaunch is shown to        *)
(* promise, with the workers this supervisor and its successors start.     *)
Started(q) == {w \in DOMAIN workers : workers[w].queue = q /\ workers[w].mode = "successor"}

Launch(n) == INSTANCE AtMostOnceLaunch WITH
               phase <- IF execution[n] = Null THEN "none" ELSE execution[n],
               workers <- Cardinality(Started(n))

LaunchOnce == /\ \A n \in 1..MaxReplans : Launch(n)!Init
              /\ [][\A n \in 1..MaxReplans : [Launch(n)!Next]_(Launch(n)!vars)]_vars

(* Once the shutdown request has been accepted, that is once its handler   *)
(* has returned, no worker is spawned.                                     *)
NoSpawnAfterStop == [][stop => Len(workers') = Len(workers)]_vars

(* A shutdown request is answered: the supervisor returns.                 *)
ShutdownEnds == frames # <<>> ~> ~Running

(* An active cycle of the supervisor's queue that no worker runs is taken  *)
(* up again, or the supervisor ends and says so.                           *)
Orphaned(c) ==
  /\ Running /\ c \in With(sup.queue, {"active"})
  /\ \A w \in DOMAIN workers : workers[w].cycle = c => ~Alive(w)

CrashHandled == \A c \in 1..MaxCycles : Orphaned(c) ~> ~Orphaned(c)

First(P(_)) == attempts # <<>> /\ P(attempts[1])

(* The successor of the first attempt is launched by the supervisor that   *)
(* accepted it or by a later one, or its launch is left begun, as long as  *)
(* the cycle it answers is the only one of the root queue.                 *)
FirstSuccessorLaunched ==
  (Running /\ First(LAMBDA a : a.stage = "campaign" /\ a.decision = "successor"))
    ~> (~Running \/ execution[1] # Null \/ ~First(LAMBDA a : With(0, Evidence) = {a.cycle}))

=============================================================================
