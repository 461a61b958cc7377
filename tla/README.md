# A TLA+ model of codex-local-runner

codex-local-runner executes queues of coding tasks against a local Git
repository. It has several runtimes. The one with the most state that must
survive crashes is the *repository multi-cycle* runtime: a supervisor launches
worker processes; a worker runs a queue task by task through the single-task
controller; each accepted task is a commit on top of the one before; and all
that a later process knows is in checkpoint pairs, receipts and Git. The models
here begin with that runtime and go on to the replan campaign, the job scheduler, the
GitHub writes and the task-queue daemon.

## 1. Inventory

| Component (source) | State it keeps | Operations | Hard behaviour | What makes it correct |
|---|---|---|---|---|
| Checkpoint store (`repository_multi_cycle_state.py`) | numbered `checkpoint-N.json` / `.sha256` pairs per cycle | `write_checkpoint`, `load_latest_checkpoint`, orphan clean-up | death between the two files; two writers of one number | sealed pairs are immutable, only the latest may be incomplete |
| Evidence (`repository_multi_cycle_evidence.py`, `_status.py`) | none, reads checkpoints and receipts | classification of a cycle directory | half-written pairs, receipts that outlive their meaning | what it calls usable can be built on |
| Executor (`repository_multi_cycle_task_executor.py`) | nonlocals of one run; the cycle directory | fresh run, resume, terminal resume, discovery of the continuation base, terminal receipts | kills anywhere; drift of the configuration; dirty source; workers racing on a cycle | accepted tasks are never lost or repeated; receipts agree with checkpoints; discovery never builds on a failed commit |
| Supervisor (`repository_multi_cycle_supervisor.py`) | its lock, stop event, launch gate, restart counts, status file, current worker | scan of the cycles, launch, wait and heartbeat, restart, retry, shutdown, replan hook | signal handlers on top of the main thread, shutdown racing a launch, a worker outliving it | one worker at a time, none after a shutdown, none left behind |
| Replan launch (`..._replan_launch.py`, `..._replan_launch_execution.py`) | `launch_claim` and `launch_execution` pairs in the attempt directory, flock on it | acquire claim, execute launch | several supervisors; deaths and I/O errors between writes | at most one worker, evidence before launch |
| Replan (`..._replan.py`, `_coordinator`, `_runtime`, `_state`) | campaign directory with one directory per attempt | read and verify the campaign, match the event, plan, persist a successor queue | kills between the durable writes, attempt limits | an event is answered once, attempts answer ever later events |
| Single-task controller (`repository_resolved_single_task_controller.py` and helpers) | run directory, worktree, branch | one task: execute, validate, repair, evaluate, commit | every early return, commit then failure | a completed receipt means exactly one valid commit |
| Job scheduler (`automation/scheduler`, `scripts/run_scheduler_cycle.py`) | registry and lease file; per job pause file, audit, receipt | registry sync, claim, dispatch, pause and resume, retries, release | unlocked read-modify-write, lease expiry during dispatch, kills between call and audit | a job is settled once, and only by a call of the executor |
| Control (`automation/control`, the rest) | retry context | next action, retry decision, authority | budgets at their limits | no retry beyond the policy |
| GitHub writes (`automation/github`, `control/action_executor.py`) | write receipts keyed by idempotency key, one receipt per action | PR create and update, merge, rollback | answer lost after the write, people at work meanwhile, overlapping calls | records are true; only checked commits are merged; repeats do nothing twice |
| Orchestrator (`orchestrator/`) | SQLite ledger | job states, merge, rollback | repeated decisions | no merge without a passed gate |
| Task-queue daemon (`scripts/run_task_queue_daemon.py`, `planned_runner/daemon*`, `targeted_fix_retry.py`, `commit_tag.py`) | queue directories, pidfile, sandbox repository | enqueue, recover, claim, execute with fix retries, commit, tag, complete | stale lock, torn files, kills in the middle of a recovery or a commit | a task is kept, costs bounded calls and ends in done/ or failed/ |
| Browser bridge (`scripts/chatgpt_bridge_server.py`, `browser_extension/`) | command queue, results | enqueue, poll, complete | lost or late results | a result belongs to its command |
| Planned-runner contracts, adapters, command line | none beyond one call | payloads, summaries, subprocesses | - | not modelled |

How they interact: the supervisor starts `run_repository_multi_cycle.py` in a
session of its own and talks to it only through the cycle directories and its
exit code. A worker calls the single-task controller in-process and believes only
its receipt on disk. A later worker learns about earlier cycles from receipts
(discovery), from checkpoints (resume, terminal resume) and from Git. After a
terminal cycle the supervisor may ask the replan coordinator for a successor
queue, which it launches through the replan launch.

The hazards (what is hard to test) are listed with their lines in
`PROJECT.json`.

## 2. Modules

| Module | Models |
|---|---|
| `CycleEvidence` | all durable state of the multi-cycle runtime, and every judgement made from it without changing it: store, reader, classifier, discovery |
| `MultiCycleExecutor` | worker processes over that state, one action per durable write or decision, with kills and edits of the source checkout, and the supervisor's rule for what to launch |
| `AcceptedChain` | abstract: per cycle one append-only line of accepted commits, opened once, closed once |
| `MultiCycleProperties`, `MCMultiCycle` | the properties; model values |
| `MultiCycleProofs` | theorems about `MultiCycleExecutor` for any number of workers, tasks and cycles: types, one worker per child |
| `MultiCycleEvidenceProofs` | the same: checkpoints and the tip of discovery rest on accepted commits |
| `MultiCycleWorkerProofs` | one worker at a time: sealed pairs, receipts, the lines of `AcceptedChain`, tasks applied once |
| `ReplanLaunch` | supervisors that claim and execute one replan launch |
| `AtMostOnceLaunch` | abstract: one attempt, at most one worker, one outcome |
| `ReplanLaunchProperties`, `MCReplanLaunch`, `ReplanLaunchProofs` | properties; model values; theorems for any number of processes |
| `ReplanCampaign` | what can be read from a campaign directory and in which order it is filled |
| `Supervisor` | the supervisor process: main thread, launcher thread, signal handlers, its workers, the replan coordinator it calls; composed with `ReplanCampaign`, and refining `AtMostOnceLaunch` per attempt |
| `SupervisorProperties`, `MCSupervisor`, `SupervisorProofs` | properties; model values; theorems |
| `JobScheduler` | registry cycles of several scheduler processes over shared files |
| `JobOutcome` | abstract: a job is settled once, as executed only after a call |
| `JobSchedulerProperties`, `MCJobScheduler`, `JobSchedulerProofs` | properties; model values; theorems |
| `TaskQueueDaemon` | daemons, one after another or racing, on one queue and one sandbox repository |
| `TaskQueueDaemonProperties`, `MCTaskQueueDaemon`, `TaskQueueDaemonProofs` | properties; model values; theorems |
| `GitHubWrites` | the four write executors and their records, against GitHub, people and the local clone |
| `GitHubWritesProperties`, `MCGitHubWrites`, `GitHubWritesProofs` | properties; model values; theorems |

### Evidence and executor

*Files as values.* A file is the value it holds and a sidecar the value whose
digest it holds; a pair is sealed when they are equal. A worker's identity is
part of every checkpoint and receipt because the files carry that worker's own
clock readings: two workers never write the same bytes.

*Cycles, children, commits.* Cycle ids are numbers in the order of their
timestamps. The child run of task `i` of cycle `c` is `<<c, i>>`
(`_child_run_id`); it makes at most one commit, so the pair also names the
commit. Its parent is the accepted head the child was started on.
`failed_commit` is a child that committed and failed afterwards (its receipt
says failed with `commit_created`).

*Steps.* `wk[w].pc` walks `run_repository_multi_cycle`: `preflight` (clean
source, discovery, seed of a terminal resume, limits of the profile), `verify`
(resume), `loop`, `spawn`/`child`/`seal`/`judge` (one task),
`ckpt_json`/`ckpt_sha` (the two writes of `write_checkpoint`), `reload` and
`pair*` (`terminalize` and `_recover_terminal_pair`), `rec_json`/`rec_sha` (the
two writes of `record`). The local record holds the function's nonlocals, so a
receipt written early in a resume carries the values those have at that point of
the code. `guarded` is the `try` of the resume, which turns a store error into a
blocked receipt; outside it the exception ends the process. A step that reads a
checkpoint through `load_latest_checkpoint` also removes an orphan, as the code
does, including those that discovery meets in other cycles (`DiscoveryCleans`).

*Faults.* `Kill` ends a worker between any two steps, `EditSource` makes the
checkout dirty, `RestoreSource` puts it back. Drift of the queue, registry,
bindings or providers file is a choice at every resume (`ResumeDrifted`), a queue
over the profile's limits one at every new cycle (`Admit`).

*Launches.* With `Supervised = FALSE` any launch the command line accepts may
come at any time: a fresh run, a resume of any existing cycle, a terminal resume
from any. With `TRUE` the launch is the one `run_once` makes after `_candidates`.

*Atomicity.* Every durable write is a step of its own; a scan of the evidence, a
discovery or a load of the latest checkpoint is one step, although it reads
several files.

Left out: I/O errors of the executor's writes (death is in), other queues,
repositories and anchors, the legacy pre-task receipt, the check of
`active_task` fields that no run of this code writes differently, and Git
failures.

### Replan launch

`claim`, `claimSha`, `rec` and `recSha` are the four files of the attempt
directory. The claim files are created with `O_EXCL` and then filled, so there
is a state `torn` in between; the execution record goes through `_atomic_write`.
`authority` stands for everything `_verify_authority` re-reads (accepted replan,
campaign, successor queue); it may change at any step. The flock is dropped by
the kernel when its holder dies. The look for an earlier execution record
(`FindUnexecuted`) and the write of the new one (`BeginLaunch`) are two steps: only
the lock keeps another supervisor from coming in between. `Spawn` and `RequestShutdown` are atomic with
respect to each other because both hold the launch gate.

### Supervisor and campaign

`pc` is the next step of the main thread of `run_forever` and `run_once`, `sup`
the attributes of the object and the locals of that thread. `frames` is the
stack of signal handlers on top of it: a handler that waits for the launch gate
keeps the main thread, and any handler below it, from going on, which is how
Python runs signal handlers. The launcher thread is separate; `gate` says who
holds `_launch_gate`.

A cycle directory is the evidence the classifier can tell of it; how a worker
produces it is the subject of `MultiCycleExecutor`, and how a launch is recorded
that of `ReplanLaunch`. Attempts of the campaign pass through the stages of
`persist_replan_result`, one durable write each. The planner is a choice of its
answer. `Kill` ends the supervisor at any step; its worker, started in a session
of its own, goes on, and `Start` is a new supervisor under the flock.

### Job scheduler

`registry` and `leases` are whole files: `..._put` steps rewrite them from the copy
the process has loaded, so that several processes overwrite each other as in
the code. `snap` is the snapshot of the registry a cycle works from. Leases and
pauses carry the time left; `Tick` decreases it in the files and in every copy.
A dispatch is the chain of its durable effects: mark the pause as resumed, audit
that, call the executor, pause or receipt, audit the outcome, registry, lease. A
runner that raises goes through the `finally` clause: `RunRaises` leads to the release
and looks at no other job. `struck` is a history variable: what a scheduler held of the job
in its hands when it was killed.

### Task-queue daemon

A file of the queue is whole, torn (opened by the enqueuer and not written) or
bare (all that a recovery can make of an unreadable one), with its recoveries; a
rename takes the open file along, so that `Fill` writes wherever the file has got
to. `Take` writes the pidfile that `Start` has looked at; with `Racing = FALSE` no
other daemon is started in between. A recovered task's file exists twice between
`RecoverWrite` and `Unlink`. Execution is one step with the number of codex calls it
made, passing or not. `execute_sandbox_commit_tag` is three steps: the look at the changes
and at the tag, `git add` with `git commit`, and `git tag`. `foreign` holds the pids that
unrelated processes have: one of them can get the pid a killed daemon left in the pidfile
(`PidTaken`), for which `is_pid_alive` is as true as for a daemon's (`Alive`), and may keep
it for good.

### GitHub writes

One feature branch and one base branch. A PR is a number; the commits of the base
branch are 0, `n` for the merge of PR `n` and `Revert(n)`. Action and target stand for
the idempotency key, because the intent of an action on a target is always the
same in the model. `read`, `checks`, `look` and `write` are the API calls between
which the world can change: for a merge the PR is read first, then the checks of
the commit that was read, then the open PR, and the merge request names that
commit. The reads that only refuse (branch heads, comparison, mergeability) are
`ReadRefused`, which may happen at any read. `WriteFails` is a request whose answer is
lost, with or without its effect.

GitHub accepts a merge only of an open PR that is no draft and whose head is the
commit named, and one open PR per pair of branches; this, people and CI are the
environment and marked external. `Publish` and `TakeBack` let people push the clone
and rewind the base branch, since rollbacks look at both.

## 3. Runs

TLC, `-workers 2`; sizes are distinct states. The cfg of a run is `MC<Module>_<name>.cfg`
or `MC<Module>.cfg`.

| Run | Bounds | Shows |
|---|---|---|
| `crash` | 1 worker, 2 tasks, 2 cycles, 1 fault, any launch (170k, 2 min) | checkpoints are verified chains and the tip an accepted commit (`EvidenceSound`); receipts are backed and edges stay usable (`ReceiptsSound`); the checkpoints implement `AcceptedChain`; a sealed checkpoint survives everything |
| `supervised` | 1 worker, 2 tasks, 3 cycles, 1 fault, supervisor's launches, fair (43k) | no task is applied twice in one accepted history; an active cycle is resumed until settled |
| `race` | 2 workers, 1 cycle, 2 tasks, symmetry | whatever two racing workers seal is a verified chain; a child has one worker |
| `launch` | 2 supervisors, 3 faults, fair (69k) | at most one worker behind durable, truthful evidence; refinement of `AtMostOnceLaunch`; calls return |
| `supervisor` | 2 lives, killed anywhere, 2 cycles, 6 workers, 1 restart, 1 signal, terminal retries, fair (309k, 1 min) | one worker at a time in a life, none after the stop event, none left behind, restarts bounded over kills, shutdown and crashed cycles answered |
| `supervisor_replan` | 2 lives, 2 attempts, 2 cycles, 4 workers, 1 error, fair (190k) | events answered once and in order, each successor launched as `AtMostOnceLaunch` allows, the first one launched in the end |
| `supervisor_left` | 1 life, 2 cycles, 1 attempt | violated: see section 5 |
| `scheduler` | 1 scheduler, leases of a dead one, 2 jobs, 1 retry, 3 calls, 1 kill or raising runner (2.1M, 1.5 min) | repeats need kills, the snapshot is current, only a kill leaves a lease or a pause that is lost, of the job it met; refinement of `JobOutcome` |
| `scheduler_race` | 2 schedulers, 1 job, 2 calls | completed means called, however the files are overwritten |
| `scheduler_live` | 1 scheduler, 2 jobs, 1 job per cycle, 1 kill or raising runner, fair (252k, 1 min) | timed pauses end and ready jobs are dispatched, unless earlier jobs are dispatched for ever |
| `daemon` | 2 pids, which others may get, 2 tasks (one enqueued twice), 1 fix, 1 recovery, 2 faults, fair (937k, 3 min) | one daemon on the queue, no task lost, bounded calls, done means committed and tagged, tags final, tasks settle unless another process keeps the pid of a stale lock |
| `github` | 2 callers, 2 commits, 2 PRs, 3 calls, 1 fault, 2 moves, symmetry (1.2M, 1 min) | records are true, merged heads were checked, repeats need faults, a merge's record stays |

*Why the bounds are enough to be interesting.* Two tasks give an accepted
prefix that is neither empty nor the whole queue; two cycles give a cycle that
continues, resumes from or conflicts with another one; the third cycle of
`supervised` follows two others, one of them terminal. One fault in `crash` can
fall between any two durable writes of any cycle, and the command line may resume,
start or terminal-resume at will after it. `MaxHistory` only matters when two
workers write one history: it stops further resumes of a cycle whose history has
grown past it; a single run writes at most `2 * TaskCount + 2` checkpoints.

The supervisor's cycle limit leaves room for a crashed cycle, its replacement and
a retry; two attempts of a campaign are the least for an order among them, two
lives the least for a restart on a campaign that was left unfinished. Six workers are as
many as two lives with a restart and a retry come to use; with five a launcher meets
the bound and waits, which the code never does. Two jobs
show a snapshot that ages while the first is dispatched; one kill of the
scheduler can fall between any two of its writes. In `scheduler_live` a cycle takes one
of the two jobs, so that `max_jobs` cuts the second off while the first is unsettled, and
the promises hold only with the exception they state (`Overtaken`); without the exception
the model checker finds both violated. Two faults of the daemon allow
a kill in the recovery from a kill, and the recovery limit is reached with the
second. For GitHub, two moves are a push and a passing check between read and
merge, or a merge by hand before a repeat; three calls are a write, its repeat
and a call that overlaps either. A third move gave no other result in a run of
five and a half minutes.

Deadlock is not checked where the system stops by design: an executor out of
cycle ids, a supervisor that has returned, daemons and callers that are not
started any more.

*Fairness.* `supervised` assumes weak fairness of a running worker's own steps (a
process that is not killed is scheduled, and a child ends: the adapter and every
subprocess of the controller has a timeout) and of `StartResume`, the supervisor's
relaunch of the one active cycle, which `run_forever` repeats at every poll.
Being settled includes evidence that is terminal, pre-task or invalid: the code
leaves the latter to an operator. `launch` assumes weak fairness of the steps
inside the calls and strong fairness of the two flock waits (the kernel's queue
does not starve a waiter). The supervisor runs assume weak fairness of the main
thread, the launcher thread and the handlers, and that every worker ends; not of
signals, kills or new lives. `scheduler_live` assumes that the scheduler is run
again and again (it is a cycle for cron) and that time passes; `daemon` that each
process goes on and that some daemon is started again and again, which is the
operator's part, and nothing of the unrelated processes. Kills and errors are never fair and are bounded.

## 4. Proofs

Every theorem holds for all values of the constants that satisfy the named
assumptions (bounds are natural numbers, `Null` is none of the values it must
differ from, and the like).

**`ReplanLaunchProofs`.** That the record is truthful after a spawn needs what the
spawning process knew before it. `IInv` therefore adds `StagesHold`, what each step
under the lock can rely on (for example at the launcher: the record is
`launching`, sealed, no worker exists, the claim loads), together with the fact
that a process at such a step holds the lock. From it: `TypeCorrect`,
`LaunchedAtMostOnce`, `RecordIsTruthful`, `RecordIsSound`, `ToldIsTruthful`,
`EvidenceIsFirst`, and `Implementation`: every step is a step of `AtMostOnceLaunch` or
leaves its variables alone.

**`MultiCycleProofs`.** `IInv` adds to `TypeCorrect` and `OneWorker` that every file has
its format and names an active task only while one is left (`FilesOK`), that only
an ended child run is sealed (`ChildOK`), and what a worker at each step knows,
above all that the child run it executes exists (`WorkerOK`): `mkdir(exist_ok=False)`
claims a run only if it does not, so no second worker can get there.

**`MultiCycleEvidenceProofs`.** `EvidenceIsSound` holds for racing workers too. A
checkpoint is written from the worker's locals, the locals come from a loaded
checkpoint, from discovery or from a child's receipt, and discovery reads receipts
that were written from the locals; `EInv` closes this circle. To `IInv` it adds that every
file, sealed or not, holds a verified chain of completed children (`HistoryOK`,
`ReceiptsOK`), that child runs start on such chains (`BasesOK`), and the same of what
a worker has in hand (`Holds`). `IsAncestor` walks a recursive function to a fixed
depth, so that an end of the walk at the anchor has to be shown: `Ranked` says the
commits made so far can be numbered such that a parent comes before its child, with
numbers no greater than their count.

**`MultiCycleWorkerProofs`** assumes `OneWorkerOnly`. The assumption is what the supervisor
provides in one life (`OneWorkerAtATime` below), not what the executor enforces: with two
workers on a cycle the results are false (section 5, *Overwrite*), and `race` is the
run that has two. Kills, restarts, drift and every launch the command line accepts
are included. `WInv` relates the worker, step by step, to the latest checkpoint of its
cycle (`latest`): what is being written opens that cycle's line or continues it, and
what a receipt is about to say repeats it (`Place`, `Writing`). It adds that only the
last pair of a history is incomplete and that a line takes over the tasks of finished
cycles only (`HistoriesOK`), that a cycle without a directory has no evidence
(`UnusedOK`), and that receipts repeat finalizing checkpoints (`OutcomesOK`). Nothing in
it speaks of an idle worker, so that `Kill` keeps it. From it: `SealedPairsStay`,
`ReceiptsAreSound`, and `LinesAreImplemented`, the refinement of `AcceptedChain`: a
checkpoint's sidecar is the step that opens, extends or closes a line. `NoTaskTwice`
needs `Supervised` besides: the supervisor starts a fresh cycle only where none took
part before (`NothingBefore`), so that every line starts at the anchor; a fresh run by
hand continues at the tip of an earlier one and applies the queue again, as it should.

**`SupervisorProofs`.** The type invariant includes where control can be
(`Located`). `NoneAfterStop` follows from `GateInv`: the holder of the gate is the one
whose step says so, and the launcher looked at the stop event under it. `Ordered`
needs that the event in hand is newer than all that were answered. `SuccessorsOnce`
is the refinement of `AtMostOnceLaunch` for each attempt; `LaunchInv` ties each
execution record to the workers started for that queue and to the one supervisor
that may be between record and spawn. Three theorems are for a supervisor without
`--auto-replan`, since section 5 shows what goes wrong with it. `WorkersAttended` and
`OneWorkerAtATime` rest on `Attended`: a live worker of this life is the one being waited
for. `RestartsCounted` bounds the resumes of every life. A fixed allowance over the
limit is not enough: a life resumes a cycle that it inherits without counting it, and
`run_forever` counts a crash only where the crashed cycle is the only active one
(`..._supervisor.py:397`), which it is not while the worker of a killed supervisor has
one. So the bound grows with the inherited cycles, and the invariant `Restarted`
says how each resume is paid for (`Budget`): by a restart that was counted, or by an
old cycle that is spent (`Spent`): it is this life's own from then on, or it is over.
Before a launch a payment is at hand (`Room`), or nothing of ours can be active, or an
old cycle hides the crash (`Hidden`), in which case nothing is launched until that
cycle is resumed or over. That a worker other than the one in hand can change the
evidence at any step is why the cycles are split by life (`Ours`, `Old`), and why the
invariant says what a cycle can still become (`Able`), not what it is. Before the proof,
TLC checked `Restarted` in the bounds of the `supervisor` run and with three lives of
two and three cycles, without restarts, retries and signals.

**`JobSchedulerProofs`.** `TypeCorrect` for racing schedulers, and `CompletionBacked`:
the copies in the hands of processes (registry copies, snapshots, outcomes) are
as well backed by a call as the files, so that a stale rewrite does no harm.
`JobsAreImplemented` is the refinement of `JobOutcome` for one scheduler (assumed as
`OneScheduler`), over any number of kills and restarts. It needs `Holding`: what the
cycle has still to look at is not settled if the snapshot calls it runnable, because
the registry was brought up to date before the snapshot; a job at a step before its
outcome is not settled and, past the gate, has no active pause; and no job comes
twice, for which the names of the job directories must differ (`NamesAssumption`).
`SnapshotsAreCurrent` adds `Fresh`: the sync leaves the registry as the artifacts say,
job by job, and a dispatch changes the artifacts of its own job only. `RepeatsAreKills` counts (`Counted`): the
repeated calls so far and the calls whose outcome is in no audit and in no process's
hands (`Lost`) are together no more than the kills, for a kill loses at most one call and
a repeated call needs a lost one. `CyclesAreTidy` covers kills, restarts and raising runners:
by `Tidy` every lease is of the one process at a step that will release it, of a scheduler
dead before, or of a job that a kill struck, and a job whose audit says paused has
an active pause, is between the end of that pause and its audit, or was struck there.

**`TaskQueueDaemonProofs`.** `Owned` (for `Racing = FALSE`): one live process, which is
the one of the pidfile, and running/ holds what its step says. `TasksAreKept`:
every move writes before it removes. `CommitsAreSound` and `TagsStay` (for `Racing = FALSE`):
the tag is looked for before the commit is made, and what that look saw holds until then
because the daemon is alone (`Untagged`); a task in done/ passed the tag.
`CallsAreBounded` (for `Racing = FALSE`) is an account (`Budgeted`): the calls made for a
task and those that its files can still cost, `MaxFix + 1` for each recovery that remains
to a file, never exceed what its requests allow. Two files of one task are the
difficulty: one waits while the other is processed, but the recovery of the second
replaces the first, so that either may be spent and not both.

**`GitHubWritesProofs`.** `RecordsAreTrue`: a caller whose next record or answer
claims a success, or who repeats one, is at a step after its effect (`Promised`);
effects are never undone in the sense of `Took`. `MergedHeadsPassed`: after the checks
a caller holds a commit whose checks passed (`Cleared`), and GitHub merges that commit
or none. `MergesStay`: while no merges overlap, a merge under way is either a
repeat that will find the PR merged and record that, or has no merge record to
lose (`Alone`, `Harmless`). `RepeatsAreFaults` counts PRs that callers
opened against faults: while no creations overlap, at most one PR is not paid for, and
that one is recorded or about to be (`Shown`), which makes the next caller find it
(`Created`, `Aware`).

*What proving changed in the models.* `Checkpoint` judges the history after the load that
precedes it has removed an orphan, as the code does; it used to judge the one before.
`Derived` of `JobScheduler` was a CASE whose guards overlap and is now the chain of
conditions of `_derive_authoritative_state`. `NullAssumption` of `JobScheduler` and of
`CycleEvidence`, `AnchorAssumption` and `UnopenedAssumption` name what the models took for
granted of their model values: that they are none of the values they stand beside.
`RestartsBounded` used to allow one resume over the limit, which two lives keep and three
do not: two workers of killed supervisors each leave a cycle to the third.

*Only model-checked*: the liveness properties (`ActiveCycleSettles`, `CallsReturn`,
`TimedPausesEnd`, `ReadyJobsRun`, `ShutdownEnds`, `CrashHandled`, `FirstSuccessorLaunched`,
`TasksSettle`), since fairness and ENABLED are beyond the prover. Induction over the
natural numbers, where the proofs need it, is over a set (`Induction` in
`MultiCycleEvidenceProofs`), by the least element outside that set.

## 5. Where the code and its own words differ

One is a run; the others were met while modelling and are described here only.

*Multi-cycle runtime*

- **Successor left alone** (run `supervisor_left`, finding in `PROJECT.json`): a
  supervisor launches a successor while it writes the terminal status, then clears
  the flag that says so (`..._supervisor.py:392`) and polls its old queue again;
  it meets the directory the successor is just making, calls it invalid, returns
  blocked, and its worker runs on unattended.
- Retry: a poll after a successor's launch that cannot read the campaign gets
  `blocked` instead of `successor_ready`; with `resume_terminal` a same-queue worker is
  then started beside the successor, against the comment at
  `..._supervisor.py:333-334`.
- Campaign: an attempt whose first pair is complete and whose derived files are
  not makes `_load_attempts` (`..._replan_coordinator.py:205-206`) answer blocked
  before `persist_replan_result`, which "recover[s] its derived artifacts"
  (`..._replan_state.py:373`), is reached.
- Signals: the handler of SIGTERM and SIGINT takes a lock that is not reentrant
  (`..._supervisor.py:215`); a second signal that arrives while the first handler
  holds it waits for ever. The `supervisor` run has one signal for this reason.
- Rewritten receipt: resuming a completed cycle after the queue or a configuration
  file changed replaces its receipt by a pre-task one (`..._task_executor.py:578`),
  which discovery skips, against the comment at 259-260.
- Pre-task receipt: a terminal resume whose seed does not verify leaves a
  "pre-task" receipt with base = tip and head = anchor (`:519`, `:533`); every later
  discovery raises on it, against the comment at 511-512.
- Poison: a cycle started at a tip beyond the anchor whose first child raises, fails
  verification or commits and fails leaves a zero-completion receipt that discovery
  cannot verify (`:367`), against the comment at 363-365.
- Overwrite: two workers on one cycle (the first outlived its supervisor) choose
  the same checkpoint number, and the later replaces the sealed pair of the earlier
  (`repository_multi_cycle_state.py:122`), which line 1 calls immutable.

*Job scheduler*

- Two schedulers that load the lease file before either writes both claim a job
  (`job_lease.py:120`; test `test_active_lease_blocks_duplicate_claim`).
- A kill between marking a pause as resumed and auditing that leaves a job paused
  for ever (`run_dispatcher.py:435`).
- A terminal refusal is recorded as escalated first, as `failed_terminal` only by the
  next cycle's sync (`job_scheduler.py:382`; test `test_job_scheduler.py:414`).
- A wait for checks is a pause without an eligible time (`run_dispatcher.py:748`), so
  that the backoff of `retry_policies.yaml:58-69` is never used.
- Jobs are taken in the order of their names and a cycle stops after `max_jobs`
  (`job_scheduler.py:454`, `:474`): a job whose timed pauses recur is dispatched in
  cycle after cycle and starves the later ones for as long as it stays unsettled. So
  does a job whose runner raises again and again, whatever `max_jobs` is: the exception
  ends the cycle there, with the lease released (`:531`) and no job after it looked at.

*Task-queue daemon*

- With `Racing = TRUE` two daemons that look at the pidfile before either writes it both
  work on the queue (`daemon_lock.py:32-50`), against `docs/daemon_candidate.md:44-45`.
  `Owned` is therefore proved for `Racing = FALSE`.
- Such daemons can also commit a task that has its tag: one looks for the tag
  (`commit_tag.py:145`), the other commits and tags, and the first commits (`:148-166`)
  if the target file was edited again meanwhile. `TagsStay` is therefore proved for
  `Racing = FALSE` too.
- `is_pid_alive` (`daemon_lock.py:14-23`) is true of any process. If an unrelated one gets
  the pid that a killed daemon left in the pidfile, every daemon refuses to start
  (`:37`) and the queue stands still while that process lives, for good if it does
  not end; `TasksSettle` excepts this, and the run finds it violated without the exception.

*GitHub writes*

- A first attempt on a PR that is merged is refused as `pr_state_not_mergeable:closed`
  (`merge_executor.py:281`) before lines 285-293 can answer `pr_already_merged`, since
  GitHub reports a merged PR as closed; the test's PR is open and merged at once.
  After a kill, a lost answer or a lost race a repeated merge therefore fails,
  where a repeat of a recorded one succeeds.
- Of two overlapping calls the loser overwrites the record `applied` with `failed`:
  `MergesStayDone` excludes overlaps for that reason.
- A repeated rollback sees the remote branch still at the merge (the revert is not
  pushed) and the clone moved on, and overwrites `applied` with `failed`; the answer
  `already_applied` needs a base branch that was rewound by force.

The runs also contain, without a property against them: a terminal-resume cycle
interrupted after its first checkpoint cannot be resumed; a claim torn by a death
blocks its replan for good; the worker of a killed supervisor overlaps with that of
the next one (`OneWorkerPerLife` counts per life); a supervisor restarted on a root
queue whose successor was launched stays idle; a blocked planner is asked again at
every poll.

## 6. Not modelled

- **Planned-runner contracts and summaries**: by far the most lines of the
  repository (prompt surfaces, payload builders, summaries and their wiring). They
  are pure builders of dictionaries over one run, much of it repeated text with no
  state between calls and no order of effects; a model of them would restate them.
  This is why the map covers a small share of the source.
- **Control decisions** and the authority and routing gates of the action executor:
  pure decisions in front of what `GitHubWrites` models.
- **Orchestrator ledger, merge gate, operator decisions** (`orchestrator/`): a SQLite
  ledger that one process drives.
- **Browser bridge**: a command queue between a local HTTP server and a browser
  extension.
- **Single-task controller** beyond what the executor sees of it: worktree,
  validation, repair and scope recovery.
- **Adapters and command line**: subprocess I/O and argument parsing.
- Parts left out of modelled components are named in section 2 and in the notes of
  `PROJECT.json`.

## 7. What is left of the plan

1. `Continuation`: discovery against a reference definition (the unique maximal
   commit reachable along usable edges), over all small sets of receipts.
2. `SingleTask`: the controller's phases, with the child outcomes the executor
   assumes as its abstract specification.
3. The orchestrator's ledger and the bridge's command queue.
4. Theorems about `Supervisor` with `--auto-replan`: which of the promises hold while
   no successor is launched, and the restart bound per queue.
