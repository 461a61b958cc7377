--------------------------- MODULE CycleEvidence ---------------------------
(***************************************************************************)
(* The durable evidence of repository multi-cycle runs, and the read-only  *)
(* judgements made from it:                                                *)
(*                                                                         *)
(*   - the checkpoint store (repository_multi_cycle_state.py): a numbered  *)
(*     history of json/sha256 pairs per cycle directory;                   *)
(*   - the terminal receipt pair receipt.json / receipt.sha256;            *)
(*   - the child runs of the single-task controller, named by              *)
(*     (cycle, task index), and the Git commits they leave;                *)
(*   - the classifier (repository_multi_cycle_evidence.py), the receipt    *)
(*     reader (repository_multi_cycle_status.py) and the discovery of the  *)
(*     continuation base (repository_multi_cycle_task_executor.py).        *)
(*                                                                         *)
(* A file is the value it holds and a sidecar is the value whose digest it *)
(* holds, so a sidecar matches when the two are equal.  One repository,    *)
(* one queue of TaskCount tasks and one source anchor are modelled.        *)
(***************************************************************************)
EXTENDS Naturals, Sequences, SequencesExt

CONSTANTS
  TaskCount,   \* number of tasks of the queue
  MaxCycle,    \* bound: cycle directories ever created
  Workers,     \* worker processes; a file also carries its writer's clock
               \* readings, which the writer's identity stands for
  Anchor,      \* the source anchor commit (HEAD of the source branch)
  Null         \* an absent file, or a null field

ASSUME TaskCountAssumption == TaskCount \in Nat \ {0}
ASSUME MaxCycleAssumption  == MaxCycle \in Nat \ {0}

VARIABLES
  dirs,        \* cycle directories that exist; ids grow with creation time
  stateDirs,   \* those with a state/ subdirectory
  hist,        \* hist[c]: the checkpoint files of cycle c, by sequence number
  receipt,     \* receipt[c]: content of receipt.json
  sidecar,     \* sidecar[c]: content attested by receipt.sha256
  child        \* child[k]: the single-task run k = <<cycle, task index>>

store == <<dirs, stateDirs, hist, receipt, sidecar, child>>

Cycles  == 1..MaxCycle
Tasks   == 1..TaskCount
\* A child run makes at most one commit, so its id also names the commit.
Commits == Cycles \X Tasks
Heads   == Commits \cup {Anchor}

Chains == UNION {[1..n -> Commits] : n \in 0..TaskCount}

Lives  == {"initialized", "active_task", "accepted_task", "finalizing"}
Terms  == {"none", "completed", "blocked", "failed", "failed_commit"}
Ckpts  == [life : Lives, base : Heads, head : Heads, done : Chains, term : Terms,
           by : Workers]
Pairs  == [json : Ckpts \cup {Null}, sha : Ckpts \cup {Null}]

\* reason "child" stands for multi_cycle.child.<status>, "queue" for
\* multi_cycle.completed and "other" for every reason given to record().
Receipts == [status : {"completed", "blocked", "failed", "none"},
             reason : {"child", "queue", "other"},
             base : Heads \cup {Null}, head : Heads \cup {Null},
             done : Chains, stopped : BOOLEAN, pre : BOOLEAN, by : Workers]

\* An absent file holds neither, and no child run makes the anchor.
ASSUME NullAssumption   == Null \notin Ckpts \cup Receipts
ASSUME AnchorAssumption == Anchor \notin Commits

ChildStates == {"absent", "running", "completed", "blocked", "failed", "failed_commit"}
\* written: receipt.json exists; sealed: its sidecar does too.
ChildRuns == [st : ChildStates, base : Heads \cup {Null},
              written : BOOLEAN, sealed : BOOLEAN]

StoreInit ==
  /\ dirs = {}
  /\ stateDirs = {}
  /\ hist = [c \in Cycles |-> <<>>]
  /\ receipt = [c \in Cycles |-> Null]
  /\ sidecar = [c \in Cycles |-> Null]
  /\ child = [k \in Commits |->
                [st |-> "absent", base |-> Null, written |-> FALSE, sealed |-> FALSE]]

(***************************************************************************)
(* Git facts about the commits children made.                              *)
(***************************************************************************)
CommitExists(k) == k = Anchor \/ (k \in Commits /\ child[k].st \in {"completed", "failed_commit"})

Parent(k) == child[k].base

\* git merge-base --is-ancestor a b
IsAncestor(a, b) ==
  LET up[n \in 0..(MaxCycle * TaskCount)] ==
        IF n = 0 THEN b
        ELSE LET k == up[n-1] IN IF k = Anchor THEN Anchor ELSE Parent(k)
  IN \E n \in DOMAIN up : up[n] = a

LastHead(base, done) == IF done = <<>> THEN base ELSE Last(done)

\* done is a chain of existing commits, each the child of the one before it.
ChainFrom(base, done) ==
  \A i \in 1..Len(done) :
    /\ CommitExists(done[i])
    /\ Parent(done[i]) = (IF i = 1 THEN base ELSE done[i-1])

(***************************************************************************)
(* Checkpoint store.                                                       *)
(***************************************************************************)
Sealed(p)     == p.json # Null /\ p.sha = p.json
Incomplete(p) == p.json = Null \/ p.sha = Null

\* write_checkpoint refuses to extend any other history.
AllSealed(h)     == \A i \in 1..Len(h) : Sealed(h[i])
HistorySealed(c) == AllSealed(hist[c])

\* load_latest_checkpoint returns a state: only the latest pair may be
\* incomplete, and then an earlier one must exist.
Loadable(c) ==
  /\ hist[c] # <<>>
  /\ \A i \in 1..(Len(hist[c]) - 1) : Sealed(hist[c][i])
  /\ \/ Sealed(Last(hist[c]))
     \/ Incomplete(Last(hist[c])) /\ Len(hist[c]) > 1

HasOrphan(c) == Loadable(c) /\ Incomplete(Last(hist[c]))

LoadedCkpt(c) == IF HasOrphan(c) THEN hist[c][Len(hist[c]) - 1].json
                                 ELSE Last(hist[c]).json

\* Fault: the latest pair goes, complete or not.
WithoutLatest(c) == IF Loadable(c) THEN Front(hist[c]) ELSE hist[c]

\* _cleanup_orphan
WithoutOrphan(c) == IF HasOrphan(c) THEN Front(hist[c]) ELSE hist[c]

(***************************************************************************)
(* Receipt reader and classifier.                                          *)
(***************************************************************************)
ReceiptRead(c) ==
  IF receipt[c] = Null /\ sidecar[c] = Null THEN "none"
  ELSE IF /\ receipt[c] # Null /\ sidecar[c] = receipt[c]
          /\ receipt[c].head # Null /\ receipt[c].status # "none"
       THEN "verified" ELSE "error"

TermStatus(term) == IF term = "failed_commit" THEN "failed" ELSE term

\* The checkpoint s records the same terminal outcome as receipt r, and its
\* terminal child made no commit.
SameTerminal(s, r) ==
  /\ s.base = r.base /\ s.head = r.head /\ s.done = r.done
  /\ s.life = "finalizing"
  /\ s.term \in {"blocked", "failed"} /\ s.term = r.status
  /\ r.reason = "child" /\ r.stopped

ChildSealedAs(k, status) == child[k].sealed /\ child[k].st = status

TerminalResumable(c) ==
  /\ hist[c] # <<>> /\ HistorySealed(c)
  /\ LET s == Last(hist[c]).json IN
       /\ SameTerminal(s, receipt[c])
       /\ ChildSealedAs(<<c, Len(s.done) + 1>>, s.term)

IsPreTask(r) ==
  /\ r.status \in {"blocked", "failed"} /\ r.pre
  /\ r.base = Anchor /\ r.head = Anchor /\ r.done = <<>> /\ ~r.stopped

Classify(c) ==
  CASE ReceiptRead(c) = "error" -> "INVALID"
    [] ReceiptRead(c) = "verified" ->
         LET r == receipt[c] IN
         IF IsPreTask(r) THEN "PRE_TASK_NO_PROGRESS"
         ELSE IF r.status = "completed"
              THEN IF Len(r.done) = TaskCount /\ ~r.stopped THEN "COMPLETED" ELSE "INVALID"
              ELSE IF TerminalResumable(c) THEN "TASK_TERMINAL_RESUMABLE" ELSE "TASK_TERMINAL"
    [] OTHER ->
         IF hist[c] = <<>> THEN "NONE"
         ELSE IF HistorySealed(c) THEN "ACTIVE" ELSE "INVALID"

(***************************************************************************)
(* _discover_verified_continuation_base: follow the edges base -> final    *)
(* head of verified terminal receipts from the anchor to the tip.          *)
(***************************************************************************)
\* Directories whose raw receipt names this anchor; except holds the own cycle.
Observed(except) == {c \in dirs \ except : receipt[c] # Null /\ receipt[c].head # Null}

Participating(except) == {c \in Observed(except) : Classify(c) # "PRE_TASK_NO_PROGRESS"}

EdgeValid(c) ==
  LET r == receipt[c] IN
  IF r.done = <<>> THEN r.head = r.base
  ELSE ChainFrom(r.base, r.done) /\ r.head = Last(r.done) /\ IsAncestor(Anchor, r.base)

AtAnchor(r) == r.base = Anchor /\ r.head = Anchor /\ r.done = <<>>

\* _source_anchor_no_progress_observation_is_verified
NoProgressVerified(c) ==
  /\ AtAnchor(receipt[c])
  /\ Loadable(c)
  /\ AtAnchor(LoadedCkpt(c))

\* _terminal_zero_completion_noop_is_verified
NoopVerified(c, reachable) ==
  /\ receipt[c].head = receipt[c].base /\ receipt[c].base \in reachable
  /\ Loadable(c)
  /\ SameTerminal(LoadedCkpt(c), receipt[c])
  /\ ChildSealedAs(<<c, 1>>, LoadedCkpt(c).term)

ZeroCompletion(except) == {c \in Participating(except) : receipt[c].done = <<>>}

Targets(cs, tip) == {receipt[c].head : c \in {d \in cs : receipt[d].done # <<>> /\ receipt[d].base = tip}}

Deepest(ts) == {t \in ts : \A o \in ts : IsAncestor(o, t)}

Ambiguous == [ok |-> FALSE, tip |-> Anchor]

\* The tips passed on the way: walk[n] is the tip after n edges.
Walk(except) ==
  LET cs == Participating(except)
      walk[n \in 0..MaxCycle] ==
        IF n = 0 THEN [ok |-> TRUE, tip |-> Anchor]
        ELSE LET w  == walk[n-1]
                 ts == Targets(cs, w.tip)
             IN IF ~w.ok \/ ts = {} THEN w
                ELSE IF Deepest(ts) = {} THEN Ambiguous
                ELSE [ok |-> TRUE, tip |-> CHOOSE t \in Deepest(ts) : TRUE]
  IN walk

Reachable(except) == {Walk(except)[n].tip : n \in 0..MaxCycle}

Usable(c) == Classify(c) # "INVALID" /\ EdgeValid(c)

AllUsable(except) == \A c \in Participating(except) : Usable(c)

\* The tip that is discovered; none when discovery raises.
Discover(except) ==
  LET end == Walk(except)[MaxCycle] IN
  {tip \in Heads :
     /\ tip = end.tip /\ end.ok
     /\ AllUsable(except)
     /\ \A c \in ZeroCompletion(except) :
          NoProgressVerified(c) \/ NoopVerified(c, Reachable(except))}

\* Both verifications read a checkpoint with load_latest_checkpoint, which
\* removes an orphan; a verification that is not reached removes nothing.
DiscoveryCleans(except) ==
  {c \in ZeroCompletion(except) : HasOrphan(c) /\
     IF AtAnchor(receipt[c])
     THEN \A d \in Participating(except) : d <= c => Usable(d)
     ELSE /\ AllUsable(except) /\ Walk(except)[MaxCycle].ok
          /\ receipt[c].base \in Reachable(except)
          /\ \A d \in ZeroCompletion(except) :
               d < c => NoProgressVerified(d) \/ NoopVerified(d, Reachable(except))}

Cleaned(cs) == [c \in Cycles |-> IF c \in cs THEN WithoutOrphan(c) ELSE hist[c]]

\* The files and directories hold what the code can have written to them.
StoreTypeOK ==
  /\ dirs \subseteq Cycles
  /\ stateDirs \subseteq dirs
  /\ hist \in [Cycles -> Seq(Pairs)]
  /\ receipt \in [Cycles -> Receipts \cup {Null}]
  /\ sidecar \in [Cycles -> Receipts \cup {Null}]
  /\ child \in [Commits -> ChildRuns]

=============================================================================
