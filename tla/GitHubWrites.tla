---------------------------- MODULE GitHubWrites ----------------------------
(***************************************************************************)
(* The four write executors of one run directory (draft PR creation, PR    *)
(* update, merge, rollback) with their write receipts, against GitHub and  *)
(* the local clone.  Callers run them one call after the other; people     *)
(* push, merge, close and retitle meanwhile; an answer can be lost, the    *)
(* receipt store can fail and a caller can be killed at any step.          *)
(*                                                                         *)
(* One feature branch is proposed to one base branch.  A PR is a number; a *)
(* commit of the base branch is 0, n for the merge of PR n or Revert(n).   *)
(* The intent of an action on a target is always the same (title, merge    *)
(* method, Expected), so that action and target are the idempotency key.   *)
(***************************************************************************)
EXTENDS Naturals, FiniteSets

CONSTANTS
  Callers,       \* processes that execute an action_handoff.json
  Shas,          \* commits of the feature branch
  Expected,      \* expected_head_sha given for merges, or Null
  MaxPrs,        \* bound: PRs of the branch
  MaxAsked,      \* bound: calls
  MaxFaults,     \* bound: kills, lost answers, failing API, git or store calls
  MaxMoves,      \* bound: what people and CI do
  Null

ASSUME ShasAssumption == Null \notin Shas /\ Expected \in Shas \cup {Null}
ASSUME BoundAssumption == {MaxPrs, MaxAsked, MaxFaults, MaxMoves} \subseteq Nat

VARIABLES
  prs,          \* GitHub: number -> pull request
  tip,          \* GitHub: head of the feature branch
  base,         \* GitHub: head of the base branch
  green,        \* GitHub: commits whose checks have passed
  titled,       \* GitHub: PRs that have the requested title
  borne,        \* GitHub: PRs whose timeline shows the requested title
  clone,        \* head of the local clone's base branch
  reverted,     \* merges that the clone's reflog shows reverted
  records,      \* write_receipts/<action>.json: action -> target -> record
  receipts,     \* the receipt of each action in the run directory
  pc, local,    \* step and local variables of each caller
  overlapped,   \* history: actions for which two calls ran at a time
  asked, faults, moves

github == <<prs, tip, base, green, titled, borne>>
git    == <<clone, reverted>>
store  == <<records, receipts>>
bounds == <<overlapped, asked, faults, moves>>
vars   == <<github, git, store, pc, local, bounds>>

Nums == 1..MaxPrs
Revert(n) == MaxPrs + n
Commits == 0..(MaxPrs + MaxPrs)

Actions == {"create", "update", "merge", "rollback"}

\* A draft PR is created for the two branches, the other actions name a PR.
Targets(a) == IF a = "create" THEN {0} ELSE Nums

Done     == {"applied", "already_applied"}
Stopping == {"conflict", "precondition_changed"}
Record   == [class : Done \cup Stopping \cup {"failed"}, sha : Shas \cup {Null}]
NoRecord == [class |-> Null, sha |-> Null]

People == {"caller", "human"}
Pr == [state : {"none", "open", "closed", "merged"}, draft : BOOLEAN, head : Shas \cup {Null},
       opener : People \cup {Null}, merger : People \cup {Null}, pre : Commits]
NoPr == [state |-> "none", draft |-> FALSE, head |-> Null, opener |-> Null, merger |-> Null, pre |-> 0]

ASSUME NullAssumption == Null \notin People \cup Done \cup Stopping \cup {"failed"}

Opened(who, draft) == [NoPr EXCEPT !.state = "open", !.draft = draft, !.head = tip, !.opener = who]

Open == {n \in Nums : prs[n].state = "open"}
Free == {n \in Nums : prs[n].state = "none" /\ \A m \in 1..(n - 1) : prs[m].state # "none"}

PCs == {"idle", "read", "checks", "look", "write", "record", "answer"}

Locals == [act : Actions, n : 0..MaxPrs, dedupe : {"first", "replay"} \cup Stopping,
           prior : Shas \cup {Null},     \* observed_head_sha of the matched record
           sha : Shas \cup {Null},       \* commit_sha of the status read
           class : Done \cup Stopping \cup {"failed"}, ok : BOOLEAN]
Fresh == [act |-> "create", n |-> 0, dedupe |-> "first", prior |-> Null, sha |-> Null,
          class |-> "failed", ok |-> FALSE]

\* The run directory is new; the branch may already have a PR, and CI may have run.
Init ==
  /\ tip \in Shas /\ base = 0 /\ clone = 0 /\ reverted = {}
  /\ green \in SUBSET {tip} /\ titled = {} /\ borne = {}
  /\ \E first \in {NoPr, Opened("human", FALSE)} :
       prs = [n \in Nums |-> IF n = 1 THEN first ELSE NoPr]
  /\ records = [a \in Actions |-> [n \in 0..MaxPrs |-> NoRecord]]
  /\ receipts = [a \in Actions |-> [ok |-> FALSE, n |-> 0]]
  /\ pc = [c \in Callers |-> "idle"] /\ local = [c \in Callers |-> Fresh]
  /\ overlapped = {} /\ asked = 0 /\ faults = 0 /\ moves = 0

----------------------------------------------------------------------------
(* The store of write receipts and a call's bookkeeping *)

\* Fault: a record of the same key is looked at only when it stops.
DedupeForgets(a, n) ==
  IF records[a][n].class \in Stopping THEN records[a][n].class ELSE "first"

\* evaluate_write_dedupe_status
Dedupe(a, n) ==
  LET class == records[a][n].class
      other == \E m \in Targets(a) \ {n} : records[a][m].class \in Done
  IN  IF class \in Done THEN "replay"
      ELSE IF class \in Stopping THEN class
      ELSE IF class = Null /\ other THEN "conflict"
      ELSE "first"

Set(c, step, l) == pc' = [pc EXCEPT ![c] = step] /\ local' = [local EXCEPT ![c] = l]
At(c, a, step) == pc[c] = step /\ local[c].act = a
Goto(c, step)  == Set(c, step, local[c])

\* The call is over but for its receipt.
Ends(c, ok) == Set(c, "answer", [Fresh EXCEPT !.act = local[c].act, !.n = local[c].n, !.ok = ok])

\* _refusal: nothing is recorded.
Refused(c) == Ends(c, FALSE)

\* The classification that _persist_write_receipt is about to store.
Classified(c, class, ok) == Set(c, "record", [local[c] EXCEPT !.class = class, !.ok = ok])

\* People name PRs that exist, and merge commits for a rollback.
Named(a, n) ==
  CASE a = "create"   -> TRUE
    [] a = "rollback" -> prs[n].state = "merged"
    [] OTHER          -> prs[n].state # "none"

\* A call that the dedupe stops only records that.
Started(c, a, n) ==
  LET d == Dedupe(a, n)
      l == [Fresh EXCEPT !.act = a, !.n = n, !.dedupe = d]
  IN  /\ IF d \in Stopping THEN Set(c, "record", [l EXCEPT !.class = d])
         ELSE Set(c, "read", [l EXCEPT !.prior = records[a][n].sha])
      /\ overlapped' = IF \E o \in Callers : pc[o] # "idle" /\ local[o].act = a
                       THEN overlapped \cup {a} ELSE overlapped

\* A call starts: list_records and the decision on it.
Ask(c) ==
  /\ pc[c] = "idle" /\ asked < MaxAsked
  /\ \E a \in Actions : \E n \in Targets(a) : Named(a, n) /\ Started(c, a, n)
  /\ asked' = asked + 1
  /\ UNCHANGED <<github, git, store, faults, moves>>

Recorded(c) == [class |-> local[c].class, sha |-> local[c].sha]

\* persist_record, under the lock of the action's file and by replacing it.
Persist(c) ==
  /\ pc[c] = "record"
  /\ records' = [records EXCEPT ![local[c].act][local[c].n] = Recorded(c)]
  /\ Ends(c, local[c].ok)
  /\ UNCHANGED <<github, git, receipts, bounds>>

\* The store raises: execute_from_run_dir refuses, whatever was done.
StoreFails(c) ==
  /\ pc[c] = "record" /\ faults < MaxFaults
  /\ Refused(c)
  /\ faults' = faults + 1
  /\ UNCHANGED <<github, git, store, overlapped, asked, moves>>

\* The receipt of the action, which is also the caller's answer.
Answer(c) ==
  /\ pc[c] = "answer"
  /\ receipts' = [receipts EXCEPT ![local[c].act] = [ok |-> local[c].ok, n |-> local[c].n]]
  /\ Set(c, "idle", Fresh)
  /\ UNCHANGED <<github, git, records, bounds>>

Kill(c) ==
  /\ pc[c] # "idle" /\ faults < MaxFaults
  /\ Set(c, "idle", Fresh)
  /\ faults' = faults + 1
  /\ UNCHANGED <<github, git, store, overlapped, asked, moves>>

----------------------------------------------------------------------------
(* The reads that must permit a write *)

\* A read fails, or says what no write is made on (checks, mergeability, refs).
ReadRefused(c) == pc[c] \in {"read", "checks", "look"} /\ Refused(c)

\* find_open_pr of the two branches decides, then the replay.
ReadCreate(c) ==
  /\ At(c, "create", "read")
  /\ IF Open # {} THEN Classified(c, "already_applied", TRUE)
     ELSE IF local[c].dedupe = "replay" THEN Classified(c, "precondition_changed", FALSE)
     ELSE Goto(c, "write")

Observed(c, p) == [local[c] EXCEPT !.sha = p.head]

\* Fault: on a replay a PR that is not open is a changed precondition.
ReadMergeOpenFirst(c) ==
  LET p == prs[local[c].n] IN
  /\ At(c, "merge", "read")
  /\ IF local[c].dedupe = "replay" /\ p.state # "open" THEN Classified(c, "precondition_changed", FALSE)
     ELSE IF p.state # "open" \/ p.draft THEN Refused(c)
     ELSE Set(c, "checks", Observed(c, p))

\* get_pr_status_summary for a merge.  GitHub reports a merged PR as closed.
ReadMerge(c) ==
  LET l == local[c]
      p == prs[l.n]
      seen == Observed(c, p)
  IN
  /\ At(c, "merge", "read")
  /\ IF l.dedupe = "replay" /\ p.state = "merged"
     THEN Set(c, "record", [seen EXCEPT !.class = "already_applied", !.ok = TRUE])
     ELSE IF l.dedupe = "replay" /\ l.prior \notin {Null, p.head}
     THEN Set(c, "record", [seen EXCEPT !.class = "precondition_changed", !.ok = FALSE])
     ELSE IF Expected \notin {Null, p.head} \/ p.state # "open" \/ p.draft THEN Refused(c)
     ELSE Set(c, "checks", seen)

\* The checks of the commit that was read.
ReadChecks(c) ==
  /\ pc[c] = "checks"
  /\ IF local[c].sha \in green THEN Goto(c, "look") ELSE Refused(c)

\* The open PR of the branches is still the one to merge.
LookMerge(c) ==
  /\ At(c, "merge", "look")
  /\ IF local[c].n \in Open THEN Goto(c, "write") ELSE Refused(c)

ReadUpdate(c) ==
  /\ At(c, "update", "read")
  /\ IF local[c].n \in Open THEN Goto(c, "look") ELSE Refused(c)

\* get_pull_request, compared with the requested update.
LookUpdate(c) ==
  /\ At(c, "update", "look")
  /\ IF local[c].n \in titled THEN Classified(c, "already_applied", TRUE)
     ELSE IF local[c].dedupe = "replay" THEN Classified(c, "precondition_changed", FALSE)
     ELSE Goto(c, "write")

\* get_branch_head of the base branch: post_merge_sha is the merge's commit.
ReadRollback(c) ==
  LET l == local[c] IN
  /\ At(c, "rollback", "read")
  /\ IF l.dedupe = "replay" /\ base = prs[l.n].pre THEN Classified(c, "already_applied", TRUE)
     ELSE IF l.dedupe = "replay" /\ base # l.n THEN Classified(c, "precondition_changed", FALSE)
     ELSE IF base # l.n THEN Refused(c)
     ELSE Goto(c, "write")

Read(c) ==
  /\ \/ ReadRefused(c) \/ ReadCreate(c) \/ ReadMerge(c) \/ ReadChecks(c) \/ LookMerge(c)
     \/ ReadUpdate(c) \/ LookUpdate(c) \/ ReadRollback(c)
  /\ UNCHANGED <<github, git, store, bounds>>

----------------------------------------------------------------------------
(* The writes *)

Merged(n, who) ==
  /\ prs' = [prs EXCEPT ![n].state = "merged", ![n].merger = who, ![n].pre = base]
  /\ base' = n
  /\ UNCHANGED <<tip, green, titled, borne>>

\* Fault: the merge is asked for without a commit.
InsistedOnAny(c) == prs[local[c].n].head

\* The commit that merge_pull_request insists on.
Insisted(c) == local[c].sha

\* GitHub takes one open PR per pair of branches, and merges what is open,
\* no draft and still at the commit the request names; a revert needs a
\* clone whose branch is at the merge.
Accepted(c) ==
  LET n == local[c].n IN
  CASE local[c].act = "create"   -> Open = {} /\ Free # {}
    [] local[c].act = "update"   -> prs[n].state # "none"
    [] local[c].act = "merge"    -> prs[n].state = "open" /\ ~prs[n].draft /\ prs[n].head = Insisted(c)
    [] local[c].act = "rollback" -> clone = n

\* What it does then.
Effect(c) ==
  LET n == local[c].n IN
  CASE local[c].act = "create" ->
         /\ \E f \in Free : prs' = [prs EXCEPT ![f] = Opened("caller", TRUE)]
         /\ UNCHANGED <<tip, base, green, titled, borne, git>>
    [] local[c].act = "update" ->
         /\ titled' = titled \cup {n} /\ borne' = borne \cup {n}
         /\ UNCHANGED <<prs, tip, base, green, git>>
    [] local[c].act = "merge" -> Merged(n, "caller") /\ UNCHANGED git
    [] local[c].act = "rollback" ->
         /\ clone' = Revert(n) /\ reverted' = reverted \cup {n}
         /\ UNCHANGED github

\* Fault: an answer without success is recorded as a success.
WriteUnread(c) ==
  /\ pc[c] = "write"
  /\ (Accepted(c) /\ Effect(c)) \/ (~Accepted(c) /\ UNCHANGED <<github, git>>)
  /\ Classified(c, "applied", TRUE)
  /\ UNCHANGED <<store, bounds>>

\* The write is done and answered, or refused.
Write(c) ==
  /\ pc[c] = "write"
  /\ IF Accepted(c)
     THEN Effect(c) /\ Classified(c, "applied", TRUE)
     ELSE UNCHANGED <<github, git>> /\ Classified(c, "failed", FALSE)
  /\ UNCHANGED <<store, bounds>>

\* The call fails, before or after its effect, and is recorded as a failure.
WriteFails(c) ==
  /\ pc[c] = "write" /\ faults < MaxFaults
  /\ (Accepted(c) /\ Effect(c)) \/ UNCHANGED <<github, git>>
  /\ Classified(c, "failed", FALSE)
  /\ faults' = faults + 1
  /\ UNCHANGED <<store, overlapped, asked, moves>>

----------------------------------------------------------------------------
(* What people and CI do *)

Push(s) ==
  /\ tip' = s
  /\ prs' = [n \in Nums |-> IF n \in Open THEN [prs[n] EXCEPT !.head = s] ELSE prs[n]]
  /\ UNCHANGED <<base, green, titled, borne, git>>

ChecksPass == green' = green \cup {tip} /\ UNCHANGED <<prs, tip, base, titled, borne, git>>

HumanOpens ==
  /\ Open = {}
  /\ \E n \in Free : prs' = [prs EXCEPT ![n] = Opened("human", FALSE)]
  /\ UNCHANGED <<tip, base, green, titled, borne, git>>

HumanEdits(n) ==
  /\ \/ prs' = [prs EXCEPT ![n].draft = FALSE] /\ UNCHANGED titled
     \/ prs' = [prs EXCEPT ![n].state = "closed"] /\ UNCHANGED titled
     \/ titled' = titled \ {n} /\ UNCHANGED prs
  /\ UNCHANGED <<tip, base, green, borne, git>>

HumanMerges(n) == ~prs[n].draft /\ Merged(n, "human") /\ UNCHANGED git

\* The clone is brought to the remote branch, its branch is pushed, or a
\* merge is taken off the base branch by force.
Pull  == clone' = base /\ UNCHANGED <<github, reverted>>
Publish == base' = clone /\ UNCHANGED <<prs, tip, green, titled, borne, git>>
TakeBack(n) == base = n /\ base' = prs[n].pre /\ UNCHANGED <<prs, tip, green, titled, borne, git>>

Move ==
  /\ moves < MaxMoves
  /\ \/ \E s \in Shas \ {tip} : Push(s)
     \/ ChecksPass \/ HumanOpens
     \/ \E n \in Open : HumanEdits(n) \/ HumanMerges(n)
     \/ Pull \/ Publish \/ \E n \in Nums : TakeBack(n)
  /\ moves' = moves + 1
  /\ UNCHANGED <<store, pc, local, overlapped, asked, faults>>

Next ==
  \/ \E c \in Callers :
       Ask(c) \/ Read(c) \/ Write(c) \/ WriteFails(c) \/ Persist(c) \/ StoreFails(c) \/ Answer(c) \/ Kill(c)
  \/ Move

Spec == Init /\ [][Next]_vars
=============================================================================
