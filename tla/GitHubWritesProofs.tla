------------------------- MODULE GitHubWritesProofs -------------------------
(***************************************************************************)
(* Proofs about the GitHub writes, for any number of callers, commits and  *)
(* PRs: types, the truth of records and receipts, the checks of merged     *)
(* heads, that the record of a merge stays, and that PRs opened twice are  *)
(* paid for by faults.                                                     *)
(***************************************************************************)
EXTENDS GitHubWritesProperties, FiniteSetTheorems, TLAPS

USE BoundAssumption, ShasAssumption

(***************************************************************************)
(* Types                                                                   *)
(***************************************************************************)
\* Local variables that fit their call.
Fits(l) == l \in Locals /\ l.n \in Targets(l.act)

\* A step that only moves a caller keeps what TypeOK says of callers.
LEMMA SetType ==
  ASSUME TypeOK, NEW c \in Callers, NEW step \in PCs, NEW l, Fits(l), Set(c, step, l)
  PROVE  /\ pc' \in [Callers -> PCs] /\ local' \in [Callers -> Locals]
         /\ \A d \in Callers : local'[d].n \in Targets(local'[d].act)
  BY DEF TypeOK, Set, Fits

LEMMA FreshFits == Fits(Fresh)
  BY DEF Fits, Fresh, Locals, Actions, Targets, Done, Stopping

LEMMA LocalFits == ASSUME TypeOK, NEW c \in Callers PROVE Fits(local[c])
  BY DEF TypeOK, Fits

\* The local variables that the steps of a call leave behind.
LEMMA EndsFits ==
  ASSUME TypeOK, NEW c \in Callers, NEW ok \in BOOLEAN
  PROVE  Fits([Fresh EXCEPT !.act = local[c].act, !.n = local[c].n, !.ok = ok])
  <1>1. Fits(local[c])
    BY LocalFits
  <1>. QED
    BY <1>1, FreshFits DEF Fits, Fresh, Locals

LEMMA ClassifiedFits ==
  ASSUME TypeOK, NEW c \in Callers, NEW class \in Done \cup Stopping \cup {"failed"}, NEW ok \in BOOLEAN
  PROVE  Fits([local[c] EXCEPT !.class = class, !.ok = ok])
  <1>1. Fits(local[c])
    BY LocalFits
  <1>. QED
    BY <1>1 DEF Fits, Locals

\* What TypeOK says of the callers.
CallersType ==
  /\ pc \in [Callers -> PCs] /\ local \in [Callers -> Locals]
  /\ \A c \in Callers : local[c].n \in Targets(local[c].act)

LEMMA EndsType ==
  ASSUME TypeOK, NEW c \in Callers, NEW ok \in BOOLEAN, Ends(c, ok) PROVE CallersType'
  <1>1. "answer" \in PCs
    BY DEF PCs
  <1>. QED
    BY <1>1, EndsFits, SetType DEF Ends, CallersType

LEMMA ClassifiedType ==
  ASSUME TypeOK, NEW c \in Callers, NEW class \in Done \cup Stopping \cup {"failed"}, NEW ok \in BOOLEAN,
         Classified(c, class, ok)
  PROVE  CallersType'
  <1>1. "record" \in PCs
    BY DEF PCs
  <1>. QED
    BY <1>1, ClassifiedFits, SetType DEF Classified, CallersType

LEMMA GotoType ==
  ASSUME TypeOK, NEW c \in Callers, NEW step \in PCs, Goto(c, step) PROVE CallersType'
  BY LocalFits, SetType DEF Goto, CallersType

\* The steps that read.
LEMMA ReadType ==
  ASSUME TypeOK, NEW c \in Callers, Read(c) PROVE CallersType'
  <1>. USE DEF Refused
  <1>0. /\ "applied" \in Done /\ "already_applied" \in Done /\ "precondition_changed" \in Stopping
        /\ {"checks", "look", "write", "record"} \subseteq PCs /\ TRUE \in BOOLEAN /\ FALSE \in BOOLEAN
    BY DEF Done, Stopping, PCs
  <1>1. CASE ReadRefused(c)
    BY <1>0, <1>1, EndsType DEF ReadRefused
  <1>2. CASE ReadCreate(c)
    BY <1>0, <1>2, ClassifiedType, GotoType DEF ReadCreate
  <1>3. CASE ReadMerge(c)
    <2>1. local[c].n \in Nums /\ prs[local[c].n] \in Pr
      BY <1>3 DEF ReadMerge, At, TypeOK, Targets
    <2>2. Fits(Observed(c, prs[local[c].n]))
      BY <2>1, LocalFits DEF Observed, Fits, Locals, Pr
    <2>3. \A class \in Done \cup Stopping, ok \in BOOLEAN :
            Fits([Observed(c, prs[local[c].n]) EXCEPT !.class = class, !.ok = ok])
      BY <2>2 DEF Fits, Locals
    <2>. QED
      BY <1>0, <1>3, <2>2, <2>3, SetType, EndsType DEF ReadMerge, CallersType
  <1>4. CASE ReadChecks(c)
    BY <1>0, <1>4, GotoType, EndsType DEF ReadChecks
  <1>5. CASE LookMerge(c)
    BY <1>0, <1>5, GotoType, EndsType DEF LookMerge
  <1>6. CASE ReadUpdate(c)
    BY <1>0, <1>6, GotoType, EndsType DEF ReadUpdate
  <1>7. CASE LookUpdate(c)
    BY <1>0, <1>7, GotoType, ClassifiedType DEF LookUpdate
  <1>8. CASE ReadRollback(c)
    BY <1>0, <1>8, GotoType, ClassifiedType, EndsType DEF ReadRollback
  <1>. QED
    BY <1>1, <1>2, <1>3, <1>4, <1>5, <1>6, <1>7, <1>8 DEF Read

\* What TypeOK says of GitHub and the clone.
HubType ==
  /\ prs \in [Nums -> Pr] /\ tip \in Shas /\ base \in Commits /\ green \subseteq Shas /\ titled \subseteq Nums /\ borne \subseteq Nums
  /\ clone \in Commits /\ reverted \subseteq Nums

LEMMA NumsFacts ==
  /\ \A n \in Nums : n \in Commits /\ Revert(n) \in Commits
  /\ 0 \in Commits
  BY DEF Nums, Commits, Revert

LEMMA OpenedType ==
  ASSUME TypeOK, NEW who \in People, NEW draft \in BOOLEAN PROVE Opened(who, draft) \in Pr
  BY NumsFacts DEF TypeOK, Opened, NoPr, Pr, People

LEMMA MergedType ==
  ASSUME TypeOK, NEW n \in Nums, NEW who \in People, Merged(n, who), UNCHANGED git PROVE HubType'
  <1>0. prs[n] \in Pr /\ base \in Commits
    BY DEF TypeOK
  <1>1. [prs[n] EXCEPT !.state = "merged", !.merger = who, !.pre = base] \in Pr
    BY <1>0 DEF Pr
  <1>2. prs' = [prs EXCEPT ![n] = [prs[n] EXCEPT !.state = "merged", !.merger = who, !.pre = base]]
    BY DEF Merged, TypeOK
  <1>. QED
    BY <1>1, <1>2, NumsFacts DEF Merged, TypeOK, HubType, git

LEMMA EffectType ==
  ASSUME TypeOK, NEW c \in Callers, pc[c] = "write", Effect(c) PROVE HubType'
  <1>1. CASE local[c].act = "create"
    BY <1>1, OpenedType DEF Effect, TypeOK, HubType, git, Free, People
  <1>2. CASE local[c].act = "update"
    <2>1. local[c].n \in Nums
      BY <1>2 DEF TypeOK, Targets
    <2>. QED
      BY <1>2, <2>1 DEF Effect, TypeOK, HubType, git
  <1>3. CASE local[c].act = "merge"
    <2>1. local[c].n \in Nums /\ "caller" \in People
      BY <1>3 DEF TypeOK, Targets, People
    <2>. QED
      BY <1>3, <2>1, MergedType DEF Effect
  <1>4. CASE local[c].act = "rollback"
    <2>1. local[c].n \in Nums
      BY <1>4 DEF TypeOK, Targets
    <2>. QED
      BY <1>4, <2>1, NumsFacts DEF Effect, TypeOK, HubType, github
  <1>. QED
    BY <1>1, <1>2, <1>3, <1>4 DEF TypeOK, Locals, Actions

LEMMA MoveType ==
  ASSUME TypeOK, Move PROVE HubType'
  <1>1. CASE \E s \in Shas \ {tip} : Push(s)
    <2>1. PICK s \in Shas : Push(s)
      BY <1>1
    <2>2. \A n \in Nums : prs[n] \in Pr /\ [prs[n] EXCEPT !.head = s] \in Pr
      <3>1. prs \in [Nums -> Pr]
        BY DEF TypeOK
      <3>2. ASSUME NEW r \in Pr PROVE [r EXCEPT !.head = s] \in Pr
        BY DEF Pr
      <3>. QED
        BY <3>1, <3>2
    <2>. QED
      BY <2>1, <2>2 DEF Push, TypeOK, HubType, git
  <1>2. CASE ChecksPass
    BY <1>2 DEF ChecksPass, TypeOK, HubType, git
  <1>3. CASE HumanOpens
    BY <1>3, OpenedType DEF HumanOpens, TypeOK, HubType, git, Free, People
  <1>4. CASE \E n \in Open : HumanEdits(n)
    <2>1. PICK n \in Nums : HumanEdits(n)
      BY <1>4 DEF Open
    <2>2. /\ [prs[n] EXCEPT !.draft = FALSE] \in Pr
          /\ [prs[n] EXCEPT !.state = "closed"] \in Pr
      BY <2>1 DEF TypeOK, Pr
    <2>3. \E p \in Pr : prs' = [prs EXCEPT ![n] = p]
      BY <2>1, <2>2 DEF HumanEdits, TypeOK
    <2>. QED
      BY <2>1, <2>3 DEF HumanEdits, TypeOK, HubType, git
  <1>5. CASE \E n \in Open : HumanMerges(n)
    BY <1>5, MergedType DEF HumanMerges, Open, People
  <1>6. CASE Pull
    BY <1>6 DEF Pull, TypeOK, HubType, github
  <1>7. CASE Publish
    BY <1>7 DEF Publish, TypeOK, HubType, git
  <1>8. CASE \E n \in Nums : TakeBack(n)
    BY <1>8 DEF TakeBack, TypeOK, HubType, git, Pr
  <1>. QED
    BY <1>1, <1>2, <1>3, <1>4, <1>5, <1>6, <1>7, <1>8 DEF Move

LEMMA TypeStep ==
  ASSUME TypeOK, [Next]_vars PROVE TypeOK'
  <1>0. FALSE \in BOOLEAN /\ TRUE \in BOOLEAN
    OBVIOUS
  <1>. USE DEF Refused
  <1>1. ASSUME NEW c \in Callers, Ask(c) PROVE TypeOK'
    <2>0. PICK a \in Actions : \E n \in Targets(a) : Started(c, a, n)
      BY <1>1 DEF Ask
    <2>1. PICK n \in Targets(a) : Started(c, a, n)
      BY <2>0
    <2>. DEFINE l == [Fresh EXCEPT !.act = a, !.n = n, !.dedupe = Dedupe(a, n)]
    <2>2. n \in 0..MaxPrs
      BY <2>1 DEF Targets, Nums
    <2>3. Dedupe(a, n) \in {"first", "replay"} \cup Stopping
      BY DEF Dedupe, Stopping
    <2>4. records[a][n].sha \in Shas \cup {Null}
      <3>1. records[a][n] \in Record \cup {NoRecord}
        BY <2>2 DEF TypeOK
      <3>. QED
        BY <3>1 DEF Record, NoRecord
    <2>5. /\ Dedupe(a, n) \in Stopping => Fits([l EXCEPT !.class = Dedupe(a, n)])
          /\ Fits([l EXCEPT !.prior = records[a][n].sha])
      BY <2>1, <2>2, <2>3, <2>4, FreshFits DEF Fits, Locals, Fresh
    <2>6. {"record", "read"} \subseteq PCs
      BY DEF PCs
    <2>7. CallersType'
      BY <2>1, <2>5, <2>6, SetType DEF CallersType, Started
    <2>. QED
      BY <1>1, <2>1, <2>7 DEF Ask, Started, TypeOK, CallersType, github, git, store
  <1>2. ASSUME NEW c \in Callers, Read(c) PROVE TypeOK'
    BY <1>2, ReadType DEF Read, TypeOK, CallersType, github, git, store, bounds
  <1>3. ASSUME NEW c \in Callers, Write(c) PROVE TypeOK'
    <2>1. CallersType'
      BY <1>0, <1>3, ClassifiedType DEF Write, Done
    <2>2. HubType'
      BY <1>3, EffectType DEF Write, TypeOK, HubType, github, git
    <2>. QED
      BY <1>3, <2>1, <2>2 DEF Write, TypeOK, CallersType, HubType, store, bounds
  <1>4. ASSUME NEW c \in Callers, WriteFails(c) PROVE TypeOK'
    <2>1. CallersType'
      BY <1>0, <1>4, ClassifiedType DEF WriteFails
    <2>2. HubType'
      BY <1>4, EffectType DEF WriteFails, TypeOK, HubType, github, git
    <2>. QED
      BY <1>4, <2>1, <2>2 DEF WriteFails, TypeOK, CallersType, HubType, store
  <1>5. ASSUME NEW c \in Callers, Persist(c) PROVE TypeOK'
    <2>1. local[c] \in Locals
      BY DEF TypeOK
    <2>2. Recorded(c) \in Record
      BY <2>1 DEF Recorded, Record, Locals
    <2>3. local[c].ok \in BOOLEAN /\ local[c].act \in Actions /\ local[c].n \in 0..MaxPrs
      BY <2>1 DEF Locals
    <2>4. records' \in [Actions -> [0..MaxPrs -> Record \cup {NoRecord}]]
      BY <1>5, <2>2, <2>3 DEF Persist, TypeOK
    <2>5. CallersType'
      BY <1>5, <2>3, EndsType DEF Persist
    <2>. QED
      BY <1>5, <2>4, <2>5 DEF Persist, TypeOK, CallersType, github, git, bounds
  <1>6. ASSUME NEW c \in Callers, StoreFails(c) PROVE TypeOK'
    <2>1. CallersType'
      BY <1>0, <1>6, EndsType DEF StoreFails
    <2>. QED
      BY <1>6, <2>1 DEF StoreFails, TypeOK, CallersType, github, git, store
  <1>7. ASSUME NEW c \in Callers, Answer(c) PROVE TypeOK'
    <2>1. "idle" \in PCs
      BY DEF PCs
    <2>2. CallersType'
      BY <1>7, <2>1, FreshFits, SetType DEF Answer, CallersType
    <2>3. [ok |-> local[c].ok, n |-> local[c].n] \in [ok : BOOLEAN, n : 0..MaxPrs]
      BY DEF TypeOK, Locals
    <2>. QED
      BY <1>7, <2>2, <2>3 DEF Answer, TypeOK, CallersType, github, git, bounds
  <1>8. ASSUME NEW c \in Callers, Kill(c) PROVE TypeOK'
    <2>1. "idle" \in PCs
      BY DEF PCs
    <2>2. CallersType'
      BY <1>8, <2>1, FreshFits, SetType DEF Kill, CallersType
    <2>. QED
      BY <1>8, <2>2 DEF Kill, TypeOK, CallersType, github, git, store
  <1>9. CASE Move
    BY <1>9, MoveType DEF Move, TypeOK, HubType, store
  <1>10. CASE UNCHANGED vars
    BY <1>10 DEF vars, github, git, store, bounds, TypeOK
  <1>. QED
    BY <1>1, <1>2, <1>3, <1>4, <1>5, <1>6, <1>7, <1>8, <1>9, <1>10 DEF Next

LEMMA InitType == Init => TypeOK
  <1>. SUFFICES ASSUME Init PROVE TypeOK
    OBVIOUS
  <1>1. tip \in Shas /\ NoPr \in Pr
    BY NumsFacts DEF Init, NoPr, Pr
  <1>2. Opened("human", FALSE) \in Pr
    BY <1>1, NumsFacts DEF Opened, NoPr, Pr, People
  <1>3. PICK first \in {NoPr, Opened("human", FALSE)} : prs = [n \in Nums |-> IF n = 1 THEN first ELSE NoPr]
    BY DEF Init
  <1>4. prs \in [Nums -> Pr]
    BY <1>1, <1>2, <1>3
  <1>5. /\ pc \in [Callers -> PCs] /\ local \in [Callers -> Locals]
        /\ \A c \in Callers : local[c].n \in Targets(local[c].act)
    BY FreshFits DEF Init, Fits, PCs
  <1>6. 0 \in 0..MaxPrs
    OBVIOUS
  <1>. QED
    BY <1>1, <1>4, <1>5, <1>6, NumsFacts DEF Init, TypeOK

\* GitHub, clone, store and callers always hold values of their kinds.
THEOREM TypeCorrect == Spec => []TypeOK
  BY InitType, TypeStep, PTL DEF Spec

(***************************************************************************)
(* What GitHub and the clone keep                                          *)
(***************************************************************************)
\* A number without PR is nobody's merge, and what a caller merged is merged.
Timely ==
  /\ titled \subseteq borne
  /\ \A n \in Nums :
       /\ prs[n].state = "none" => prs[n].merger = Null
       /\ prs[n].merger = "caller" => prs[n].state = "merged"

\* A step of PR n: what it cannot take back, and where a caller's merge comes from.
Kept(n) ==
  /\ prs[n].state # "none" => prs'[n].state # "none"
  /\ prs[n].state = "merged" =>
       prs'[n].state = "merged" /\ prs'[n].head = prs[n].head /\ prs'[n].merger = prs[n].merger
  /\ prs'[n].state = "none" => prs'[n].merger = Null
  /\ prs'[n].merger = "caller" =>
       /\ prs'[n].state = "merged"
       /\ \/ prs[n].state = "merged" /\ prs[n].merger = "caller"
          \/ \E c \in Callers : pc[c] = "write" /\ local[c].act = "merge" /\ prs'[n].head = local[c].sha

\* A step that leaves the fields alone that matter here.
LEMMA SameKept ==
  ASSUME Timely, NEW n \in Nums, prs'[n].state = prs[n].state, prs'[n].merger = prs[n].merger,
         prs[n].state = "open" \/ prs'[n].head = prs[n].head
  PROVE  Kept(n)
  <1>1. prs[n].state = "merged" => prs'[n].head = prs[n].head
    OBVIOUS
  <1>. QED
    <2>1. /\ prs[n].state = "none" => prs[n].merger = Null
          /\ prs[n].merger = "caller" => prs[n].state = "merged"
      BY DEF Timely
    <2>2. prs'[n].merger = "caller" => prs'[n].state = "merged" /\ prs[n].state = "merged" /\ prs[n].merger = "caller"
      BY <2>1
    <2>. QED
      BY <1>1, <2>1, <2>2 DEF Kept

LEMMA Still ==
  ASSUME Timely, NEW n \in Nums, prs'[n] = prs[n] PROVE Kept(n)
  BY SameKept

LEMMA EffectKeeps ==
  ASSUME TypeOK, Timely, NEW c \in Callers, pc[c] = "write", Accepted(c), Effect(c)
  PROVE  /\ borne \subseteq borne' /\ titled' \subseteq borne'
         /\ reverted \subseteq reverted' /\ green \subseteq green' /\ \A n \in Nums : Kept(n)
  <1>0. titled \subseteq borne
    BY DEF Timely
  <1>1. CASE local[c].act = "create"
    <2>1. PICK f \in Free : prs' = [prs EXCEPT ![f] = Opened("caller", TRUE)]
      BY <1>1 DEF Effect
    <2>2. \A n \in Nums : n # f => prs'[n] = prs[n]
      BY <2>1 DEF TypeOK
    <2>3. f \in Nums /\ prs[f].state = "none" /\ prs'[f] = Opened("caller", TRUE)
      BY <2>1 DEF Free, TypeOK
    <2>4. Kept(f)
      <3>1. prs'[f].state = "open" /\ prs'[f].merger = Null
        BY <2>3 DEF Opened, NoPr
      <3>2. Null # "caller"
        BY NullAssumption DEF People
      <3>. QED
        BY <2>3, <3>1, <3>2 DEF Kept
    <2>. QED
      BY <1>1, <2>2, <2>4, <1>0, Still DEF Effect, git
  <1>2. CASE local[c].act = "update"
    BY <1>2, <1>0, Still DEF Effect, Timely, git
  <1>3. CASE local[c].act = "merge"
    <2>1. local[c].n \in Nums /\ prs[local[c].n] \in Pr
      BY <1>3 DEF TypeOK, Targets
    <2>2. prs' = [prs EXCEPT ![local[c].n] = [prs[local[c].n] EXCEPT !.state = "merged", !.merger = "caller", !.pre = base]]
      BY <1>3, <2>1 DEF Effect, Merged, TypeOK
    <2>3. \A n \in Nums : n # local[c].n => prs'[n] = prs[n]
      BY <2>2 DEF TypeOK
    <2>4. prs'[local[c].n] = [prs[local[c].n] EXCEPT !.state = "merged", !.merger = "caller", !.pre = base]
      BY <2>1, <2>2 DEF TypeOK
    <2>5. prs[local[c].n].state = "open" /\ prs[local[c].n].head = local[c].sha
      BY <1>3 DEF Accepted, Insisted
    <2>6. Kept(local[c].n)
      BY <1>3, <2>1, <2>4, <2>5 DEF Kept, Timely, Pr
    <2>. QED
      BY <1>3, <2>3, <2>6, <1>0, Still DEF Effect, Merged, git
  <1>4. CASE local[c].act = "rollback"
    BY <1>4, <1>0, Still DEF Effect, github
  <1>. QED
    BY <1>1, <1>2, <1>3, <1>4 DEF TypeOK, Locals, Actions

LEMMA MoveKeeps ==
  ASSUME TypeOK, Timely, Move
  PROVE  /\ borne \subseteq borne' /\ titled' \subseteq borne'
         /\ reverted \subseteq reverted' /\ green \subseteq green' /\ \A n \in Nums : Kept(n)
  <1>0. titled \subseteq borne
    BY DEF Timely
  <1>1. CASE \E s \in Shas \ {tip} : Push(s)
    <2>1. PICK s \in Shas : Push(s)
      BY <1>1
    <2>2. ASSUME NEW n \in Nums PROVE Kept(n)
      <3>1. prs'[n] = IF n \in Open THEN [prs[n] EXCEPT !.head = s] ELSE prs[n]
        BY <2>1 DEF Push
      <3>2. prs[n] \in Pr
        BY DEF TypeOK
      <3>3. /\ prs'[n].state = prs[n].state /\ prs'[n].merger = prs[n].merger
            /\ (prs[n].state = "open" \/ prs'[n].head = prs[n].head)
        BY <3>1, <3>2 DEF Open, Pr
      <3>. QED
        BY <3>3, SameKept
    <2>. QED
      BY <1>0, <2>1, <2>2 DEF Push, git
  <1>2. CASE ChecksPass
    BY <1>2, <1>0, Still DEF ChecksPass, git
  <1>3. CASE HumanOpens
    <2>1. PICK f \in Free : prs' = [prs EXCEPT ![f] = Opened("human", FALSE)]
      BY <1>3 DEF HumanOpens
    <2>2. \A n \in Nums : n # f => prs'[n] = prs[n]
      BY <2>1 DEF TypeOK
    <2>3. f \in Nums /\ prs[f].state = "none" /\ prs'[f] = Opened("human", FALSE)
      BY <2>1 DEF Free, TypeOK
    <2>4. Kept(f)
      <3>1. prs'[f].state = "open" /\ prs'[f].merger = Null
        BY <2>3 DEF Opened, NoPr
      <3>2. Null # "caller"
        BY NullAssumption DEF People
      <3>. QED
        BY <2>3, <3>1, <3>2 DEF Kept
    <2>. QED
      BY <1>3, <2>2, <2>4, <1>0, Still DEF HumanOpens, git
  <1>4. CASE \E n \in Open : HumanEdits(n)
    <2>1. PICK n \in Open : HumanEdits(n)
      BY <1>4
    <2>2. n \in Nums /\ prs[n] \in Pr /\ prs[n].state = "open"
      BY DEF Open, TypeOK
    <2>3. \A m \in Nums : m # n => prs'[m] = prs[m]
      BY <2>1, <2>2 DEF HumanEdits, TypeOK
    <2>4. \/ prs'[n] = [prs[n] EXCEPT !.draft = FALSE]
          \/ prs'[n] = prs[n]
          \/ prs'[n] = [prs[n] EXCEPT !.state = "closed"]
      BY <2>1, <2>2 DEF HumanEdits, TypeOK
    <2>5. Kept(n)
      BY <2>2, <2>4 DEF Kept, Timely, Pr
    <2>. QED
      BY <2>1, <2>3, <2>5, <1>0, Still DEF HumanEdits, git
  <1>5. CASE \E n \in Open : HumanMerges(n)
    <2>1. PICK n \in Open : HumanMerges(n)
      BY <1>5
    <2>2. n \in Nums /\ prs[n] \in Pr /\ prs[n].state = "open"
      BY DEF Open, TypeOK
    <2>3. prs' = [prs EXCEPT ![n] = [prs[n] EXCEPT !.state = "merged", !.merger = "human", !.pre = base]]
      BY <2>1, <2>2 DEF HumanMerges, Merged, TypeOK
    <2>4. \A m \in Nums : m # n => prs'[m] = prs[m]
      BY <2>2, <2>3 DEF TypeOK
    <2>5. prs'[n] = [prs[n] EXCEPT !.state = "merged", !.merger = "human", !.pre = base]
      BY <2>2, <2>3 DEF TypeOK
    <2>6. Kept(n)
      BY <2>2, <2>5 DEF Kept, Timely, Pr
    <2>. QED
      BY <2>1, <2>4, <2>6, <1>0, Still DEF HumanMerges, Merged, git
  <1>6. CASE Pull
    BY <1>6, <1>0, Still DEF Pull, github
  <1>7. CASE Publish
    BY <1>7, <1>0, Still DEF Publish, git
  <1>8. CASE \E n \in Nums : TakeBack(n)
    BY <1>8, <1>0, Still DEF TakeBack, git
  <1>. QED
    BY <1>1, <1>2, <1>3, <1>4, <1>5, <1>6, <1>7, <1>8 DEF Move

LEMMA StepKeeps ==
  ASSUME TypeOK, Timely, [Next]_vars
  PROVE  /\ borne \subseteq borne' /\ titled' \subseteq borne'
         /\ reverted \subseteq reverted' /\ green \subseteq green' /\ \A n \in Nums : Kept(n)
  <1>0. titled \subseteq borne
    BY DEF Timely
  <1>1. CASE UNCHANGED <<github, git>>
    BY <1>1, <1>0, Still DEF github, git
  <1>2. CASE Move
    BY <1>2, MoveKeeps
  <1>3. CASE \E c \in Callers : pc[c] = "write" /\ Accepted(c) /\ Effect(c)
    BY <1>3, EffectKeeps
  <1>. QED
    BY <1>1, <1>2, <1>3 DEF Next, Ask, Read, Write, WriteFails, Persist, StoreFails, Answer, Kill, vars

LEMMA TimelyStep ==
  ASSUME TypeOK, Timely, [Next]_vars PROVE Timely'
  BY StepKeeps DEF Timely, Kept

\* What has taken effect is not undone.
LEMMA TookStays ==
  ASSUME TypeOK, Timely, [Next]_vars, NEW a \in Actions, NEW n \in Targets(a), Took(a, n)
  PROVE  Took(a, n)'
  <1>1. CASE a = "create"
    BY <1>1, StepKeeps DEF Took, Kept
  <1>2. CASE a # "create"
    BY <1>2, StepKeeps DEF Took, Kept, Targets, Actions
  <1>. QED
    BY <1>1, <1>2

(***************************************************************************)
(* Records, receipts and answers are true                                  *)
(***************************************************************************)
\* A call holds something to be done, and what it holds to be done took effect.
Claims(l)   == l.dedupe = "replay" \/ l.ok \/ l.class \in Done
Promised(c) == Claims(local[c]) => Took(local[c].act, local[c].n)

\* A receipt of success names a target of its action.
Aimed == \A a \in Actions : receipts[a].ok => receipts[a].n \in Targets(a)

Truth == RecordsTruthful /\ Timely /\ Aimed /\ \A c \in Callers : Promised(c)

LEMMA SetEffect ==
  ASSUME TypeOK, NEW c \in Callers, NEW step, NEW l, Set(c, step, l)
  PROVE  pc'[c] = step /\ local'[c] = l /\ \A d \in Callers : d # c => pc'[d] = pc[d] /\ local'[d] = local[d]
  BY DEF TypeOK, Set

LEMMA CallFacts ==
  ASSUME TypeOK, NEW c \in Callers
  PROVE  local[c].act \in Actions /\ local[c].n \in Targets(local[c].act)
  BY DEF TypeOK, Locals

LEMMA StillPromised ==
  ASSUME Truth, [Next]_vars, NEW c \in Callers, local'[c] = local[c] PROVE Promised(c)'
  <1>1. TypeOK /\ Timely /\ Promised(c)
    BY DEF Truth, RecordsTruthful
  <1>2. Took(local[c].act, local[c].n) => Took(local[c].act, local[c].n)'
    BY <1>1, CallFacts, TookStays
  <1>. QED
    BY <1>1, <1>2 DEF Promised

\* A call may go on to claim what it claimed before, or what took effect.
LEMMA SetPromised ==
  ASSUME Truth, [Next]_vars, NEW c \in Callers, NEW step, NEW l, Set(c, step, l),
         NEW a \in Actions, NEW n \in Targets(a), l.act = a, l.n = n, Claims(l) => Took(a, n) \/ Took(a, n)'
  PROVE  \A d \in Callers : Promised(d)'
  <1>1. TypeOK /\ Timely
    BY DEF Truth, RecordsTruthful
  <1>2. local'[c] = l /\ \A d \in Callers : d # c => local'[d] = local[d]
    BY <1>1, SetEffect
  <1>3. Claims(l) => Took(a, n)'
    BY <1>1, TookStays
  <1>4. Promised(c)'
    BY <1>2, <1>3 DEF Promised
  <1>. QED
    BY <1>2, <1>4, StillPromised

LEMMA EndsPromised ==
  ASSUME Truth, [Next]_vars, NEW c \in Callers, NEW ok \in BOOLEAN, Ends(c, ok), ok => local[c].ok
  PROVE  \A d \in Callers : Promised(d)'
  <1>. SUFFICES ASSUME NEW a, NEW n, a = local[c].act, n = local[c].n
                PROVE  \A d \in Callers : Promised(d)'
    OBVIOUS
  <1>. DEFINE l == [Fresh EXCEPT !.act = a, !.n = n, !.ok = ok]
  <1>1. TypeOK /\ Promised(c)
    BY DEF Truth, RecordsTruthful
  <1>2. l.act = a /\ l.n = n /\ l.dedupe = "first" /\ l.class = "failed" /\ l.ok = ok
    BY DEF Fresh
  <1>3. Claims(l) => Claims(local[c])
    BY <1>2 DEF Claims, Done
  <1>4. a \in Actions /\ n \in Targets(a) /\ (Claims(l) => Took(a, n))
    BY <1>1, <1>3, CallFacts DEF Promised
  <1>5. Set(c, "answer", l)
    BY DEF Ends
  <1>. HIDE DEF l
  <1>. QED
    BY <1>2, <1>4, <1>5, SetPromised

LEMMA GotoPromised ==
  ASSUME Truth, [Next]_vars, NEW c \in Callers, NEW step, Goto(c, step)
  PROVE  \A d \in Callers : Promised(d)'
  <1>1. TypeOK /\ Promised(c)
    BY DEF Truth, RecordsTruthful
  <1>. QED
    BY <1>1, CallFacts, SetPromised DEF Goto, Promised

LEMMA ClassifiedPromised ==
  ASSUME Truth, [Next]_vars, NEW c \in Callers, NEW class, NEW ok \in BOOLEAN, Classified(c, class, ok),
         NEW a, NEW n, a = local[c].act, n = local[c].n, ok \/ class \in Done => Took(a, n) \/ Took(a, n)'
  PROVE  \A d \in Callers : Promised(d)'
  <1>. DEFINE l == [local[c] EXCEPT !.class = class, !.ok = ok]
  <1>1. TypeOK /\ Promised(c) /\ local[c] \in Locals
    BY DEF Truth, RecordsTruthful, TypeOK
  <1>2. l.act = a /\ l.n = n /\ l.dedupe = local[c].dedupe /\ l.class = class /\ l.ok = ok
    BY <1>1 DEF Locals
  <1>3. a \in Actions /\ n \in Targets(a) /\ (Claims(l) => Took(a, n) \/ Took(a, n)')
    BY <1>1, <1>2, CallFacts DEF Promised, Claims
  <1>4. Set(c, "record", l)
    BY DEF Classified
  <1>. HIDE DEF l
  <1>. QED
    BY <1>2, <1>3, <1>4, SetPromised

\* The steps of a read.
LEMMA ReadPromised ==
  ASSUME Truth, [Next]_vars, NEW c \in Callers, Read(c)
  PROVE  \A d \in Callers : Promised(d)'
  <1>. SUFFICES ASSUME NEW a, NEW n, a = local[c].act, n = local[c].n
                PROVE  \A d \in Callers : Promised(d)'
    OBVIOUS
  <1>0. TypeOK /\ Promised(c) /\ local[c] \in Locals /\ a \in Actions /\ n \in Targets(a)
    BY CallFacts DEF Truth, RecordsTruthful, TypeOK
  <1>1. ASSUME Refused(c) PROVE \A d \in Callers : Promised(d)'
    BY <1>1, EndsPromised DEF Refused
  <1>2. ASSUME Classified(c, "precondition_changed", FALSE) PROVE \A d \in Callers : Promised(d)'
    <2>1. "precondition_changed" \notin Done /\ FALSE \in BOOLEAN
      BY DEF Done
    <2>. QED
      BY <1>2, <2>1, ClassifiedPromised
  <1>3. ASSUME Classified(c, "already_applied", TRUE), Took(a, n) PROVE \A d \in Callers : Promised(d)'
    BY <1>3, ClassifiedPromised
  <1>4. local[c].dedupe = "replay" => Took(a, n)
    BY <1>0 DEF Promised, Claims
  <1>5. CASE ReadRefused(c)
    BY <1>1, <1>5 DEF ReadRefused
  <1>6. CASE ReadCreate(c)
    <2>1. Open # {} => Took(a, n)
      BY <1>6 DEF ReadCreate, At, Took, Open
    <2>. QED
      BY <1>2, <1>3, <1>6, <2>1, GotoPromised DEF ReadCreate
  <1>7. CASE ReadMerge(c)
    <2>. DEFINE seen == Observed(c, prs[n])
    <2>2. seen.act = a /\ seen.n = n /\ (Claims(seen) <=> Claims(local[c]))
      BY <1>0 DEF Observed, Locals, Claims
    <2>3. CASE Refused(c)
      BY <1>1, <2>3
    <2>4. CASE Set(c, "checks", seen)
      BY <1>0, <2>2, <2>4, SetPromised DEF Promised
    <2>5. CASE Set(c, "record", [seen EXCEPT !.class = "already_applied", !.ok = TRUE]) /\ local[c].dedupe = "replay"
      <3>. DEFINE r == [seen EXCEPT !.class = "already_applied", !.ok = TRUE]
      <3>1. r.act = a /\ r.n = n /\ Took(a, n)
        BY <1>0, <1>4, <2>5 DEF Observed, Locals
      <3>2. Set(c, "record", r)
        BY <2>5
      <3>. HIDE DEF r
      <3>. QED
        BY <1>0, <3>1, <3>2, SetPromised
    <2>6. CASE Set(c, "record", [seen EXCEPT !.class = "precondition_changed", !.ok = FALSE]) /\ local[c].dedupe = "replay"
      <3>. DEFINE r == [seen EXCEPT !.class = "precondition_changed", !.ok = FALSE]
      <3>1. r.act = a /\ r.n = n /\ Took(a, n)
        BY <1>0, <1>4, <2>6 DEF Observed, Locals
      <3>2. Set(c, "record", r)
        BY <2>6
      <3>. HIDE DEF r
      <3>. QED
        BY <1>0, <3>1, <3>2, SetPromised
    <2>. QED
      BY <1>7, <2>3, <2>4, <2>5, <2>6 DEF ReadMerge
  <1>8. CASE ReadChecks(c)
    BY <1>1, <1>8, GotoPromised DEF ReadChecks
  <1>9. CASE LookMerge(c)
    BY <1>1, <1>9, GotoPromised DEF LookMerge
  <1>10. CASE ReadUpdate(c)
    BY <1>1, <1>10, GotoPromised DEF ReadUpdate
  <1>11. CASE LookUpdate(c)
    <2>1. n \in titled => Took(a, n)
      BY <1>11 DEF LookUpdate, At, Took, Truth, Timely
    <2>. QED
      BY <1>2, <1>3, <1>11, <2>1, GotoPromised DEF LookUpdate
  <1>12. CASE ReadRollback(c)
    BY <1>1, <1>2, <1>3, <1>4, <1>12, GotoPromised DEF ReadRollback
  <1>. QED
    BY <1>5, <1>6, <1>7, <1>8, <1>9, <1>10, <1>11, <1>12 DEF Read

LEMMA EffectTook ==
  ASSUME TypeOK, NEW c \in Callers, pc[c] = "write", Accepted(c), Effect(c),
         NEW a, NEW n, a = local[c].act, n = local[c].n
  PROVE  Took(a, n)'
  <1>0. a \in Actions /\ n \in Targets(a)
    BY CallFacts
  <1>1. CASE a = "create"
    <2>1. PICK f \in Free : prs' = [prs EXCEPT ![f] = Opened("caller", TRUE)]
      BY <1>1 DEF Effect
    <2>2. f \in Nums /\ prs'[f].state = "open"
      BY <2>1 DEF Free, TypeOK, Opened, NoPr
    <2>. QED
      BY <1>1, <2>2 DEF Took
  <1>2. CASE a = "update"
    BY <1>2 DEF Effect, Took
  <1>3. CASE a = "merge"
    <2>1. n \in Nums /\ prs[n] \in Pr
      BY <1>0, <1>3 DEF Targets, TypeOK
    <2>2. prs'[n].state = "merged"
      BY <1>3, <2>1 DEF Effect, Merged, TypeOK, Pr
    <2>. QED
      BY <1>3, <2>2 DEF Took
  <1>4. CASE a = "rollback"
    BY <1>4 DEF Effect, Took
  <1>. QED
    BY <1>0, <1>1, <1>2, <1>3, <1>4 DEF Actions

\* The calls, over every step.
LEMMA PromisedStep ==
  ASSUME Truth, [Next]_vars PROVE \A d \in Callers : Promised(d)'
  <1>0. TypeOK /\ Timely
    BY DEF Truth, RecordsTruthful
  <1>1. ASSUME NEW c \in Callers, Ask(c) PROVE \A d \in Callers : Promised(d)'
    <2>1. PICK a \in Actions : \E n \in Targets(a) : Started(c, a, n)
      BY <1>1 DEF Ask
    <2>2. PICK n \in Targets(a) : Started(c, a, n)
      BY <2>1
    <2>3. Dedupe(a, n) = "replay" => Took(a, n)
      BY DEF Dedupe, Truth, RecordsTruthful, Stopping
    <2>. DEFINE l == [Fresh EXCEPT !.act = a, !.n = n, !.dedupe = Dedupe(a, n)]
    <2>4. CASE Dedupe(a, n) \in Stopping
      <3>. DEFINE r == [l EXCEPT !.class = Dedupe(a, n)]
      <3>1. r.act = a /\ r.n = n /\ ~Claims(r)
        BY <2>4 DEF Fresh, Claims, Done, Stopping
      <3>2. Set(c, "record", r)
        BY <2>2, <2>4 DEF Started
      <3>. HIDE DEF r
      <3>. QED
        BY <3>1, <3>2, SetPromised
    <2>5. CASE Dedupe(a, n) \notin Stopping
      <3>. DEFINE r == [l EXCEPT !.prior = records[a][n].sha]
      <3>1. r.act = a /\ r.n = n /\ r.dedupe = Dedupe(a, n) /\ r.ok = FALSE /\ r.class = "failed"
        BY DEF Fresh
      <3>2. Claims(r) => Took(a, n)
        BY <2>3, <3>1 DEF Claims, Done
      <3>3. Set(c, "read", r)
        BY <2>2, <2>5 DEF Started
      <3>. HIDE DEF r
      <3>. QED
        BY <3>1, <3>2, <3>3, SetPromised
    <2>. QED
      BY <2>4, <2>5
  <1>2. ASSUME NEW c \in Callers, Read(c) PROVE \A d \in Callers : Promised(d)'
    BY <1>2, ReadPromised
  <1>3. ASSUME NEW c \in Callers, Write(c) \/ WriteFails(c) PROVE \A d \in Callers : Promised(d)'
    <2>. SUFFICES ASSUME NEW a, NEW n, a = local[c].act, n = local[c].n
                  PROVE  \A d \in Callers : Promised(d)'
      OBVIOUS
    <2>1. "failed" \notin Done /\ FALSE \in BOOLEAN /\ TRUE \in BOOLEAN
      BY DEF Done
    <2>2. CASE Classified(c, "failed", FALSE)
      BY <2>1, <2>2, ClassifiedPromised
    <2>3. CASE Classified(c, "applied", TRUE) /\ pc[c] = "write" /\ Accepted(c) /\ Effect(c)
      <3>1. Took(a, n)'
        BY <1>0, <2>3, EffectTook
      <3>. QED
        BY <2>1, <2>3, <3>1, ClassifiedPromised
    <2>. QED
      BY <1>3, <2>2, <2>3 DEF Write, WriteFails
  <1>4. ASSUME NEW c \in Callers, Persist(c) PROVE \A d \in Callers : Promised(d)'
    <2>1. local[c].ok \in BOOLEAN
      BY <1>0 DEF TypeOK, Locals
    <2>. QED
      BY <1>4, <2>1, EndsPromised DEF Persist
  <1>5. ASSUME NEW c \in Callers, StoreFails(c) PROVE \A d \in Callers : Promised(d)'
    BY <1>5, EndsPromised DEF StoreFails, Refused
  <1>6. ASSUME NEW c \in Callers, Answer(c) \/ Kill(c) PROVE \A d \in Callers : Promised(d)'
    <2>1. Set(c, "idle", Fresh)
      BY <1>6 DEF Answer, Kill
    <2>2. Fresh.act \in Actions /\ Fresh.n \in Targets(Fresh.act) /\ ~Claims(Fresh)
      BY DEF Fresh, Claims, Actions, Targets, Done
    <2>. QED
      BY <2>1, <2>2, SetPromised
  <1>7. CASE Move \/ UNCHANGED vars
    BY <1>7, StillPromised DEF Move, vars
  <1>. QED
    BY <1>1, <1>2, <1>3, <1>4, <1>5, <1>6, <1>7 DEF Next

LEMMA TruthStep ==
  ASSUME Truth, [Next]_vars PROVE Truth'
  <1>0. TypeOK /\ Timely /\ TypeOK' /\ Timely'
    BY TypeStep, TimelyStep DEF Truth, RecordsTruthful
  <1>1. \A d \in Callers : Promised(d)'
    BY PromisedStep
  <1>2. ASSUME NEW a \in Actions, NEW n \in Targets(a), records'[a][n].class \in Done PROVE Took(a, n)'
    <2>1. CASE records'[a][n] = records[a][n]
      BY <1>0, <1>2, <2>1, TookStays DEF Truth, RecordsTruthful
    <2>2. CASE \E c \in Callers : Persist(c) /\ local[c].act = a /\ local[c].n = n
      <3>1. PICK c \in Callers : Persist(c) /\ local[c].act = a /\ local[c].n = n
        BY <2>2
      <3>2. n \in 0..MaxPrs
        BY <1>0, <3>1 DEF TypeOK, Locals
      <3>3. records'[a][n].class = local[c].class
        BY <1>0, <3>1, <3>2 DEF Persist, TypeOK, Recorded
      <3>. QED
        BY <1>0, <1>2, <3>1, <3>3, TookStays DEF Truth, Promised, Claims
    <2>3. ASSUME NEW c \in Callers, Persist(c), local[c].act # a \/ local[c].n # n
          PROVE  records'[a][n] = records[a][n]
      BY <1>0, <2>3 DEF Persist, TypeOK
    <2>4. UNCHANGED records \/ \E c \in Callers : Persist(c)
      BY DEF Next, Ask, Read, Write, WriteFails, StoreFails, Answer, Kill, Move, store, vars
    <2>. QED
      BY <2>1, <2>2, <2>3, <2>4
  <1>3. ASSUME NEW a \in Actions, receipts'[a].ok
        PROVE  receipts'[a].n \in Targets(a) /\ Took(a, receipts[a].n)'
    <2>1. CASE receipts'[a] = receipts[a]
      <3>. SUFFICES ASSUME NEW n, n = receipts[a].n, n = receipts'[a].n
                    PROVE  n \in Targets(a) /\ Took(a, n)'
        BY <2>1
      <3>. QED
        BY <1>0, <1>3, <2>1, TookStays DEF Truth, RecordsTruthful, Aimed
    <2>2. CASE \E c \in Callers : Answer(c) /\ local[c].act = a
      <3>1. PICK c \in Callers : Answer(c) /\ local[c].act = a
        BY <2>2
      <3>2. receipts'[a] = [ok |-> local[c].ok, n |-> local[c].n]
        BY <1>0, <3>1 DEF Answer, TypeOK
      <3>. SUFFICES ASSUME NEW n, n = local[c].n, n = receipts'[a].n
                    PROVE  n \in Targets(a) /\ Took(a, n)'
        BY <3>2
      <3>3. n \in Targets(a)
        BY <1>0, <3>1, CallFacts
      <3>4. Took(a, n)
        BY <1>3, <3>1, <3>2 DEF Truth, Promised, Claims
      <3>. QED
        BY <1>0, <3>3, <3>4, TookStays
    <2>3. ASSUME NEW c \in Callers, Answer(c), local[c].act # a PROVE receipts'[a] = receipts[a]
      BY <1>0, <2>3 DEF Answer, TypeOK
    <2>4. UNCHANGED receipts \/ \E c \in Callers : Answer(c)
      BY DEF Next, Ask, Read, Write, WriteFails, StoreFails, Persist, Kill, Move, store, vars
    <2>. QED
      BY <2>1, <2>2, <2>3, <2>4
  <1>. QED
    BY <1>0, <1>1, <1>2, <1>3 DEF Truth, RecordsTruthful, Aimed

LEMMA InitMergers == Init => \A n \in Nums : prs[n].merger = Null /\ prs[n].merger # "caller"
  <1>. SUFFICES ASSUME Init PROVE \A n \in Nums : prs[n].merger = Null
    BY NullAssumption DEF People
  <1>1. PICK first \in {NoPr, Opened("human", FALSE)} : prs = [n \in Nums |-> IF n = 1 THEN first ELSE NoPr]
    BY DEF Init
  <1>2. NoPr.merger = Null /\ Opened("human", FALSE).merger = Null
    BY DEF NoPr, Opened
  <1>. QED
    BY <1>1, <1>2

LEMMA InitTruth == Init => Truth
  <1>. SUFFICES ASSUME Init PROVE Truth
    OBVIOUS
  <1>1. TypeOK
    BY InitType
  <1>2. \A a \in Actions : \A n \in Targets(a) : records[a][n] = NoRecord
    BY DEF Init, Targets, Nums
  <1>3. NoRecord.class \notin Done
    BY NullAssumption DEF NoRecord
  <1>4. \A a \in Actions : receipts[a].ok = FALSE
    BY DEF Init
  <1>5. Timely
    BY InitMergers DEF Init, Timely
  <1>6. \A c \in Callers : Promised(c)
    BY DEF Init, Promised, Claims, Fresh, Done
  <1>. QED
    BY <1>1, <1>2, <1>3, <1>4, <1>5, <1>6 DEF Truth, RecordsTruthful, Aimed

\* A record of a done action and a receipt with succeeded are never untrue.
THEOREM RecordsAreTrue == Spec => []RecordsTruthful
  <1>2. Truth => RecordsTruthful
    BY DEF Truth
  <1>. QED
    BY InitTruth, <1>2, TruthStep, PTL DEF Spec

(***************************************************************************)
(* Merged heads have been checked                                          *)
(***************************************************************************)
\* A call that has looked at the checks holds a commit that passed them.
Cleared(c) == pc[c] \in {"look", "write"} /\ local[c].act = "merge" => local[c].sha \in green

Checked == TypeOK /\ Timely /\ MergedHeadChecked /\ \A c \in Callers : Cleared(c)

LEMMA SetCleared ==
  ASSUME Checked, [Next]_vars, NEW c \in Callers, NEW step, NEW l, Set(c, step, l),
         step \in {"look", "write"} /\ l.act = "merge" => l.sha \in green
  PROVE  \A d \in Callers : Cleared(d)'
  <1>1. green \subseteq green'
    BY StepKeeps DEF Checked
  <1>2. pc'[c] = step /\ local'[c] = l /\ \A d \in Callers : d # c => pc'[d] = pc[d] /\ local'[d] = local[d]
    BY SetEffect DEF Checked
  <1>. QED
    BY <1>1, <1>2 DEF Checked, Cleared

LEMMA CheckedStep ==
  ASSUME Checked, [Next]_vars PROVE Checked'
  <1>0. TypeOK /\ Timely /\ TypeOK' /\ Timely'
    BY TypeStep, TimelyStep DEF Checked
  <1>1. MergedHeadChecked'
    <2>1. green \subseteq green' /\ \A n \in Nums : Kept(n)
      BY <1>0, StepKeeps
    <2>. QED
      BY <2>1 DEF Kept, Checked, MergedHeadChecked, Cleared
  <1>2. \A d \in Callers : Cleared(d)'
    <2>1. ASSUME NEW c \in Callers, NEW step, NEW l, Set(c, step, l), step \notin {"look", "write"}
          PROVE  \A d \in Callers : Cleared(d)'
      BY <2>1, SetCleared
    <2>2. ASSUME NEW c \in Callers, Ask(c) PROVE \A d \in Callers : Cleared(d)'
      BY <2>1, <2>2 DEF Ask, Started
    <2>3. ASSUME NEW c \in Callers, Read(c) PROVE \A d \in Callers : Cleared(d)'
      <3>1. ASSUME Refused(c) PROVE \A d \in Callers : Cleared(d)'
        BY <2>1, <3>1 DEF Refused, Ends
      <3>2. ASSUME NEW class, NEW ok, Classified(c, class, ok) PROVE \A d \in Callers : Cleared(d)'
        BY <2>1, <3>2 DEF Classified
      <3>3. ASSUME NEW step, Goto(c, step), local[c].act # "merge" PROVE \A d \in Callers : Cleared(d)'
        BY <3>3, SetCleared DEF Goto
      <3>4. CASE ReadRefused(c)
        BY <3>1, <3>4 DEF ReadRefused
      <3>5. CASE ReadCreate(c)
        BY <3>2, <3>3, <3>5 DEF ReadCreate, At
      <3>6. CASE ReadMerge(c)
        <4>1. \E step, l : Set(c, step, l) /\ step \notin {"look", "write"}
          BY <3>6 DEF ReadMerge, Refused, Ends
        <4>. QED
          BY <2>1, <4>1
      <3>7. CASE ReadChecks(c)
        <4>1. CASE local[c].sha \in green /\ Goto(c, "look")
          BY <4>1, SetCleared DEF Goto
        <4>. QED
          BY <3>1, <3>7, <4>1 DEF ReadChecks
      <3>8. CASE LookMerge(c)
        <4>1. local[c].sha \in green
          BY <3>8 DEF LookMerge, At, Checked, Cleared
        <4>2. CASE Goto(c, "write")
          BY <4>1, <4>2, SetCleared DEF Goto
        <4>. QED
          BY <3>1, <3>8, <4>2 DEF LookMerge
      <3>9. CASE ReadUpdate(c)
        BY <3>1, <3>3, <3>9 DEF ReadUpdate, At
      <3>10. CASE LookUpdate(c)
        BY <3>2, <3>3, <3>10 DEF LookUpdate, At
      <3>11. CASE ReadRollback(c)
        BY <3>1, <3>2, <3>3, <3>11 DEF ReadRollback, At
      <3>. QED
        BY <2>3, <3>4, <3>5, <3>6, <3>7, <3>8, <3>9, <3>10, <3>11 DEF Read
    <2>4. ASSUME NEW c \in Callers, Write(c) \/ WriteFails(c) PROVE \A d \in Callers : Cleared(d)'
      BY <2>1, <2>4 DEF Write, WriteFails, Classified
    <2>5. ASSUME NEW c \in Callers, Persist(c) \/ StoreFails(c) \/ Answer(c) \/ Kill(c)
          PROVE  \A d \in Callers : Cleared(d)'
      BY <2>1, <2>5 DEF Persist, StoreFails, Answer, Kill, Refused, Ends
    <2>6. CASE Move \/ UNCHANGED vars
      <3>1. green \subseteq green' /\ UNCHANGED <<pc, local>>
        BY <1>0, <2>6, StepKeeps DEF Move, vars
      <3>. QED
        BY <3>1 DEF Checked, Cleared
    <2>. QED
      BY <2>2, <2>3, <2>4, <2>5, <2>6 DEF Next
  <1>. QED
    BY <1>0, <1>1, <1>2 DEF Checked

\* What a caller merged had passing checks, whatever was pushed meanwhile.
THEOREM MergedHeadsPassed == Spec => []MergedHeadChecked
  <1>1. Init => Checked
    <2>. SUFFICES ASSUME Init PROVE Checked
      OBVIOUS
    <2>1. Truth
      BY InitTruth
    <2>2. \A n \in Nums : prs[n].merger # "caller"
      BY InitMergers
    <2>. QED
      BY <2>1, <2>2 DEF Truth, RecordsTruthful, Checked, MergedHeadChecked, Cleared, Init
  <1>2. Checked => MergedHeadChecked
    BY DEF Checked
  <1>. QED
    BY <1>1, <1>2, CheckedStep, PTL DEF Spec

(***************************************************************************)
(* The record of a merge stays                                             *)
(***************************************************************************)
\* A merge call, before its record: a repeat has only reads to do and will
\* record the merge again, any other call has no record of a merge to lose.
Harmless(c) ==
  pc[c] \notin {"idle", "answer"} /\ local[c].act = "merge" =>
    IF local[c].dedupe = "replay"
    THEN pc[c] = "read" \/ (pc[c] = "record" /\ local[c].class \in Done)
    ELSE records["merge"][local[c].n].class \notin Done

Merging(c) == pc[c] # "idle" /\ local[c].act = "merge"

Alone == "merge" \notin overlapped =>
  /\ \A c, d \in Callers : Merging(c) /\ Merging(d) => c = d
  /\ \A c \in Callers : Harmless(c)

\* A call goes on with a step that is harmless.
LEMMA SetAlone ==
  ASSUME TypeOK, Alone, NEW c \in Callers, NEW step, NEW l, Set(c, step, l), UNCHANGED <<records, overlapped>>,
         step # "idle" => pc[c] # "idle" /\ l.act = local[c].act,
         "merge" \notin overlapped /\ Harmless(c) /\ step \notin {"idle", "answer"} /\ l.act = "merge" =>
           IF l.dedupe = "replay" THEN step = "read" \/ (step = "record" /\ l.class \in Done)
           ELSE records["merge"][l.n].class \notin Done
  PROVE  Alone'
  <1>1. pc'[c] = step /\ local'[c] = l /\ \A d \in Callers : d # c => pc'[d] = pc[d] /\ local'[d] = local[d]
    BY SetEffect
  <1>2. \A d \in Callers : Merging(d)' => Merging(d)
    BY <1>1 DEF Merging
  <1>3. ASSUME "merge" \notin overlapped PROVE \A d \in Callers : Harmless(d)'
    BY <1>1, <1>3 DEF Alone, Harmless
  <1>. QED
    BY <1>2, <1>3 DEF Alone
\* A call starts.
LEMMA AskAlone ==
  ASSUME TypeOK, Alone, NEW c \in Callers, Ask(c) PROVE Alone'
  <1>1. PICK a \in Actions : \E n \in Targets(a) : Started(c, a, n)
    BY DEF Ask
  <1>2. PICK n \in Targets(a) : Started(c, a, n)
    BY <1>1
  <1>3. PICK step, l : /\ Set(c, step, l)
                       /\ l.act = a /\ l.n = n /\ l.dedupe = Dedupe(a, n)
                       /\ l.dedupe = "replay" => step = "read"
    <2>. DEFINE f == [Fresh EXCEPT !.act = a, !.n = n, !.dedupe = Dedupe(a, n)]
    <2>1. CASE Dedupe(a, n) \in Stopping
      <3>. DEFINE r == [f EXCEPT !.class = Dedupe(a, n)]
      <3>1. r.act = a /\ r.n = n /\ r.dedupe = Dedupe(a, n) /\ r.dedupe # "replay"
        BY <2>1 DEF Fresh, Stopping
      <3>2. Set(c, "record", r)
        BY <1>2, <2>1 DEF Started
      <3>. QED
        BY <3>1, <3>2
    <2>2. CASE Dedupe(a, n) \notin Stopping
      <3>. DEFINE r == [f EXCEPT !.prior = records[a][n].sha]
      <3>1. r.act = a /\ r.n = n /\ r.dedupe = Dedupe(a, n)
        BY DEF Fresh
      <3>2. Set(c, "read", r)
        BY <1>2, <2>2 DEF Started
      <3>. QED
        BY <3>1, <3>2
    <2>. QED
      BY <2>1, <2>2
  <1>4. pc'[c] = step /\ local'[c] = l /\ \A d \in Callers : d # c => pc'[d] = pc[d] /\ local'[d] = local[d]
    BY <1>3, SetEffect
  <1>5. UNCHANGED records /\ pc[c] = "idle"
    BY DEF Ask, store
  <1>. SUFFICES ASSUME "merge" \notin overlapped'
                PROVE  /\ \A d, e \in Callers : Merging(d)' /\ Merging(e)' => d = e
                       /\ \A d \in Callers : Harmless(d)'
    BY DEF Alone
  <1>6. "merge" \notin overlapped
    BY <1>2 DEF Started
  <1>7. a = "merge" => \A d \in Callers : ~Merging(d)
    BY <1>2 DEF Started, Merging, TypeOK
  <1>8. a = "merge" /\ l.dedupe # "replay" => records["merge"][n].class \notin Done
    BY <1>3 DEF Dedupe, Stopping
  <1>9. Harmless(c)'
    BY <1>3, <1>4, <1>5, <1>8 DEF Harmless
  <1>10. \A d \in Callers : Harmless(d)'
    BY <1>4, <1>5, <1>6, <1>9 DEF Harmless, Alone
  <1>11. \A d, e \in Callers : Merging(d)' /\ Merging(e)' => d = e
    BY <1>3, <1>4, <1>6, <1>7 DEF Merging, Alone
  <1>. QED
    BY <1>10, <1>11

\* A repeat of a recorded merge finds the PR merged.
LEMMA ReadAlone ==
  ASSUME Truth, Alone, NEW c \in Callers, Read(c) PROVE Alone'
  <1>0. TypeOK /\ local[c] \in Locals /\ Promised(c)
    BY DEF Truth, RecordsTruthful, TypeOK
  <1>1. UNCHANGED <<records, overlapped>> /\ pc[c] # "idle"
    BY DEF Read, store, bounds, ReadRefused, ReadCreate, ReadMerge, ReadChecks, LookMerge, ReadUpdate,
           LookUpdate, ReadRollback, At
  <1>2. ASSUME Refused(c) PROVE Alone'
    <2>1. [Fresh EXCEPT !.act = local[c].act, !.n = local[c].n, !.ok = FALSE].act = local[c].act
      BY DEF Fresh
    <2>. QED
      BY <1>0, <1>1, <1>2, <2>1, SetAlone DEF Refused, Ends
  <1>3. ASSUME NEW class, NEW ok, Classified(c, class, ok), local[c].act # "merge" PROVE Alone'
    <2>1. [local[c] EXCEPT !.class = class, !.ok = ok].act = local[c].act
      BY <1>0 DEF Locals
    <2>. QED
      BY <1>0, <1>1, <1>3, <2>1, SetAlone DEF Classified
  <1>4. ASSUME NEW step, Goto(c, step), step # "idle", local[c].act # "merge" \/ pc[c] \in {"checks", "look"} PROVE Alone'
    <2>1. Set(c, step, local[c])
      BY <1>4 DEF Goto
    <2>2. local[c].act = "merge" /\ Harmless(c) => local[c].dedupe # "replay" /\ records["merge"][local[c].n].class \notin Done
      BY <1>4 DEF Harmless
    <2>. QED
      BY <1>0, <1>1, <1>4, <2>1, <2>2, SetAlone
  <1>5. CASE ReadRefused(c)
    BY <1>2, <1>5 DEF ReadRefused
  <1>6. CASE ReadCreate(c)
    BY <1>3, <1>4, <1>6 DEF ReadCreate, At
  <1>7. CASE ReadMerge(c)
    <2>. DEFINE n == local[c].n
                seen == Observed(c, prs[n])
    <2>1. seen.act = "merge" /\ seen.n = n /\ seen.dedupe = local[c].dedupe /\ local[c].act = "merge" /\ pc[c] = "read"
      BY <1>0, <1>7 DEF Observed, Locals, ReadMerge, At
    <2>2. local[c].dedupe = "replay" => prs[n].state = "merged"
      BY <1>0, <2>1 DEF Promised, Claims, Took
    <2>3. CASE local[c].dedupe = "replay"
      <3>. DEFINE r == [seen EXCEPT !.class = "already_applied", !.ok = TRUE]
      <3>1. Set(c, "record", r)
        BY <1>7, <2>2, <2>3 DEF ReadMerge
      <3>2. r.act = "merge" /\ r.dedupe = "replay" /\ r.class \in Done
        BY <1>0, <2>1, <2>3 DEF Observed, Locals, Done
      <3>. HIDE DEF r
      <3>. QED
        BY <1>0, <1>1, <2>1, <3>1, <3>2, SetAlone
    <2>4. CASE local[c].dedupe # "replay" /\ Set(c, "checks", seen)
      <3>1. Harmless(c) => records["merge"][n].class \notin Done
        BY <2>1, <2>4 DEF Harmless
      <3>. HIDE DEF seen
      <3>. QED
        BY <1>0, <1>1, <2>1, <2>4, <3>1, SetAlone
    <2>. QED
      BY <1>2, <1>7, <2>3, <2>4 DEF ReadMerge
  <1>8. CASE ReadChecks(c)
    BY <1>2, <1>4, <1>8 DEF ReadChecks
  <1>9. CASE LookMerge(c)
    BY <1>2, <1>4, <1>9 DEF LookMerge, At
  <1>10. CASE ReadUpdate(c)
    BY <1>2, <1>4, <1>10 DEF ReadUpdate, At
  <1>11. CASE LookUpdate(c)
    BY <1>3, <1>4, <1>11 DEF LookUpdate, At
  <1>12. CASE ReadRollback(c)
    BY <1>2, <1>3, <1>4, <1>12 DEF ReadRollback, At
  <1>. QED
    BY <1>5, <1>6, <1>7, <1>8, <1>9, <1>10, <1>11, <1>12 DEF Read

LEMMA AloneStep ==
  ASSUME Truth, Alone, [Next]_vars PROVE Alone'
  <1>0. TypeOK
    BY DEF Truth, RecordsTruthful
  <1>1. ASSUME NEW c \in Callers, Ask(c) PROVE Alone'
    BY <1>0, <1>1, AskAlone
  <1>2. ASSUME NEW c \in Callers, Read(c) PROVE Alone'
    BY <1>2, ReadAlone
  <1>3. ASSUME NEW c \in Callers, Write(c) \/ WriteFails(c) PROVE Alone'
    <2>1. PICK class, ok : Classified(c, class, ok)
      BY <1>3 DEF Write, WriteFails
    <2>. DEFINE r == [local[c] EXCEPT !.class = class, !.ok = ok]
    <2>2. r.act = local[c].act /\ r.n = local[c].n /\ r.dedupe = local[c].dedupe
      BY <1>0 DEF TypeOK, Locals
    <2>3. Set(c, "record", r)
      BY <2>1 DEF Classified
    <2>4. UNCHANGED <<records, overlapped>> /\ pc[c] = "write"
      BY <1>3 DEF Write, WriteFails, store, bounds
    <2>5. local[c].act = "merge" /\ Harmless(c) => local[c].dedupe # "replay" /\ records["merge"][local[c].n].class \notin Done
      BY <2>4 DEF Harmless
    <2>. HIDE DEF r
    <2>. QED
      BY <1>0, <2>2, <2>3, <2>4, <2>5, SetAlone
  <1>4. ASSUME NEW c \in Callers, StoreFails(c) \/ Answer(c) \/ Kill(c) PROVE Alone'
    <2>1. UNCHANGED <<records, overlapped>> /\ pc[c] # "idle"
      BY <1>4 DEF StoreFails, Answer, Kill, store, bounds
    <2>2. \E step, l : Set(c, step, l) /\ (step = "idle" \/ (step = "answer" /\ l.act = local[c].act))
      <3>. DEFINE l == [Fresh EXCEPT !.act = local[c].act, !.n = local[c].n, !.ok = FALSE]
      <3>1. l.act = local[c].act
        BY DEF Fresh
      <3>. HIDE DEF l
      <3>2. Set(c, "answer", l) \/ Set(c, "idle", Fresh)
        BY <1>4 DEF StoreFails, Answer, Kill, Refused, Ends, l
      <3>. QED
        BY <3>1, <3>2
    <2>. QED
      BY <1>0, <2>1, <2>2, SetAlone
  <1>5. ASSUME NEW c \in Callers, Persist(c) PROVE Alone'
    <2>. DEFINE l == [Fresh EXCEPT !.act = local[c].act, !.n = local[c].n, !.ok = local[c].ok]
    <2>1. l.act = local[c].act
      BY DEF Fresh
    <2>2. pc'[c] = "answer" /\ local'[c] = l /\ \A d \in Callers : d # c => pc'[d] = pc[d] /\ local'[d] = local[d]
      BY <1>0, <1>5, SetEffect DEF Persist, Ends
    <2>. HIDE DEF l
    <2>3. UNCHANGED overlapped /\ (local[c].act # "merge" => UNCHANGED records["merge"])
      BY <1>0, <1>5 DEF Persist, bounds, TypeOK, Actions
    <2>4. \A d \in Callers : Merging(d)' => Merging(d)
      BY <1>5, <2>1, <2>2 DEF Merging, Persist
    <2>5. ASSUME "merge" \notin overlapped, NEW d \in Callers PROVE Harmless(d)'
      <3>1. CASE d = c
        BY <2>2, <3>1 DEF Harmless
      <3>2. CASE d # c /\ local[c].act # "merge"
        BY <2>2, <2>3, <2>5, <3>2 DEF Harmless, Alone
      <3>3. CASE d # c /\ local[c].act = "merge"
        <4>1. ~Merging(d)'
          BY <1>5, <2>4, <2>5, <3>3 DEF Alone, Merging, Persist
        <4>. QED
          BY <4>1 DEF Harmless, Merging
      <3>. QED
        BY <3>1, <3>2, <3>3
    <2>. QED
      BY <2>3, <2>4, <2>5 DEF Alone
  <1>6. CASE Move \/ UNCHANGED vars
    BY <1>6 DEF Move, vars, store, bounds, Alone, Merging, Harmless
  <1>. QED
    BY <1>1, <1>2, <1>3, <1>4, <1>5, <1>6 DEF Next

LEMMA MergeStays ==
  ASSUME TypeOK, Alone, [Next]_vars, NEW n \in Nums, records["merge"][n].class \in Done, "merge" \notin overlapped
  PROVE  records'["merge"][n].class \in Done
  <1>1. UNCHANGED records \/ \E c \in Callers : Persist(c)
    BY DEF Next, Ask, Read, Write, WriteFails, StoreFails, Answer, Kill, Move, store, vars
  <1>2. ASSUME NEW c \in Callers, Persist(c) PROVE records'["merge"][n].class \in Done
    <2>1. CASE local[c].act = "merge" /\ local[c].n = n
      <3>1. local[c].class \in Done
        BY <1>2, <2>1 DEF Alone, Harmless, Persist
      <3>2. records'["merge"][n].class = local[c].class
        BY <1>2, <2>1 DEF Persist, Recorded, TypeOK, Actions, Nums
      <3>. QED
        BY <3>1, <3>2
    <2>2. CASE ~(local[c].act = "merge" /\ local[c].n = n)
      <3>1. records'["merge"][n] = records["merge"][n]
        BY <1>2, <2>2 DEF Persist, TypeOK, Actions, Nums
      <3>. QED
        BY <3>1
    <2>. QED
      BY <2>1, <2>2
  <1>. QED
    BY <1>1, <1>2

\* Repeats and faults leave the record of a merge that of a merge, while no
\* two calls merge at the same time.
THEOREM MergesStay == Spec => MergesStayDone
  <1>1. Init => Truth /\ Alone
    BY InitTruth DEF Init, Alone, Merging, Harmless
  <1>2. Truth /\ Alone /\ [Next]_vars => Truth' /\ Alone'
    BY TruthStep, AloneStep
  <1>3. Truth /\ Alone /\ [Next]_vars =>
          [\A n \in Nums : records["merge"][n].class \in Done /\ "merge" \notin overlapped
                            => records'["merge"][n].class \in Done]_vars
    BY MergeStays DEF Truth, RecordsTruthful
  <1>. QED
    BY <1>1, <1>2, <1>3, PTL DEF Spec, MergesStayDone

(***************************************************************************)
(* A PR is opened again only after a fault.  What a call learns of the     *)
(* record when it starts stays true while it is the only one that creates; *)
(* and each PR that callers opened, but the last, was hidden by a fault:   *)
(* of the last there is a record, or a caller is about to write it.        *)
(***************************************************************************)
Creating(c) == pc[c] # "idle" /\ local[c].act = "create"

Known == records["create"][0].class \in Done \cup Stopping

\* A call for which a record stands does not come to its write.
Aware(c) ==
  Creating(c) /\ pc[c] # "answer" =>
    IF local[c].dedupe = "first" THEN ~Known
    ELSE /\ Known
         /\ \/ pc[c] = "read" /\ local[c].dedupe = "replay"
            \/ pc[c] = "record" /\ local[c].class \in Done \cup Stopping

Holding(c) == pc[c] = "record" /\ local[c].act = "create" /\ local[c].class \in Done

Shown == Known \/ \E c \in Callers : Holding(c)

Mine == {n \in Nums : prs[n].opener = "caller"}

Counted == Cardinality(Mine) <= faults + (IF Shown THEN 1 ELSE 0)

Created == "create" \notin overlapped =>
  /\ \A c, d \in Callers : Creating(c) /\ Creating(d) => c = d
  /\ \A c \in Callers : Aware(c)
  /\ Counted

\* The PRs of callers can be counted.
LEMMA MineType == IsFiniteSet(Mine) /\ Cardinality(Mine) \in Nat
  <1>1. IsFiniteSet(Nums)
    <2>1. 1 \in Int /\ MaxPrs \in Int
      OBVIOUS
    <2>2. IsFiniteSet(1..MaxPrs)
      BY ONLY <2>1, FS_Interval
    <2>. QED
      BY <2>2 DEF Nums
  <1>2. IsFiniteSet(Mine)
    BY <1>1, FS_Subset DEF Mine
  <1>. QED
    BY <1>2, FS_CardinalityType

\* What a step may do to the count.
LEMMA CountStep ==
  ASSUME TypeOK, Counted, NEW M, M = Mine',
         \/ M \subseteq Mine /\ faults' = faults /\ (Shown => Shown')
         \/ M \subseteq Mine /\ faults' = faults + 1
         \/ (\E f : M \subseteq Mine \cup {f}) /\ faults' = faults + 1 /\ (Shown => Shown')
         \/ (\E f : M \subseteq Mine \cup {f}) /\ faults' = faults /\ ~Shown /\ Shown'
  PROVE  Counted'
  <1>1. PICK k \in Nat : k = Cardinality(Mine) /\ IsFiniteSet(Mine)
    BY MineType
  <1>2. ASSUME M \subseteq Mine PROVE Cardinality(M) \in Nat /\ Cardinality(M) <= k
    BY <1>1, <1>2, FS_Subset, FS_CardinalityType
  <1>3. ASSUME NEW f, M \subseteq Mine \cup {f} PROVE Cardinality(M) \in Nat /\ Cardinality(M) <= k + 1
    <2>. DEFINE S == Mine \cup {f}
    <2>1. IsFiniteSet(S) /\ Cardinality(S) = IF f \in Mine THEN k ELSE k + 1
      BY <1>1, FS_AddElement
    <2>. HIDE DEF S
    <2>2. IsFiniteSet(M) /\ Cardinality(M) <= Cardinality(S)
      BY <1>3, <2>1, FS_Subset DEF S
    <2>3. Cardinality(M) \in Nat
      BY <2>2, FS_CardinalityType
    <2>. QED
      BY <2>1, <2>2, <2>3
  <1>4. faults \in Nat /\ k <= faults + (IF Shown THEN 1 ELSE 0)
    BY <1>1 DEF TypeOK, Counted
  <1>5. Cardinality(M) <= faults' + (IF Shown' THEN 1 ELSE 0)
    BY <1>2, <1>3, <1>4
  <1>. QED
    BY <1>5 DEF Counted

LEMMA EffectMine ==
  ASSUME TypeOK, NEW c \in Callers, Effect(c)
  PROVE  IF local[c].act = "create" THEN \E f : Mine' \subseteq Mine \cup {f} ELSE Mine' \subseteq Mine
  <1>1. CASE local[c].act = "create"
    <2>1. PICK f \in Free : prs' = [prs EXCEPT ![f] = Opened("caller", TRUE)]
      BY <1>1 DEF Effect
    <2>2. \A n \in Nums : n # f => prs'[n] = prs[n]
      BY <2>1 DEF TypeOK
    <2>. QED
      BY <1>1, <2>2 DEF Mine
  <1>2. CASE local[c].act = "merge"
    <2>1. \A n \in Nums : prs'[n].opener = prs[n].opener
      BY <1>2 DEF Effect, Merged, TypeOK, Pr
    <2>. QED
      BY <1>2, <2>1 DEF Mine
  <1>3. CASE local[c].act \in {"update", "rollback"}
    <2>1. prs' = prs
      BY <1>3 DEF Effect, github
    <2>. QED
      BY <1>3, <2>1 DEF Mine
  <1>. QED
    BY <1>1, <1>2, <1>3 DEF TypeOK, Locals, Actions

LEMMA MoveMine ==
  ASSUME TypeOK, Move PROVE Mine' \subseteq Mine
  <1>1. ASSUME \A n \in Nums : prs'[n].opener = prs[n].opener PROVE Mine' \subseteq Mine
    BY <1>1 DEF Mine
  <1>2. CASE \E s \in Shas \ {tip} : Push(s)
    <2>1. PICK s \in Shas : Push(s)
      BY <1>2
    <2>2. ASSUME NEW n \in Nums PROVE prs'[n].opener = prs[n].opener
      <3>1. prs'[n] = IF n \in Open THEN [prs[n] EXCEPT !.head = s] ELSE prs[n]
        BY <2>1 DEF Push
      <3>2. prs[n] \in Pr
        BY DEF TypeOK
      <3>. QED
        BY <3>1, <3>2 DEF Pr
    <2>. QED
      BY <1>1, <2>2
  <1>3. CASE HumanOpens
    <2>1. PICK f \in Free : prs' = [prs EXCEPT ![f] = Opened("human", FALSE)]
      BY <1>3 DEF HumanOpens
    <2>2. Opened("human", FALSE).opener # "caller"
      BY DEF Opened, NoPr
    <2>3. \A n \in Nums : prs'[n] = IF n = f THEN Opened("human", FALSE) ELSE prs[n]
      BY <2>1 DEF TypeOK
    <2>. QED
      BY <2>2, <2>3 DEF Mine
  <1>4. CASE \E n \in Open : HumanEdits(n)
    <2>1. PICK m \in Nums : HumanEdits(m)
      BY <1>4 DEF Open
    <2>2. prs[m] \in Pr
      BY DEF TypeOK
    <2>3. \A n \in Nums : prs'[n].opener = prs[n].opener
      BY <2>1, <2>2 DEF HumanEdits, TypeOK, Pr
    <2>. QED
      BY <1>1, <2>3
  <1>5. CASE \E n \in Open : HumanMerges(n)
    BY <1>1, <1>5 DEF HumanMerges, Merged, Open, TypeOK, Pr
  <1>6. CASE ChecksPass \/ Pull \/ Publish \/ \E n \in Nums : TakeBack(n)
    BY <1>1, <1>6 DEF ChecksPass, Pull, Publish, TakeBack, github
  <1>. QED
    BY <1>2, <1>3, <1>4, <1>5, <1>6 DEF Move

\* A caller goes on to a step that fits what it knows; no record is written.
LEMMA SetCreated ==
  ASSUME TypeOK, Created, NEW c \in Callers, NEW step, NEW l, Set(c, step, l), UNCHANGED <<records, overlapped>>,
         step # "idle" => pc[c] # "idle" /\ l.act = local[c].act,
         "create" \notin overlapped /\ Aware(c) /\ step \notin {"idle", "answer"} /\ l.act = "create" =>
           IF l.dedupe = "first" THEN ~Known
           ELSE /\ Known
                /\ \/ step = "read" /\ l.dedupe = "replay"
                   \/ step = "record" /\ l.class \in Done \cup Stopping,
         "create" \notin overlapped => Counted'
  PROVE  Created'
  <1>1. pc'[c] = step /\ local'[c] = l /\ \A d \in Callers : d # c => pc'[d] = pc[d] /\ local'[d] = local[d]
    BY SetEffect
  <1>2. \A d \in Callers : Creating(d)' => Creating(d)
    BY <1>1 DEF Creating
  <1>3. Known' = Known
    BY DEF Known
  <1>4. ASSUME "create" \notin overlapped PROVE \A d \in Callers : Aware(d)'
    BY <1>1, <1>3, <1>4 DEF Created, Aware, Creating
  <1>. QED
    BY <1>2, <1>4 DEF Created

\* No call loses its hold of a PR but by leaving it.
LEMMA SetShown ==
  ASSUME TypeOK, NEW c \in Callers, NEW step, NEW l, Set(c, step, l), UNCHANGED records,
         Holding(c) => step = "record" /\ l.act = "create" /\ l.class \in Done
  PROVE  Shown => Shown'
  <1>1. pc'[c] = step /\ local'[c] = l /\ \A d \in Callers : d # c => pc'[d] = pc[d] /\ local'[d] = local[d]
    BY SetEffect
  <1>2. \A d \in Callers : Holding(d) => Holding(d)'
    BY <1>1 DEF Holding
  <1>. QED
    BY <1>2 DEF Shown, Known

LEMMA MineSame == ASSUME UNCHANGED prs PROVE Mine' \subseteq Mine
  BY DEF Mine

\* A call starts with what the record says.
LEMMA AskCreated ==
  ASSUME TypeOK, Created, NEW c \in Callers, Ask(c) PROVE Created'
  <1>1. PICK a \in Actions : \E n \in Targets(a) : Started(c, a, n)
    BY DEF Ask
  <1>2. PICK n \in Targets(a) : Started(c, a, n)
    BY <1>1
  <1>3. PICK step, l : /\ Set(c, step, l)
                       /\ l.act = a /\ l.dedupe = Dedupe(a, n)
                       /\ \/ step = "read" /\ l.dedupe \notin Stopping
                          \/ step = "record" /\ l.dedupe \in Stopping /\ l.class = l.dedupe
    <2>. DEFINE f == [Fresh EXCEPT !.act = a, !.n = n, !.dedupe = Dedupe(a, n)]
    <2>1. CASE Dedupe(a, n) \in Stopping
      <3>. DEFINE r == [f EXCEPT !.class = Dedupe(a, n)]
      <3>1. r.act = a /\ r.dedupe = Dedupe(a, n) /\ r.class = Dedupe(a, n)
        BY DEF Fresh
      <3>2. Set(c, "record", r)
        BY <1>2, <2>1 DEF Started
      <3>. HIDE DEF r
      <3>. QED
        BY <2>1, <3>1, <3>2
    <2>2. CASE Dedupe(a, n) \notin Stopping
      <3>. DEFINE r == [f EXCEPT !.prior = records[a][n].sha]
      <3>1. r.act = a /\ r.dedupe = Dedupe(a, n)
        BY DEF Fresh
      <3>2. Set(c, "read", r)
        BY <1>2, <2>2 DEF Started
      <3>. HIDE DEF r
      <3>. QED
        BY <2>2, <3>1, <3>2
    <2>. QED
      BY <2>1, <2>2
  <1>4. pc'[c] = step /\ local'[c] = l /\ \A d \in Callers : d # c => pc'[d] = pc[d] /\ local'[d] = local[d]
    BY <1>3, SetEffect
  <1>5. UNCHANGED <<records, prs, faults>> /\ pc[c] = "idle"
    BY DEF Ask, store, github
  <1>. SUFFICES ASSUME "create" \notin overlapped'
                PROVE  /\ \A d, e \in Callers : Creating(d)' /\ Creating(e)' => d = e
                       /\ \A d \in Callers : Aware(d)'
                       /\ Counted'
    BY DEF Created
  <1>6. "create" \notin overlapped
    BY <1>2 DEF Started
  <1>7. a = "create" => \A d \in Callers : ~Creating(d)
    BY <1>2 DEF Started, Creating, TypeOK
  <1>8. a = "create" =>
          IF l.dedupe = "first" THEN ~Known ELSE Known /\ (l.dedupe = "replay" \/ l.dedupe \in Stopping)
    <2>. SUFFICES ASSUME a = "create"
                  PROVE  IF Dedupe("create", 0) = "first" THEN ~Known
                         ELSE Known /\ (Dedupe("create", 0) = "replay" \/ Dedupe("create", 0) \in Stopping)
      BY <1>2, <1>3 DEF Targets
    <2>1. Targets("create") \ {0} = {}
      BY DEF Targets
    <2>. QED
      BY <2>1 DEF Dedupe, Known, Stopping
  <1>9. Aware(c)'
    BY <1>3, <1>4, <1>5, <1>8 DEF Aware, Creating, Known
  <1>10. \A d \in Callers : Aware(d)'
    BY <1>4, <1>5, <1>6, <1>9 DEF Aware, Creating, Known, Created
  <1>11. \A d, e \in Callers : Creating(d)' /\ Creating(e)' => d = e
    BY <1>3, <1>4, <1>6, <1>7 DEF Creating, Created
  <1>12. Counted'
    <2>1. Shown => Shown'
      BY <1>3, <1>5, SetShown DEF Holding
    <2>. QED
      BY <1>5, <1>6, <2>1, MineSame, CountStep DEF Created
  <1>. QED
    BY <1>10, <1>11, <1>12

\* A repeat never comes to the write.
LEMMA ReadCreated ==
  ASSUME TypeOK, Created, NEW c \in Callers, Read(c) PROVE Created'
  <1>0. local[c] \in Locals
    BY DEF TypeOK
  <1>1. UNCHANGED <<records, overlapped, prs, faults>> /\ pc[c] \in {"read", "checks", "look"}
    BY DEF Read, store, bounds, github, ReadRefused, ReadCreate, ReadMerge, ReadChecks, LookMerge, ReadUpdate,
           LookUpdate, ReadRollback, At
  <1>2. ASSUME NEW step, NEW l, Set(c, step, l), "create" \notin overlapped PROVE Counted'
    <2>1. Shown => Shown'
      BY <1>1, <1>2, SetShown DEF Holding
    <2>. QED
      BY <1>1, <1>2, <2>1, MineSame, CountStep DEF Created
  <1>3. ASSUME NEW step, NEW l, Set(c, step, l), step # "idle", l.act = local[c].act,
               step = "answer" \/ l.act # "create"
        PROVE  Created'
    BY <1>1, <1>2, <1>3, SetCreated
  <1>4. ASSUME Refused(c) PROVE Created'
    <2>. DEFINE l == [Fresh EXCEPT !.act = local[c].act, !.n = local[c].n, !.ok = FALSE]
    <2>1. l.act = local[c].act
      BY DEF Fresh
    <2>2. Set(c, "answer", l)
      BY <1>4 DEF Refused, Ends
    <2>. HIDE DEF l
    <2>. QED
      BY <1>3, <2>1, <2>2
  <1>5. ASSUME NEW class, NEW ok, Classified(c, class, ok), local[c].act # "create" PROVE Created'
    <2>. DEFINE l == [local[c] EXCEPT !.class = class, !.ok = ok]
    <2>1. l.act = local[c].act
      BY <1>0 DEF Locals
    <2>2. Set(c, "record", l)
      BY <1>5 DEF Classified
    <2>. HIDE DEF l
    <2>. QED
      BY <1>3, <1>5, <2>1, <2>2
  <1>6. ASSUME NEW step, Goto(c, step), step # "idle", local[c].act # "create" PROVE Created'
    BY <1>3, <1>6 DEF Goto
  <1>7. CASE ReadRefused(c)
    BY <1>4, <1>7 DEF ReadRefused
  <1>8. CASE ReadCreate(c)
    <2>1. local[c].act = "create" /\ pc[c] = "read"
      BY <1>8 DEF ReadCreate, At
    <2>2. "create" \notin overlapped => (IF local[c].dedupe = "first" THEN ~Known ELSE Known /\ local[c].dedupe = "replay")
      BY <2>1 DEF Created, Aware, Creating
    <2>3. ASSUME NEW class \in Done \cup Stopping, NEW ok, Classified(c, class, ok) PROVE Created'
      <3>. DEFINE l == [local[c] EXCEPT !.class = class, !.ok = ok]
      <3>1. l.act = local[c].act /\ l.dedupe = local[c].dedupe /\ l.class = class
        BY <1>0 DEF Locals
      <3>2. Set(c, "record", l)
        BY <2>3 DEF Classified
      <3>. HIDE DEF l
      <3>. QED
        BY <1>1, <1>2, <2>2, <3>1, <3>2, SetCreated
    <2>4. CASE local[c].dedupe # "replay" /\ Goto(c, "write")
      BY <1>1, <1>2, <2>2, <2>4, SetCreated DEF Goto
    <2>. QED
      BY <1>8, <2>3, <2>4 DEF ReadCreate, Done, Stopping
  <1>9. CASE ReadMerge(c)
    <2>. DEFINE seen == Observed(c, prs[local[c].n])
    <2>1. local[c].act = "merge" /\ seen.act = "merge"
      BY <1>0, <1>9 DEF Observed, Locals, ReadMerge, At
    <2>2. \A class, ok : [seen EXCEPT !.class = class, !.ok = ok].act = "merge"
      BY <1>0, <2>1 DEF Observed, Locals
    <2>3. CASE Set(c, "checks", seen)
      <3>. HIDE DEF seen
      <3>. QED
        BY <1>3, <2>1, <2>3
    <2>4. ASSUME NEW class, NEW ok, Set(c, "record", [seen EXCEPT !.class = class, !.ok = ok]) PROVE Created'
      <3>. DEFINE r == [seen EXCEPT !.class = class, !.ok = ok]
      <3>1. r.act = "merge" /\ Set(c, "record", r)
        BY <2>2, <2>4
      <3>. HIDE DEF r
      <3>. QED
        BY <1>3, <2>1, <3>1
    <2>. QED
      BY <1>4, <1>9, <2>3, <2>4 DEF ReadMerge
  <1>10. CASE ReadChecks(c)
    <2>1. CASE Goto(c, "look")
      <3>1. "create" \notin overlapped /\ Aware(c) /\ local[c].act = "create" => local[c].dedupe = "first" /\ ~Known
        BY <1>10 DEF ReadChecks, Aware, Creating
      <3>. QED
        BY <1>1, <1>2, <2>1, <3>1, SetCreated DEF Goto
    <2>. QED
      BY <1>4, <1>10, <2>1 DEF ReadChecks
  <1>11. CASE LookMerge(c)
    BY <1>4, <1>6, <1>11 DEF LookMerge, At
  <1>12. CASE ReadUpdate(c)
    BY <1>4, <1>6, <1>12 DEF ReadUpdate, At
  <1>13. CASE LookUpdate(c)
    BY <1>5, <1>6, <1>13 DEF LookUpdate, At
  <1>14. CASE ReadRollback(c)
    BY <1>4, <1>5, <1>6, <1>14 DEF ReadRollback, At
  <1>. QED
    BY <1>7, <1>8, <1>9, <1>10, <1>11, <1>12, <1>13, <1>14 DEF Read

\* The write: a PR more, and the caller knows of it or a fault came between.
LEMMA WriteCreated ==
  ASSUME TypeOK, Created, NEW c \in Callers, Write(c) \/ WriteFails(c) PROVE Created'
  <1>1. PICK class, ok : /\ Classified(c, class, ok)
                         /\ Write(c) /\ Accepted(c) => class = "applied"
    BY DEF Write, WriteFails
  <1>. DEFINE l == [local[c] EXCEPT !.class = class, !.ok = ok]
  <1>2. l.act = local[c].act /\ l.dedupe = local[c].dedupe /\ l.class = class
    BY DEF TypeOK, Locals
  <1>3. Set(c, "record", l)
    BY <1>1 DEF Classified
  <1>4. UNCHANGED <<records, overlapped>> /\ pc[c] = "write"
    BY DEF Write, WriteFails, store, bounds
  <1>. HIDE DEF l
  <1>5. Shown => Shown'
    BY <1>3, <1>4, SetShown DEF Holding
  <1>6. "create" \notin overlapped /\ local[c].act = "create" => local[c].dedupe = "first" /\ ~Known
    BY <1>4 DEF Created, Aware, Creating
  <1>7. ASSUME "create" \notin overlapped, local[c].act = "create" PROVE ~Shown
    <2>1. \A d \in Callers : Holding(d) => d = c
      BY <1>4, <1>7 DEF Created, Creating, Holding
    <2>. QED
      BY <1>4, <1>6, <1>7, <2>1 DEF Shown, Holding
  <1>8. ASSUME "create" \notin overlapped PROVE Counted'
    <2>1. CASE UNCHANGED prs /\ faults' = faults
      BY <1>5, <1>8, <2>1, MineSame, CountStep DEF Created
    <2>2. CASE UNCHANGED prs /\ faults' = faults + 1
      BY <1>8, <2>2, MineSame, CountStep DEF Created
    <2>3. CASE Effect(c) /\ local[c].act # "create" /\ (faults' = faults \/ faults' = faults + 1)
      BY <1>5, <1>8, <2>3, EffectMine, CountStep DEF Created
    <2>4. CASE Effect(c) /\ local[c].act = "create" /\ faults' = faults + 1
      BY <1>5, <1>8, <2>4, EffectMine, CountStep DEF Created
    <2>5. CASE Effect(c) /\ local[c].act = "create" /\ faults' = faults /\ class = "applied"
      <3>1. pc'[c] = "record" /\ local'[c] = l
        BY <1>3, SetEffect
      <3>2. Shown'
        BY <1>2, <2>5, <3>1 DEF Shown, Holding, Done
      <3>. QED
        BY <1>7, <1>8, <2>5, <3>2, EffectMine, CountStep DEF Created
    <2>. QED
      BY <1>1, <2>1, <2>2, <2>3, <2>4, <2>5 DEF Write, WriteFails, github, bounds
  <1>. QED
    BY <1>2, <1>3, <1>4, <1>6, <1>8, SetCreated

\* The record is written: who held a PR has it known.
LEMMA PersistCreated ==
  ASSUME TypeOK, Created, NEW c \in Callers, Persist(c) PROVE Created'
  <1>. DEFINE l == [Fresh EXCEPT !.act = local[c].act, !.n = local[c].n, !.ok = local[c].ok]
  <1>1. l.act = local[c].act
    BY DEF Fresh
  <1>2. pc'[c] = "answer" /\ local'[c] = l /\ \A d \in Callers : d # c => pc'[d] = pc[d] /\ local'[d] = local[d]
    BY SetEffect DEF Persist, Ends
  <1>. HIDE DEF l
  <1>3. pc[c] = "record" /\ UNCHANGED <<overlapped, faults, prs>>
    BY DEF Persist, bounds, github
  <1>4. local[c].act # "create" => UNCHANGED records["create"]
    BY DEF Persist, TypeOK, Actions
  <1>5. local[c].act = "create" => records'["create"][0].class = local[c].class
    BY DEF Persist, TypeOK, Actions, Targets, Recorded
  <1>6. \A d \in Callers : Creating(d)' => Creating(d)
    BY <1>1, <1>2, <1>3 DEF Creating
  <1>. SUFFICES ASSUME "create" \notin overlapped
                PROVE  (\A d \in Callers : Aware(d)') /\ Counted'
    BY <1>3, <1>6 DEF Created
  <1>7. \A d, e \in Callers : Creating(d) /\ Creating(e) => d = e
    BY DEF Created
  <1>8. ASSUME NEW d \in Callers PROVE Aware(d)'
    <2>1. CASE d = c
      BY <1>2, <2>1 DEF Aware
    <2>2. CASE d # c /\ local[c].act = "create"
      <3>1. ~Creating(d)'
        BY <1>3, <1>6, <1>7, <2>2 DEF Creating
      <3>. QED
        BY <3>1 DEF Aware
    <2>3. CASE d # c /\ local[c].act # "create"
      BY <1>2, <1>4, <2>3 DEF Aware, Creating, Known, Created
    <2>. QED
      BY <2>1, <2>2, <2>3
  <1>9. Shown => Shown'
    <2>1. CASE local[c].act = "create"
      <3>1. ASSUME Known PROVE local[c].class \in Done \cup Stopping
        BY <1>3, <2>1, <3>1 DEF Created, Aware, Creating
      <3>2. ASSUME NEW d \in Callers, Holding(d) PROVE local[c].class \in Done
        BY <1>3, <1>7, <2>1, <3>2 DEF Holding, Creating
      <3>. QED
        BY <1>5, <2>1, <3>1, <3>2 DEF Shown, Known
    <2>2. CASE local[c].act # "create"
      <3>1. \A d \in Callers : Holding(d) => Holding(d)'
        BY <1>2, <2>2 DEF Holding
      <3>. QED
        BY <1>4, <2>2, <3>1 DEF Shown, Known
    <2>. QED
      BY <2>1, <2>2
  <1>10. Counted'
    BY <1>3, <1>9, MineSame, CountStep DEF Created
  <1>. QED
    BY <1>8, <1>10

LEMMA CreatedStep ==
  ASSUME TypeOK, Created, [Next]_vars PROVE Created'
  <1>1. ASSUME NEW c \in Callers, StoreFails(c) \/ Kill(c) PROVE Created'
    <2>1. UNCHANGED <<records, overlapped, prs>> /\ pc[c] # "idle" /\ faults' = faults + 1
      BY <1>1 DEF StoreFails, Kill, store, github
    <2>2. PICK step, l : Set(c, step, l) /\ (step = "idle" \/ (step = "answer" /\ l.act = local[c].act))
      <3>. DEFINE l == [Fresh EXCEPT !.act = local[c].act, !.n = local[c].n, !.ok = FALSE]
      <3>1. l.act = local[c].act
        BY DEF Fresh
      <3>. HIDE DEF l
      <3>2. Set(c, "answer", l) \/ Set(c, "idle", Fresh)
        BY <1>1 DEF StoreFails, Kill, Refused, Ends, l
      <3>. QED
        BY <3>1, <3>2
    <2>3. "create" \notin overlapped => Counted'
      BY <2>1, MineSame, CountStep DEF Created
    <2>. QED
      BY <2>1, <2>2, <2>3, SetCreated
  <1>2. ASSUME NEW c \in Callers, Answer(c) PROVE Created'
    <2>1. UNCHANGED <<records, overlapped, prs, faults>> /\ pc[c] = "answer" /\ Set(c, "idle", Fresh)
      BY <1>2 DEF Answer, bounds, github
    <2>2. Shown => Shown'
      BY <2>1, SetShown DEF Holding
    <2>3. "create" \notin overlapped => Counted'
      BY <2>1, <2>2, MineSame, CountStep DEF Created
    <2>. QED
      BY <2>1, <2>3, SetCreated
  <1>3. CASE Move \/ UNCHANGED vars
    <2>1. UNCHANGED <<records, overlapped, pc, local, faults>>
      BY <1>3 DEF Move, vars, store, bounds
    <2>2. Mine' \subseteq Mine
      BY <1>3, MoveMine, MineSame DEF vars, github
    <2>3. (Known' <=> Known) /\ \A c \in Callers :
            (Creating(c)' <=> Creating(c)) /\ (Aware(c)' <=> Aware(c)) /\ (Holding(c)' <=> Holding(c))
      BY <2>1 DEF Known, Creating, Aware, Holding
    <2>4. Shown => Shown'
      BY <2>3 DEF Shown
    <2>5. "create" \notin overlapped => Counted'
      BY <2>1, <2>2, <2>4, CountStep DEF Created
    <2>. QED
      BY <2>1, <2>3, <2>5 DEF Created
  <1>. QED
    BY <1>1, <1>2, <1>3, AskCreated, ReadCreated, WriteCreated, PersistCreated DEF Next

\* A closed PR is opened anew by callers no more often than there were faults.
THEOREM RepeatsAreFaults == Spec => []RepeatsNeedFaults
  <1>1. Init => TypeOK /\ Created
    <2>. SUFFICES ASSUME Init PROVE Created
      BY InitType
    <2>1. PICK first \in {NoPr, Opened("human", FALSE)} : prs = [n \in Nums |-> IF n = 1 THEN first ELSE NoPr]
      BY DEF Init
    <2>2. NoPr.opener # "caller" /\ Opened("human", FALSE).opener # "caller"
      BY NullAssumption DEF NoPr, Opened, People
    <2>3. Mine = {}
      BY <2>1, <2>2 DEF Mine
    <2>4. Cardinality(Mine) = 0
      BY <2>3, FS_EmptySet
    <2>5. Counted
      BY <2>4 DEF Counted, Init
    <2>. QED
      BY <2>5 DEF Created, Creating, Aware, Init
  <1>2. TypeOK /\ Created /\ [Next]_vars => TypeOK' /\ Created'
    BY TypeStep, CreatedStep
  <1>3. TypeOK /\ Created => RepeatsNeedFaults
    <2>. SUFFICES ASSUME TypeOK, Created, "create" \notin overlapped PROVE Cardinality(Mine) <= 1 + faults
      BY DEF RepeatsNeedFaults, Mine
    <2>1. Counted /\ Cardinality(Mine) \in Nat /\ faults \in Nat
      BY MineType DEF Created, TypeOK
    <2>. QED
      BY <2>1 DEF Counted
  <1>. QED
    BY <1>1, <1>2, <1>3, PTL DEF Spec
=============================================================================
