----------------------- MODULE GitHubWritesProperties -----------------------
(***************************************************************************)
(* What the write receipts may say, and what calls may do to GitHub, with  *)
(* people at work on the same PRs.                                         *)
(***************************************************************************)
EXTENDS GitHubWrites

\* GitHub, clone, store and callers hold values of their kinds.
TypeOK ==
  /\ prs \in [Nums -> Pr] /\ tip \in Shas /\ base \in Commits /\ green \subseteq Shas /\ titled \subseteq Nums /\ borne \subseteq Nums
  /\ clone \in Commits /\ reverted \subseteq Nums
  /\ records \in [Actions -> [0..MaxPrs -> Record \cup {NoRecord}]]
  /\ receipts \in [Actions -> [ok : BOOLEAN, n : 0..MaxPrs]]
  /\ pc \in [Callers -> PCs] /\ local \in [Callers -> Locals]
  /\ overlapped \subseteq Actions /\ asked \in Nat /\ faults \in Nat /\ moves \in Nat
  /\ \A c \in Callers : local[c].n \in Targets(local[c].act)

\* What a success of an action on a target says of GitHub and the clone.
Took(a, n) ==
  CASE a = "create"   -> \E m \in Nums : prs[m].state # "none"
    [] a = "update"   -> n \in borne
    [] a = "merge"    -> prs[n].state = "merged"
    [] a = "rollback" -> n \in reverted

\* A record of a done action, and a receipt with succeeded, are never written
\* for something that did not happen, whatever raced, failed or was repeated.
RecordsTruthful ==
  /\ TypeOK
  /\ \A a \in Actions : \A n \in Targets(a) : records[a][n].class \in Done => Took(a, n)
  /\ \A a \in Actions : receipts[a].ok => Took(a, receipts[a].n)

\* "checks_not_passing", "expected_head_sha": a commit that a caller merged is
\* one whose checks had passed, also when someone pushed between read and merge.
MergedHeadChecked ==
  \A n \in Nums : prs[n].merger = "caller" => prs[n].head \in green

\* A PR that was closed is opened anew by a caller only after a fault hid the
\* first one from the records, unless two calls for it ran at the same time.
RepeatsNeedFaults ==
  \/ Cardinality({n \in Nums : prs[n].opener = "caller"}) <= 1 + faults
  \/ "create" \in overlapped

\* The record of a merge stays that of a merge, through repeats and faults,
\* unless two calls ran at the same time: the loser records its failure.
MergesStayDone ==
  [][\A n \in Nums :
       records["merge"][n].class \in Done /\ "merge" \notin overlapped
         => records'["merge"][n].class \in Done]_vars
=============================================================================
