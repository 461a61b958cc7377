----------------------- MODULE MultiCycleWorkerProofs -----------------------
(***************************************************************************)
(* Proofs about the executor when a cycle has one worker at a time: sealed *)
(* checkpoints are immutable, receipts are backed by finalizing            *)
(* checkpoints, the checkpoints implement the lines of AcceptedChain, and  *)
(* under the supervisor's launches no task is applied twice.               *)
(*                                                                         *)
(* The invariant WInv relates the local state of the worker to the latest  *)
(* checkpoint of each cycle.  Killing the worker keeps it, because nothing *)
(* in it speaks of an idle worker; the clean-up of an orphan keeps it,     *)
(* because the latest checkpoint stays the same.                           *)
(***************************************************************************)
EXTENDS MultiCycleEvidenceProofs

OneWorkerOnly == \A v, w \in Workers : v = w

(***************************************************************************)
(* Histories.  The latest checkpoint of a history is Null where none can   *)
(* be loaded.                                                              *)
(***************************************************************************)
LatestOf(h) ==
  IF /\ h # <<>> /\ \A i \in 1..(Len(h) - 1) : Sealed(h[i])
     /\ Sealed(Last(h)) \/ (Incomplete(Last(h)) /\ Len(h) > 1)
  THEN IF Incomplete(Last(h)) THEN h[Len(h) - 1].json ELSE Last(h).json
  ELSE Null

\* Every pair is sealed, but the last one may still lack its sidecar.
Shape(h) ==
  \A i \in 1..Len(h) : Sealed(h[i]) \/ (i = Len(h) /\ h[i].json # Null /\ h[i].sha = Null)

\* History g keeps every sealed pair of h.
Keeps(h, g) == \A i \in 1..Len(h) : Sealed(h[i]) => i <= Len(g) /\ g[i] = h[i]

\* The latest checkpoint of a history is that of its last sealed pair.
LEMMA LatestIs ==
  ASSUME NEW h \in Seq(GoodPairs), NEW n \in Nat, Len(h) \in {n, n + 1},
         \A i \in 1..n : Sealed(h[i]), Len(h) = n + 1 => Incomplete(h[n + 1])
  PROVE  LatestOf(h) = IF n = 0 THEN Null ELSE h[n].json
<1>1. Last(h) = h[Len(h)] /\ Len(h) \in Nat
  BY DEF Last
<1>2. \A p : ~(Sealed(p) /\ Incomplete(p))
  BY DEF Sealed, Incomplete
<1>3. CASE Len(h) = n
  <2>1. CASE n = 0
    BY <1>3, <2>1 DEF LatestOf
  <2>2. CASE n # 0
    <3>1. /\ h # <<>> /\ \A i \in 1..(Len(h) - 1) : Sealed(h[i])
          /\ Sealed(Last(h)) /\ ~Incomplete(Last(h)) /\ Last(h) = h[n]
      BY <1>1, <1>2, <1>3, <2>2
    <3> QED
      BY <2>2, <3>1 DEF LatestOf
  <2> QED
    BY <2>1, <2>2
<1>4. CASE Len(h) = n + 1
  <2>1. /\ h # <<>> /\ \A i \in 1..(Len(h) - 1) : Sealed(h[i])
        /\ ~Sealed(Last(h)) /\ Incomplete(Last(h)) /\ (Len(h) > 1 <=> n # 0) /\ Len(h) - 1 = n
    BY <1>1, <1>2, <1>4
  <2> QED
    BY <2>1 DEF LatestOf
<1> QED
  BY <1>3, <1>4

\* The number of sealed pairs of a history.
LEMMA ShapeIs ==
  ASSUME NEW h \in Seq(GoodPairs), Shape(h)
  PROVE  \E n \in Nat : /\ Len(h) = IF AllSealed(h) THEN n ELSE n + 1
                        /\ \A i \in 1..n : Sealed(h[i])
                        /\ ~AllSealed(h) => h[n + 1].json # Null /\ h[n + 1].sha = Null
                        /\ LatestOf(h) = IF n = 0 THEN Null ELSE h[n].json
<1>1. Len(h) \in Nat
  OBVIOUS
<1>2. CASE AllSealed(h)
  <2>1. \A i \in 1..Len(h) : Sealed(h[i])
    BY <1>2 DEF AllSealed
  <2> QED
    BY <1>1, <1>2, <2>1, LatestIs
<1>3. CASE ~AllSealed(h)
  <2>1. PICK j \in 1..Len(h) : ~Sealed(h[j])
    BY <1>3 DEF AllSealed
  <2>2. j = Len(h) /\ h[j].json # Null /\ h[j].sha = Null
    BY <2>1 DEF Shape
  <2>3. PICK n \in Nat : Len(h) = n + 1
    BY <1>1, <2>1
  <2>4. \A i \in 1..n : Sealed(h[i])
    BY <2>3 DEF Shape
  <2>5. h[n + 1].json # Null /\ h[n + 1].sha = Null
    BY <2>2, <2>3
  <2>6. LatestOf(h) = IF n = 0 THEN Null ELSE h[n].json
    BY <2>3, <2>4, <2>5, LatestIs DEF Incomplete
  <2> QED
    BY <1>3, <2>3, <2>4, <2>5, <2>6
<1> QED
  BY <1>2, <1>3

\* Removing an orphan keeps the latest checkpoint and seals the history.
LEMMA FrontHistory ==
  ASSUME NEW h \in Seq(GoodPairs), Shape(h), ~AllSealed(h)
  PROVE  /\ Front(h) \in Seq(GoodPairs) /\ AllSealed(Front(h)) /\ Shape(Front(h))
         /\ LatestOf(Front(h)) = LatestOf(h) /\ Keeps(h, Front(h))
<1>1. PICK n \in Nat : /\ Len(h) = n + 1 /\ \A i \in 1..n : Sealed(h[i])
                       /\ h[n + 1].sha = Null
                       /\ LatestOf(h) = IF n = 0 THEN Null ELSE h[n].json
  BY ShapeIs
<1> DEFINE g == Front(h)
<1>2. /\ Len(g) = n /\ \A i \in 1..n : g[i] = h[i]
  <2>1. h # <<>>
    BY <1>1
  <2> QED
    BY <1>1, <2>1, FrontOf
<1>3. g \in Seq(GoodPairs)
  BY <1>1 DEF Front
<1> HIDE DEF g
<1>4. \A i \in 1..Len(g) : Sealed(g[i])
  BY <1>1, <1>2
<1>5. LatestOf(g) = IF n = 0 THEN Null ELSE g[n].json
  BY <1>2, <1>3, <1>4, LatestIs
<1>6. LatestOf(g) = LatestOf(h)
  BY <1>1, <1>2, <1>5
<1>7. Keeps(h, g)
  <2>1. ~Sealed(h[n + 1])
    BY <1>1 DEF Sealed
  <2> QED
    BY <1>1, <1>2, <2>1 DEF Keeps
<1> QED
  BY <1>3, <1>4, <1>6, <1>7 DEF g, AllSealed, Shape

\* The json of a new pair keeps the latest checkpoint.
LEMMA PutJsonHistory ==
  ASSUME NEW h \in Seq(GoodPairs), AllSealed(h), NEW v \in GoodCkpts, NEW g, g = PutJson(h, Len(h) + 1, v)
  PROVE  /\ Shape(g) /\ LatestOf(g) = LatestOf(h) /\ Keeps(h, g)
         /\ Len(g) = Len(h) + 1 /\ g[Len(g)].json = v /\ g[Len(g)].sha = Null
<1>1. PICK n \in Nat : Len(h) = n
  OBVIOUS
<1>2. PICK q : q = [json |-> v, sha |-> Null]
  OBVIOUS
<1>3. q \in GoodPairs /\ q.json = v /\ q.sha = Null /\ v # Null
  BY <1>2, NullAssumption DEF GoodPairs, GoodCkpts
<1>4. g = Append(h, q)
  BY <1>1, <1>2 DEF PutJson
<1>5. /\ g \in Seq(GoodPairs) /\ Len(g) = n + 1 /\ g[n + 1] = q
      /\ \A i \in 1..n : g[i] = h[i]
  BY <1>1, <1>3, <1>4
<1>6. \A i \in 1..n : Sealed(h[i]) /\ Sealed(g[i])
  BY <1>1, <1>5 DEF AllSealed
<1>7. LatestOf(h) = IF n = 0 THEN Null ELSE h[n].json
  BY <1>1, <1>6, LatestIs
<1>8. LatestOf(g) = IF n = 0 THEN Null ELSE g[n].json
  BY <1>3, <1>5, <1>6, LatestIs DEF Incomplete
<1>9. LatestOf(g) = LatestOf(h)
  BY <1>5, <1>7, <1>8
<1>10. Shape(g)
  BY <1>3, <1>5, <1>6 DEF Shape
<1>11. Keeps(h, g)
  BY <1>1, <1>5 DEF Keeps
<1> QED
  BY <1>1, <1>3, <1>5, <1>9, <1>10, <1>11

\* The sidecar of the last pair makes it the latest checkpoint.
LEMMA PutShaHistory ==
  ASSUME NEW h \in Seq(GoodPairs), Shape(h), h # <<>>, NEW v \in GoodCkpts,
         h[Len(h)].json = v, h[Len(h)].sha = Null, NEW g, g = PutSha(h, Len(h), v)
  PROVE  AllSealed(g) /\ Shape(g) /\ LatestOf(g) = v /\ Keeps(h, g)
<1>1. PICK m \in Nat : Len(h) = m /\ m # 0
  OBVIOUS
<1>2. v # Null /\ h[m] \in GoodPairs
  BY <1>1, NullAssumption DEF GoodCkpts
<1>3. PICK q : q = [h[m] EXCEPT !.sha = v]
  OBVIOUS
<1>4. q \in GoodPairs /\ q.json = v /\ q.sha = v
  BY <1>1, <1>2, <1>3 DEF GoodPairs
<1>5. g = [h EXCEPT ![m].sha = v]
  <2>1. g = PutSha(h, m, v) /\ m <= m
    BY <1>1
  <2> QED
    BY <1>1, <2>1 DEF PutSha
<1>6. /\ g \in Seq(GoodPairs) /\ Len(g) = m /\ g[m] = q
      /\ \A i \in 1..m : i # m => g[i] = h[i]
  BY <1>1, <1>3, <1>4, <1>5
<1>7. ~Sealed(h[m])
  BY <1>1, <1>2 DEF Sealed
<1>8. \A i \in 1..m : i # m => Sealed(h[i])
  BY <1>1 DEF Shape
<1>9. \A i \in 1..m : Sealed(g[i])
  BY <1>2, <1>4, <1>6, <1>8 DEF Sealed
<1>10. LatestOf(g) = v
  <2>1. LatestOf(g) = IF m = 0 THEN Null ELSE g[m].json
    BY <1>6, <1>9, LatestIs
  <2> QED
    BY <1>1, <1>4, <1>6, <2>1
<1>11. Keeps(h, g)
  BY <1>1, <1>6, <1>7 DEF Keeps
<1> QED
  BY <1>6, <1>9, <1>10, <1>11 DEF AllSealed, Shape

(***************************************************************************)
(* The latest checkpoint of every cycle.  The predicates on it take it as  *)
(* a parameter L, so that they can be stated of the state before a step    *)
(* and of the one after it.                                                *)
(***************************************************************************)
latest == [c \in Cycles |-> LatestOf(hist[c])]

Shaped == \A c \in Cycles : Shape(hist[c])

\* load_latest_checkpoint returns the latest checkpoint.
LEMMA LatestLoaded ==
  ASSUME hist \in [Cycles -> Seq(GoodPairs)], NEW c \in Cycles
  PROVE  /\ Loadable(c) <=> latest[c] # Null
         /\ Loadable(c) => latest[c] = LoadedCkpt(c) /\ latest[c] \in GoodCkpts
<1>1. latest[c] = LatestOf(hist[c])
  BY DEF latest
<1>2. Loadable(c) => LatestOf(hist[c]) = LoadedCkpt(c)
  BY DEF Loadable, LoadedCkpt, HasOrphan, LatestOf
<1>3. ~Loadable(c) => LatestOf(hist[c]) = Null
  BY DEF Loadable, LatestOf
<1>4. ASSUME Loadable(c) PROVE LoadedCkpt(c) \in GoodCkpts
  BY <1>4, LoadedType
<1>5. Null \notin GoodCkpts
  BY NullAssumption DEF GoodCkpts
<1> QED
  BY <1>1, <1>2, <1>3, <1>4, <1>5

\* The same after a step.
LEMMA LatestLoadedNext ==
  ASSUME hist' \in [Cycles -> Seq(GoodPairs)], Shaped', NEW c \in Cycles
  PROVE  /\ Loadable(c)' <=> latest'[c] # Null
         /\ Loadable(c)' => latest'[c] = LoadedCkpt(c)'
<1>1. PICK h \in Seq(GoodPairs) : h = hist'[c]
  OBVIOUS
<1>2. latest'[c] = LatestOf(h) /\ Shape(h)
  BY <1>1 DEF latest, Shaped
<1>3. PICK n \in Nat : /\ Len(h) = IF AllSealed(h) THEN n ELSE n + 1
                       /\ \A i \in 1..n : Sealed(h[i])
                       /\ LatestOf(h) = IF n = 0 THEN Null ELSE h[n].json
  BY <1>2, ShapeIs
<1>4. n # 0 => h[n].json # Null
  BY <1>3 DEF Sealed
<1>5. Loadable(c)' => LatestOf(h) = LoadedCkpt(c)'
  BY <1>1 DEF Loadable, LoadedCkpt, HasOrphan, LatestOf
<1>6. ~Loadable(c)' => LatestOf(h) = Null
  BY <1>1 DEF Loadable, LatestOf
<1>7. Loadable(c)' => n # 0
  <2> SUFFICES ASSUME Loadable(c)', n = 0 PROVE FALSE
    OBVIOUS
  <2>1. h # <<>> /\ (Sealed(Last(h)) \/ Len(h) > 1)
    BY <1>1 DEF Loadable
  <2>2. Len(h) = 1 /\ ~AllSealed(h) /\ Last(h) = h[1]
    BY <1>3, <2>1 DEF Last
  <2>3. AllSealed(h)
    BY <2>1, <2>2 DEF AllSealed
  <2> QED
    BY <2>2, <2>3
<1> QED
  BY <1>2, <1>3, <1>4, <1>5, <1>6, <1>7

Finished(L, c) == L[c] # Null /\ L[c].life = "finalizing"

\* Checkpoint t is the first of cycle c: nothing is accepted yet, or what the
\* finished cycle it resumes had accepted.
Opens(L, c, t) ==
  /\ L[c] = Null /\ t.life = "initialized"
  /\ \/ t.done = <<>>
     \/ \E p \in Cycles \ {c} : Finished(L, p) /\ t.base = L[p].base /\ t.done = L[p].done
  /\ Supervised => t.base = Anchor

\* Checkpoint t is the next of cycle c: the same chain with an active task or
\* with an outcome, or the chain with one more task accepted.
Continues(L, c, t) ==
  /\ L[c] # Null /\ L[c].life # "finalizing" /\ t.base = L[c].base
  /\ \/ t.life = "active_task" /\ t.done = L[c].done
     \/ t.life = "accepted_task" /\ t.done = Append(L[c].done, <<c, Len(L[c].done) + 1>>)
     \/ /\ t.life = "finalizing" /\ t.done = L[c].done
        /\ t.term # "none" /\ (t.term = "completed" <=> Len(t.done) = TaskCount)

\* The pair being written is the one after the last sealed one.
Writing(h, k) ==
  /\ k.pc = "ckpt_json" => AllSealed(h) /\ k.seq = Len(h) + 1
  /\ k.pc = "ckpt_sha"  => k.seq = Len(h) /\ h[k.seq].json = k.ck /\ h[k.seq].sha = Null

\* Where a worker in local state k stands to the latest checkpoints.
Place(L, k) ==
  /\ k.pc \in {"preflight", "verify"} => k.done = <<>>
  /\ k.pc = "preflight" /\ k.mode # "resume" => L[k.c] = Null
  /\ k.pc = "preflight" /\ k.mode = "terminal" => k.pred # k.c
  /\ k.pc \in {"loop", "spawn", "child", "seal", "judge"} =>
       /\ L[k.c] # Null /\ L[k.c].life # "finalizing"
       /\ L[k.c].base = k.base /\ L[k.c].done = k.done
  /\ k.pc \in {"ckpt_json", "ckpt_sha"} =>
       /\ Opens(L, k.c, k.ck) \/ Continues(L, k.c, k.ck)
       /\ k.ck.base = k.base /\ k.ck.done = k.done
  /\ k.pc \in {"reload", "pair", "pair_both", "pair_json", "pair_sha"} => Finished(L, k.c)
  /\ k.pc = "pair" => k.ck = L[k.c]
  /\ k.pc \in {"pair_both", "pair_json", "pair_sha"} => k.out = TerminalReceipt(L[k.c])
  /\ k.pc = "rec_json" => k.out.reason = "other" /\ k.out.status \in {"blocked", "failed"}

\* The chain of accepted commits of cycle c.
LineOK(L, c) == L[c] # Null =>
  /\ L[c].life = "finalizing" =>
       L[c].term # "none" /\ (L[c].term = "completed" <=> Len(L[c].done) = TaskCount)
  /\ \A i \in 1..Len(L[c].done) :
       L[c].done[i][2] = i /\ (L[c].done[i][1] = c \/ Finished(L, L[c].done[i][1]))
  /\ Supervised => L[c].base = Anchor

\* Receipt r of cycle c.
ReceiptOK(L, c, r) ==
  IF r.reason = "other" THEN r.status \in {"blocked", "failed"}
                        ELSE Finished(L, c) /\ r = TerminalReceipt(L[c])

\* The edge of a receipt of record().
EdgeOK(r) == r.done # <<>> => Verified(r.base, r.done, r.head)

\* A supervised worker that starts a fresh cycle finds nothing to continue.
NothingBefore(k) ==
  Supervised /\ k.pc = "preflight" /\ k.mode = "fresh" => Participating({k.c}) = {}

\* Every history is well formed, with a line of accepted commits.
HistoriesOK == Shaped /\ \A c \in Cycles : LineOK(latest, c)

\* A cycle that does not exist yet has no evidence.
UnusedOK == \A c \in Cycles \ dirs : latest[c] = Null /\ receipt[c] = Null

OutcomesOK ==
  \A c \in Cycles : receipt[c] # Null => ReceiptOK(latest, c, receipt[c]) /\ EdgeOK(receipt[c])

WorkerPlaced(k) ==
  /\ k.pc \in {"ckpt_json", "ckpt_sha"} => Writing(hist[k.c], k)
  /\ Place(latest, k)
  /\ k.pc = "rec_json" => EdgeOK(k.out)
  /\ NothingBefore(k)

\* The inductive invariant, next to EInv.
WInv == HistoriesOK /\ UnusedOK /\ OutcomesOK /\ \A w \in Workers : WorkerPlaced(wk[w])

(***************************************************************************)
(* Steps that write no checkpoint and no receipt.                          *)
(***************************************************************************)
\* Orphan clean-up keeps every sealed pair and the latest checkpoints.
LEMMA CleanedHistories ==
  ASSUME IInv, Shaped, NEW cs, hist' \in {hist, Cleaned(cs)}
  PROVE  /\ Shaped' /\ latest' = latest
         /\ \A c \in Cycles : Keeps(hist[c], hist'[c])
<1>1. hist \in [Cycles -> Seq(GoodPairs)]
  BY DEF IInv, FilesOK
<1>2. ASSUME NEW c \in Cycles
      PROVE  Shape(hist'[c]) /\ LatestOf(hist'[c]) = LatestOf(hist[c]) /\ Keeps(hist[c], hist'[c])
  <2>1. PICK h \in Seq(GoodPairs) : h = hist[c]
    BY <1>1
  <2>2. PICK g : g = hist'[c]
    OBVIOUS
  <2>3. Shape(h)
    BY <2>1 DEF Shaped
  <2>4. CASE g = h
    BY <2>1, <2>2, <2>3, <2>4 DEF Keeps
  <2>5. CASE g # h
    <3>1. HasOrphan(c) /\ g = Front(h)
      BY <2>1, <2>2, <2>5 DEF Cleaned, WithoutOrphan
    <3>2. h # <<>> /\ Incomplete(h[Len(h)])
      BY <2>1, <3>1 DEF HasOrphan, Loadable, Last
    <3>3. ~AllSealed(h)
      <4>1. Len(h) \in 1..Len(h)
        BY <3>2
      <4> QED
        BY <3>2, <4>1 DEF AllSealed, Sealed, Incomplete
    <3> QED
      BY <2>1, <2>2, <2>3, <3>1, <3>3, FrontHistory
  <2> QED
    BY <2>4, <2>5
<1>3. latest' = latest
  BY <1>2 DEF latest
<1> QED
  BY <1>2, <1>3 DEF Shaped

\* The edge of a receipt stays one while child runs go on.
LEMMA EdgeKept ==
  ASSUME Steady(child, child'), NEW r \in Receipts, EdgeOK(r)
  PROVE  EdgeOK(r)'
<1>1. r.done \in Chains
  BY DEF Receipts
<1>2. ASSUME r.done # <<>> PROVE Verified(r.base, r.done, r.head)'
  BY <1>1, <1>2, VerifiedKept DEF EdgeOK
<1> QED
  BY <1>2 DEF EdgeOK

LEMMA FilesKept ==
  ASSUME IInv, WInv, NEW cs, hist' \in {hist, Cleaned(cs)}, dirs \subseteq dirs', UNCHANGED receipt,
         Steady(child, child')
  PROVE  /\ HistoriesOK' /\ UnusedOK' /\ OutcomesOK' /\ latest' = latest
         /\ \A c \in Cycles : Keeps(hist[c], hist'[c])
<1>1. /\ Shaped' /\ latest' = latest
      /\ \A c \in Cycles : Keeps(hist[c], hist'[c])
  BY CleanedHistories DEF WInv, HistoriesOK
<1>2. HistoriesOK' /\ UnusedOK'
  BY <1>1 DEF WInv, HistoriesOK, UnusedOK
<1>3. ASSUME NEW c \in Cycles, NEW r, r = receipt'[c], r # Null
      PROVE  ReceiptOK(latest', c, r) /\ EdgeOK(r)'
  <2>1. r \in Receipts
    BY <1>3 DEF IInv, FilesOK
  <2>2. ReceiptOK(latest, c, r) /\ EdgeOK(r)
    BY <1>3 DEF WInv, OutcomesOK
  <2> QED
    BY <1>1, <2>1, <2>2, EdgeKept
<1>4. OutcomesOK'
  BY <1>3 DEF OutcomesOK
<1> QED
  BY <1>1, <1>2, <1>4

\* The worker moves to local state k.
LEMMA Moves ==
  ASSUME OneWorkerOnly, IInv, HistoriesOK', UnusedOK', OutcomesOK',
         NEW w \in Workers, NEW k, Become(w, k), WorkerPlaced(k)'
  PROVE  WInv'
<1>1. wk'[w] = k
  BY DEF IInv, Become
<1>2. ASSUME NEW v \in Workers PROVE WorkerPlaced(wk[v])'
  <2>1. wk'[v] = k
    BY <1>1 DEF OneWorkerOnly
  <2> QED
    BY <2>1
<1> QED
  BY <1>2 DEF WInv

\* A worker that returns or is killed.
LEMMA IdleMoves ==
  ASSUME OneWorkerOnly, IInv, HistoriesOK', UnusedOK', OutcomesOK', NEW w \in Workers, Become(w, Idle)
  PROVE  WInv'
<1>1. Idle.pc = "idle"
  BY DEF Idle
<1>2. WorkerPlaced(Idle)'
  BY <1>1 DEF WorkerPlaced, Place, NothingBefore
<1> QED
  BY <1>2, Moves

\* record() from any point of the run.
LEMMA RecordMoves ==
  ASSUME OneWorkerOnly, IInv, HistoriesOK', UnusedOK', OutcomesOK',
         NEW w \in Workers, NEW k \in Locals, NEW status \in {"blocked", "failed"}, Record(w, k, status),
         k.done # <<>> => Verified(k.base, k.done, k.head)'
  PROVE  WInv'
<1> DEFINE pre == k.head = Anchor /\ k.done = <<>> /\ ~k.stopped
           r == [status |-> status, reason |-> "other",
                 base |-> k.base, head |-> k.head, done |-> k.done,
                 stopped |-> k.stopped, pre |-> pre, by |-> w]
           l == [k EXCEPT !.pc = "rec_json", !.out = r]
<1>1. Become(w, l)
  BY DEF Record, r, pre
<1> HIDE DEF pre
<1>2. r.reason = "other" /\ r.status = status /\ r.base = k.base /\ r.head = k.head /\ r.done = k.done
  OBVIOUS
<1> HIDE DEF r
<1>3. l.pc = "rec_json" /\ l.out = r
  BY DEF Locals
<1> HIDE DEF l
<1>4. EdgeOK(l.out)'
  BY <1>2, <1>3 DEF EdgeOK
<1>5. WorkerPlaced(l)'
  BY <1>2, <1>3, <1>4 DEF WorkerPlaced, Place, NothingBefore
<1> QED
  BY <1>1, <1>5, Moves

\* write_checkpoint, given a checkpoint t that may be the next one.
LEMMA CheckpointMoves ==
  ASSUME OneWorkerOnly, IInv, HistoriesOK', UnusedOK', OutcomesOK',
         NEW w \in Workers, NEW k \in Locals, NEW life, NEW term, Checkpoint(w, k, life, term),
         NEW t, t = [life |-> life, base |-> k.base, head |-> k.head,
                     done |-> k.done, term |-> term, by |-> w],
         Opens(latest', k.c, t) \/ Continues(latest', k.c, t),
         k.done # <<>> => Verified(k.base, k.done, k.head)'
  PROVE  WInv'
<1>1. CASE AllSealed(hist'[k.c])
  <2> DEFINE s == [life |-> life, base |-> k.base, head |-> k.head,
                   done |-> k.done, term |-> term, by |-> w]
             n == Len(hist'[k.c]) + 1
             l == [k EXCEPT !.pc = "ckpt_json", !.seq = n, !.ck = s]
  <2>1. Become(w, l)
    BY <1>1 DEF Checkpoint
  <2>5. s = t
    OBVIOUS
  <2> HIDE DEF s, n
  <2>6. l.pc = "ckpt_json" /\ l.c = k.c /\ l.seq = n /\ l.ck = s /\ l.base = k.base /\ l.done = k.done
    BY DEF Locals
  <2>2. /\ l.pc = "ckpt_json" /\ l.c = k.c /\ l.seq = Len(hist'[k.c]) + 1 /\ l.ck = t
        /\ t.base = l.base /\ t.done = l.done
    BY <2>5, <2>6 DEF n
  <2> HIDE DEF l
  <2>7. PICK m : m = l
    OBVIOUS
  <2>3. Writing(hist'[m.c], m)
    BY <1>1, <2>2, <2>7 DEF Writing
  <2>4. WorkerPlaced(m)'
    BY <2>2, <2>3, <2>7 DEF WorkerPlaced, Place, NothingBefore
  <2> QED
    BY <2>1, <2>4, <2>7, Moves
<1>2. CASE ~AllSealed(hist'[k.c]) /\ k.guarded
  BY <1>2, RecordMoves DEF Checkpoint
<1>3. CASE ~AllSealed(hist'[k.c]) /\ ~k.guarded
  BY <1>3, IdleMoves DEF Checkpoint
<1> QED
  BY <1>1, <1>2, <1>3

(***************************************************************************)
(* The steps of the worker.                                                *)
(***************************************************************************)
\* The worker at one of its tasks, about to make a step that keeps child runs.
LEMMA AtTask ==
  ASSUME EInv, WInv, NEW w \in Workers, NEW k, k = wk[w],
         k.pc \in {"loop", "spawn", "child", "seal", "judge"}, Steady(child, child')
  PROVE  /\ k \in Locals /\ k.c \in Cycles /\ WorkerOK(k, dirs, child)
         /\ latest[k.c] # Null /\ latest[k.c].life # "finalizing"
         /\ latest[k.c].base = k.base /\ latest[k.c].done = k.done
         /\ Verified(k.base, k.done, k.head)'
<1>1. k \in Locals /\ k.c \in Cycles /\ WorkerOK(k, dirs, child)
  BY DEF EInv, IInv, WorkerOK, FilesOK
<1>2. /\ latest[k.c] # Null /\ latest[k.c].life # "finalizing"
      /\ latest[k.c].base = k.base /\ latest[k.c].done = k.done
  BY DEF WInv, WorkerPlaced, Place
<1>3. Verified(k.base, k.done, k.head) /\ k.done \in Chains
  BY <1>1 DEF EInv, Holds, Locals
<1>4. Verified(k.base, k.done, k.head)'
  BY <1>3, VerifiedKept
<1> QED
  BY <1>1, <1>2, <1>4

\* The head of the task loop.
LEMMA LoopMoves ==
  ASSUME OneWorkerOnly, EInv, WInv, NEW w \in Workers, NextTask(w) \/ FinishQueue(w)
  PROVE  WInv'
<1>1. PICK k : k = wk[w]
  OBVIOUS
<1>2. UNCHANGED <<dirs, hist, receipt, child>> /\ k.pc = "loop"
  BY <1>1 DEF NextTask, FinishQueue, At
<1>3. Steady(child, child')
  BY <1>2 DEF Steady
<1>4. HistoriesOK' /\ UnusedOK' /\ OutcomesOK' /\ latest' = latest
  BY <1>2, <1>3, FilesKept DEF EInv
<1>5. /\ k \in Locals /\ k.c \in Cycles
      /\ latest[k.c] # Null /\ latest[k.c].life # "finalizing"
      /\ latest[k.c].base = k.base /\ latest[k.c].done = k.done
      /\ Verified(k.base, k.done, k.head)'
  BY <1>1, <1>2, <1>3, AtTask
<1>6. CASE NextTask(w)
  <2>1. PICK m : m = [k EXCEPT !.stopped = TRUE]
    OBVIOUS
  <2>2. m \in Locals /\ m.c = k.c /\ m.base = k.base /\ m.head = k.head /\ m.done = k.done
    BY <1>5, <2>1 DEF Locals
  <2>3. Become(w, [m EXCEPT !.pc = "spawn"]) \/ Checkpoint(w, m, "active_task", "none")
    BY <1>1, <1>6, <2>1 DEF NextTask
  <2>4. CASE Become(w, [m EXCEPT !.pc = "spawn"])
    <3>1. PICK l : l = [m EXCEPT !.pc = "spawn"]
      OBVIOUS
    <3>2. l.pc = "spawn" /\ l.c = k.c /\ l.base = k.base /\ l.done = k.done
      BY <2>2, <3>1 DEF Locals
    <3>3. WorkerPlaced(l)'
      BY <1>4, <1>5, <3>2 DEF WorkerPlaced, Place, NothingBefore
    <3> QED
      BY <1>4, <2>4, <3>1, <3>3, Moves DEF EInv
  <2>5. CASE Checkpoint(w, m, "active_task", "none")
    <3>1. PICK t : t = [life |-> "active_task", base |-> m.base, head |-> m.head,
                        done |-> m.done, term |-> "none", by |-> w]
      OBVIOUS
    <3>2. t.life = "active_task" /\ t.base = k.base /\ t.done = k.done
      BY <2>2, <3>1
    <3>3. Continues(latest', m.c, t)
      BY <1>4, <1>5, <2>2, <3>2 DEF Continues
    <3> QED
      BY <1>4, <1>5, <2>2, <2>5, <3>1, <3>3, CheckpointMoves DEF EInv
  <2> QED
    BY <2>3, <2>4, <2>5
<1>7. CASE FinishQueue(w)
  <2>1. PICK m : m = [k EXCEPT !.stopped = FALSE]
    OBVIOUS
  <2>2. m \in Locals /\ m.c = k.c /\ m.base = k.base /\ m.head = k.head /\ m.done = k.done
    BY <1>5, <2>1 DEF Locals
  <2>3. Checkpoint(w, m, "finalizing", "completed") /\ Len(k.done) = TaskCount
    BY <1>1, <1>7, <2>1 DEF FinishQueue
  <2>4. PICK t : t = [life |-> "finalizing", base |-> m.base, head |-> m.head,
                      done |-> m.done, term |-> "completed", by |-> w]
    OBVIOUS
  <2>5. t.life = "finalizing" /\ t.base = k.base /\ t.done = k.done /\ t.term = "completed"
    BY <2>2, <2>4
  <2>6. Continues(latest', m.c, t)
    BY <1>4, <1>5, <2>2, <2>3, <2>5 DEF Continues
  <2> QED
    BY <1>4, <1>5, <2>2, <2>3, <2>4, <2>6, CheckpointMoves DEF EInv
<1> QED
  BY <1>6, <1>7

\* A completed child is accepted.
LEMMA AcceptMoves ==
  ASSUME OneWorkerOnly, EInv, HistoriesOK', UnusedOK', OutcomesOK', UNCHANGED child,
         NEW w \in Workers, NEW k \in Locals, k.c \in Cycles, Len(k.done) < TaskCount,
         latest'[k.c] # Null, latest'[k.c].life # "finalizing",
         latest'[k.c].base = k.base, latest'[k.c].done = k.done,
         Verified(k.base, k.done, k.head), ChildVerified(Current(k), k.head), Completed(Current(k)),
         Accept(w, k)
  PROVE  WInv'
<1>1. PICK id : id = Current(k)
  OBVIOUS
<1>2. id \in Commits /\ k.done \in Chains /\ id = <<k.c, Len(k.done) + 1>>
  BY <1>1, CurrentType DEF Locals, Current
<1>3. ChildSealedAs(id, "completed") /\ Parent(id) = k.head
  BY <1>1, <1>2 DEF ChildVerified, Completed, CommitExists, ChildSealedAs
<1>4. PICK l : l = [k EXCEPT !.done = Append(@, id), !.head = id, !.stopped = FALSE, !.active = FALSE]
  OBVIOUS
<1>5. Checkpoint(w, l, "accepted_task", "none")
  BY <1>1, <1>4 DEF Accept
<1>6. l \in Locals /\ l.c = k.c /\ l.base = k.base /\ l.head = id /\ l.done = Append(k.done, id)
  BY <1>2, <1>4, ChainGrows DEF Locals, Heads
<1>7. Verified(l.base, l.done, l.head)
  BY <1>2, <1>3, <1>6, ChainExtended
<1>8. Verified(l.base, l.done, l.head)'
  BY <1>6, <1>7, VerifiedKept DEF Steady, Locals
<1>9. PICK t : t = [life |-> "accepted_task", base |-> l.base, head |-> l.head,
                    done |-> l.done, term |-> "none", by |-> w]
  OBVIOUS
<1>10. t.life = "accepted_task" /\ t.base = k.base /\ t.done = Append(k.done, <<k.c, Len(k.done) + 1>>)
  BY <1>2, <1>6, <1>9
<1>11. Continues(latest', l.c, t)
  BY <1>6, <1>10 DEF Continues
<1> QED
  BY <1>5, <1>6, <1>8, <1>9, <1>11, CheckpointMoves DEF EInv

\* A child that did not complete settles the cycle.
LEMMA TerminalizeMoves ==
  ASSUME OneWorkerOnly, EInv, HistoriesOK', UnusedOK', OutcomesOK', UNCHANGED child,
         NEW w \in Workers, NEW k \in Locals, k.c \in Cycles, Len(k.done) < TaskCount,
         latest'[k.c] # Null, latest'[k.c].life # "finalizing",
         latest'[k.c].base = k.base, latest'[k.c].done = k.done,
         Verified(k.base, k.done, k.head), ChildVerified(Current(k), k.head), ~Completed(Current(k)),
         Terminalize(w, k)
  PROVE  WInv'
<1>1. PICK st : st = child[Current(k)].st
  OBVIOUS
<1>2. Current(k) \in Commits
  BY CurrentType
<1>3. st \in Ended /\ st # "completed"
  BY <1>1, <1>2 DEF EInv, IInv, ChildOK, ChildVerified, Completed
<1>4. PICK l : l = [k EXCEPT !.stopped = TRUE]
  OBVIOUS
<1>5. Checkpoint(w, l, "finalizing", st)
  BY <1>1, <1>4 DEF Terminalize
<1>6. l \in Locals /\ l.c = k.c /\ l.base = k.base /\ l.head = k.head /\ l.done = k.done
  BY <1>4 DEF Locals
<1>7. Verified(l.base, l.done, l.head)'
  BY <1>6, VerifiedKept DEF Steady, Locals
<1>8. PICK t : t = [life |-> "finalizing", base |-> l.base, head |-> l.head,
                    done |-> l.done, term |-> st, by |-> w]
  OBVIOUS
<1>9. /\ t.life = "finalizing" /\ t.base = k.base /\ t.done = k.done
      /\ t.term \notin {"none", "completed"} /\ Len(t.done) # TaskCount
  <2>1. Len(k.done) # TaskCount
    BY ChainLength, TaskCountAssumption DEF Locals
  <2> QED
    BY <1>3, <1>6, <1>8, <2>1 DEF Ended
<1>10. Continues(latest', l.c, t)
  BY <1>6, <1>9 DEF Continues
<1> QED
  BY <1>5, <1>6, <1>7, <1>8, <1>10, CheckpointMoves DEF EInv

\* The worker goes on with its task.
LEMMA TaskMoves ==
  ASSUME OneWorkerOnly, EInv, HistoriesOK', UnusedOK', OutcomesOK', NEW w \in Workers, NEW k \in Locals,
         latest'[k.c] # Null, latest'[k.c].life # "finalizing",
         latest'[k.c].base = k.base, latest'[k.c].done = k.done,
         NEW p \in {"loop", "spawn", "child", "seal", "judge"}, Become(w, [k EXCEPT !.pc = p])
  PROVE  WInv'
<1>1. PICK l : l = [k EXCEPT !.pc = p]
  OBVIOUS
<1>2. l.pc = p /\ l.c = k.c /\ l.base = k.base /\ l.done = k.done
  BY <1>1 DEF Locals
<1>3. WorkerPlaced(l)'
  BY <1>2 DEF WorkerPlaced, Place, NothingBefore
<1> QED
  BY <1>1, <1>3, Moves DEF EInv

\* The child run.
LEMMA ChildMoves ==
  ASSUME OneWorkerOnly, EInv, WInv, NEW w \in Workers,
         SpawnChild(w) \/ ChildEnds(w) \/ ChildRaises(w) \/ SealChild(w) \/ JudgeChild(w)
  PROVE  WInv'
<1>1. PICK k : k = wk[w]
  OBVIOUS
<1>2. UNCHANGED <<dirs, hist, receipt>> /\ k.pc \in {"spawn", "child", "seal", "judge"}
  BY <1>1 DEF SpawnChild, ChildEnds, ChildRaises, SealChild, JudgeChild, At
<1>3. k \in Locals /\ k.c \in Cycles /\ Len(k.done) < TaskCount /\ Verified(k.base, k.done, k.head)
  BY <1>1, <1>2 DEF EInv, IInv, Holds, WorkerOK, FilesOK
<1>4. PICK id : id = Current(k)
  OBVIOUS
<1>5. id \in Commits /\ child \in [Commits -> ChildRuns] /\ child[id] \in ChildRuns
  BY <1>3, <1>4, CurrentType DEF EInv, IInv, ChildOK
<1>6. Steady(child, child')
  <2>1. CASE UNCHANGED child
    BY <2>1 DEF Steady
  <2>2. CASE SpawnChild(w) /\ Absent(id)
    <3>1. child' = [child EXCEPT ![id] = [child[id] EXCEPT !.st = "running", !.base = k.head]]
      BY <1>1, <1>4, <2>2 DEF SpawnChild
    <3>2. child[id].st \notin Ended /\ \A x \in Commits \ {id} : child'[x] = child[x]
      BY <1>5, <2>2, <3>1 DEF Absent, Ended
    <3> QED
      BY <3>2 DEF Steady
  <2>3. CASE ChildEnds(w)
    <3>1. child[id].st = "running"
      BY <1>1, <1>4, <2>3 DEF ChildEnds, At, EInv, Holds
    <3>2. \A x \in Commits \ {id} : child'[x] = child[x]
      BY <1>1, <1>4, <1>5, <2>3 DEF ChildEnds
    <3> QED
      BY <3>1, <3>2 DEF Steady, Ended
  <2>4. CASE SealChild(w)
    <3>1. child' = [child EXCEPT ![id] = [child[id] EXCEPT !.sealed = TRUE]]
      BY <1>1, <1>4, <2>4 DEF SealChild
    <3>2. PICK q : q = [child[id] EXCEPT !.sealed = TRUE]
      OBVIOUS
    <3>3. q.st = child[id].st /\ q.base = child[id].base /\ q.sealed
      <4>1. PICK r : r = child[id]
        OBVIOUS
      <4>2. r \in ChildRuns /\ q = [r EXCEPT !.sealed = TRUE]
        BY <1>5, <3>2, <4>1
      <4>3. q.st = r.st /\ q.base = r.base
        BY <4>2 DEF ChildRuns
      <4>4. q.sealed
        BY <4>2, Zenon DEF ChildRuns
      <4> QED
        BY <4>1, <4>3, <4>4
    <3>4. child'[id] = q /\ \A x \in Commits \ {id} : child'[x] = child[x]
      BY <1>5, <3>1, <3>2
    <3> QED
      BY <3>3, <3>4 DEF Steady
  <2> QED
    BY <1>1, <1>4, <2>1, <2>2, <2>3, <2>4 DEF SpawnChild, ChildRaises, JudgeChild
<1>7. HistoriesOK' /\ UnusedOK' /\ OutcomesOK' /\ latest' = latest
  BY <1>2, <1>6, FilesKept DEF EInv
<1>8. /\ latest'[k.c] # Null /\ latest'[k.c].life # "finalizing"
      /\ latest'[k.c].base = k.base /\ latest'[k.c].done = k.done
      /\ Verified(k.base, k.done, k.head)'
  BY <1>1, <1>2, <1>6, <1>7, AtTask
<1>9. CASE \E p \in {"child", "seal", "judge"} : Become(w, [k EXCEPT !.pc = p])
  BY <1>3, <1>7, <1>8, <1>9, TaskMoves
<1>10. CASE \E status \in {"blocked", "failed"} : Record(w, k, status)
  BY <1>3, <1>7, <1>8, <1>10, RecordMoves DEF EInv
<1>11. CASE UNCHANGED child /\ ChildVerified(id, k.head) /\ Completed(id) /\ Accept(w, k)
  BY <1>3, <1>4, <1>7, <1>8, <1>11, AcceptMoves
<1>12. CASE UNCHANGED child /\ ChildVerified(id, k.head) /\ ~Completed(id) /\ Terminalize(w, k)
  BY <1>3, <1>4, <1>7, <1>8, <1>12, TerminalizeMoves
<1> QED
  BY <1>1, <1>4, <1>9, <1>10, <1>11, <1>12
     DEF SpawnChild, ChildEnds, ChildRaises, SealChild, JudgeChild

\* A finished cycle has a verified finalizing checkpoint.
LEMMA FinishedLoads ==
  ASSUME EInv, NEW c \in Cycles, Finished(latest, c)
  PROVE  Loadable(c) /\ LoadedCkpt(c) = latest[c] /\ latest[c] \in Ckpts /\ CkptOK(latest[c])
<1>1. hist \in [Cycles -> Seq(GoodPairs)]
  BY DEF EInv, IInv, FilesOK
<1>2. Loadable(c) /\ LoadedCkpt(c) = latest[c]
  BY <1>1, LatestLoaded DEF Finished
<1>3. latest[c] \in Ckpts /\ CkptOK(latest[c])
  BY <1>2, LoadedOK
<1> QED
  BY <1>2, <1>3

\* Receipt r replaces the one of cycle c.
LEMMA ReceiptWritten ==
  ASSUME EInv, WInv, UNCHANGED <<dirs, hist, child>>, NEW c \in dirs, NEW r,
         receipt' = [receipt EXCEPT ![c] = r], ReceiptOK(latest, c, r), EdgeOK(r)
  PROVE  HistoriesOK' /\ UnusedOK' /\ OutcomesOK' /\ latest' = latest
<1>1. latest' = latest /\ HistoriesOK'
  BY DEF latest, WInv, HistoriesOK, Shaped
<1>2. c \in Cycles /\ receipt'[c] = r /\ \A d \in Cycles \ {c} : receipt'[d] = receipt[d]
  BY DEF EInv, IInv, FilesOK
<1>3. UnusedOK'
  BY <1>1, <1>2 DEF WInv, UnusedOK
<1>4. ASSUME NEW d \in Cycles, NEW q, q = receipt'[d], q # Null
      PROVE  ReceiptOK(latest, d, q) /\ EdgeOK(q)'
  <2>1. ReceiptOK(latest, d, q) /\ EdgeOK(q)
    BY <1>2, <1>4 DEF WInv, OutcomesOK
  <2> QED
    BY <2>1 DEF EdgeOK, Verified, Sound, ChainFrom, CommitExists, Parent, ChildSealedAs
<1>5. OutcomesOK'
  BY <1>1, <1>4 DEF OutcomesOK
<1> QED
  BY <1>1, <1>3, <1>5

\* _recover_terminal_pair.
LEMMA PublishMoves ==
  ASSUME OneWorkerOnly, EInv, WInv, NEW w \in Workers,
         ReloadTerminal(w) \/ CheckPair(w) \/ PairJson(w) \/ PairSha(w)
  PROVE  WInv'
<1>1. PICK k : k = wk[w]
  OBVIOUS
<1>2. k.pc \in {"reload", "pair", "pair_both", "pair_json", "pair_sha"} /\ UNCHANGED <<dirs, child>>
  BY <1>1 DEF ReloadTerminal, CheckPair, PairJson, PairSha, At, store
<1>3. k \in Locals /\ k.c \in Cycles /\ k.c \in dirs
  BY <1>1, <1>2 DEF EInv, IInv, WorkerOK, FilesOK
<1>4. Finished(latest, k.c) /\ WorkerPlaced(k)
  BY <1>1, <1>2 DEF WInv, WorkerPlaced, Place
<1>5. Loadable(k.c) /\ LoadedCkpt(k.c) = latest[k.c] /\ CkptOK(latest[k.c])
  BY <1>3, <1>4, FinishedLoads
<1>6. Steady(child, child')
  BY <1>2 DEF Steady
<1>7. ASSUME ReloadTerminal(w) \/ CheckPair(w) \/ PairSha(w)
      PROVE  HistoriesOK' /\ UnusedOK' /\ OutcomesOK' /\ latest' = latest
  <2>1. hist' \in {hist, Cleaned({k.c})} /\ UNCHANGED receipt
    BY <1>1, <1>7 DEF ReloadTerminal, CheckPair, PairSha, store
  <2> QED
    BY <1>2, <1>6, <2>1, FilesKept DEF EInv
<1>8. CASE ReloadTerminal(w)
  <2>1. PICK s : s = LoadedCkpt(k.c)
    OBVIOUS
  <2>2. PICK l : l = [k EXCEPT !.pc = "pair", !.ck = s]
    OBVIOUS
  <2>3. l.pc = "pair" /\ l.c = k.c /\ l.ck = s
    BY <1>3, <2>2 DEF Locals
  <2>4. Become(w, l)
    BY <1>1, <1>5, <1>8, <2>1, <2>2 DEF ReloadTerminal
  <2>5. WorkerPlaced(l)'
    BY <1>4, <1>5, <1>7, <1>8, <2>1, <2>3 DEF WorkerPlaced, Place, NothingBefore
  <2> QED
    BY <1>7, <1>8, <2>4, <2>5, Moves DEF EInv
<1>9. CASE CheckPair(w)
  <2>1. k.ck = latest[k.c]
    BY <1>1, <1>4, <1>9 DEF CheckPair, At, WorkerPlaced, Place
  <2>2. CASE Become(w, Idle)
    BY <1>7, <1>9, <2>2, IdleMoves DEF EInv
  <2>3. CASE ~Become(w, Idle)
    <3>1. PICK r : r = TerminalReceipt(k.ck)
      OBVIOUS
    <3>2. PICK p \in {"pair_both", "pair_json", "pair_sha"} :
            Become(w, [k EXCEPT !.out = r, !.ck = Null, !.pc = p])
      BY <1>1, <1>9, <2>3, <3>1 DEF CheckPair
    <3>3. PICK l : l = [k EXCEPT !.out = r, !.ck = Null, !.pc = p]
      OBVIOUS
    <3>4. l.pc = p /\ l.c = k.c /\ l.out = r
      BY <1>3, <3>3 DEF Locals
    <3>5. WorkerPlaced(l)'
      BY <1>4, <1>7, <1>9, <2>1, <3>1, <3>4 DEF WorkerPlaced, Place, NothingBefore
    <3> QED
      BY <1>7, <1>9, <3>2, <3>3, <3>5, Moves DEF EInv
  <2> QED
    BY <2>2, <2>3
<1>10. CASE PairSha(w)
  BY <1>7, <1>10, IdleMoves DEF PairSha, EInv
<1>11. CASE PairJson(w)
  <2>1. PICK r : r = k.out
    OBVIOUS
  <2>2. r = TerminalReceipt(latest[k.c])
    BY <1>1, <1>4, <1>11, <2>1 DEF PairJson, WorkerPlaced, Place
  <2>3. ReceiptOK(latest, k.c, r)
    BY <1>4, <2>2 DEF ReceiptOK, TerminalReceipt
  <2>4. EdgeOK(r)
    BY <1>5, <2>2 DEF EdgeOK, TerminalReceipt, CkptOK
  <2>5. receipt' = [receipt EXCEPT ![k.c] = r] /\ UNCHANGED hist
    BY <1>1, <1>11, <2>1 DEF PairJson
  <2>6. HistoriesOK' /\ UnusedOK' /\ OutcomesOK' /\ latest' = latest
    BY <1>2, <1>3, <2>3, <2>4, <2>5, ReceiptWritten
  <2>7. CASE Become(w, Idle)
    BY <2>6, <2>7, IdleMoves DEF EInv
  <2>8. CASE Become(w, [k EXCEPT !.pc = "pair_sha"])
    <3>1. PICK l : l = [k EXCEPT !.pc = "pair_sha"]
      OBVIOUS
    <3>2. l.pc = "pair_sha" /\ l.c = k.c /\ l.out = r
      BY <1>3, <2>1, <3>1 DEF Locals
    <3>3. WorkerPlaced(l)'
      BY <1>4, <2>2, <2>6, <3>2 DEF WorkerPlaced, Place, NothingBefore
    <3> QED
      BY <2>6, <2>8, <3>1, <3>3, Moves DEF EInv
  <2> QED
    BY <1>1, <1>11, <2>7, <2>8 DEF PairJson
<1> QED
  BY <1>8, <1>9, <1>10, <1>11

\* The two writes of record().
LEMMA RecordFilesMoves ==
  ASSUME OneWorkerOnly, EInv, WInv, NEW w \in Workers, RecordJson(w) \/ RecordSha(w)
  PROVE  WInv'
<1>1. PICK k : k = wk[w]
  OBVIOUS
<1>2. k.pc \in {"rec_json", "rec_sha"} /\ UNCHANGED <<dirs, hist, child>>
  BY <1>1 DEF RecordJson, RecordSha, At
<1>3. k \in Locals /\ k.c \in Cycles /\ k.c \in dirs
  BY <1>1, <1>2 DEF EInv, IInv, WorkerOK, FilesOK
<1>4. CASE RecordJson(w)
  <2>1. PICK r : r = k.out
    OBVIOUS
  <2>2. ReceiptOK(latest, k.c, r) /\ EdgeOK(r)
    BY <1>1, <1>4, <2>1 DEF RecordJson, At, WInv, WorkerPlaced, Place, ReceiptOK
  <2>3. receipt' = [receipt EXCEPT ![k.c] = r]
    BY <1>1, <1>4, <2>1 DEF RecordJson
  <2>4. HistoriesOK' /\ UnusedOK' /\ OutcomesOK' /\ latest' = latest
    BY <1>2, <1>3, <2>2, <2>3, ReceiptWritten
  <2>5. PICK l : l = [k EXCEPT !.pc = "rec_sha"]
    OBVIOUS
  <2>6. l.pc = "rec_sha"
    BY <1>3, <2>5 DEF Locals
  <2>7. WorkerPlaced(l)'
    BY <2>6 DEF WorkerPlaced, Place, NothingBefore
  <2>8. Become(w, l)
    BY <1>1, <1>4, <2>5 DEF RecordJson
  <2> QED
    BY <2>4, <2>7, <2>8, Moves DEF EInv
<1>5. CASE RecordSha(w)
  <2>1. Steady(child, child') /\ UNCHANGED receipt /\ Become(w, Idle)
    BY <1>2, <1>5 DEF Steady, RecordSha
  <2>2. HistoriesOK' /\ UnusedOK' /\ OutcomesOK'
    BY <1>2, <2>1, FilesKept DEF EInv
  <2> QED
    BY <2>1, <2>2, IdleMoves DEF EInv
<1> QED
  BY <1>4, <1>5

\* The two writes of write_checkpoint.
LEMMA CheckpointWritten ==
  ASSUME EInv, WInv, NEW w \in Workers, NEW k, k = wk[w], CkptJson(w) \/ CkptSha(w)
  PROVE  /\ k \in Locals /\ k.c \in Cycles /\ k.c \in dirs /\ k.ck \in GoodCkpts
         /\ Place(latest, k) /\ k.pc \in {"ckpt_json", "ckpt_sha"}
         /\ Shaped' /\ \A c \in Cycles : Keeps(hist[c], hist'[c])
         /\ CkptJson(w) => latest' = latest /\ Writing(hist'[k.c], [k EXCEPT !.pc = "ckpt_sha"])
         /\ CkptSha(w) => latest' = [latest EXCEPT ![k.c] = k.ck]
<1>1. k.pc \in {"ckpt_json", "ckpt_sha"}
  BY DEF CkptJson, CkptSha, At
<1>2. /\ k \in Locals /\ k.c \in dirs /\ k.c \in Cycles
      /\ k.ck \in GoodCkpts /\ k.seq \in Nat \ {0}
  BY <1>1 DEF EInv, IInv, FilesOK, WorkerOK, Locals
<1>3. PICK h \in Seq(GoodPairs) : h = hist[k.c]
  BY <1>2 DEF EInv, IInv, FilesOK
<1>4. Shape(h) /\ Writing(h, k) /\ Place(latest, k)
  BY <1>1, <1>2, <1>3 DEF WInv, HistoriesOK, Shaped, WorkerPlaced
<1>5. PICK g : g = hist'[k.c]
  OBVIOUS
<1>6. \A d \in Cycles \ {k.c} : hist'[d] = hist[d]
  BY <1>2 DEF CkptJson, CkptSha, EInv, IInv, FilesOK
<1>7. ASSUME CkptJson(w)
      PROVE  /\ Shape(g) /\ Keeps(h, g) /\ LatestOf(g) = LatestOf(h)
             /\ Writing(g, [k EXCEPT !.pc = "ckpt_sha"])
  <2>1. AllSealed(h) /\ k.seq = Len(h) + 1
    BY <1>4, <1>7 DEF CkptJson, At, Writing
  <2>2. g = PutJson(h, Len(h) + 1, k.ck)
    BY <1>2, <1>3, <1>5, <1>7, <2>1 DEF CkptJson, EInv, IInv, FilesOK
  <2>3. /\ Shape(g) /\ LatestOf(g) = LatestOf(h) /\ Keeps(h, g)
        /\ Len(g) = Len(h) + 1 /\ g[Len(g)].json = k.ck /\ g[Len(g)].sha = Null
    BY <1>2, <2>1, <2>2, PutJsonHistory
  <2>4. PICK l : l = [k EXCEPT !.pc = "ckpt_sha"]
    OBVIOUS
  <2>5. l.pc = "ckpt_sha" /\ l.seq = k.seq /\ l.ck = k.ck
    BY <1>2, <2>4 DEF Locals
  <2>6. Writing(g, l)
    BY <2>1, <2>3, <2>5 DEF Writing
  <2> QED
    BY <2>3, <2>4, <2>6
<1>8. ASSUME CkptSha(w) PROVE Shape(g) /\ Keeps(h, g) /\ LatestOf(g) = k.ck
  <2>1. k.seq = Len(h) /\ h[Len(h)].json = k.ck /\ h[Len(h)].sha = Null
    BY <1>4, <1>8 DEF CkptSha, At, Writing
  <2>2. g = PutSha(h, Len(h), k.ck) /\ h # <<>>
    BY <1>2, <1>3, <1>5, <1>8, <2>1 DEF CkptSha, EInv, IInv, FilesOK
  <2> QED
    BY <1>2, <1>4, <2>1, <2>2, PutShaHistory
<1>9. Shaped' /\ \A c \in Cycles : Keeps(hist[c], hist'[c])
  <2>1. \A d \in Cycles : Shape(hist[d])
    BY DEF WInv, HistoriesOK, Shaped
  <2>2. ASSUME NEW d \in Cycles PROVE Shape(hist'[d]) /\ Keeps(hist[d], hist'[d])
    <3>1. CASE d = k.c
      BY <1>3, <1>5, <1>7, <1>8, <3>1
    <3>2. CASE d # k.c
      <4>1. hist'[d] = hist[d]
        BY <1>6, <3>2
      <4> QED
        BY <2>1, <4>1 DEF Keeps
    <3> QED
      BY <3>1, <3>2
  <2> QED
    BY <2>2 DEF Shaped
<1>10. CkptJson(w) => latest' = latest
  <2>1. ASSUME CkptJson(w), NEW d \in Cycles PROVE LatestOf(hist'[d]) = LatestOf(hist[d])
    BY <1>3, <1>5, <1>6, <1>7, <2>1
  <2> QED
    BY <2>1 DEF latest
<1>11. CkptSha(w) => latest' = [latest EXCEPT ![k.c] = k.ck]
  <2>1. ASSUME CkptSha(w), NEW d \in Cycles
        PROVE  LatestOf(hist'[d]) = IF d = k.c THEN k.ck ELSE LatestOf(hist[d])
    BY <1>3, <1>5, <1>6, <1>8, <2>1
  <2> QED
    BY <1>2, <2>1 DEF latest
<1> QED
  BY <1>1, <1>2, <1>4, <1>5, <1>7, <1>9, <1>10, <1>11

\* The next checkpoint of a cycle keeps every line, and every finished cycle.
LEMMA LineGrows ==
  ASSUME NEW L \in [Cycles -> GoodCkpts \cup {Null}], \A d \in Cycles : LineOK(L, d),
         NEW c \in Cycles, NEW t \in GoodCkpts, Opens(L, c, t) \/ Continues(L, c, t),
         NEW M, M = [L EXCEPT ![c] = t]
  PROVE  /\ \A d \in Cycles : LineOK(M, d)
         /\ \A d \in Cycles : Finished(L, d) => d # c /\ Finished(M, d) /\ M[d] = L[d]
<1>1. M[c] = t /\ \A d \in Cycles \ {c} : M[d] = L[d]
  OBVIOUS
<1>2. \A d \in Cycles : Finished(L, d) => d # c /\ Finished(M, d) /\ M[d] = L[d]
  BY <1>1 DEF Opens, Continues, Finished
<1>3. t # Null /\ Null \notin GoodCkpts
  BY NullAssumption DEF GoodCkpts
<1>4. \A d \in Cycles : L[d] # Null =>
        /\ L[d].done \in Seq(Commits) /\ Len(L[d].done) \in Nat
        /\ \A i \in 1..Len(L[d].done) : L[d].done[i][1] \in Cycles
  <2> SUFFICES ASSUME NEW d \in Cycles, L[d] # Null
               PROVE  /\ L[d].done \in Seq(Commits) /\ Len(L[d].done) \in Nat
                      /\ \A i \in 1..Len(L[d].done) : L[d].done[i][1] \in Cycles
    OBVIOUS
  <2>1. L[d].done \in Chains
    BY DEF GoodCkpts, Ckpts
  <2>2. PICK s \in Seq(Commits) : s = L[d].done /\ Len(s) \in Nat
    BY <2>1, ChainLength
  <2>3. \A i \in 1..Len(s) : s[i] \in Commits
    BY <2>2
  <2> QED
    BY <2>2, <2>3 DEF Commits
\* Tasks of L's line at their places, of finished cycles or of the line's own.
<1>5. ASSUME NEW d \in Cycles, L[d] # Null, NEW i \in 1..Len(L[d].done)
      PROVE  /\ L[d].done[i][2] = i
             /\ L[d].done[i][1] = d \/ Finished(M, L[d].done[i][1])
             /\ Finished(L, d) => Finished(M, L[d].done[i][1])
  <2>1. L[d].done[i][2] = i /\ (L[d].done[i][1] = d \/ Finished(L, L[d].done[i][1]))
    BY <1>5 DEF LineOK
  <2>2. L[d].done[i][1] \in Cycles
    BY <1>4, <1>5
  <2> QED
    BY <1>2, <2>1, <2>2
<1>6. ASSUME NEW d \in Cycles, d # c PROVE LineOK(M, d)
  <2>1. M[d] = L[d] /\ LineOK(L, d)
    BY <1>1, <1>6
  <2>2. ASSUME L[d] # Null
        PROVE  /\ L[d].life = "finalizing" =>
                    L[d].term # "none" /\ (L[d].term = "completed" <=> Len(L[d].done) = TaskCount)
               /\ Supervised => L[d].base = Anchor
    BY <2>1, <2>2 DEF LineOK
  <2>3. ASSUME L[d] # Null
        PROVE  \A i \in 1..Len(L[d].done) :
                 L[d].done[i][2] = i /\ (L[d].done[i][1] = d \/ Finished(M, L[d].done[i][1]))
    BY <1>5, <2>3
  <2>4. PICK s : s = L[d]
    OBVIOUS
  <2> QED
    BY <2>1, <2>2, <2>3, <2>4 DEF LineOK
<1>7. LineOK(M, c)
  <2>1. CASE Opens(L, c, t)
    <3>1. t.life = "initialized" /\ (Supervised => t.base = Anchor)
      BY <2>1 DEF Opens
    <3>2. ASSUME NEW i \in 1..Len(t.done)
          PROVE  t.done[i][2] = i /\ (t.done[i][1] = c \/ Finished(M, t.done[i][1]))
      <4>1. t.done # <<>>
        BY <3>2
      <4>2. PICK p \in Cycles \ {c} : Finished(L, p) /\ t.done = L[p].done
        BY <2>1, <4>1 DEF Opens
      <4>3. L[p] # Null /\ i \in 1..Len(L[p].done)
        BY <3>2, <4>2 DEF Finished
      <4> QED
        BY <1>5, <4>2, <4>3
    <3> QED
      BY <1>1, <3>1, <3>2 DEF LineOK
  <2>2. CASE Continues(L, c, t)
    <3>1. L[c] # Null /\ LineOK(L, c) /\ t.base = L[c].base
      BY <2>2 DEF Continues
    <3>2. PICK s \in Seq(Commits) : s = L[c].done /\ Len(s) \in Nat
      BY <1>4, <3>1
    <3>3. \A i \in 1..Len(s) : s[i][2] = i /\ (s[i][1] = c \/ Finished(M, s[i][1]))
      BY <1>5, <3>1, <3>2
    <3>4. CASE t.done = s
      <4>1. t.life = "finalizing" => t.term # "none" /\ (t.term = "completed" <=> Len(t.done) = TaskCount)
        BY <2>2 DEF Continues
      <4> QED
        BY <1>1, <3>1, <3>3, <3>4, <4>1 DEF LineOK
    <3>5. CASE t.life = "accepted_task" /\ t.done = Append(s, <<c, Len(s) + 1>>)
      <4>1. PICK q : q = <<c, Len(s) + 1>>
        OBVIOUS
      <4>2. \A i \in 1..Len(Append(s, q)) :
              Append(s, q)[i] = IF i = Len(s) + 1 THEN q ELSE s[i]
        BY <3>2
      <4>3. \A i \in 1..Len(Append(s, q)) : i \in 1..Len(s) \/ i = Len(s) + 1
        BY <3>2
      <4>4. q[1] = c /\ q[2] = Len(s) + 1
        BY <4>1
      <4>5. \A i \in 1..Len(t.done) : t.done[i][2] = i /\ (t.done[i][1] = c \/ Finished(M, t.done[i][1]))
        <5>1. PICK d : d = Append(s, q)
          OBVIOUS
        <5>2. t.done = d
          BY <3>5, <4>1, <5>1
        <5>3. ASSUME NEW i \in 1..Len(d) PROVE d[i][2] = i /\ (d[i][1] = c \/ Finished(M, d[i][1]))
          <6>1. CASE i = Len(s) + 1
            <7>1. d[i] = q
              BY <4>2, <5>1, <5>3, <6>1
            <7> QED
              BY ONLY <4>4, <6>1, <7>1
          <6>2. CASE i # Len(s) + 1
            <7>1. i \in 1..Len(s) /\ d[i] = s[i]
              BY <4>2, <4>3, <5>1, <5>3, <6>2
            <7> QED
              BY ONLY <3>3, <7>1
          <6> QED
            BY <6>1, <6>2
        <5> QED
          BY ONLY <5>2, <5>3
      <4> QED
        BY <1>1, <3>1, <3>5, <4>5 DEF LineOK
    <3> QED
      BY <2>2, <3>2, <3>4, <3>5 DEF Continues
  <2> QED
    BY <2>1, <2>2
<1> QED
  BY <1>2, <1>6, <1>7

\* Every cycle has a latest checkpoint or none.
LEMMA LatestType ==
  ASSUME IInv
  PROVE  latest \in [Cycles -> GoodCkpts \cup {Null}]
<1>1. hist \in [Cycles -> Seq(GoodPairs)]
  BY DEF IInv, FilesOK
<1>2. \A c \in Cycles : latest[c] \in GoodCkpts \cup {Null}
  BY <1>1, LatestLoaded
<1> QED
  BY <1>2 DEF latest

\* The two writes of write_checkpoint.
LEMMA CheckpointFilesMoves ==
  ASSUME OneWorkerOnly, EInv, WInv, NEW w \in Workers, CkptJson(w) \/ CkptSha(w)
  PROVE  WInv'
<1>1. PICK k : k = wk[w]
  OBVIOUS
<1>2. /\ k \in Locals /\ k.c \in Cycles /\ k.c \in dirs /\ k.ck \in GoodCkpts
      /\ Place(latest, k) /\ k.pc \in {"ckpt_json", "ckpt_sha"} /\ Shaped'
      /\ CkptJson(w) => latest' = latest /\ Writing(hist'[k.c], [k EXCEPT !.pc = "ckpt_sha"])
      /\ CkptSha(w) => latest' = [latest EXCEPT ![k.c] = k.ck]
  BY <1>1, CheckpointWritten
<1>3. UNCHANGED <<dirs, receipt, child>>
  BY DEF CkptJson, CkptSha
<1>4. /\ Opens(latest, k.c, k.ck) \/ Continues(latest, k.c, k.ck)
      /\ k.ck.base = k.base /\ k.ck.done = k.done
  BY <1>2 DEF Place
<1>5. latest \in [Cycles -> GoodCkpts \cup {Null}]
  BY LatestType DEF EInv
<1>6. /\ HistoriesOK'
      /\ \A d \in Cycles : Finished(latest, d) => Finished(latest', d) /\ latest'[d] = latest[d]
      /\ \A d \in Cycles : d # k.c => latest'[d] = latest[d]
  <2>1. \A d \in Cycles : LineOK(latest, d)
    BY DEF WInv, HistoriesOK
  <2>2. CASE CkptJson(w)
    BY <1>2, <2>1, <2>2 DEF HistoriesOK
  <2>3. CASE CkptSha(w)
    <3>1. PICK L : L = latest
      OBVIOUS
    <3>2. PICK M : M = latest'
      OBVIOUS
    <3>3. M = [L EXCEPT ![k.c] = k.ck]
      BY <1>2, <2>3, <3>1, <3>2
    <3>4. /\ \A d \in Cycles : LineOK(M, d)
          /\ \A d \in Cycles : Finished(L, d) => d # k.c /\ Finished(M, d) /\ M[d] = L[d]
      <4>1. /\ L \in [Cycles -> GoodCkpts \cup {Null}] /\ \A d \in Cycles : LineOK(L, d)
            /\ Opens(L, k.c, k.ck) \/ Continues(L, k.c, k.ck)
        BY <1>4, <1>5, <2>1, <3>1
      <4>2. k.c \in Cycles /\ k.ck \in GoodCkpts
        BY <1>2
      <4>3. PICK c \in Cycles, t \in GoodCkpts : c = k.c /\ t = k.ck
        BY <4>2
      <4>4. (Opens(L, c, t) \/ Continues(L, c, t)) /\ M = [L EXCEPT ![c] = t]
        BY <3>3, <4>1, <4>3
      <4>5. \A d \in Cycles : LineOK(M, d)
        BY <4>1, <4>4, LineGrows
      <4>6. \A d \in Cycles : Finished(L, d) => d # c
        BY <4>1, <4>4, LineGrows
      <4>7. \A d \in Cycles : Finished(L, d) => Finished(M, d)
        BY <4>1, <4>4, LineGrows
      <4>8. \A d \in Cycles : Finished(L, d) => M[d] = L[d]
        BY <4>1, <4>4, LineGrows
      <4> QED
        BY <4>3, <4>5, <4>6, <4>7, <4>8
    <3>5. \A d \in Cycles : d # k.c => M[d] = L[d]
      BY <1>5, <3>1, <3>3
    <3>6. HistoriesOK'
      BY <1>2, <3>2, <3>4 DEF HistoriesOK
    <3> QED
      BY <3>1, <3>2, <3>4, <3>5, <3>6
  <2> QED
    BY <2>2, <2>3
<1>7. UnusedOK'
  BY <1>2, <1>3, <1>6 DEF WInv, UnusedOK
<1>8. ASSUME NEW d \in Cycles, NEW r, r = receipt'[d], r # Null
      PROVE  ReceiptOK(latest', d, r) /\ EdgeOK(r)'
  <2>1. ReceiptOK(latest, d, r) /\ EdgeOK(r)
    BY <1>3, <1>8 DEF WInv, OutcomesOK
  <2>2. ReceiptOK(latest', d, r)
    BY <1>6, <2>1 DEF ReceiptOK
  <2> QED
    BY <1>3, <2>1, <2>2 DEF EdgeOK, Verified, Sound, ChainFrom, CommitExists, Parent, ChildSealedAs
<1>9. OutcomesOK'
  BY <1>8 DEF OutcomesOK
<1>10. CASE CkptJson(w)
  <2>1. PICK l : l = [k EXCEPT !.pc = "ckpt_sha"]
    OBVIOUS
  <2>2. l.pc = "ckpt_sha" /\ l.c = k.c /\ l.ck = k.ck /\ l.base = k.base /\ l.done = k.done
    BY <1>2, <2>1 DEF Locals
  <2>3. Writing(hist'[l.c], l) /\ latest' = latest
    BY <1>2, <1>10, <2>1, <2>2
  <2>4. WorkerPlaced(l)'
    BY <1>4, <2>2, <2>3 DEF WorkerPlaced, Place, NothingBefore
  <2>5. Become(w, l)
    BY <1>1, <1>10, <2>1 DEF CkptJson
  <2> QED
    BY <1>6, <1>7, <1>9, <2>4, <2>5, Moves DEF EInv
<1>11. CASE CkptSha(w)
  <2>1. PICK p : p = After(k.ck)
    OBVIOUS
  <2>2. PICK ck : ck = IF k.ck.life = "finalizing" THEN k.ck ELSE Null
    OBVIOUS
  <2>3. PICK gd : gd = (k.guarded /\ k.ck.life = "finalizing")
    OBVIOUS
  <2>4. PICK l : l = [k EXCEPT !.pc = p, !.seq = 0, !.ck = ck, !.guarded = gd]
    OBVIOUS
  <2>5. l.pc = p /\ l.c = k.c /\ l.ck = ck /\ l.base = k.base /\ l.done = k.done
    BY <1>2, <2>4 DEF Locals
  <2>6. Become(w, l)
    BY <1>1, <1>11, <2>1, <2>2, <2>3, <2>4 DEF CkptSha
  <2>7. /\ k.ck.life \in Lives /\ k.ck # Null
        /\ p \in {"loop", "spawn"} => k.ck.life # "finalizing"
        /\ p \in {"pair", "reload"} => k.ck.life = "finalizing"
        /\ p \in {"loop", "spawn", "pair", "reload"}
    <3>1. k.ck \in Ckpts
      BY <1>2 DEF GoodCkpts
    <3>2. k.ck.life \in Lives /\ k.ck # Null
      BY <3>1, NullAssumption DEF Ckpts
    <3> QED
      BY <2>1, <3>2 DEF After, Lives
  <2>8. latest'[k.c] = k.ck
    BY <1>2, <1>5, <1>11
  <2>9. WorkerPlaced(l)'
    BY <1>4, <2>2, <2>5, <2>7, <2>8 DEF WorkerPlaced, Place, NothingBefore, Finished
  <2> QED
    BY <1>6, <1>7, <1>9, <2>6, <2>9, Moves DEF EInv
<1> QED
  BY <1>10, <1>11

\* A cycle is classified by its own files and those of its child runs.
LEMMA SameClass ==
  ASSUME UNCHANGED <<hist, receipt, sidecar, child>>, NEW d
  PROVE  Classify(d)' = Classify(d)
BY DEF Classify, ReceiptRead, IsPreTask, TerminalResumable, HistorySealed, AllSealed, Sealed,
       SameTerminal, ChildSealedAs

\* A cycle with a receipt that neither is active nor settled did not progress.
LEMMA NoProgressClass ==
  ASSUME NEW d, receipt[d] # Null,
         Classify(d) \notin {"INVALID", "ACTIVE", "COMPLETED", "TASK_TERMINAL", "TASK_TERMINAL_RESUMABLE"}
  PROVE  Classify(d) = "PRE_TASK_NO_PROGRESS"
<1>1. ReceiptRead(d) \in {"verified", "error"}
  BY DEF ReceiptRead
<1>2. ReceiptRead(d) # "error"
  BY DEF Classify
<1> QED
  BY <1>1, <1>2 DEF Classify

\* A launch takes a new cycle, or one to resume.
LEMMA LaunchMoves ==
  ASSUME OneWorkerOnly, EInv, WInv, NEW w \in Workers, Launch(w)
  PROVE  WInv'
<1>1. UNCHANGED <<hist, receipt, sidecar, child>> /\ dirs \subseteq dirs'
  BY DEF Launch, StartFresh, StartTerminalResume, StartResume, NewCycle, store
<1>2. HistoriesOK' /\ UnusedOK' /\ OutcomesOK' /\ latest' = latest
  <2>1. Steady(child, child')
    BY <1>1 DEF Steady
  <2> QED
    BY <1>1, <2>1, FilesKept DEF EInv
<1>3. Idle \in Locals /\ Idle.done = <<>>
  BY EmptyChain DEF Idle, Locals, PCs, Modes
<1>4. ASSUME NEW mode \in {"fresh", "terminal"}, NEW pred, NewCycle(w, mode, pred),
             mode = "terminal" => pred \in dirs, mode = "fresh" => MayStartFresh
      PROVE  WInv'
  <2>1. PICK c \in Cycles :
          /\ dirs = 1..(c - 1) /\ dirs' = dirs \cup {c}
          /\ Become(w, [Idle EXCEPT !.pc = "preflight", !.c = c, !.mode = mode, !.pred = pred])
    BY <1>4 DEF NewCycle
  <2>2. c \notin dirs
    BY <2>1 DEF Cycles
  <2>3. PICK l : l = [Idle EXCEPT !.pc = "preflight", !.c = c, !.mode = mode, !.pred = pred]
    OBVIOUS
  <2>4. l.pc = "preflight" /\ l.done = <<>> /\ l.c = c /\ l.mode = mode /\ l.pred = pred
    BY <1>3, <2>3 DEF Locals
  <2>5. latest[c] = Null
    BY <2>2 DEF WInv, UnusedOK
  <2>6. Supervised /\ mode = "fresh" => Participating({c})' = {}
    <3> SUFFICES ASSUME Supervised, mode = "fresh", NEW d \in dirs, receipt'[d] # Null
                 PROVE  Classify(d)' = "PRE_TASK_NO_PROGRESS"
      BY <2>1, <2>2 DEF Participating, Observed
    <3>1. Scannable /\ Nonterminal = {} /\ Terminal = {}
      BY <1>4 DEF MayStartFresh
    <3>2. Classify(d) \notin {"INVALID", "ACTIVE", "COMPLETED", "TASK_TERMINAL", "TASK_TERMINAL_RESUMABLE"}
      BY <3>1 DEF Scannable, Nonterminal, Terminal
    <3>3. Classify(d) = "PRE_TASK_NO_PROGRESS"
      BY <1>1, <3>2, NoProgressClass
    <3> QED
      BY <1>1, <3>3, SameClass
  <2>7. NothingBefore(l)'
    BY <2>4, <2>6 DEF NothingBefore
  <2>8. Place(latest, l)
    BY <1>4, <2>2, <2>4, <2>5 DEF Place
  <2>9. WorkerPlaced(l)'
    BY <1>2, <2>4, <2>7, <2>8 DEF WorkerPlaced
  <2> QED
    BY <1>2, <2>1, <2>3, <2>9, Moves DEF EInv
<1>5. CASE StartFresh(w)
  BY <1>4, <1>5 DEF StartFresh
<1>6. CASE StartTerminalResume(w)
  BY <1>4, <1>6 DEF StartTerminalResume
<1>7. CASE StartResume(w)
  <2>1. PICK c : Become(w, [Idle EXCEPT !.pc = "preflight", !.c = c, !.mode = "resume"])
    BY <1>7 DEF StartResume
  <2>2. PICK l : l = [Idle EXCEPT !.pc = "preflight", !.c = c, !.mode = "resume"]
    OBVIOUS
  <2>3. l.pc = "preflight" /\ l.done = <<>> /\ l.mode = "resume"
    BY <1>3, <2>2 DEF Locals
  <2>4. WorkerPlaced(l)'
    BY <2>3 DEF WorkerPlaced, Place, NothingBefore
  <2> QED
    BY <1>2, <2>1, <2>2, <2>4, Moves DEF EInv
<1> QED
  BY <1>5, <1>6, <1>7 DEF Launch

\* Where no receipt takes part, discovery returns the anchor.
LEMMA AnchorDiscovered ==
  ASSUME NEW except, Participating(except) = {}, NEW tip \in Discover(except)
  PROVE  tip = Anchor
<1>1. MaxCycle \in 0..MaxCycle
  BY MaxCycleAssumption
<1>2. Walk(except)[MaxCycle].tip = Anchor
  BY <1>1, WalkTips
<1> QED
  BY <1>2 DEF Discover

\* The first checkpoint of a cycle, with base b, head h and chain d.
LEMMA AdmitMoves ==
  ASSUME OneWorkerOnly, EInv, HistoriesOK', UnusedOK', OutcomesOK', UNCHANGED child,
         NEW w \in Workers, NEW k \in Locals, latest'[k.c] = Null, Admit(w, k),
         Verified(k.base, k.done, k.head), Supervised => k.base = Anchor,
         \/ k.done = <<>>
         \/ \E p \in Cycles \ {k.c} :
              Finished(latest', p) /\ k.base = latest'[p].base /\ k.done = latest'[p].done
  PROVE  WInv'
<1>1. Verified(k.base, k.done, k.head)'
  BY VerifiedKept DEF Steady, Locals
<1>2. CASE Record(w, k, "blocked")
  BY <1>1, <1>2, RecordMoves DEF EInv
<1>3. CASE Checkpoint(w, k, "initialized", "none")
  <2>1. PICK t : t = [life |-> "initialized", base |-> k.base, head |-> k.head,
                      done |-> k.done, term |-> "none", by |-> w]
    OBVIOUS
  <2>2. t.life = "initialized" /\ t.base = k.base /\ t.done = k.done
    BY <2>1
  <2>3. PICK L : L = latest'
    OBVIOUS
  <2>4. Opens(L, k.c, t)
    BY <2>2, <2>3 DEF Opens
  <2> QED
    BY <1>1, <1>3, <2>1, <2>3, <2>4, CheckpointMoves DEF EInv
<1> QED
  BY <1>2, <1>3 DEF Admit

\* A new cycle opens its line, or a resumed one is verified next.
LEMMA PreflightMoves ==
  ASSUME OneWorkerOnly, EInv, WInv, NEW w \in Workers, Preflight(w)
  PROVE  WInv'
<1>1. PICK k : k = wk[w]
  OBVIOUS
<1>2. k.pc = "preflight" /\ UNCHANGED <<dirs, receipt, child>>
  BY <1>1 DEF Preflight, PreflightDirty, PreflightResume, PreflightNew, At, store
<1>3. /\ k \in Locals /\ k.c \in Cycles /\ WorkerPlaced(k) /\ k.done = <<>>
      /\ (k.mode = "terminal" => k.pred \in Cycles /\ k.pred # k.c)
  BY <1>1, <1>2 DEF EInv, IInv, WorkerOK, FilesOK, WInv, WorkerPlaced, Place
<1>4. Steady(child, child')
  BY <1>2 DEF Steady
<1>5. ASSUME NEW cs, hist' \in {hist, Cleaned(cs)}
      PROVE  HistoriesOK' /\ UnusedOK' /\ OutcomesOK' /\ latest' = latest
  BY <1>2, <1>4, <1>5, FilesKept DEF EInv
<1>6. CASE PreflightDirty(w)
  <2>1. UNCHANGED hist /\ Record(w, k, "blocked")
    BY <1>1, <1>6 DEF PreflightDirty
  <2> QED
    BY <1>3, <1>5, <2>1, RecordMoves DEF EInv
<1>7. CASE PreflightResume(w)
  <2>1. PICK l : l = [k EXCEPT !.pc = "verify", !.base = Anchor, !.head = Anchor, !.guarded = TRUE]
    OBVIOUS
  <2>2. UNCHANGED hist /\ Become(w, l) /\ l.pc = "verify" /\ l.done = <<>>
    BY <1>1, <1>3, <1>7, <2>1 DEF PreflightResume, store, Locals
  <2>3. WorkerPlaced(l)'
    BY <2>2 DEF WorkerPlaced, Place, NothingBefore
  <2> QED
    BY <1>5, <2>2, <2>3, Moves DEF EInv
<1>8. CASE PreflightNew(w)
  <2>1. PICK a : a = [k EXCEPT !.base = Anchor, !.head = Anchor]
    OBVIOUS
  <2>2. /\ a \in Locals /\ a.c = k.c /\ a.mode = k.mode /\ a.pred = k.pred /\ a.done = <<>>
    BY <1>3, <2>1 DEF Locals, Heads
  <2>3. PICK cs : hist' = Cleaned(cs)
    BY <1>8 DEF PreflightNew
  <2>4. HistoriesOK' /\ UnusedOK' /\ OutcomesOK' /\ latest' = latest
    BY <1>5, <2>3
  <2>5. latest'[k.c] = Null
    <3>1. a.mode # "resume"
      BY <1>1, <1>8, <2>1 DEF PreflightNew
    <3> QED
      BY <1>2, <1>3, <2>2, <2>4, <3>1 DEF WorkerPlaced, Place
  <2>6. CASE Record(w, a, "blocked")
    BY <2>2, <2>4, <2>6, RecordMoves DEF EInv
  <2>7. ASSUME NEW tip \in Discover({k.c}), a.mode = "fresh", Admit(w, [a EXCEPT !.base = tip, !.head = tip])
        PROVE  WInv'
    <3>1. tip \in Heads /\ CommitExists(tip)
      <4>1. ReceiptsOK
        BY DEF EInv, EvidenceOK
      <4> QED
        BY <2>7, <4>1, TipType, TipAccepted DEF EInv, Made, CommitExists
    <3>2. PICK l : l = [a EXCEPT !.base = tip, !.head = tip]
      OBVIOUS
    <3>3. l \in Locals /\ l.base = tip /\ l.head = tip /\ l.done = <<>> /\ l.c = k.c
      BY <2>2, <3>1, <3>2 DEF Locals
    <3>4. Verified(l.base, l.done, l.head)
      BY <3>1, <3>3 DEF Verified, ChainFrom, LastHead, Sound
    <3>5. Supervised => l.base = Anchor
      <4>1. Supervised => Participating({k.c}) = {}
        BY <1>2, <1>3, <2>2, <2>7 DEF WorkerPlaced, NothingBefore
      <4> QED
        BY <2>7, <3>3, <4>1, AnchorDiscovered
    <3>6. Admit(w, l)
      BY <2>7, <3>2
    <3> QED
      BY <1>2, <2>4, <2>5, <3>3, <3>4, <3>5, <3>6, AdmitMoves
  <2>8. ASSUME a.mode = "terminal", SeedValid(a.pred), NEW s, s = LoadedCkpt(a.pred),
               Admit(w, [a EXCEPT !.base = s.base, !.head = s.head, !.done = s.done])
        PROVE  WInv'
    <3>1. PICK p \in Cycles : p = a.pred /\ p # k.c
      BY <1>3, <2>2, <2>8
    <3>2. Loadable(p) /\ s.life = "finalizing" /\ s \in Ckpts /\ CkptOK(s)
      BY <2>8, <3>1, LoadedOK DEF SeedValid, SameTerminal
    <3>3. latest[p] = s /\ Finished(latest, p)
      <4>1. latest[p] = s /\ latest[p] # Null
        BY <2>8, <3>1, <3>2, LatestLoaded DEF EInv, IInv, FilesOK
      <4> QED
        BY <3>2, <4>1 DEF Finished
    <3>4. PICK l : l = [a EXCEPT !.base = s.base, !.head = s.head, !.done = s.done]
      OBVIOUS
    <3>5. l \in Locals /\ l.base = s.base /\ l.head = s.head /\ l.done = s.done /\ l.c = k.c
      BY <2>2, <3>2, <3>4 DEF Locals, Ckpts
    <3>6. Verified(l.base, l.done, l.head)
      BY <3>2, <3>5 DEF CkptOK
    <3>7. Supervised => l.base = Anchor
      BY <3>3, <3>5 DEF WInv, HistoriesOK, LineOK, Finished
    <3>8. Admit(w, l)
      BY <2>8, <3>4
    <3>9. p \in Cycles \ {l.c} /\ Finished(latest', p) /\ l.base = latest'[p].base /\ l.done = latest'[p].done
      BY <2>4, <3>1, <3>3, <3>5
    <3> QED
      BY <1>2, <2>4, <2>5, <3>5, <3>6, <3>7, <3>8, <3>9, AdmitMoves
  <2>9. ASSUME NEW tip \in Heads, Record(w, [a EXCEPT !.base = tip], "blocked")
        PROVE  WInv'
    <3>1. PICK l : l = [a EXCEPT !.base = tip]
      OBVIOUS
    <3>2. l \in Locals /\ l.done = <<>>
      BY <2>2, <3>1 DEF Locals
    <3> QED
      BY <2>4, <2>9, <3>1, <3>2, RecordMoves DEF EInv
  <2> QED
    BY <1>1, <1>8, <2>1, <2>2, <2>6, <2>7, <2>8, <2>9, TipType DEF PreflightNew
<1> QED
  BY <1>6, <1>7, <1>8 DEF Preflight

\* A resume goes on from the latest checkpoint.
LEMMA VerifyMoves ==
  ASSUME OneWorkerOnly, EInv, WInv, NEW w \in Workers, Verify(w)
  PROVE  WInv'
<1>1. PICK k : k = wk[w]
  OBVIOUS
<1>2. k.pc = "verify" /\ UNCHANGED <<dirs, receipt, child>>
  BY <1>1 DEF Verify, ResumeUnloadable, ResumeDrifted, ResumeRebased, ResumeChainInvalid,
         ResumeLoop, ResumeFinalizing, ResumeActive, Trusted, LoadAndDiscover, At
<1>3. k \in Locals /\ k.c \in Cycles /\ k.done = <<>>
  BY <1>1, <1>2 DEF EInv, IInv, WorkerOK, FilesOK, WInv, WorkerPlaced, Place
<1>4. Steady(child, child')
  BY <1>2 DEF Steady
<1>5. ASSUME NEW cs, hist' \in {hist, Cleaned(cs)}
      PROVE  HistoriesOK' /\ UnusedOK' /\ OutcomesOK' /\ latest' = latest
  BY <1>2, <1>4, <1>5, FilesKept DEF EInv
<1>6. CASE ResumeUnloadable(w) \/ ResumeDrifted(w)
  <2>1. hist' \in {hist, Cleaned({k.c})} /\ Record(w, k, "blocked")
    BY <1>1, <1>6 DEF ResumeUnloadable, ResumeDrifted
  <2> QED
    BY <1>3, <1>5, <2>1, RecordMoves DEF EInv
<1>7. CASE \/ ResumeRebased(w) \/ ResumeChainInvalid(w) \/ ResumeLoop(w)
           \/ ResumeFinalizing(w) \/ ResumeActive(w)
  <2>1. LoadAndDiscover(w)
    BY <1>7 DEF ResumeRebased, ResumeChainInvalid, ResumeLoop, ResumeFinalizing,
                ResumeActive, Trusted
  <2>2. PICK cs : Loadable(k.c) /\ hist' = Cleaned(cs)
    BY <1>1, <2>1 DEF LoadAndDiscover
  <2>3. HistoriesOK' /\ UnusedOK' /\ OutcomesOK' /\ latest' = latest
    BY <1>5, <2>2
  <2>4. PICK s : s = LoadedCkpt(k.c)
    OBVIOUS
  <2>5. s \in Ckpts /\ CkptOK(s)
    BY <1>3, <2>2, <2>4, LoadedOK
  <2>6. latest'[k.c] = s /\ latest'[k.c] # Null /\ s \in GoodCkpts
    BY <1>3, <2>2, <2>3, <2>4, LatestLoaded DEF EInv, IInv, FilesOK
  <2>7. PICK r : r = Restored(k)
    OBVIOUS
  <2>8. r = [k EXCEPT !.base = s.base, !.head = s.head, !.done = s.done]
    BY <2>4, <2>7 DEF Restored
  <2>9. r \in Locals /\ r.c = k.c /\ r.base = s.base /\ r.head = s.head /\ r.done = s.done
    BY <1>3, <2>5, <2>8 DEF Locals, Ckpts
  <2>10. Verified(r.base, r.done, r.head) /\ Verified(r.base, r.done, r.head)'
    <3>1. Verified(r.base, r.done, r.head) /\ r.done \in Chains
      BY <2>5, <2>9 DEF CkptOK, Locals
    <3> QED
      BY <1>4, <3>1, VerifiedKept
  <2>11. CASE ResumeRebased(w)
    <3>1. PICK l : l = [k EXCEPT !.base = s.base]
      OBVIOUS
    <3>2. l \in Locals /\ l.done = <<>>
      BY <1>3, <2>5, <3>1 DEF Locals, Ckpts
    <3>3. Record(w, l, "blocked")
      BY <1>1, <2>4, <2>11, <3>1 DEF ResumeRebased
    <3> QED
      BY <2>3, <3>2, <3>3, RecordMoves DEF EInv
  <2>12. CASE ResumeChainInvalid(w)
    <3>1. Record(w, r, "blocked")
      BY <1>1, <2>7, <2>12 DEF ResumeChainInvalid
    <3> QED
      BY <2>3, <2>9, <2>10, <3>1, RecordMoves DEF EInv
  <2>13. ASSUME s.life # "finalizing"
         PROVE  /\ latest'[r.c] # Null /\ latest'[r.c].life # "finalizing"
                /\ latest'[r.c].base = r.base /\ latest'[r.c].done = r.done
    BY <2>6, <2>9, <2>13
  <2>14. CASE ResumeLoop(w)
    <3>1. PICK m : m = [r EXCEPT !.guarded = FALSE]
      OBVIOUS
    <3>2. m \in Locals /\ m.c = r.c /\ m.base = r.base /\ m.done = r.done
      BY <2>9, <3>1 DEF Locals
    <3>3. [r EXCEPT !.pc = "loop", !.guarded = FALSE] = [m EXCEPT !.pc = "loop"]
      BY <2>9, <3>1 DEF Locals
    <3>4. Become(w, [m EXCEPT !.pc = "loop"])
      BY <1>1, <2>7, <2>14, <3>3 DEF ResumeLoop
    <3>5. s.life # "finalizing"
      BY <1>1, <2>4, <2>14 DEF ResumeLoop, Trusted
    <3>6. /\ latest'[m.c] # Null /\ latest'[m.c].life # "finalizing"
          /\ latest'[m.c].base = m.base /\ latest'[m.c].done = m.done
      BY <2>13, <3>2, <3>5
    <3> QED
      BY <2>3, <3>2, <3>4, <3>6, TaskMoves
  <2>15. CASE ResumeFinalizing(w)
    <3>1. PICK l : l = [r EXCEPT !.pc = "pair", !.ck = s]
      OBVIOUS
    <3>2. Become(w, l) \/ Become(w, Idle)
      BY <1>1, <2>4, <2>7, <2>9, <2>15, <3>1 DEF ResumeFinalizing
    <3>3. l.pc = "pair" /\ l.ck = s /\ l.c = k.c
      BY <2>9, <3>1 DEF Locals
    <3>4. s.life = "finalizing"
      BY <1>1, <2>4, <2>15 DEF ResumeFinalizing, Trusted
    <3>5. WorkerPlaced(l)'
      BY <2>6, <3>3, <3>4 DEF WorkerPlaced, Place, NothingBefore, Finished
    <3> QED
      BY <2>3, <3>2, <3>5, Moves, IdleMoves DEF EInv
  <2>16. CASE ResumeActive(w)
    <3>1. s.life = "active_task" /\ Len(r.done) < TaskCount
      <4>1. s.life = "active_task"
        BY <1>1, <2>4, <2>16 DEF ResumeActive, Trusted
      <4> QED
        BY <2>6, <2>9, <4>1 DEF GoodCkpts
    <3>2. \/ Become(w, [r EXCEPT !.pc = "loop", !.active = TRUE, !.guarded = FALSE])
          \/ Record(w, r, "failed")
          \/ Record(w, r, "blocked")
          \/ ChildVerified(Current(r), r.head) /\ Completed(Current(r)) /\ Accept(w, r)
          \/ ChildVerified(Current(r), r.head) /\ ~Completed(Current(r)) /\ Terminalize(w, r)
      BY <1>1, <2>7, <2>16 DEF ResumeActive
    <3>3. /\ latest'[r.c] # Null /\ latest'[r.c].life # "finalizing"
          /\ latest'[r.c].base = r.base /\ latest'[r.c].done = r.done
      BY <2>13, <3>1
    <3>4. CASE Become(w, [r EXCEPT !.pc = "loop", !.active = TRUE, !.guarded = FALSE])
      <4>1. PICK m : m = [r EXCEPT !.active = TRUE, !.guarded = FALSE]
        OBVIOUS
      <4>2. m \in Locals /\ m.c = r.c /\ m.base = r.base /\ m.done = r.done
        BY <2>9, <4>1 DEF Locals
      <4>3. [r EXCEPT !.pc = "loop", !.active = TRUE, !.guarded = FALSE] = [m EXCEPT !.pc = "loop"]
        BY <2>9, <4>1 DEF Locals
      <4>4. Become(w, [m EXCEPT !.pc = "loop"])
        BY <3>4, <4>3
      <4>5. /\ latest'[m.c] # Null /\ latest'[m.c].life # "finalizing"
            /\ latest'[m.c].base = m.base /\ latest'[m.c].done = m.done
        BY <3>3, <4>2
      <4> QED
        BY <2>3, <4>2, <4>4, <4>5, TaskMoves
    <3>5. CASE Record(w, r, "failed") \/ Record(w, r, "blocked")
      BY <2>3, <2>9, <2>10, <3>5, RecordMoves DEF EInv
    <3>6. CASE ChildVerified(Current(r), r.head) /\ Completed(Current(r)) /\ Accept(w, r)
      BY <1>2, <1>3, <2>3, <2>9, <2>10, <3>1, <3>3, <3>6, AcceptMoves
    <3>7. CASE ChildVerified(Current(r), r.head) /\ ~Completed(Current(r)) /\ Terminalize(w, r)
      BY <1>2, <1>3, <2>3, <2>9, <2>10, <3>1, <3>3, <3>7, TerminalizeMoves
    <3> QED
      BY <3>2, <3>4, <3>5, <3>6, <3>7
  <2> QED
    BY <1>7, <2>11, <2>12, <2>14, <2>15, <2>16
<1> QED
  BY <1>6, <1>7 DEF Verify

\* Initially no cycle has a checkpoint.
LEMMA InitMoves == Init => WInv
<1> SUFFICES ASSUME Init PROVE WInv
  OBVIOUS
<1>1. \A c \in Cycles : hist[c] = <<>> /\ receipt[c] = Null
  BY DEF Init, StoreInit
<1>2. \A c \in Cycles : latest[c] = Null /\ Shape(hist[c])
  BY <1>1 DEF latest, LatestOf, Shape
<1>3. HistoriesOK /\ UnusedOK /\ OutcomesOK
  BY <1>1, <1>2 DEF HistoriesOK, Shaped, LineOK, UnusedOK, OutcomesOK
<1>4. \A w \in Workers : wk[w].pc = "idle"
  BY DEF Init, Idle
<1>5. \A w \in Workers : WorkerPlaced(wk[w])
  BY <1>4 DEF WorkerPlaced, Place, NothingBefore
<1> QED
  BY <1>3, <1>5 DEF WInv

\* Every step keeps the worker next to the latest checkpoints.
LEMMA NextMoves == OneWorkerOnly /\ EInv /\ WInv /\ [Next]_vars => WInv'
<1> SUFFICES ASSUME OneWorkerOnly, EInv, WInv, [Next]_vars PROVE WInv'
  OBVIOUS
<1>1. ASSUME NEW w \in Workers, Launch(w) PROVE WInv'
  BY <1>1, LaunchMoves
<1>2. ASSUME NEW w \in Workers, Work(w) PROVE WInv'
  BY <1>2, PreflightMoves, VerifyMoves, LoopMoves, ChildMoves, CheckpointFilesMoves, PublishMoves,
     RecordFilesMoves DEF Work
<1>3. ASSUME NEW w \in Workers, Kill(w) PROVE WInv'
  <2>1. UNCHANGED <<dirs, hist, receipt, child>> /\ Become(w, Idle)
    BY <1>3 DEF Kill, store
  <2>2. HistoriesOK' /\ UnusedOK' /\ OutcomesOK'
    BY <2>1, FilesKept DEF EInv, Steady
  <2> QED
    BY <2>1, <2>2, IdleMoves DEF EInv
<1>4. CASE UNCHANGED <<store, wk>>
  <2>1. UNCHANGED <<dirs, hist, receipt, child>> /\ UNCHANGED <<sidecar, wk>>
    BY <1>4 DEF store
  <2>2. HistoriesOK' /\ UnusedOK' /\ OutcomesOK' /\ latest' = latest
    BY <2>1, FilesKept DEF EInv, Steady
  <2>3. ASSUME NEW w \in Workers, NEW k, k = wk[w] PROVE WorkerPlaced(k)'
    <3>1. WorkerPlaced(k)
      BY <2>3 DEF WInv
    <3>2. EdgeOK(k.out) => EdgeOK(k.out)'
      BY <2>1 DEF EdgeOK, Verified, Sound, ChainFrom, CommitExists, Parent, ChildSealedAs
    <3>3. NothingBefore(k)'
      <4>1. ASSUME NEW d PROVE Classify(d)' = Classify(d)
        BY <2>1, SameClass
      <4>2. Participating({k.c})' = Participating({k.c})
        BY <2>1, <4>1 DEF Participating, Observed
      <4> QED
        BY <3>1, <4>2 DEF WorkerPlaced, NothingBefore
    <3> QED
      BY <2>1, <2>2, <3>1, <3>2, <3>3 DEF WorkerPlaced
  <2> QED
    BY <2>1, <2>2, <2>3 DEF WInv
<1> QED
  BY <1>1, <1>2, <1>3, <1>4 DEF Next, EditSource, RestoreSource, vars

(***************************************************************************)
(* What the invariant gives: sealed checkpoints are never touched again.   *)
(***************************************************************************)
\* A step cleans up orphans, writes a checkpoint file, or leaves histories alone.
LEMMA HistorySteps ==
  ASSUME [Next]_vars
  PROVE  \/ \E cs : hist' \in {hist, Cleaned(cs)}
         \/ \E w \in Workers : CkptJson(w) \/ CkptSha(w)
<1>1. CASE UNCHANGED hist
  BY <1>1
<1>2. ASSUME NEW w \in Workers, Preflight(w) PROVE \E cs : hist' \in {hist, Cleaned(cs)}
  BY <1>2 DEF Preflight, PreflightDirty, PreflightResume, PreflightNew, store
<1>3. ASSUME NEW w \in Workers, Verify(w) PROVE \E cs : hist' \in {hist, Cleaned(cs)}
  BY <1>3 DEF Verify, ResumeUnloadable, ResumeDrifted, ResumeRebased, ResumeChainInvalid,
     ResumeLoop, ResumeFinalizing, ResumeActive, Trusted, LoadAndDiscover
<1>4. ASSUME NEW w \in Workers, ReloadTerminal(w) PROVE \E cs : hist' \in {hist, Cleaned(cs)}
  BY <1>4 DEF ReloadTerminal
<1>5. ASSUME NEW w \in Workers,
             \/ Launch(w) \/ Kill(w) \/ NextTask(w) \/ FinishQueue(w)
             \/ SpawnChild(w) \/ ChildEnds(w) \/ ChildRaises(w) \/ SealChild(w) \/ JudgeChild(w)
             \/ CheckPair(w) \/ PairJson(w) \/ PairSha(w) \/ RecordJson(w) \/ RecordSha(w)
      PROVE  UNCHANGED hist
  BY <1>5 DEF Launch, StartFresh, StartTerminalResume, StartResume, Kill, NextTask, FinishQueue,
     SpawnChild, ChildEnds, ChildRaises, SealChild, JudgeChild, CheckPair, PairJson, PairSha,
     RecordJson, RecordSha, store
<1> QED
  BY <1>1, <1>2, <1>3, <1>4, <1>5 DEF Next, Work, EditSource, RestoreSource, vars, store

\* Every step keeps the sealed pairs; only a sidecar moves a latest checkpoint.
LEMMA HistoriesKept ==
  ASSUME EInv, WInv, [Next]_vars
  PROVE  /\ Shaped' /\ \A c \in Cycles : Keeps(hist[c], hist'[c])
         /\ latest' = latest \/ \E w \in Workers : CkptSha(w)
<1>1. ASSUME NEW cs, hist' \in {hist, Cleaned(cs)}
      PROVE  Shaped' /\ latest' = latest /\ \A c \in Cycles : Keeps(hist[c], hist'[c])
  BY <1>1, CleanedHistories DEF EInv, WInv, HistoriesOK
<1>2. ASSUME NEW w \in Workers, CkptJson(w) \/ CkptSha(w)
      PROVE  /\ Shaped' /\ \A c \in Cycles : Keeps(hist[c], hist'[c])
             /\ CkptJson(w) => latest' = latest
  <2>1. PICK k : k = wk[w]
    OBVIOUS
  <2> QED
    BY <1>2, <2>1, CheckpointWritten
<1>3. CASE \E cs : hist' \in {hist, Cleaned(cs)}
  BY <1>1, <1>3
<1>4. CASE \E w \in Workers : CkptJson(w) \/ CkptSha(w)
  BY <1>2, <1>4
<1> QED
  BY <1>3, <1>4, HistorySteps

\* The invariants of one worker hold throughout.
LEMMA WorkerInvariant ==
  ASSUME OneWorkerOnly
  PROVE  Spec => [](EInv /\ WInv)
<1>1. Init => EInv /\ WInv
  BY InitEvidence, InitMoves
<1>2. EInv /\ WInv /\ [Next]_vars => EInv' /\ WInv'
  BY NextEvidence, NextMoves
<1> QED
  BY <1>1, <1>2, PTL DEF Spec

\* One worker at a time, killed wherever it may be: write_checkpoint, the
\* clean-up of an orphan and a resume neither change nor remove a sealed pair.
THEOREM SealedPairsStay ==
  ASSUME OneWorkerOnly
  PROVE  Spec => SealedCheckpointsImmutable
<1>1. EInv /\ WInv /\ [Next]_vars =>
        [\A c \in Cycles : \A i \in 1..Len(hist[c]) : Sealed(hist[c][i]) =>
           i <= Len(hist[c]') /\ hist[c]'[i] = hist[c][i]]_vars
  <2> SUFFICES ASSUME EInv, WInv, [Next]_vars, NEW c \in Cycles, NEW i \in 1..Len(hist[c]),
                      Sealed(hist[c][i])
               PROVE  i <= Len(hist[c]') /\ hist[c]'[i] = hist[c][i]
    OBVIOUS
  <2>1. Keeps(hist[c], hist'[c])
    BY HistoriesKept
  <2> QED
    BY <2>1 DEF Keeps
<1> QED
  BY <1>1, WorkerInvariant, PTL DEF Spec, SealedCheckpointsImmutable

(***************************************************************************)
(* Receipts.                                                               *)
(***************************************************************************)
\* A terminal receipt is the image of the finalizing checkpoint of its cycle.
LEMMA ReceiptBacked == EInv /\ WInv => TerminalReceiptBacked
<1> SUFFICES ASSUME EInv, WInv, NEW c \in Cycles, receipt[c] # Null, receipt[c].reason # "other"
             PROVE  /\ Loadable(c) /\ LoadedCkpt(c).life = "finalizing"
                    /\ LET s == LoadedCkpt(c) IN
                         /\ receipt[c].base = s.base /\ receipt[c].head = s.head /\ receipt[c].done = s.done
                         /\ receipt[c].status = TermStatus(s.term)
                         /\ receipt[c].status = "completed" <=> Len(s.done) = TaskCount
  BY DEF TerminalReceiptBacked
<1>1. PICK s : s = LoadedCkpt(c)
  OBVIOUS
<1>2. Finished(latest, c) /\ receipt[c] = TerminalReceipt(latest[c])
  BY DEF WInv, OutcomesOK, ReceiptOK
<1>3. Loadable(c) /\ latest[c] = s /\ s.life = "finalizing"
  BY <1>1, <1>2, FinishedLoads DEF Finished
<1>4. s.term = "completed" <=> Len(s.done) = TaskCount
  BY <1>2, <1>3 DEF WInv, HistoriesOK, LineOK, Finished
<1>5. TermStatus(s.term) = "completed" <=> s.term = "completed"
  BY DEF TermStatus
<1>6. /\ receipt[c].base = s.base /\ receipt[c].head = s.head /\ receipt[c].done = s.done
      /\ receipt[c].status = TermStatus(s.term)
  BY <1>2, <1>3 DEF TerminalReceipt
<1> QED
  BY <1>1, <1>3, <1>4, <1>5, <1>6

\* An edge of completed tasks can be followed by discovery.
LEMMA EdgeUsable == EInv /\ WInv => EdgesStayUsable
<1> SUFFICES ASSUME EInv, WInv, NEW c \in dirs, ReceiptRead(c) = "verified", receipt[c].done # <<>>
             PROVE  Usable(c)
  BY DEF EdgesStayUsable
<1>1. PICK r : r = receipt[c]
  OBVIOUS
<1>2. c \in Cycles /\ r # Null
  BY <1>1 DEF EInv, IInv, FilesOK, ReceiptRead
<1>3. ReceiptOK(latest, c, r) /\ Verified(r.base, r.done, r.head)
  BY <1>1, <1>2 DEF WInv, OutcomesOK, EdgeOK
<1>4. EdgeValid(c)
  <2>1. r.base \in Made \cup {Anchor}
    BY <1>3 DEF Verified, CommitExists, Made
  <2>2. IsAncestor(Anchor, r.base)
    BY <2>1, Descends DEF EInv, EvidenceOK
  <2>3. ChainFrom(r.base, r.done) /\ r.head = Last(r.done)
    BY <1>1, <1>3 DEF Verified, LastHead
  <2> QED
    BY <1>1, <2>2, <2>3 DEF EdgeValid
<1>5. ASSUME r.status = "completed" PROVE Len(r.done) = TaskCount /\ ~r.stopped
  <2>1. Finished(latest, c) /\ r = TerminalReceipt(latest[c])
    BY <1>3, <1>5 DEF ReceiptOK
  <2>2. PICK s : s = latest[c]
    OBVIOUS
  <2>3. s.term = "completed"
    BY <1>5, <2>1, <2>2 DEF TerminalReceipt, TermStatus
  <2>4. Len(s.done) = TaskCount
    BY <1>2, <2>1, <2>2, <2>3 DEF WInv, HistoriesOK, LineOK, Finished
  <2> QED
    BY <2>1, <2>2, <2>3, <2>4 DEF TerminalReceipt
<1>6. Classify(c) # "INVALID"
  BY <1>1, <1>5 DEF Classify
<1> QED
  BY <1>4, <1>6 DEF Usable

\* Whoever is killed where: a receipt that reports an outcome repeats the
\* finalizing checkpoint, and no receipt makes a later discovery raise.
THEOREM ReceiptsAreSound ==
  ASSUME OneWorkerOnly
  PROVE  Spec => []ReceiptsSound
<1>1. EInv /\ WInv => ReceiptsSound
  BY ReceiptBacked, EdgeUsable DEF ReceiptsSound
<1> QED
  BY <1>1, WorkerInvariant, PTL

(***************************************************************************)
(* The checkpoints implement the lines of AcceptedChain.                   *)
(***************************************************************************)
\* The line of cycle c in latest checkpoints L.
LineIn(L, c) ==
  IF L[c] # Null THEN [base |-> L[c].base, done |-> L[c].done, closed |-> L[c].life = "finalizing"]
  ELSE Null

LEMMA LineIs ==
  ASSUME EInv
  PROVE  Line = [c \in Cycles |-> LineIn(latest, c)]
<1>1. hist \in [Cycles -> Seq(GoodPairs)]
  BY DEF EInv, IInv, FilesOK
<1> QED
  BY <1>1, LatestLoaded DEF Line, LineIn

LEMMA LineIsNext ==
  ASSUME EInv', Shaped'
  PROVE  Line' = [c \in Cycles |-> LineIn(latest', c)]
<1>1. hist' \in [Cycles -> Seq(GoodPairs)]
  BY DEF EInv, IInv, FilesOK
<1>2. \A c \in Cycles : (Loadable(c)' <=> latest'[c] # Null) /\ (Loadable(c)' => latest'[c] = LoadedCkpt(c)')
  BY <1>1, LatestLoadedNext
<1> QED
  BY <1>2 DEF Line, LineIn

\* A cycle with a checkpoint has an opened line.
LEMMA OpenedIs ==
  ASSUME EInv, NEW c \in Cycles
  PROVE  /\ c \in Accepted!Opened <=> latest[c] # Null
         /\ latest[c] # Null =>
              /\ Line[c].base = latest[c].base /\ Line[c].done = latest[c].done
              /\ Line[c].closed <=> latest[c].life = "finalizing"
              /\ Line[c] = LineIn(latest, c) /\ Line[c] \in [base : Heads, done : Chains, closed : BOOLEAN]
<1>1. Line[c] = LineIn(latest, c)
  BY LineIs
<1>2. CASE latest[c] = Null
  BY <1>1, <1>2 DEF LineIn, Accepted!Opened
<1>3. CASE latest[c] # Null
  <2>1. latest[c] \in Ckpts
    BY <1>3, LatestType DEF EInv, GoodCkpts
  <2>2. PICK s \in Ckpts : s = latest[c]
    BY <2>1
  <2>3. PICK closed \in BOOLEAN : closed = (s.life = "finalizing")
    OBVIOUS
  <2>4. Line[c] = [base |-> s.base, done |-> s.done, closed |-> closed]
    BY <1>1, <1>3, <2>2, <2>3 DEF LineIn
  <2>5. s.base \in Heads /\ s.done \in Chains
    BY DEF Ckpts
  <2>6. Line[c] \in [base : Heads, done : Chains, closed : BOOLEAN]
    BY <2>4, <2>5
  <2>7. Line[c] # Null
    BY <2>6, UnopenedAssumption
  <2>8. Line[c].closed <=> latest[c].life = "finalizing"
    <3>1. Line[c].closed = closed
      BY <2>4
    <3>2. closed <=> s.life = "finalizing"
      BY <2>3
    <3> QED
      BY <2>2, <3>1, <3>2
  <2> QED
    BY <1>1, <1>3, <2>2, <2>4, <2>6, <2>7, <2>8 DEF Accepted!Opened
<1> QED
  BY <1>2, <1>3

\* The task a line goes on with is not accepted anywhere.
LEMMA NewTask ==
  ASSUME EInv, WInv, NEW c \in Cycles, latest[c] # Null, latest[c].life # "finalizing",
         NEW n \in Nat, n = Len(latest[c].done)
  PROVE  <<c, n + 1>> \notin Accepted!AcceptedAnywhere
<1> SUFFICES ASSUME NEW d \in Cycles, d \in Accepted!Opened, NEW i \in 1..Len(Line[d].done),
                    Line[d].done[i] = <<c, n + 1>>
             PROVE  FALSE
  BY DEF Accepted!AcceptedAnywhere, Accepted!Opened
<1>1. latest[d] # Null /\ Line[d].done = latest[d].done
  BY OpenedIs
<1>2. LineOK(latest, d) /\ ~Finished(latest, c)
  BY DEF WInv, HistoriesOK, Finished
<1>3. PICK s : s = latest[d].done
  OBVIOUS
<1>4. i \in 1..Len(s) /\ s[i] = <<c, n + 1>>
  BY <1>1, <1>3
<1>5. s[i][2] = i /\ (s[i][1] = d \/ Finished(latest, s[i][1]))
  BY <1>1, <1>2, <1>3, <1>4 DEF LineOK
<1>6. i = n + 1 /\ c = d
  BY <1>2, <1>4, <1>5
<1> QED
  BY <1>3, <1>4, <1>6

\* A line with one field replaced.
LEMMA LineFields ==
  ASSUME NEW l \in [base : Heads, done : Chains, closed : BOOLEAN], NEW d
  PROVE  /\ [l EXCEPT !.closed = TRUE] = [base |-> l.base, done |-> l.done, closed |-> TRUE]
         /\ [l EXCEPT !.closed = FALSE] = [base |-> l.base, done |-> l.done, closed |-> FALSE]
         /\ [l EXCEPT !.done = d] = [base |-> l.base, done |-> d, closed |-> l.closed]
<1>1. [l EXCEPT !.done = d] = [base |-> l.base, done |-> d, closed |-> l.closed]
  OBVIOUS
<1>2. ASSUME NEW e PROVE [l EXCEPT !.closed = e] = [base |-> l.base, done |-> l.done, closed |-> e]
  OBVIOUS
<1> QED
  BY <1>1, <1>2, Zenon

\* A sidecar of a checkpoint opens, extends or closes the line of its cycle.
LEMMA SidecarSteps ==
  ASSUME EInv, EInv', WInv, NEW w \in Workers, CkptSha(w)
  PROVE  Accepted!Next \/ UNCHANGED Line
<1>1. PICK k : k = wk[w]
  OBVIOUS
<1>2. /\ k.c \in Cycles /\ k.ck \in GoodCkpts /\ Place(latest, k) /\ k.pc = "ckpt_sha" /\ Shaped'
      /\ latest' = [latest EXCEPT ![k.c] = k.ck]
  BY <1>1, CheckpointWritten DEF CkptSha, At
<1>3. PICK c \in Cycles, t \in GoodCkpts : c = k.c /\ t = k.ck
  BY <1>2
<1>4. (Opens(latest, c, t) \/ Continues(latest, c, t)) /\ latest' = [latest EXCEPT ![c] = t]
  BY <1>2, <1>3 DEF Place
<1>5. t \in Ckpts /\ t # Null
  BY NullAssumption DEF GoodCkpts
<1>6. PICK closed \in BOOLEAN : closed = (t.life = "finalizing")
  OBVIOUS
<1>7. PICK q : q = [base |-> t.base, done |-> t.done, closed |-> closed]
  OBVIOUS
<1>8. Line' = [Line EXCEPT ![c] = q] /\ Line = [d \in Cycles |-> Line[d]]
  <2>1. latest \in [Cycles -> GoodCkpts \cup {Null}]
    BY LatestType DEF EInv
  <2>2. latest'[c] = t /\ \A d \in Cycles \ {c} : latest'[d] = latest[d]
    BY <1>4, <2>1
  <2>3. LineIn(latest', c) = q
    BY <1>5, <1>6, <1>7, <2>2 DEF LineIn
  <2>4. \A d \in Cycles \ {c} : LineIn(latest', d) = LineIn(latest, d)
    BY <2>2 DEF LineIn
  <2>5. Line = [d \in Cycles |-> LineIn(latest, d)] /\ Line' = [d \in Cycles |-> LineIn(latest', d)]
    BY <1>2, LineIs, LineIsNext
  <2> QED
    BY <2>3, <2>4, <2>5
<1>9. c \in Accepted!Opened <=> latest[c] # Null
  BY OpenedIs
<1>10. CASE Opens(latest, c, t) /\ t.done = <<>>
  <2>1. t.base \in Heads /\ closed = FALSE /\ c \notin Accepted!Opened
    <3>1. t.life # "finalizing"
      BY <1>10 DEF Opens
    <3> QED
      BY <1>5, <1>6, <1>9, <1>10, <3>1 DEF Opens, Ckpts
  <2>2. Line' = [Line EXCEPT ![c] = [base |-> t.base, done |-> <<>>, closed |-> FALSE]]
    BY <1>7, <1>8, <1>10, <2>1
  <2>3. Accepted!Open(c)
    BY <2>1, <2>2 DEF Accepted!Open
  <2> QED
    BY <2>3 DEF Accepted!Next
<1>11. CASE Opens(latest, c, t) /\ t.done # <<>>
  <2>1. PICK p \in Cycles \ {c} : Finished(latest, p) /\ t.base = latest[p].base /\ t.done = latest[p].done
    BY <1>11 DEF Opens
  <2>2. /\ p \in Accepted!Opened /\ Line[p].base = t.base /\ Line[p].done = t.done /\ Line[p].closed
        /\ Line[p] \in [base : Heads, done : Chains, closed : BOOLEAN]
    BY <2>1, OpenedIs DEF Finished
  <2>3. closed = FALSE /\ c \notin Accepted!Opened
    <3>1. t.life # "finalizing"
      BY <1>11 DEF Opens
    <3> QED
      BY <1>6, <1>9, <1>11, <3>1 DEF Opens
  <2>4. [Line[p] EXCEPT !.closed = FALSE] = q
    <3>1. [Line[p] EXCEPT !.closed = FALSE] = [base |-> t.base, done |-> t.done, closed |-> FALSE]
      BY <2>2, LineFields
    <3> QED
      BY <1>7, <2>3, <3>1, Zenon
  <2>5. Accepted!OpenSeeded(c)
    BY <1>8, <2>2, <2>3, <2>4 DEF Accepted!OpenSeeded
  <2> QED
    BY <2>5 DEF Accepted!Next
<1>12. CASE Continues(latest, c, t)
  <2>1. latest[c] # Null /\ latest[c].life # "finalizing" /\ t.base = latest[c].base
    BY <1>12 DEF Continues
  <2>2. PICK l : l = Line[c]
    OBVIOUS
  <2>3. /\ c \in Accepted!Opened /\ l \in [base : Heads, done : Chains, closed : BOOLEAN]
        /\ l.base = t.base /\ l.done = latest[c].done /\ ~l.closed
    BY <2>1, <2>2, OpenedIs
  <2>4. CASE t.life = "active_task" /\ t.done = latest[c].done
    <3>1. closed = FALSE /\ l.closed = FALSE
      BY <1>6, <2>3, <2>4
    <3>2. q = l
      BY <1>7, <2>3, <2>4, <3>1
    <3> QED
      BY <1>8, <2>2, <3>2
  <2>5. CASE t.life = "accepted_task" /\ t.done = Append(latest[c].done, <<c, Len(latest[c].done) + 1>>)
    <3>1. closed = FALSE /\ l.closed = FALSE
      BY <1>6, <2>3, <2>5
    <3>2. PICK s \in Seq(Commits) : s = l.done /\ Len(s) \in Nat
      BY <2>3, ChainLength
    <3>3. PICK id : id = <<c, Len(s) + 1>>
      OBVIOUS
    <3>4. t.done = Append(s, id) /\ t.done \in Seq(Commits)
      BY <1>5, <2>3, <2>5, <3>2, <3>3, ChainLength DEF Ckpts
    <3>5. id \in Commits
      <4>1. Len(Append(s, id)) = Len(s) + 1 /\ Append(s, id)[Len(s) + 1] = id
        BY <3>2
      <4>2. \A j \in 1..Len(t.done) : t.done[j] \in Commits
        BY <3>4
      <4> QED
        BY <3>2, <3>4, <4>1, <4>2
    <3>6. id \notin Accepted!AcceptedAnywhere
      BY <2>1, <2>3, <3>2, <3>3, NewTask
    <3>7. [l EXCEPT !.done = Append(@, id)] = q
      <4>1. [l EXCEPT !.done = Append(l.done, id)] = [base |-> t.base, done |-> t.done, closed |-> l.closed]
        BY <2>3, <3>2, <3>4, LineFields
      <4> QED
        BY <1>7, <3>1, <4>1, Zenon
    <3>8. Line' = [Line EXCEPT ![c].done = Append(@, id)]
      BY <1>8, <2>2, <3>7
    <3>9. Accepted!Extend(c)
      BY <2>2, <2>3, <3>5, <3>6, <3>8 DEF Accepted!Extend, Accepted!Commits, Commits
    <3> QED
      BY <3>9 DEF Accepted!Next
  <2>6. CASE t.life = "finalizing" /\ t.done = latest[c].done
    <3>1. closed = TRUE
      BY <1>6, <2>6
    <3>2. [l EXCEPT !.closed = TRUE] = q
      <4>1. [l EXCEPT !.closed = TRUE] = [base |-> t.base, done |-> t.done, closed |-> TRUE]
        BY <2>3, <2>6, LineFields
      <4> QED
        BY <1>7, <3>1, <4>1, Zenon
    <3>3. Line' = [Line EXCEPT ![c].closed = TRUE]
      BY <1>8, <2>2, <3>2
    <3>4. Accepted!Close(c)
      BY <2>2, <2>3, <3>3 DEF Accepted!Close
    <3> QED
      BY <3>4 DEF Accepted!Next
  <2> QED
    BY <1>12, <2>4, <2>5, <2>6 DEF Continues
<1> QED
  BY <1>4, <1>10, <1>11, <1>12

\* One worker at a time, killed wherever it may be: the checkpoints of every
\* cycle are a line that opens empty or on the accepted tasks of a finished
\* cycle, grows by a task accepted nowhere else, closes once, and loses nothing.
THEOREM LinesAreImplemented ==
  ASSUME OneWorkerOnly
  PROVE  Spec => LinesImplemented
<1>1. Init => Accepted!Init
  <2> SUFFICES ASSUME Init PROVE Line = [c \in Cycles |-> Null]
    BY DEF Accepted!Init
  <2>1. \A c \in Cycles : ~Loadable(c)
    BY DEF Init, StoreInit, Loadable
  <2> QED
    BY <2>1 DEF Line
<1>2. EInv /\ WInv /\ (EInv /\ WInv)' /\ [Next]_vars => [Accepted!Next]_Line
  <2> SUFFICES ASSUME EInv, WInv, EInv', [Next]_vars PROVE Accepted!Next \/ UNCHANGED Line
    OBVIOUS
  <2>1. CASE latest' = latest
    <3>1. Line = [c \in Cycles |-> LineIn(latest, c)] /\ Line' = [c \in Cycles |-> LineIn(latest', c)]
      BY HistoriesKept, LineIs, LineIsNext
    <3> QED
      BY <2>1, <3>1
  <2>2. CASE \E w \in Workers : CkptSha(w)
    BY <2>2, SidecarSteps
  <2> QED
    BY <2>1, <2>2, HistoriesKept
<1> QED
  BY <1>1, <1>2, WorkerInvariant, PTL DEF Spec, LinesImplemented, Accepted!Spec

(***************************************************************************)
(* No task twice in a history.                                             *)
(***************************************************************************)
\* The ancestors of a member of S are in S, when the parents of S are.
LEMMA AncestorsWithin ==
  ASSUME NEW S, Anchor \in S, \A x \in S : x # Anchor => Parent(x) \in S, NEW b \in S,
         NEW a, IsAncestor(a, b)
  PROVE  a \in S
<1> DEFINE N == MaxCycle * TaskCount
           g == [x \in S |-> IF x = Anchor THEN Anchor ELSE Parent(x)]
           Up(f) == f = [n \in 0..N |-> IF n = 0 THEN b
                                       ELSE IF f[n-1] = Anchor THEN Anchor ELSE Parent(f[n-1])]
           up == CHOOSE f : Up(f)
<1>1. \E n \in DOMAIN up : up[n] = a
  BY DEF IsAncestor
<1>2. N \in Nat
  BY MaxCycleAssumption, TaskCountAssumption
<1>3. g \in [S -> S]
  OBVIOUS
<1> HIDE DEF N
<1>4. PICK f : Iterates(f, N, S, b, g)
  <2> HIDE DEF g
  <2> QED
    BY <1>2, <1>3, Iteration
<1>5. Up(f)
  <2>1. ASSUME NEW n \in 0..N, n # 0 PROVE f[n] = IF f[n-1] = Anchor THEN Anchor ELSE Parent(f[n-1])
    <3>1. n \in 1..N /\ n - 1 \in 0..N
      BY <1>2, <2>1
    <3>2. f[n - 1] \in S
      BY <1>4, <3>1 DEF Iterates
    <3> QED
      BY <1>4, <3>1, <3>2 DEF Iterates
  <2> QED
    BY <1>4, <2>1 DEF Iterates
<1>6. Up(up)
  BY <1>5
<1>7. /\ DOMAIN up = 0..N /\ up[0] = b
      /\ \A n \in 1..N : n - 1 \in 0..N /\ up[n] = IF up[n-1] = Anchor THEN Anchor ELSE Parent(up[n-1])
  <2> HIDE DEF up
  <2> QED
    BY <1>2, <1>6
<1> DEFINE T == {n \in Nat : n <= N => up[n] \in S}
<1> HIDE DEF up
<1>8. 0 \in T
  BY <1>7
<1>9. ASSUME NEW n \in Nat, n \in T PROVE n + 1 \in T
  <2> SUFFICES ASSUME n + 1 <= N PROVE up[n + 1] \in S
    OBVIOUS
  <2>1. n + 1 \in 1..N /\ (n + 1) - 1 = n /\ up[n] \in S
    BY <1>2, <1>9
  <2> QED
    BY <1>7, <2>1
<1> HIDE DEF T
<1>10. Nat \subseteq T
  BY <1>8, <1>9, Induction
<1> QED
  BY <1>1, <1>2, <1>7, <1>10 DEF T

\* The history of a chain that starts on the anchor is that chain.
LEMMA AncestryIs ==
  ASSUME NEW s \in Ckpts, CkptOK(s), s.base = Anchor
  PROVE  Ancestry(s) \subseteq {s.done[i] : i \in 1..Len(s.done)}
<1> DEFINE S == {Anchor} \cup {s.done[i] : i \in 1..Len(s.done)}
<1>1. PICK d \in Seq(Commits) : d = s.done /\ Len(d) \in Nat
  BY ChainLength DEF Ckpts
<1>2. ChainFrom(Anchor, d) /\ s.head = LastHead(Anchor, d)
  BY <1>1 DEF CkptOK, Verified
<1>3. s.head \in S
  <2>1. CASE d = <<>>
    BY <1>2, <2>1 DEF LastHead
  <2>2. CASE d # <<>>
    <3>1. s.head = d[Len(d)] /\ Len(d) \in 1..Len(d)
      BY <1>1, <1>2, <2>2 DEF LastHead, Last
    <3> QED
      BY <1>1, <3>1
  <2> QED
    BY <2>1, <2>2
<1>4. ASSUME NEW x \in S, x # Anchor PROVE Parent(x) \in S
  <2>1. PICK i \in 1..Len(d) : x = d[i]
    BY <1>1, <1>4
  <2>2. Parent(x) = IF i = 1 THEN Anchor ELSE d[i-1]
    BY <1>2, <2>1 DEF ChainFrom
  <2>3. i # 1 => i - 1 \in 1..Len(d)
    BY <1>1, <2>1
  <2> QED
    BY <1>1, <2>2, <2>3
<1>5. Anchor \in S
  OBVIOUS
<1>6. ASSUME NEW k \in Commits, IsAncestor(k, s.head) PROVE k \in S
  <2> HIDE DEF S
  <2> QED
    BY <1>3, <1>4, <1>5, <1>6, AncestorsWithin
<1> QED
  BY <1>6, AnchorAssumption DEF Ancestry

\* Under the supervisor's rule and one worker at a time: however often a cycle
\* is killed, resumed or taken up by a later one, no checkpoint rests on two
\* commits of one task.
THEOREM NoTaskTwice ==
  ASSUME OneWorkerOnly, Supervised
  PROVE  Spec => []TaskAppliedOnce
<1>1. EInv /\ WInv => TaskAppliedOnce
  <2> SUFFICES ASSUME EInv, WInv, NEW c \in Cycles, Loadable(c),
                      NEW k \in Ancestry(LoadedCkpt(c)), NEW m \in Ancestry(LoadedCkpt(c)), k[2] = m[2]
               PROVE  k = m
    BY DEF TaskAppliedOnce
  <2>1. PICK s : s = LoadedCkpt(c)
    OBVIOUS
  <2>2. s \in Ckpts /\ CkptOK(s)
    BY <2>1, LoadedOK
  <2>3. latest[c] = s /\ latest[c] # Null
    BY <2>1, LatestLoaded DEF EInv, IInv, FilesOK
  <2>4. s.base = Anchor /\ \A i \in 1..Len(s.done) : s.done[i][2] = i
    BY <2>3 DEF WInv, HistoriesOK, LineOK
  <2>5. \E i, j \in 1..Len(s.done) : k = s.done[i] /\ m = s.done[j]
    BY <2>1, <2>2, <2>4, AncestryIs
  <2> QED
    BY <2>4, <2>5
<1> QED
  BY <1>1, WorkerInvariant, PTL
=============================================================================
