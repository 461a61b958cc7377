---------------------- MODULE MultiCycleEvidenceProofs ----------------------
(***************************************************************************)
(* Proofs that the evidence of the executor is sound: for any number of    *)
(* workers, checkpoints record verified chains and discovery only returns  *)
(* accepted commits.                                                       *)
(***************************************************************************)
EXTENDS MultiCycleProofs, WellFoundedInduction, FiniteSetTheorems, SequenceTheorems

(***************************************************************************)
(* Induction over the naturals, for a set instead of a predicate.          *)
(***************************************************************************)
LEMMA Induction ==
  ASSUME NEW S, 0 \in S, \A n \in Nat : n \in S => n + 1 \in S
  PROVE  Nat \subseteq S
<1> DEFINE R == OpToRel(<, Nat)
           T == Nat \ S
<1>1. IsWellFoundedOn(R, Nat)
  BY NatLessThanWellFounded
<1>2. \A x, y \in Nat : <<x, y>> \in R <=> x < y
  BY DEF OpToRel
<1> HIDE DEF R
<1>3. SUFFICES ASSUME T # {} PROVE FALSE
  OBVIOUS
<1>4. PICK x \in T : \A y \in T : ~ (<<y, x>> \in R)
  <2>1. T \subseteq Nat
    OBVIOUS
  <2> HIDE DEF T
  <2> QED
    BY <1>1, <1>3, <2>1, WFMin
<1>5. x # 0 /\ x - 1 \in Nat
  BY <1>4
<1>6. x - 1 \in T
  BY <1>4, <1>5
<1>7. x \in Nat /\ x - 1 < x
  BY <1>5
<1>8. <<x - 1, x>> \in R
  BY <1>2, <1>5, <1>7
<1> QED
  BY <1>4, <1>6, <1>8

(* A function defined by recursion over 0..N exists: a is its first value  *)
(* and g makes each further value from the one before it.                  *)
Iterates(f, N, S, a, g) == f \in [0..N -> S] /\ f[0] = a /\ \A m \in 1..N : f[m] = g[f[m - 1]]

LEMMA Iteration ==
  ASSUME NEW N \in Nat, NEW S, NEW a \in S, NEW g \in [S -> S]
  PROVE  \E f : Iterates(f, N, S, a, g)
<1> DEFINE Up(n, f) == f \in [0..n -> S] /\ f[0] = a /\ \A m \in 1..n : f[m] = g[f[m - 1]]
           T == {n \in Nat : \E f : Up(n, f)}
<1>1. 0 \in T
  <2>1. Up(0, [m \in 0..0 |-> a])
    OBVIOUS
  <2> QED
    BY <2>1
<1>2. ASSUME NEW n \in Nat, n \in T PROVE n + 1 \in T
  <2>1. PICK f : Up(n, f)
    BY <1>2
  <2> DEFINE h == [m \in 0..(n + 1) |-> IF m = n + 1 THEN g[f[n]] ELSE f[m]]
  <2>2. \A m \in 0..n : f[m] \in S /\ h[m] = f[m]
    BY <2>1
  <2>3. h[n + 1] = g[f[n]] /\ h[n + 1] \in S
    BY <2>2
  <2>4. h \in [0..(n + 1) -> S]
    BY <2>1
  <2>5. h[0] = a
    BY <2>1, <2>2
  <2>6. ASSUME NEW m \in 1..(n + 1) PROVE h[m] = g[h[m - 1]]
    <3>1. m - 1 \in 0..n /\ h[m - 1] = f[m - 1]
      BY <2>2
    <3>2. CASE m = n + 1
      BY <2>3, <3>1, <3>2
    <3>3. CASE m # n + 1
      <4>1. m \in 1..n
        BY <3>3
      <4> QED
        BY <2>1, <2>2, <3>1, <4>1
    <3> QED
      BY <3>2, <3>3
  <2> HIDE DEF h
  <2>7. Up(n + 1, h)
    BY <2>4, <2>5, <2>6
  <2> QED
    BY <2>7
<1> HIDE DEF T
<1>3. Nat \subseteq T
  BY <1>1, <1>2, Induction
<1> QED
  BY <1>3 DEF T, Iterates

LEMMA IterationStays ==
  ASSUME NEW N \in Nat, NEW S, NEW a \in S, NEW g \in [S -> S],
         NEW f, f = [n \in 0..N |-> f[n]], f[0] = a,
         \A m \in 1..N : f[m - 1] \in S => f[m] = g[f[m - 1]]
  PROVE  Iterates(f, N, S, a, g)
<1> DEFINE T == {n \in Nat : n <= N => f[n] \in S}
<1>1. 0 \in T
  OBVIOUS
<1>2. ASSUME NEW n \in Nat, n \in T PROVE n + 1 \in T
  <2> SUFFICES ASSUME n + 1 <= N PROVE f[n + 1] \in S
    OBVIOUS
  <2>1. n + 1 \in 1..N /\ (n + 1) - 1 = n /\ f[n] \in S
    BY <1>2
  <2>2. f[n + 1] = g[f[n]]
    BY <2>1
  <2> QED
    BY <2>1, <2>2
<1> HIDE DEF T
<1>3. Nat \subseteq T
  BY <1>1, <1>2, Induction
<1>4. \A n \in 0..N : f[n] \in S
  BY <1>3 DEF T
<1>5. f \in [0..N -> S]
  BY <1>4
<1>6. \A m \in 1..N : m - 1 \in 0..N
  OBVIOUS
<1> QED
  BY <1>4, <1>5, <1>6 DEF Iterates

(***************************************************************************)
(* What is known of a chain, a checkpoint and a local state.               *)
(***************************************************************************)
\* Every task of the chain has a sealed, completed child run.
Sound(d) == \A j \in 1..Len(d) : ChildSealedAs(d[j], "completed")

\* A chain of accepted commits d from base b to head h.
Verified(b, d, h) == CommitExists(b) /\ ChainFrom(b, d) /\ h = LastHead(b, d) /\ Sound(d)

CkptOK(s) == Verified(s.base, s.done, s.head)

\* What a worker holds, past its verification of the evidence.
Holds(k) ==
  /\ Sound(k.done)
  /\ k.pc = "preflight" => k.done = <<>>
  /\ k.pc \in {"ckpt_json", "ckpt_sha", "loop", "spawn", "child", "seal", "judge"} =>
       Verified(k.base, k.done, k.head)
  /\ k.pc \in {"ckpt_json", "ckpt_sha", "pair"} => CkptOK(k.ck)
  /\ k.pc \in {"rec_json", "pair_both", "pair_json", "pair_sha"} =>
       k.out \in Receipts /\ Sound(k.out.done)
  /\ k.pc = "child" => child[Current(k)].st = "running"

\* Every checkpoint file, sealed or not, holds a verified chain.
HistoryOK ==
  \A c \in Cycles : \A i \in 1..Len(hist[c]) : hist[c][i].json # Null => CkptOK(hist[c][i].json)

\* Every receipt, sealed or not, lists completed tasks.
ReceiptsOK == \A c \in Cycles : receipt[c] # Null => Sound(receipt[c].done)

\* Every child run was started on a commit.
BasesOK == \A id \in Commits : child[id].st # "absent" => CommitExists(child[id].base)

\* The commits of child runs are numbered in the order in which they were made.
Made == {id \in Commits : child[id].st \in {"completed", "failed_commit"}}

Numbered(rank) ==
  \A id \in Made :
    /\ rank[id] \in 1..Cardinality(Made)
    /\ Parent(id) # Anchor => Parent(id) \in Made /\ rank[Parent(id)] < rank[id]

Ranked == \E rank \in [Commits -> Nat] : Numbered(rank)

EvidenceOK == HistoryOK /\ ReceiptsOK /\ BasesOK /\ Ranked

\* The inductive invariant.
EInv == IInv /\ EvidenceOK /\ \A w \in Workers : Holds(wk[w])

(***************************************************************************)
(* Git: every commit of a child run descends from the anchor.              *)
(***************************************************************************)
LEMMA CommitsFinite == IsFiniteSet(Commits) /\ Cardinality(Commits) = MaxCycle * TaskCount
<1>1. /\ IsFiniteSet(Cycles) /\ Cardinality(Cycles) = MaxCycle
      /\ IsFiniteSet(Tasks) /\ Cardinality(Tasks) = TaskCount
  BY FS_Interval, MaxCycleAssumption, TaskCountAssumption DEF Cycles, Tasks
<1> QED
  BY <1>1, FS_Product DEF Commits

LEMMA MadeFinite == IsFiniteSet(Made) /\ Cardinality(Made) \in 0..(MaxCycle * TaskCount)
<1>1. Made \subseteq Commits
  BY DEF Made
<1>2. IsFiniteSet(Made) /\ Cardinality(Made) <= MaxCycle * TaskCount
  BY <1>1, CommitsFinite, FS_Subset
<1>3. Cardinality(Made) \in Nat
  BY <1>2, FS_CardinalityType
<1>4. MaxCycle * TaskCount \in Nat
  BY MaxCycleAssumption, TaskCountAssumption
<1> QED
  BY <1>2, <1>3, <1>4

\* The parents of a commit lead to the anchor before the numbers run out.
LEMMA Descends ==
  ASSUME Ranked, NEW b \in Made \cup {Anchor}
  PROVE  IsAncestor(Anchor, b)
<1> DEFINE N == MaxCycle * TaskCount
           S == Made \cup {Anchor}
           g == [x \in S |-> IF x = Anchor THEN Anchor ELSE Parent(x)]
           Up(f) == f = [n \in 0..N |-> IF n = 0 THEN b
                                       ELSE IF f[n-1] = Anchor THEN Anchor ELSE Parent(f[n-1])]
           up == CHOOSE f : Up(f)
<1>1. PICK rank \in [Commits -> Nat] : Numbered(rank)
  BY DEF Ranked
<1>2. N \in Nat
  BY MaxCycleAssumption, TaskCountAssumption
<1>3. g \in [S -> S] /\ b \in S
  BY <1>1 DEF Numbered
<1> HIDE DEF N
<1>4. PICK f : Iterates(f, N, S, b, g)
  <2> HIDE DEF S, g
  <2> QED
    BY <1>2, <1>3, Iteration
<1>5. Up(f)
  <2>1. ASSUME NEW n \in 0..N, n # 0 PROVE f[n] = IF f[n-1] = Anchor THEN Anchor ELSE Parent(f[n-1])
    <3>1. n \in 1..N /\ n - 1 \in 0..N
      BY <1>2, <2>1
    <3>2. f[n - 1] \in S
      BY <1>4, <3>1 DEF Iterates
    <3> QED
      BY <1>4, <3>1, <3>2 DEF Iterates
  <2> QED
    BY <1>4, <2>1 DEF Iterates
<1>6. Up(up)
  BY <1>5
<1>7. DOMAIN up = 0..N /\ up[0] = b
      /\ \A n \in 1..N : n - 1 \in 0..N /\ up[n] = IF up[n-1] = Anchor THEN Anchor ELSE Parent(up[n-1])
  <2> HIDE DEF up
  <2> QED
    BY <1>2, <1>6
<1> DEFINE Low(n) == up[n] = Anchor \/ (up[n] \in Made /\ rank[up[n]] + n <= N)
           T == {n \in Nat : n <= N => Low(n)}
<1>8. \A id \in Made : rank[id] \in 1..N
  <2>1. Cardinality(Made) \in 0..N
    BY MadeFinite DEF N
  <2> QED
    BY <1>1, <1>2, <2>1 DEF Numbered
<1> HIDE DEF up
<1>9. 0 \in T
  BY <1>2, <1>7, <1>8
<1>10. ASSUME NEW n \in Nat, n \in T PROVE n + 1 \in T
  <2> SUFFICES ASSUME n + 1 <= N PROVE Low(n + 1)
    OBVIOUS
  <2>1. n + 1 \in 1..N /\ Low(n)
    BY <1>2, <1>10
  <2>2. (n + 1) - 1 = n
    OBVIOUS
  <2>3. up[n + 1] = IF up[n] = Anchor THEN Anchor ELSE Parent(up[n])
    BY <1>7, <2>1, <2>2
  <2>4. CASE up[n] = Anchor
    BY <2>3, <2>4
  <2>5. CASE up[n] # Anchor
    <3>1. up[n] \in Made /\ rank[up[n]] + n <= N /\ up[n + 1] = Parent(up[n])
      BY <2>1, <2>3, <2>5
    <3>2. CASE up[n + 1] # Anchor
      <4>1. up[n + 1] \in Made /\ rank[up[n + 1]] < rank[up[n]]
        BY <1>1, <3>1, <3>2 DEF Numbered
      <4>2. rank[up[n]] \in Nat /\ rank[up[n + 1]] \in Nat
        BY <1>8, <3>1, <4>1
      <4>3. rank[up[n + 1]] + (n + 1) <= N
        BY <1>2, <3>1, <4>1, <4>2
      <4> QED
        BY <4>1, <4>3
    <3> QED
      BY <3>2
  <2> QED
    BY <2>4, <2>5
<1> HIDE DEF T
<1>11. Nat \subseteq T
  BY <1>9, <1>10, Induction
<1>12. up[N] = Anchor
  <2>1. Low(N)
    BY <1>2, <1>11 DEF T
  <2>2. up[N] \in Made => rank[up[N]] \in 1..N
    BY <1>8
  <2> QED
    BY <1>2, <2>1, <2>2
<1>13. N \in DOMAIN up
  BY <1>2, <1>7
<1> QED
  BY <1>12, <1>13 DEF IsAncestor, up, N

(***************************************************************************)
(* Discovery: the tips of the walk are the anchor or accepted heads.       *)
(***************************************************************************)
LEMMA WalkTips ==
  ASSUME NEW except
  PROVE  \A n \in 0..MaxCycle :
           \/ Walk(except)[n].tip = Anchor
           \/ \E c \in Participating(except) : receipt[c].done # <<>> /\ Walk(except)[n].tip = receipt[c].head
<1> DEFINE cs == Participating(except)
           T == {Anchor} \cup {receipt[c].head : c \in {d \in cs : receipt[d].done # <<>>}}
           S == [ok : BOOLEAN, tip : T]
           a == [ok |-> TRUE, tip |-> Anchor]
           Step(w) == LET ts == Targets(cs, w.tip)
                      IN IF ~w.ok \/ ts = {} THEN w
                         ELSE IF Deepest(ts) = {} THEN Ambiguous
                         ELSE [ok |-> TRUE, tip |-> CHOOSE t \in Deepest(ts) : TRUE]
           g == [w \in S |-> Step(w)]
           Is(f) == f = [n \in 0..MaxCycle |-> IF n = 0 THEN a ELSE Step(f[n-1])]
           walk == CHOOSE f : Is(f)
<1>1. a \in S
  OBVIOUS
<1>2. ASSUME NEW w \in S PROVE Step(w) \in S
  <2> DEFINE ts == Targets(cs, w.tip)
  <2>1. CASE ~w.ok \/ ts = {}
    BY <1>2, <2>1
  <2>2. CASE w.ok /\ ts # {} /\ Deepest(ts) = {}
    BY <2>2 DEF Ambiguous
  <2>3. CASE w.ok /\ ts # {} /\ Deepest(ts) # {}
    <3> DEFINE t == CHOOSE t \in Deepest(ts) : TRUE
    <3>1. t \in Deepest(ts)
      BY <2>3
    <3>2. t \in T
      BY <3>1 DEF Deepest, Targets
    <3>3. Step(w) = [ok |-> TRUE, tip |-> t]
      BY <2>3
    <3> HIDE DEF t, T, Step
    <3> QED
      BY <3>2, <3>3
  <2> QED
    BY <2>1, <2>2, <2>3
<1>3. g \in [S -> S]
  BY <1>2
<1>4. \A w \in S : g[w] = Step(w)
  OBVIOUS
<1>5. MaxCycle \in Nat
  BY MaxCycleAssumption
<1> HIDE DEF S, g, a, Step
<1>6. PICK f : Iterates(f, MaxCycle, S, a, g)
  BY <1>1, <1>3, <1>5, Iteration
<1>7. Is(f)
  <2>1. ASSUME NEW n \in 0..MaxCycle, n # 0 PROVE f[n] = Step(f[n-1])
    <3>1. n \in 1..MaxCycle /\ n - 1 \in 0..MaxCycle
      BY <1>5, <2>1
    <3> QED
      BY <1>4, <1>6, <3>1 DEF Iterates
  <2> QED
    BY <1>6, <2>1 DEF Iterates
<1>8. Is(walk)
  BY <1>7
<1>9. walk = Walk(except)
  BY DEF Walk, walk, Step, a
<1> HIDE DEF walk
<1>10. /\ walk = [n \in 0..MaxCycle |-> walk[n]]
       /\ walk[0] = a
       /\ \A n \in 1..MaxCycle : walk[n] = Step(walk[n - 1])
  BY <1>5, <1>8
<1>11. Iterates(walk, MaxCycle, S, a, g)
  BY <1>1, <1>3, <1>4, <1>5, <1>10, IterationStays
<1>12. \A n \in 0..MaxCycle : walk[n].tip \in T
  BY <1>11 DEF Iterates, S
<1> QED
  BY <1>9, <1>12

LEMMA TipAccepted ==
  ASSUME IInv, ReceiptsOK, NEW except, NEW tip \in Discover(except)
  PROVE  tip = Anchor \/ (tip \in Made /\ ChildSealedAs(tip, "completed"))
<1>1. tip = Walk(except)[MaxCycle].tip /\ AllUsable(except)
  BY DEF Discover
<1>2. MaxCycle \in 0..MaxCycle
  BY MaxCycleAssumption
<1>3. SUFFICES ASSUME NEW c \in Participating(except), receipt[c].done # <<>>, tip = receipt[c].head
               PROVE  tip = Anchor \/ (tip \in Made /\ ChildSealedAs(tip, "completed"))
  BY <1>1, <1>2, WalkTips
<1> DEFINE d == receipt[c].done
<1>4. c \in Cycles /\ receipt[c] # Null
  BY DEF Participating, Observed, IInv, FilesOK
<1>5. d \in Chains
  BY <1>4 DEF IInv, FilesOK, Receipts
<1>6. d \in Seq(Commits) /\ Len(d) \in Nat /\ Len(d) # 0
  BY <1>3, <1>5, ChainLength
<1>7. ChainFrom(receipt[c].base, d) /\ tip = d[Len(d)]
  BY <1>1, <1>3 DEF AllUsable, Usable, EdgeValid, Last
<1>8. ChildSealedAs(tip, "completed") /\ CommitExists(tip)
  BY <1>4, <1>6, <1>7 DEF ReceiptsOK, Sound, ChainFrom
<1> QED
  BY <1>8 DEF CommitExists, Made

(***************************************************************************)
(* What is known stays true: commits are never undone.                     *)
(***************************************************************************)
Steady(ch, ch2) ==
  \A id \in Commits : ch[id].st \in Ended =>
    /\ ch2[id].st = ch[id].st /\ ch2[id].base = ch[id].base
    /\ ch[id].sealed => ch2[id].sealed

LEMMA CommitKept ==
  ASSUME Steady(child, child'), NEW b, CommitExists(b)
  PROVE  CommitExists(b)'
BY DEF Steady, CommitExists, Ended

LEMMA SoundKept ==
  ASSUME Steady(child, child'), NEW d \in Chains, Sound(d)
  PROVE  Sound(d)'
<1>1. d \in Seq(Commits)
  BY ChainLength
<1>2. \A j \in 1..Len(d) : d[j] \in Commits
  BY <1>1
<1> QED
  BY <1>2 DEF Sound, ChildSealedAs, Steady, Ended

LEMMA VerifiedKept ==
  ASSUME Steady(child, child'), NEW b, NEW d \in Chains, NEW h, Verified(b, d, h)
  PROVE  Verified(b, d, h)'
<1>1. d \in Seq(Commits) /\ Len(d) \in Nat
  BY ChainLength
<1>2. \A j \in 1..Len(d) : d[j] \in Commits /\ child[d[j]].st = "completed" /\ CommitExists(d[j])
  BY <1>1 DEF Verified, Sound, ChildSealedAs, ChainFrom
<1>3. \A j \in 1..Len(d) : CommitExists(d[j])'
  BY <1>2, CommitKept
<1>4. \A j \in 1..Len(d) : child'[d[j]].base = child[d[j]].base
  BY <1>2 DEF Steady, Ended
<1>5. ChainFrom(b, d)'
  BY <1>3, <1>4 DEF Verified, ChainFrom, Parent
<1>6. CommitExists(b)' /\ Sound(d)'
  BY CommitKept, SoundKept DEF Verified
<1>7. h = LastHead(b, d)
  BY DEF Verified
<1> QED
  BY <1>5, <1>6, <1>7 DEF Verified

LEMMA CkptKept ==
  ASSUME Steady(child, child'), NEW s \in Ckpts, CkptOK(s)
  PROVE  CkptOK(s)'
<1>1. s.done \in Chains
  BY DEF Ckpts
<1>2. Verified(s.base, s.done, s.head)
  BY DEF CkptOK
<1>3. Verified(s.base, s.done, s.head)'
  BY <1>1, <1>2, VerifiedKept
<1> QED
  BY <1>3 DEF CkptOK

LEMMA HoldsKept ==
  ASSUME Steady(child, child'), NEW k \in Locals, Holds(k),
         k.pc \in {"ckpt_json", "ckpt_sha", "pair"} => k.ck \in Ckpts,
         k.pc = "child" => child'[Current(k)].st = "running"
  PROVE  Holds(k)'
<1>1. k.done \in Chains
  BY DEF Locals
<1>2. Sound(k.done)'
  BY <1>1, SoundKept DEF Holds
<1>3. ASSUME k.pc \in {"ckpt_json", "ckpt_sha", "loop", "spawn", "child", "seal", "judge"}
      PROVE  Verified(k.base, k.done, k.head)'
  BY <1>1, <1>3, VerifiedKept DEF Holds
<1>4. ASSUME k.pc \in {"ckpt_json", "ckpt_sha", "pair"} PROVE CkptOK(k.ck)'
  BY <1>4, CkptKept DEF Holds
<1>5. ASSUME k.pc \in {"rec_json", "pair_both", "pair_json", "pair_sha"} PROVE k.out \in Receipts /\ Sound(k.out.done)'
  <2>1. k.out \in Receipts /\ k.out.done \in Chains /\ Sound(k.out.done)
    BY <1>5 DEF Holds, Receipts
  <2> QED
    BY <2>1, SoundKept
<1> QED
  BY <1>2, <1>3, <1>4, <1>5 DEF Holds

\* The numbers of the commits serve as long as no commit is made.
LEMMA RankedKept ==
  ASSUME Ranked, Made' = Made, \A id \in Made : child'[id].base = child[id].base
  PROVE  Ranked'
<1>1. PICK rank \in [Commits -> Nat] : Numbered(rank)
  BY DEF Ranked
<1>2. Numbered(rank)'
  BY <1>1 DEF Numbered, Parent
<1> QED
  BY <1>1, <1>2 DEF Ranked

\* All but the last pair of a history.
LEMMA FrontOf ==
  ASSUME NEW h \in Seq(GoodPairs), h # <<>>
  PROVE  /\ Len(Front(h)) = Len(h) - 1 /\ Len(h) > 0
         /\ \A i \in 1..(Len(h) - 1) : Front(h)[i] = h[i]
<1>3. Len(h) \in Nat /\ Len(h) > 0
  OBVIOUS
<1>4. Front(h) = SubSeq(h, 1, Len(h) - 1)
  BY DEF Front
<1>5. \A i \in 1..(Len(h) - 1) : h[i] \in GoodPairs
  BY <1>3
<1>6. /\ Len(Front(h)) = IF 1 <= Len(h) - 1 THEN (Len(h) - 1) - 1 + 1 ELSE 0
      /\ \A i \in 1..((Len(h) - 1) - 1 + 1) : Front(h)[i] = h[1 + i - 1]
  BY <1>3, <1>4, <1>5, SubSeqProperties
<1>7. Len(Front(h)) = Len(h) - 1
  <2>1. Len(Front(h)) = IF 1 <= Len(h) - 1 THEN (Len(h) - 1) - 1 + 1 ELSE 0
    BY <1>6
  <2>2. PICK n \in Nat : n = Len(h) /\ n > 0
    BY <1>3
  <2>3. Len(Front(h)) = IF 1 <= n - 1 THEN (n - 1) - 1 + 1 ELSE 0
    BY <2>1, <2>2
  <2>4. (IF 1 <= n - 1 THEN (n - 1) - 1 + 1 ELSE 0) = n - 1
    BY <2>2
  <2> QED
    BY <2>2, <2>3, <2>4
<1>8. \A i \in 1..(Len(h) - 1) : i \in 1..((Len(h) - 1) - 1 + 1) /\ 1 + i - 1 = i
  BY <1>3
<1>9. \A i \in 1..(Len(h) - 1) : Front(h)[i] = h[i]
  BY <1>6, <1>8
<1> QED
  BY <1>3, <1>7, <1>9

\* A history of verified checkpoints stays one when an orphan is cleaned up.
LEMMA CleanedOK ==
  ASSUME hist \in [Cycles -> Seq(GoodPairs)], NEW cs, NEW c \in Cycles
  PROVE  /\ Len(Cleaned(cs)[c]) \in 0..Len(hist[c])
         /\ \A i \in 1..Len(Cleaned(cs)[c]) : Cleaned(cs)[c][i] = hist[c][i]
<1>1. hist[c] \in Seq(GoodPairs) /\ Len(hist[c]) \in Nat
  OBVIOUS
<1>2. Cleaned(cs)[c] \in {hist[c], WithoutOrphan(c)}
  BY DEF Cleaned
<1>3. WithoutOrphan(c) \in {hist[c], Front(hist[c])}
  BY DEF WithoutOrphan
<1>4. HasOrphan(c) => hist[c] # <<>>
  BY DEF HasOrphan, Loadable
<1>6. CASE HasOrphan(c) /\ Cleaned(cs)[c] = Front(hist[c])
  BY <1>1, <1>4, <1>6, FrontOf
<1>7. CASE Cleaned(cs)[c] = hist[c]
  BY <1>1, <1>7
<1> QED
  BY <1>2, <1>3, <1>6, <1>7 DEF WithoutOrphan

\* A step that writes no receipt, no checkpoint and no child run.
LEMMA SameEvidence ==
  ASSUME IInv, EvidenceOK, UNCHANGED <<receipt, child>>, NEW cs, hist' \in {hist, Cleaned(cs)}
  PROVE  EvidenceOK'
<1>1. Steady(child, child')
  BY DEF Steady
<1>2. hist \in [Cycles -> Seq(GoodPairs)]
  BY DEF IInv, FilesOK
<1>3. \A c \in Cycles : \A i \in 1..Len(hist'[c]) : i \in 1..Len(hist[c]) /\ hist'[c][i] = hist[c][i]
  <2>1. CASE hist' = hist
    BY <2>1
  <2>2. CASE hist' = Cleaned(cs)
    <3> SUFFICES ASSUME NEW c \in Cycles, NEW i \in 1..Len(hist'[c])
                 PROVE  i \in 1..Len(hist[c]) /\ hist'[c][i] = hist[c][i]
      OBVIOUS
    <3>1. /\ Len(hist'[c]) \in 0..Len(hist[c]) /\ Len(hist[c]) \in Nat
          /\ \A j \in 1..Len(hist'[c]) : hist'[c][j] = hist[c][j]
      BY <1>2, <2>2, CleanedOK
    <3> QED
      BY <3>1
  <2> QED
    BY <2>1, <2>2
<1>4. HistoryOK'
  <2> SUFFICES ASSUME NEW c \in Cycles, NEW i \in 1..Len(hist'[c]),
                      NEW s, s = hist'[c][i].json, s # Null
               PROVE  CkptOK(s)'
    BY DEF HistoryOK
  <2>1. s = hist[c][i].json
    BY <1>3
  <2>4. i \in 1..Len(hist[c]) /\ s = hist'[c][i].json /\ s # Null
    BY <1>3, <2>1
  <2>5. CkptOK(s)
    BY <2>1, <2>4 DEF EvidenceOK, HistoryOK
  <2>6. hist[c][i] \in GoodPairs
    BY <1>2, <2>4
  <2>2. s \in Ckpts /\ CkptOK(s) /\ s = hist'[c][i].json
    BY <2>1, <2>4, <2>5, <2>6 DEF GoodPairs, GoodCkpts
  <2>3. CkptOK(s)'
    BY <1>1, <2>2, CkptKept
  <2> QED
    BY <2>2, <2>3
<1>5. ReceiptsOK' /\ BasesOK'
  BY DEF EvidenceOK, ReceiptsOK, Sound, ChildSealedAs, BasesOK, CommitExists
<1>6. Ranked'
  BY RankedKept DEF EvidenceOK, Made
<1> QED
  BY <1>4, <1>5, <1>6 DEF EvidenceOK

\* Worker w moves to local state k while child runs stay or are w's own.
LEMMA HoldStep ==
  ASSUME EInv, IInv', NEW w \in Workers, NEW k, Become(w, k), Holds(k)', EvidenceOK',
         Steady(child, child'),
         \A id \in Commits : child[id].st = "running" /\ (wk[w].pc = "child" => Current(wk[w]) # id)
                               => child'[id].st = "running"
  PROVE  EInv'
<1> SUFFICES ASSUME NEW v \in Workers PROVE Holds(wk[v])'
  BY DEF EInv
<1>1. wk'[w] = k /\ \A u \in Workers \ {w} : wk'[u] = wk[u]
  BY DEF EInv, IInv, Become
<1>2. CASE v = w
  BY <1>1, <1>2
<1>3. CASE v # w
  <2>1. PICK l : l = wk[v]
    OBVIOUS
  <2>2. l \in Locals /\ WorkerOK(l, dirs, child) /\ Holds(l) /\ wk'[v] = l
    BY <1>1, <1>3, <2>1 DEF EInv, IInv
  <2>3. l.pc \in {"ckpt_json", "ckpt_sha", "pair"} => l.ck \in Ckpts
    BY <2>2 DEF WorkerOK, GoodCkpts
  <2>4. ASSUME l.pc = "child" PROVE child'[Current(l)].st = "running"
    <3>1. Current(l) \in Commits
      BY <2>2, <2>4, CurrentType DEF WorkerOK, EInv, IInv, FilesOK
    <3>2. child[Current(l)].st = "running"
      BY <2>2, <2>4 DEF Holds
    <3>3. wk[w].pc = "child" => Current(wk[w]) # Current(l)
      BY <1>3, <2>1, <2>4 DEF EInv, IInv, OneWorkerPerChild
    <3> QED
      BY <3>1, <3>2, <3>3
  <2>5. Holds(l)'
    BY <2>2, <2>3, <2>4, HoldsKept
  <2> QED
    BY <2>2, <2>5
<1> QED
  BY <1>2, <1>3

\* Worker w moves to local state k, and no child run changes.
LEMMA QuietStep ==
  ASSUME EInv, IInv', NEW w \in Workers, NEW k, Become(w, k), Holds(k), EvidenceOK', UNCHANGED child
  PROVE  EInv'
<1>1. Holds(k)'
  BY DEF Holds, CkptOK, Verified, Sound, ChainFrom, CommitExists, Parent, LastHead, ChildSealedAs
<1>2. Steady(child, child')
  BY DEF Steady
<1> QED
  BY <1>1, <1>2, HoldStep

(***************************************************************************)
(* The steps of a worker.                                                  *)
(***************************************************************************)
\* A worker that returns or is killed.
LEMMA IdleEvidence ==
  ASSUME EInv, IInv', NEW w \in Workers, Become(w, Idle), EvidenceOK', UNCHANGED child
  PROVE  EInv'
<1>1. Idle.done = <<>> /\ Idle.pc = "idle"
  BY DEF Idle
<1>2. Holds(Idle)
  BY <1>1 DEF Holds, Sound
<1> QED
  BY <1>2, QuietStep

\* record() reports tasks that were accepted.
LEMMA RecordEvidence ==
  ASSUME EInv, IInv', NEW w \in Workers, NEW k \in Locals, NEW status \in {"blocked", "failed"},
         Sound(k.done), Record(w, k, status), EvidenceOK', UNCHANGED child
  PROVE  EInv'
<1> DEFINE pre == k.head = Anchor /\ k.done = <<>> /\ ~k.stopped
           r == [status |-> status, reason |-> "other",
                 base |-> k.base, head |-> k.head, done |-> k.done,
                 stopped |-> k.stopped, pre |-> pre, by |-> w]
           l == [k EXCEPT !.pc = "rec_json", !.out = r]
<1>1. pre \in BOOLEAN /\ Become(w, l)
  BY DEF Record
<1> HIDE DEF pre
<1>2. r \in Receipts /\ r.done = k.done
  BY <1>1 DEF Receipts, Locals
<1> HIDE DEF r
<1>3. l.pc = "rec_json" /\ l.out = r /\ l.done = k.done
  BY DEF Locals
<1> HIDE DEF l
<1>4. Holds(l)
  BY <1>2, <1>3 DEF Holds
<1> QED
  BY <1>1, <1>4, QuietStep

\* write_checkpoint is given a verified chain.
LEMMA CheckpointEvidence ==
  ASSUME EInv, IInv', NEW w \in Workers, NEW k \in Locals, NEW life, NEW term,
         Verified(k.base, k.done, k.head), Checkpoint(w, k, life, term), EvidenceOK', UNCHANGED child
  PROVE  EInv'
<1>1. CASE AllSealed(hist'[k.c])
  <2> DEFINE s == [life |-> life, base |-> k.base, head |-> k.head,
                   done |-> k.done, term |-> term, by |-> w]
             n == Len(hist'[k.c]) + 1
             l == [k EXCEPT !.pc = "ckpt_json", !.seq = n, !.ck = s]
  <2>1. Become(w, l)
    BY <1>1 DEF Checkpoint
  <2>2. s.base = k.base /\ s.head = k.head /\ s.done = k.done
    OBVIOUS
  <2> HIDE DEF s, n
  <2>3. l.pc = "ckpt_json" /\ l.ck = s /\ l.base = k.base /\ l.head = k.head /\ l.done = k.done
    BY DEF Locals
  <2> HIDE DEF l
  <2>4. Holds(l)
    BY <2>2, <2>3 DEF Holds, CkptOK, Verified
  <2> QED
    BY <2>1, <2>4, QuietStep
<1>2. CASE ~AllSealed(hist'[k.c]) /\ k.guarded
  BY <1>2, RecordEvidence DEF Checkpoint, Verified
<1>3. CASE ~AllSealed(hist'[k.c]) /\ ~k.guarded
  BY <1>3, IdleEvidence DEF Checkpoint
<1> QED
  BY <1>1, <1>2, <1>3

\* A verified chain and a completed child run on its head make one.
LEMMA ChainExtended ==
  ASSUME NEW b, NEW s \in Chains, NEW h, Verified(b, s, h),
         NEW id \in Commits, ChildSealedAs(id, "completed"), Parent(id) = h
  PROVE  Verified(b, Append(s, id), id)
<1>1. s \in Seq(Commits) /\ Len(s) \in Nat
  BY ChainLength
<1>2. CommitExists(id)
  BY DEF CommitExists, ChildSealedAs
<1>5. PICK d : d = Append(s, id)
  OBVIOUS
<1>6. /\ d # <<>> /\ Len(d) = Len(s) + 1 /\ d[Len(d)] = id
      /\ \A j \in 1..Len(s) : d[j] = s[j]
  BY <1>1, <1>5
<1>7. LastHead(b, d) = id
  BY <1>6 DEF LastHead, Last
<1>8. Sound(d)
  BY <1>1, <1>6 DEF Verified, Sound
<1>9. h = IF Len(s) = 0 THEN b ELSE s[Len(s)]
  BY <1>1 DEF Verified, LastHead, Last
<1>10. ASSUME NEW i \in 1..Len(d)
       PROVE  CommitExists(d[i]) /\ Parent(d[i]) = (IF i = 1 THEN b ELSE d[i - 1])
  <2>1. CASE i = Len(d)
    <3>1. i = Len(s) + 1 /\ d[i] = id
      BY <1>6, <2>1
    <3>2. CASE Len(s) = 0
      BY <1>2, <1>9, <3>1, <3>2
    <3>3. CASE Len(s) # 0
      <4>1. d[i - 1] = s[Len(s)] /\ i # 1
        BY <1>1, <1>6, <3>1, <3>3
      <4> QED
        BY <1>2, <1>9, <3>1, <3>3, <4>1
    <3> QED
      BY <3>2, <3>3
  <2>2. CASE i # Len(d)
    <3>1. i \in 1..Len(s) /\ d[i] = s[i] /\ (i # 1 => d[i - 1] = s[i - 1])
      BY <1>1, <1>6, <2>2
    <3> QED
      BY <3>1 DEF Verified, ChainFrom
  <2> QED
    BY <2>1, <2>2
<1> QED
  BY <1>5, <1>7, <1>8, <1>10 DEF Verified, ChainFrom

\* Accepting a completed child extends a verified chain.
LEMMA AcceptEvidence ==
  ASSUME EInv, IInv', NEW w \in Workers, NEW k \in Locals, k.c \in Cycles, Len(k.done) < TaskCount,
         Verified(k.base, k.done, k.head), ChildVerified(Current(k), k.head), Completed(Current(k)),
         Accept(w, k), EvidenceOK', UNCHANGED child
  PROVE  EInv'
<1> DEFINE id == Current(k)
           l == [k EXCEPT !.done = Append(@, id), !.head = id, !.stopped = FALSE, !.active = FALSE]
<1>1. id \in Commits /\ k.done \in Chains
  BY CurrentType DEF Locals
<1>2. CommitExists(id) /\ ChildSealedAs(id, "completed") /\ Parent(id) = k.head
  BY <1>1 DEF ChildVerified, Completed, CommitExists, ChildSealedAs
<1>3. Checkpoint(w, l, "accepted_task", "none")
  BY DEF Accept
<1> HIDE DEF id
<1>4. l \in Locals /\ l.base = k.base /\ l.head = id /\ l.done = Append(k.done, id)
  BY <1>1, ChainGrows DEF Locals, Heads
<1> HIDE DEF l
<1>5. Verified(l.base, l.done, l.head)
  BY <1>1, <1>2, <1>4, ChainExtended
<1> QED
  BY <1>3, <1>4, <1>5, CheckpointEvidence

\* A child that did not complete ends a verified chain.
LEMMA TerminalizeEvidence ==
  ASSUME EInv, IInv', NEW w \in Workers, NEW k \in Locals,
         Verified(k.base, k.done, k.head), Terminalize(w, k), EvidenceOK', UNCHANGED child
  PROVE  EInv'
<1> DEFINE l  == [k EXCEPT !.stopped = TRUE]
           st == child[Current(k)].st
<1>1. l \in Locals /\ l.base = k.base /\ l.head = k.head /\ l.done = k.done
  BY DEF Locals
<1>2. Checkpoint(w, l, "finalizing", st)
  BY DEF Terminalize
<1> HIDE DEF l, st
<1> QED
  BY <1>1, <1>2, CheckpointEvidence

\* A receipt is written over the evidence.
LEMMA ReceiptEvidence ==
  ASSUME EInv, NEW c \in Cycles, NEW r, Sound(r.done),
         receipt' = [receipt EXCEPT ![c] = r], UNCHANGED <<hist, child>>
  PROVE  EvidenceOK'
<1>1. Sound(r.done)'
  BY DEF Sound, ChildSealedAs
<1>2. \A d \in Cycles : receipt'[d] = IF d = c THEN r ELSE receipt[d]
  BY DEF EInv, IInv, FilesOK
<1>3. ReceiptsOK'
  <2> SUFFICES ASSUME NEW d \in Cycles, NEW q, q = receipt'[d], q # Null PROVE Sound(q.done)'
    BY DEF ReceiptsOK
  <2>1. Sound(q.done)
    BY <1>2 DEF EInv, EvidenceOK, ReceiptsOK
  <2> QED
    BY <2>1 DEF Sound, ChildSealedAs
<1>4. HistoryOK'
  <2> SUFFICES ASSUME NEW d \in Cycles, NEW j \in 1..Len(hist'[d]),
                      NEW q, q = hist'[d][j].json, q # Null
               PROVE  CkptOK(q)'
    BY DEF HistoryOK
  <2>1. CkptOK(q)
    BY DEF EInv, EvidenceOK, HistoryOK
  <2> QED
    BY <2>1 DEF CkptOK, Verified, Sound, ChainFrom, CommitExists, Parent, LastHead, ChildSealedAs
<1>6. BasesOK'
  BY DEF EInv, EvidenceOK, CommitExists, BasesOK
<1>5. Ranked'
  BY RankedKept DEF EInv, EvidenceOK, Made
<1> QED
  BY <1>3, <1>4, <1>5, <1>6 DEF EvidenceOK

\* A checkpoint file is written over the evidence.
LEMMA CheckpointFileEvidence ==
  ASSUME EInv, NEW c \in Cycles, NEW i \in Nat \ {0}, NEW s, CkptOK(s),
         hist' \in {[hist EXCEPT ![c] = PutJson(@, i, s)], [hist EXCEPT ![c] = PutSha(@, i, s)]},
         UNCHANGED <<receipt, child>>
  PROVE  EvidenceOK'
<1>1. hist \in [Cycles -> Seq(GoodPairs)]
  BY DEF EInv, IInv, FilesOK
<1>2. ASSUME NEW d \in Cycles, NEW j \in 1..Len(hist'[d])
      PROVE  \/ hist'[d][j].json \in {s, Null}
             \/ j \in 1..Len(hist[d]) /\ hist'[d][j].json = hist[d][j].json
  <2>1. CASE d # c
    BY <1>1, <2>1
  <2>2. CASE d = c
    <3>1. PICK h : h = hist[c]
      OBVIOUS
    <3>2. h \in Seq(GoodPairs) /\ Len(h) \in Nat /\ \A n \in 1..Len(h) : h[n] \in GoodPairs
      BY <1>1, <3>1
    <3>3. hist'[d] \in {PutJson(h, i, s), PutSha(h, i, s)}
      BY <1>1, <2>2, <3>1
    <3>4. \A p \in GoodPairs : [p EXCEPT !.json = s].json = s /\ [p EXCEPT !.sha = s].json = p.json
      BY DEF GoodPairs
    <3>5. CASE i <= Len(h)
      <4>1. /\ i \in 1..Len(h) /\ h[i] \in GoodPairs
            /\ hist'[d] \in {[h EXCEPT ![i].json = s], [h EXCEPT ![i].sha = s]}
        BY <3>2, <3>3, <3>5 DEF PutJson, PutSha
      <4>2. Len(hist'[d]) = Len(h) /\ j \in 1..Len(h)
        BY <3>2, <4>1
      <4>3. hist'[d][j] \in {h[j], [h[i] EXCEPT !.json = s], [h[i] EXCEPT !.sha = s]}
            /\ (j # i => hist'[d][j] = h[j])
        BY <3>2, <4>1, <4>2
      <4> QED
        BY <2>2, <3>1, <3>4, <4>1, <4>2, <4>3
    <3>6. CASE ~(i <= Len(h))
      <4>1. PICK q \in {[json |-> s, sha |-> Null], [json |-> Null, sha |-> s]} : hist'[d] = Append(h, q)
        BY <3>3, <3>6 DEF PutJson, PutSha
      <4>2. CASE j \in 1..Len(h)
        BY <2>2, <3>1, <3>2, <4>1, <4>2
      <4>3. CASE j \notin 1..Len(h)
        <5>1. hist'[d][j] = q
          BY <3>2, <4>1, <4>3
        <5> QED
          BY <4>1, <5>1
      <4> QED
        BY <4>2, <4>3
    <3> QED
      BY <3>5, <3>6
  <2> QED
    BY <2>1, <2>2
<1>3. HistoryOK'
  <2> SUFFICES ASSUME NEW d \in Cycles, NEW j \in 1..Len(hist'[d]),
                      NEW q, q = hist'[d][j].json, q # Null
               PROVE  CkptOK(q)'
    BY DEF HistoryOK
  <2>1. CkptOK(q)
    BY <1>2 DEF EInv, EvidenceOK, HistoryOK
  <2> QED
    BY <2>1 DEF CkptOK, Verified, Sound, ChainFrom, CommitExists, Parent, LastHead, ChildSealedAs
<1>4. ReceiptsOK' /\ BasesOK'
  BY DEF EInv, EvidenceOK, ReceiptsOK, Sound, ChildSealedAs, BasesOK, CommitExists
<1>5. Ranked'
  BY RankedKept DEF EInv, EvidenceOK, Made
<1> QED
  BY <1>3, <1>4, <1>5 DEF EvidenceOK

\* The files stay sound when child runs go on.
LEMMA SteadyFiles ==
  ASSUME EInv, Steady(child, child'), UNCHANGED <<hist, receipt>>
  PROVE  HistoryOK' /\ ReceiptsOK'
<1>4. ASSUME NEW d \in Cycles, NEW j \in 1..Len(hist'[d]), NEW q, q = hist'[d][j].json, q # Null
      PROVE  CkptOK(q)'
  <2>1. CkptOK(q)
    BY <1>4 DEF EInv, EvidenceOK, HistoryOK
  <2>2. hist[d][j] \in GoodPairs
    BY <1>4 DEF EInv, IInv, FilesOK
  <2>3. q \in Ckpts
    BY <1>4, <2>2 DEF GoodPairs, GoodCkpts
  <2> QED
    BY <2>1, <2>3, CkptKept
<1>5. HistoryOK'
  BY <1>4 DEF HistoryOK
<1>6. ASSUME NEW d \in Cycles, NEW q, q = receipt'[d], q # Null PROVE Sound(q.done)'
  <2>1. q.done \in Chains
    BY <1>6 DEF EInv, IInv, FilesOK, Receipts
  <2>2. Sound(q.done)
    BY <1>6 DEF EInv, EvidenceOK, ReceiptsOK
  <2> QED
    BY <2>1, <2>2, SoundKept
<1>7. ReceiptsOK'
  BY <1>6 DEF ReceiptsOK
<1> QED
  BY <1>5, <1>7

\* The child run: the evidence of ended runs stays, a started run stands on a
\* commit, and a run that makes a commit gets the next number.
LEMMA ChildEvidence ==
  ASSUME EInv, NEW id \in Commits, child[id].st \in {"absent", "running"},
         NEW st \in ChildStates \ {"absent"}, NEW b, CommitExists(b),
         NEW written, NEW sealed,
         child[id].st = "running" => b = child[id].base,
         child' = [child EXCEPT ![id] = [st |-> st, base |-> b, written |-> written, sealed |-> sealed]],
         UNCHANGED <<hist, receipt>>
  PROVE  Steady(child, child') /\ EvidenceOK'
<1>1. child \in [Commits -> ChildRuns]
  BY DEF EInv, IInv, ChildOK
<1>2. /\ child'[id].st = st /\ child'[id].base = b
      /\ \A x \in Commits \ {id} : child'[x] = child[x]
  BY <1>1
<1>3. Steady(child, child')
  BY <1>2 DEF Steady, Ended
<1>4. HistoryOK' /\ ReceiptsOK'
  BY <1>3, SteadyFiles
<1>8. BasesOK'
  <2> SUFFICES ASSUME NEW x \in Commits, NEW a, a = child'[x].base, child'[x].st # "absent"
               PROVE  CommitExists(a)'
    BY DEF BasesOK
  <2>1. CommitExists(a)
    BY <1>2 DEF EInv, EvidenceOK, BasesOK
  <2> QED
    BY <1>3, <2>1, CommitKept
<1>9. Ranked'
  <2>1. CASE st \notin {"completed", "failed_commit"}
    <3>1. Made' = Made /\ id \notin Made
      BY <1>2, <2>1 DEF Made
    <3>2. Made \subseteq Commits
      BY DEF Made
    <3> QED
      BY <1>2, <3>1, <3>2, RankedKept DEF EInv, EvidenceOK
  <2>2. CASE st \in {"completed", "failed_commit"}
    <3>1. Made' = Made \cup {id} /\ id \notin Made /\ Made \subseteq Commits
      BY <1>2, <2>2 DEF Made
    <3>2. PICK rank \in [Commits -> Nat] : Numbered(rank)
      BY DEF EInv, EvidenceOK, Ranked
    <3>3. PICK m : m = Cardinality(Made)
      OBVIOUS
    <3>4. m \in Nat /\ Cardinality(Made') = m + 1
      <4>1. IsFiniteSet(Made) /\ m \in Nat
        BY <3>3, MadeFinite
      <4>2. Cardinality(Made \cup {id}) = m + 1
        BY <3>1, <3>3, <4>1, FS_AddElement
      <4> QED
        BY <3>1, <4>1, <4>2
    <3> DEFINE r == [rank EXCEPT ![id] = m + 1]
    <3>5. r \in [Commits -> Nat] /\ r[id] = m + 1 /\ \A x \in Made : r[x] = rank[x]
      BY <3>1, <3>4
    <3>6. PICK rr : rr = r
      OBVIOUS
    <3> HIDE DEF r
    <3>7. b # Anchor => b \in Made
      BY DEF CommitExists, Made
    <3>8. ASSUME NEW x \in Made'
          PROVE  /\ rr[x] \in 1..(m + 1)
                 /\ child'[x].base # Anchor => child'[x].base \in Made' /\ rr[child'[x].base] < rr[x]
      <4>1. CASE x = id
        <5>1. b # Anchor => rank[b] \in 1..m
          BY <3>2, <3>3, <3>7 DEF Numbered
        <5> QED
          BY <1>2, <3>1, <3>4, <3>5, <3>6, <3>7, <4>1, <5>1
      <4>2. CASE x # id
        <5>1. x \in Made /\ x \in Commits /\ child'[x].base = child[x].base
          BY <1>2, <3>1, <4>2
        <5>2. /\ rank[x] \in 1..m
              /\ child[x].base # Anchor => child[x].base \in Made /\ rank[child[x].base] < rank[x]
          BY <3>2, <3>3, <5>1 DEF Numbered, Parent
        <5> QED
          BY <3>1, <3>4, <3>5, <3>6, <5>1, <5>2
      <4> QED
        BY <4>1, <4>2
    <3>9. Numbered(rr)'
      BY <3>4, <3>8 DEF Numbered, Parent
    <3> QED
      BY <3>5, <3>6, <3>9 DEF Ranked
  <2> QED
    BY <2>1, <2>2
<1> QED
  BY <1>3, <1>4, <1>8, <1>9 DEF EvidenceOK

\* Sealing an ended run.
LEMMA SealEvidence ==
  ASSUME EInv, NEW id \in Commits, child[id].st \in Ended,
         child' = [child EXCEPT ![id].sealed = TRUE], UNCHANGED <<hist, receipt>>
  PROVE  Steady(child, child') /\ EvidenceOK'
<1>1. child \in [Commits -> ChildRuns]
  BY DEF EInv, IInv, ChildOK
<1>2. /\ \A x \in Commits : child'[x].st = child[x].st /\ child'[x].base = child[x].base
      /\ \A x \in Commits : child[x].sealed => child'[x].sealed
  BY <1>1 DEF ChildRuns
<1>3. Steady(child, child')
  BY <1>2 DEF Steady
<1>4. HistoryOK' /\ ReceiptsOK'
  BY <1>3, SteadyFiles
<1>5. BasesOK'
  BY <1>2 DEF EInv, EvidenceOK, BasesOK, CommitExists
<1>6. Made' = Made /\ Made \subseteq Commits
  BY <1>2 DEF Made
<1>7. Ranked'
  BY <1>2, <1>6, RankedKept DEF EInv, EvidenceOK
<1> QED
  BY <1>3, <1>4, <1>5, <1>7 DEF EvidenceOK

\* The record of a child run, updated.
LEMMA RunFields ==
  ASSUME NEW r \in ChildRuns, NEW st, NEW b, NEW wr
  PROVE  /\ [r EXCEPT !.st = st, !.base = b] = [st |-> st, base |-> b, written |-> r.written, sealed |-> r.sealed]
         /\ [r EXCEPT !.st = st, !.written = wr] = [st |-> st, base |-> r.base, written |-> wr, sealed |-> r.sealed]
<1>1. PICK a, p, x, y : r = [st |-> a, base |-> p, written |-> x, sealed |-> y]
  BY DEF ChildRuns
<1>2. r.base = p /\ r.written = x /\ r.sealed = y
  BY <1>1
<1>3. PICK q : q = [r EXCEPT !.st = st]
  OBVIOUS
<1>4. q = [st |-> st, base |-> p, written |-> x, sealed |-> y]
  BY <1>1, <1>3
<1>5. /\ [r EXCEPT !.st = st, !.base = b] = [q EXCEPT !.base = b]
      /\ [r EXCEPT !.st = st, !.written = wr] = [q EXCEPT !.written = wr]
  BY <1>3
<1>6. [q EXCEPT !.base = b] = [st |-> st, base |-> b, written |-> x, sealed |-> y]
  BY <1>4
<1>7. [q EXCEPT !.written = wr] = [st |-> st, base |-> p, written |-> wr, sealed |-> y]
  BY <1>4
<1> QED
  BY <1>2, <1>5, <1>6, <1>7

\* The child run: its outcome is judged on the head it was started on.
LEMMA ChildEvidenceSteps ==
  ASSUME EInv, IInv', NEW w \in Workers,
         SpawnChild(w) \/ ChildEnds(w) \/ ChildRaises(w) \/ SealChild(w) \/ JudgeChild(w)
  PROVE  EInv'
<1>1. PICK k : k = wk[w]
  OBVIOUS
<1>2. PICK id : id = Current(k)
  OBVIOUS
<1>3. k.pc \in {"spawn", "child", "seal", "judge"} /\ ~At(w, "idle")
  BY <1>1 DEF SpawnChild, ChildEnds, ChildRaises, SealChild, JudgeChild, At
<1>4. /\ k \in Locals /\ k.c \in Cycles /\ WorkerOK(k, dirs, child) /\ Len(k.done) < TaskCount
      /\ Holds(k)
  BY <1>1, <1>3, OwnState DEF WorkerOK, EInv
<1>5. id \in Commits /\ Verified(k.base, k.done, k.head) /\ Sound(k.done)
  BY <1>2, <1>3, <1>4, CurrentType DEF Holds
<1>6. child \in [Commits -> ChildRuns] /\ child[id] \in ChildRuns
  BY <1>5 DEF EInv, IInv, ChildOK
<1>7. CommitExists(k.head)
  <2>1. k.done \in Seq(Commits) /\ Len(k.done) \in Nat
    BY <1>4, ChainLength DEF Locals
  <2>2. CASE k.done = <<>>
    BY <1>5, <2>2 DEF Verified, LastHead
  <2>3. CASE k.done # <<>>
    <3>1. k.head = k.done[Len(k.done)] /\ Len(k.done) \in 1..Len(k.done)
      BY <1>5, <2>1, <2>3 DEF Verified, LastHead, Last
    <3> QED
      BY <1>5, <3>1 DEF Verified, ChainFrom
  <2> QED
    BY <2>2, <2>3
<1>8. UNCHANGED child /\ UNCHANGED <<hist, receipt>> => EvidenceOK'
  BY SameEvidence DEF EInv
<1>9. CASE SpawnChild(w) /\ Absent(id)
  <2> DEFINE l == [k EXCEPT !.pc = "child"]
  <2>1. /\ child' = [child EXCEPT ![id] = [child[id] EXCEPT !.st = "running", !.base = k.head]]
        /\ Become(w, l) /\ child[id].st = "absent" /\ UNCHANGED <<hist, receipt>>
    BY <1>1, <1>2, <1>9 DEF SpawnChild, Absent
  <2>2. child' = [child EXCEPT ![id] =
                    [st |-> "running", base |-> k.head, written |-> child[id].written, sealed |-> child[id].sealed]]
    BY <1>6, <2>1, RunFields
  <2>3. Steady(child, child') /\ EvidenceOK'
    <3>1. "running" \in ChildStates \ {"absent"} /\ child[id].st \in {"absent", "running"}
      BY <2>1 DEF ChildStates
    <3>2. UNCHANGED <<hist, receipt>> /\ child[id].st # "running"
      BY <2>1
    <3> HIDE DEF l
    <3> QED
      BY <1>5, <1>7, <2>2, <3>1, <3>2, ChildEvidence
  <2>4. child'[id].st = "running" /\ \A x \in Commits \ {id} : child'[x] = child[x]
    BY <1>5, <1>6, <2>1, <2>2
  <2>5. l \in Locals /\ l.pc = "child" /\ l.base = k.base /\ l.head = k.head /\ l.done = k.done /\ l.c = k.c
    BY <1>4 DEF Locals, PCs
  <2>6. Current(l) = id
    BY <1>2, <2>5 DEF Current
  <2> HIDE DEF l
  <2>7. PICK ll : ll = l
    OBVIOUS
  <2>8. Verified(k.base, k.done, k.head)' /\ Sound(k.done)'
    <3>1. k.done \in Chains
      BY <1>4 DEF Locals
    <3> QED
      BY <1>5, <2>3, <3>1, VerifiedKept, SoundKept
  <2>9. Holds(ll)'
    BY <2>4, <2>5, <2>6, <2>7, <2>8 DEF Holds
  <2> QED
    BY <1>1, <2>1, <2>3, <2>4, <2>7, <2>9, HoldStep
<1>10. CASE SpawnChild(w) /\ ~Absent(id)
  BY <1>1, <1>2, <1>4, <1>5, <1>8, <1>10, RecordEvidence DEF SpawnChild
<1>11. CASE ChildEnds(w)
  <2> DEFINE l == [k EXCEPT !.pc = "seal"]
  <2>1. PICK st \in Ended : child' = [child EXCEPT ![id] = [child[id] EXCEPT !.st = st, !.written = TRUE]]
    BY <1>1, <1>2, <1>11 DEF ChildEnds, Ended
  <2>2. Become(w, l) /\ UNCHANGED <<hist, receipt>> /\ k.pc = "child"
    BY <1>1, <1>11 DEF ChildEnds, At
  <2>3. child' = [child EXCEPT ![id] =
                    [st |-> st, base |-> child[id].base, written |-> TRUE, sealed |-> child[id].sealed]]
    <3>1. PICK r \in ChildRuns : r = child[id]
      BY <1>6
    <3>2. [r EXCEPT !.st = st, !.written = TRUE]
            = [st |-> st, base |-> r.base, written |-> TRUE, sealed |-> r.sealed]
      BY RunFields, Zenon
    <3> QED
      BY <2>1, <3>1, <3>2, Zenon
  <2>4. child[id].st = "running" /\ CommitExists(child[id].base)
    BY <1>2, <1>4, <1>5, <2>2 DEF Holds, EInv, EvidenceOK, BasesOK
  <2>5. Steady(child, child') /\ EvidenceOK'
    <3>1. st \in ChildStates \ {"absent"} /\ child[id].st \in {"absent", "running"}
      BY <2>1, <2>4 DEF ChildStates, Ended
    <3> QED
      BY <1>5, <2>2, <2>3, <2>4, <3>1, ChildEvidence
  <2>6. \A x \in Commits \ {id} : child'[x] = child[x]
    BY <1>5, <1>6, <2>1, <2>3
  <2>7. l.pc = "seal" /\ l.base = k.base /\ l.head = k.head /\ l.done = k.done
    BY <1>4 DEF Locals
  <2> HIDE DEF l
  <2>8. PICK ll : ll = l
    OBVIOUS
  <2>9. Verified(k.base, k.done, k.head)' /\ Sound(k.done)'
    <3>1. k.done \in Chains
      BY <1>4 DEF Locals
    <3> QED
      BY <1>5, <2>5, <3>1, VerifiedKept, SoundKept
  <2>10. Holds(ll)'
    BY <2>7, <2>8, <2>9 DEF Holds
  <2> QED
    BY <1>1, <1>2, <2>2, <2>5, <2>6, <2>8, <2>10, HoldStep
<1>12. CASE ChildRaises(w)
  BY <1>1, <1>4, <1>5, <1>8, <1>12, RecordEvidence DEF ChildRaises
<1>13. CASE SealChild(w)
  <2> DEFINE l == [k EXCEPT !.pc = "judge"]
  <2>1. /\ child' = [child EXCEPT ![id].sealed = TRUE] /\ UNCHANGED <<hist, receipt>>
        /\ Become(w, l) /\ k.pc = "seal"
    BY <1>1, <1>2, <1>13 DEF SealChild, At
  <2>2. child[id].st \in Ended
    BY <1>2, <1>4, <2>1 DEF WorkerOK
  <2>3. Steady(child, child') /\ EvidenceOK'
    BY <1>5, <2>1, <2>2, SealEvidence
  <2>4. \A x \in Commits : child'[x].st = child[x].st
    BY <1>5, <1>6, <2>1 DEF ChildRuns
  <2>5. l.pc = "judge" /\ l.base = k.base /\ l.head = k.head /\ l.done = k.done
    BY <1>4 DEF Locals
  <2> HIDE DEF l
  <2>6. PICK ll : ll = l
    OBVIOUS
  <2>7. Verified(k.base, k.done, k.head)' /\ Sound(k.done)'
    <3>1. k.done \in Chains
      BY <1>4 DEF Locals
    <3> QED
      BY <1>5, <2>3, <3>1, VerifiedKept, SoundKept
  <2>8. Holds(ll)'
    BY <2>5, <2>6, <2>7 DEF Holds
  <2> QED
    BY <2>1, <2>3, <2>4, <2>6, <2>8, HoldStep
<1>14. CASE JudgeChild(w)
  <2>1. UNCHANGED child /\ EvidenceOK'
    BY <1>8, <1>14 DEF JudgeChild
  <2>2. CASE Record(w, k, "failed")
    BY <2>1, <2>2, <1>4, <1>5, RecordEvidence
  <2>3. CASE ChildVerified(id, k.head) /\ Completed(id) /\ Accept(w, k)
    BY <2>1, <2>3, <1>2, <1>4, <1>5, AcceptEvidence
  <2>4. CASE Terminalize(w, k)
    BY <2>1, <2>4, <1>4, <1>5, TerminalizeEvidence
  <2> QED
    BY <1>1, <1>2, <1>14, <2>2, <2>3, <2>4 DEF JudgeChild
<1> QED
  BY <1>1, <1>2, <1>9, <1>10, <1>11, <1>12, <1>13, <1>14

\* load_latest_checkpoint returns one of the sealed pairs.
LEMMA LoadedIs ==
  ASSUME hist \in [Cycles -> Seq(GoodPairs)], NEW c \in Cycles, Loadable(c)
  PROVE  \E i \in 1..Len(hist[c]) : /\ Sealed(hist[c][i]) /\ LoadedCkpt(c) = hist[c][i].json
                                    /\ i = IF HasOrphan(c) THEN Len(hist[c]) - 1 ELSE Len(hist[c])
<1> DEFINE h == hist[c]
<1>1. h \in Seq(GoodPairs) /\ Len(h) \in Nat /\ Len(h) > 0
  BY DEF Loadable
<1>2. Last(h) = h[Len(h)]
  BY DEF Last
<1>3. CASE HasOrphan(c)
  <2>1. ~Sealed(h[Len(h)])
    BY <1>2, <1>3 DEF HasOrphan, Incomplete, Sealed
  <2>2. Len(h) - 1 \in 1..(Len(h) - 1) /\ Len(h) - 1 \in 1..Len(h)
    BY <2>1, <1>1, <1>2 DEF Loadable
  <2>3. Sealed(h[Len(h) - 1])
    BY <2>2 DEF Loadable
  <2> QED
    BY <1>3, <2>2, <2>3 DEF LoadedCkpt
<1>4. CASE ~HasOrphan(c)
  <2>1. Sealed(h[Len(h)]) /\ LoadedCkpt(c) = h[Len(h)].json
    BY <1>2, <1>4 DEF LoadedCkpt, HasOrphan, Loadable
  <2> QED
    BY <1>1, <1>4, <2>1
<1> QED
  BY <1>3, <1>4

\* load_latest_checkpoint returns a verified chain.
LEMMA LoadedOK ==
  ASSUME EInv, NEW c \in Cycles, Loadable(c)
  PROVE  LoadedCkpt(c) \in Ckpts /\ CkptOK(LoadedCkpt(c))
<1>1. hist \in [Cycles -> Seq(GoodPairs)]
  BY DEF EInv, IInv, FilesOK
<1>2. PICK i \in 1..Len(hist[c]) : Sealed(hist[c][i]) /\ LoadedCkpt(c) = hist[c][i].json
  BY <1>1, LoadedIs
<1>3. LoadedCkpt(c) \in GoodCkpts
  BY <1>1, LoadedType
<1> QED
  BY <1>2, <1>3 DEF EInv, EvidenceOK, HistoryOK, Sealed, GoodCkpts

\* The head of the task loop.
LEMMA LoopEvidence ==
  ASSUME EInv, IInv', NEW w \in Workers, NextTask(w) \/ FinishQueue(w)
  PROVE  EInv'
<1>1. PICK k : k = wk[w]
  OBVIOUS
<1>2. k.pc = "loop" /\ k \in Locals /\ Verified(k.base, k.done, k.head)
  BY <1>1 DEF NextTask, FinishQueue, At, EInv, IInv, Holds
<1>3. UNCHANGED <<hist, receipt, child>> /\ EvidenceOK'
  <2>1. UNCHANGED <<hist, receipt, child>>
    BY DEF NextTask, FinishQueue
  <2> QED
    BY <2>1, SameEvidence DEF EInv
<1>4. CASE NextTask(w)
  <2> DEFINE m == [k EXCEPT !.stopped = TRUE]
             l == [m EXCEPT !.pc = "spawn"]
  <2>1. m \in Locals /\ m.base = k.base /\ m.head = k.head /\ m.done = k.done
    BY <1>2 DEF Locals
  <2>2. \/ Become(w, l)
        \/ Checkpoint(w, m, "active_task", "none")
    BY <1>1, <1>4 DEF NextTask
  <2> HIDE DEF m
  <2>3. CASE Become(w, l)
    <3>1. l.pc = "spawn" /\ l.base = k.base /\ l.head = k.head /\ l.done = k.done
      BY <2>1 DEF Locals
    <3> HIDE DEF l
    <3>2. Holds(l)
      BY <1>2, <3>1 DEF Holds, Verified
    <3> QED
      BY <1>3, <2>3, <3>2, QuietStep
  <2>4. CASE Checkpoint(w, m, "active_task", "none")
    BY <1>2, <1>3, <2>1, <2>4, CheckpointEvidence
  <2> QED
    BY <2>2, <2>3, <2>4
<1>5. CASE FinishQueue(w)
  <2> DEFINE m == [k EXCEPT !.stopped = FALSE]
  <2>1. m \in Locals /\ m.base = k.base /\ m.head = k.head /\ m.done = k.done
    BY <1>2 DEF Locals
  <2>2. Checkpoint(w, m, "finalizing", "completed")
    BY <1>1, <1>5 DEF FinishQueue
  <2> HIDE DEF m
  <2> QED
    BY <1>2, <1>3, <2>1, <2>2, CheckpointEvidence
<1> QED
  BY <1>4, <1>5

\* The writes of write_checkpoint and of record().
LEMMA WriteEvidence ==
  ASSUME EInv, IInv', NEW w \in Workers, CkptJson(w) \/ CkptSha(w) \/ RecordJson(w) \/ RecordSha(w)
  PROVE  EInv'
<1>1. PICK k : k = wk[w]
  OBVIOUS
<1>2. k.pc \in {"ckpt_json", "ckpt_sha", "rec_json", "rec_sha"} /\ ~At(w, "idle")
  BY <1>1 DEF CkptJson, CkptSha, RecordJson, RecordSha, At
<1>3. k \in Locals /\ k.c \in Cycles /\ WorkerOK(k, dirs, child) /\ Holds(k)
  BY <1>1, <1>2, OwnState DEF EInv
<1>4. CASE CkptJson(w) \/ CkptSha(w)
  <2>1. k.pc \in {"ckpt_json", "ckpt_sha"} /\ UNCHANGED <<receipt, child>>
    BY <1>1, <1>4 DEF CkptJson, CkptSha, At
  <2>2. CkptOK(k.ck) /\ k.seq \in Nat \ {0} /\ Verified(k.base, k.done, k.head)
    BY <1>3, <2>1 DEF Holds, WorkerOK, Locals
  <2>3. hist' \in {[hist EXCEPT ![k.c] = PutJson(@, k.seq, k.ck)], [hist EXCEPT ![k.c] = PutSha(@, k.seq, k.ck)]}
    BY <1>1, <1>4 DEF CkptJson, CkptSha
  <2>4. EvidenceOK'
    BY <1>3, <2>1, <2>2, <2>3, CheckpointFileEvidence
  <2>5. CASE CkptJson(w)
    <3> DEFINE l == [k EXCEPT !.pc = "ckpt_sha"]
    <3>1. Become(w, l) /\ l.pc = "ckpt_sha" /\ l.ck = k.ck /\ l.base = k.base /\ l.head = k.head /\ l.done = k.done
      BY <1>1, <1>3, <2>5 DEF CkptJson, Locals
    <3> HIDE DEF l
    <3>2. Holds(l)
      BY <1>3, <2>2, <3>1 DEF Holds
    <3> QED
      BY <2>1, <2>4, <3>1, <3>2, QuietStep
  <2>6. CASE CkptSha(w)
    <3> DEFINE l == [k EXCEPT !.pc = After(k.ck), !.seq = 0,
                              !.ck = IF k.ck.life = "finalizing" THEN @ ELSE Null,
                              !.guarded = @ /\ k.ck.life = "finalizing"]
    <3>1. Become(w, l)
      BY <1>1, <2>6 DEF CkptSha
    <3>2. k.ck.life \in Lives
      BY <1>3, <2>1 DEF WorkerOK, GoodCkpts, Ckpts
    <3>3. /\ After(k.ck) \in {"loop", "spawn", "pair", "reload"}
          /\ After(k.ck) = "pair" => k.ck.life = "finalizing"
      BY <3>2 DEF After, Lives
    <3>4. /\ l.pc = After(k.ck) /\ l.base = k.base /\ l.head = k.head /\ l.done = k.done
          /\ k.ck.life = "finalizing" => l.ck = k.ck
      BY <1>3 DEF Locals
    <3> HIDE DEF l
    <3>5. Holds(l)
      BY <1>3, <2>2, <3>3, <3>4 DEF Holds
    <3> QED
      BY <2>1, <2>4, <3>1, <3>5, QuietStep
  <2> QED
    BY <1>4, <2>5, <2>6
<1>5. CASE RecordJson(w)
  <2> DEFINE l == [k EXCEPT !.pc = "rec_sha"]
  <2>1. /\ k.pc = "rec_json" /\ UNCHANGED <<hist, child>> /\ Become(w, l)
        /\ receipt' = [receipt EXCEPT ![k.c] = k.out]
    BY <1>1, <1>5 DEF RecordJson, At
  <2>2. EvidenceOK'
    BY <1>3, <2>1, ReceiptEvidence DEF Holds
  <2>3. l.pc = "rec_sha" /\ l.done = k.done
    BY <1>3 DEF Locals
  <2> HIDE DEF l
  <2>4. Holds(l)
    BY <1>3, <2>3 DEF Holds
  <2> QED
    BY <2>1, <2>2, <2>4, QuietStep
<1>6. CASE RecordSha(w)
  <2>1. UNCHANGED <<hist, receipt, child>> /\ Become(w, Idle)
    BY <1>6 DEF RecordSha
  <2>2. EvidenceOK'
    BY <2>1, SameEvidence DEF EInv
  <2> QED
    BY <2>1, <2>2, IdleEvidence
<1> QED
  BY <1>4, <1>5, <1>6

\* The terminal receipt pair lists the tasks of its checkpoint.
LEMMA PublishEvidence ==
  ASSUME EInv, IInv', NEW w \in Workers, ReloadTerminal(w) \/ CheckPair(w) \/ PairJson(w) \/ PairSha(w)
  PROVE  EInv'
<1>1. PICK k : k = wk[w]
  OBVIOUS
<1>2. k.pc \in {"reload", "pair", "pair_both", "pair_json", "pair_sha"} /\ ~At(w, "idle")
  BY <1>1 DEF ReloadTerminal, CheckPair, PairJson, PairSha, At
<1>3. k \in Locals /\ k.c \in Cycles /\ Holds(k) /\ Sound(k.done)
  BY <1>1, <1>2, OwnState DEF EInv, Holds
<1>4. ASSUME UNCHANGED <<receipt, child>>, NEW cs, hist' \in {hist, Cleaned(cs)} PROVE EvidenceOK'
  BY <1>4, SameEvidence DEF EInv
<1>5. CASE ReloadTerminal(w)
  <2>1. UNCHANGED <<receipt, child>> /\ hist' \in {hist, Cleaned({k.c})}
    BY <1>1, <1>5 DEF ReloadTerminal
  <2>2. EvidenceOK'
    BY <1>4, <2>1
  <2>3. CASE Loadable(k.c)
    <3>1. PICK s : s = LoadedCkpt(k.c)
      OBVIOUS
    <3>2. CkptOK(s)
      BY <1>3, <2>3, <3>1, LoadedOK
    <3> DEFINE l == [k EXCEPT !.pc = "pair", !.ck = s]
    <3>3. Become(w, l) /\ l.pc = "pair" /\ l.ck = s /\ l.done = k.done
      BY <1>1, <1>3, <1>5, <2>3, <3>1 DEF ReloadTerminal, Locals
    <3> HIDE DEF l
    <3>4. Holds(l)
      BY <1>3, <3>2, <3>3 DEF Holds
    <3> QED
      BY <2>1, <2>2, <3>3, <3>4, QuietStep
  <2>4. CASE Record(w, k, "blocked")
    BY <1>3, <2>1, <2>2, <2>4, RecordEvidence
  <2>5. CASE Become(w, Idle)
    BY <2>1, <2>2, <2>5, IdleEvidence
  <2> QED
    BY <1>1, <1>5, <2>3, <2>4, <2>5 DEF ReloadTerminal
<1>6. CASE CheckPair(w)
  <2>1. UNCHANGED <<hist, receipt, child>> /\ k.pc = "pair"
    BY <1>1, <1>6 DEF CheckPair, store, At
  <2>2. EvidenceOK'
    BY <1>4, <2>1
  <2>3. CASE Become(w, Idle)
    BY <2>1, <2>2, <2>3, IdleEvidence
  <2>4. CASE ~Become(w, Idle)
    <3>1. PICK r : r = TerminalReceipt(k.ck)
      OBVIOUS
    <3>2. PICK pc \in {"pair_sha", "pair_json", "pair_both"} :
                Become(w, [k EXCEPT !.out = r, !.ck = Null, !.pc = pc])
      BY <1>1, <1>6, <2>4, <3>1 DEF CheckPair
    <3>3. k.ck \in Ckpts /\ Sound(k.ck.done)
      BY <1>1, <1>3, <2>1 DEF Holds, CkptOK, Verified, EInv, IInv, WorkerOK, GoodCkpts
    <3>4. (k.ck.term \notin {"completed", "none"}) \in BOOLEAN
      OBVIOUS
    <3>5. r \in Receipts /\ r.done = k.ck.done
      BY <3>1, <3>3, <3>4 DEF TerminalReceipt, TermStatus, Receipts, Ckpts, Terms
    <3> DEFINE l == [k EXCEPT !.out = r, !.ck = Null, !.pc = pc]
    <3>6. l.pc = pc /\ l.out = r /\ l.done = k.done
      BY <1>3 DEF Locals
    <3> HIDE DEF l
    <3>7. Holds(l)
      BY <1>3, <3>2, <3>3, <3>5, <3>6 DEF Holds
    <3> QED
      BY <2>1, <2>2, <3>2, <3>7, QuietStep DEF l
  <2> QED
    BY <2>3, <2>4
<1>7. CASE PairJson(w)
  <2>1. /\ k.pc \in {"pair_json", "pair_both"} /\ UNCHANGED <<hist, child>>
        /\ receipt' = [receipt EXCEPT ![k.c] = k.out]
    BY <1>1, <1>7 DEF PairJson
  <2>2. EvidenceOK'
    BY <1>3, <2>1, ReceiptEvidence DEF Holds
  <2>3. CASE Become(w, Idle)
    BY <2>1, <2>2, <2>3, IdleEvidence
  <2>4. CASE Become(w, [k EXCEPT !.pc = "pair_sha"])
    <3> DEFINE l == [k EXCEPT !.pc = "pair_sha"]
    <3>1. l.pc = "pair_sha" /\ l.out = k.out /\ l.done = k.done
      BY <1>3 DEF Locals
    <3> HIDE DEF l
    <3>2. Holds(l)
      BY <1>3, <2>1, <3>1 DEF Holds
    <3> QED
      BY <2>1, <2>2, <2>4, <3>2, QuietStep DEF l
  <2> QED
    BY <1>1, <1>7, <2>3, <2>4 DEF PairJson
<1>8. CASE PairSha(w)
  <2>1. UNCHANGED <<hist, receipt, child>> /\ Become(w, Idle)
    BY <1>8 DEF PairSha
  <2> QED
    BY <1>4, <2>1, IdleEvidence
<1> QED
  BY <1>5, <1>6, <1>7, <1>8

\* A launch starts from nothing but its cycle.
LEMMA LaunchEvidence ==
  ASSUME EInv, IInv', NEW w \in Workers, Launch(w)
  PROVE  EInv'
<1>1. UNCHANGED <<hist, receipt, child>>
  BY DEF Launch, StartFresh, StartTerminalResume, StartResume, store
<1>2. EvidenceOK'
  BY <1>1, SameEvidence DEF EInv
<1>3. Idle \in Locals /\ Idle.done = <<>>
  BY EmptyChain DEF Idle, Locals, PCs, Modes
<1>4. ASSUME NEW c, NEW mode, NEW pred, Become(w, [Idle EXCEPT !.pc = "preflight", !.c = c, !.mode = mode, !.pred = pred])
      PROVE  EInv'
  <2> DEFINE l == [Idle EXCEPT !.pc = "preflight", !.c = c, !.mode = mode, !.pred = pred]
  <2>1. l.pc = "preflight" /\ l.done = <<>>
    BY <1>3 DEF Locals
  <2>2. Become(w, l)
    BY <1>4
  <2> HIDE DEF l
  <2>3. Holds(l)
    BY <2>1 DEF Holds, Sound
  <2> QED
    BY <1>1, <1>2, <2>2, <2>3, QuietStep
<1>5. CASE StartFresh(w) \/ StartTerminalResume(w)
  BY <1>4, <1>5 DEF StartFresh, StartTerminalResume, NewCycle
<1>6. CASE StartResume(w)
  <2>1. PICK c : Become(w, [Idle EXCEPT !.pc = "preflight", !.c = c, !.mode = "resume"])
    BY <1>6 DEF StartResume
  <2> DEFINE l == [Idle EXCEPT !.pc = "preflight", !.c = c, !.mode = "resume"]
  <2>2. l.pc = "preflight" /\ l.done = <<>>
    BY <1>3 DEF Locals
  <2>3. Become(w, l)
    BY <2>1
  <2> HIDE DEF l
  <2>4. Holds(l)
    BY <2>2 DEF Holds, Sound
  <2> QED
    BY <1>1, <1>2, <2>3, <2>4, QuietStep
<1> QED
  BY <1>5, <1>6 DEF Launch

\* A cycle that starts on the discovered tip or on a seed starts verified.
LEMMA PreflightEvidence ==
  ASSUME EInv, IInv', NEW w \in Workers, Preflight(w)
  PROVE  EInv'
<1>1. PICK k : k = wk[w]
  OBVIOUS
<1>2. k.pc = "preflight" /\ ~At(w, "idle")
  BY <1>1 DEF Preflight, PreflightDirty, PreflightResume, PreflightNew, At
<1>3. /\ k \in Locals /\ k.c \in Cycles /\ Holds(k) /\ Sound(k.done) /\ k.done = <<>>
      /\ (k.mode = "terminal" => k.pred \in Cycles)
  BY <1>1, <1>2, OwnState DEF EInv, Holds
<1>4. ASSUME UNCHANGED <<receipt, child>>, NEW cs, hist' \in {hist, Cleaned(cs)} PROVE EvidenceOK'
  BY <1>4, SameEvidence DEF EInv
<1>5. CASE PreflightDirty(w)
  <2>1. UNCHANGED <<hist, receipt, child>> /\ Record(w, k, "blocked")
    BY <1>1, <1>5 DEF PreflightDirty
  <2> QED
    BY <1>3, <1>4, <2>1, RecordEvidence
<1>6. CASE PreflightResume(w)
  <2> DEFINE l == [k EXCEPT !.pc = "verify", !.base = Anchor, !.head = Anchor, !.guarded = TRUE]
  <2>1. UNCHANGED <<hist, receipt, child>> /\ Become(w, l) /\ l.pc = "verify" /\ l.done = k.done
    BY <1>1, <1>3, <1>6 DEF PreflightResume, store, Locals
  <2> HIDE DEF l
  <2>2. Holds(l)
    BY <1>3, <2>1 DEF Holds
  <2> QED
    BY <1>4, <2>1, <2>2, QuietStep
<1>7. CASE PreflightNew(w)
  <2>1. PICK a : a = [k EXCEPT !.base = Anchor, !.head = Anchor]
    OBVIOUS
  <2>2. /\ a \in Locals /\ a.c = k.c /\ a.mode = k.mode /\ a.pred = k.pred /\ a.done = k.done
    BY <1>3, <2>1 DEF Locals, Heads
  <2>3. PICK cs : hist' = Cleaned(cs)
    BY <1>7 DEF PreflightNew
  <2>4. UNCHANGED <<receipt, child>> /\ EvidenceOK'
    <3>1. UNCHANGED <<receipt, child>>
      BY <1>7 DEF PreflightNew
    <3> QED
      BY <1>4, <2>3, <3>1
  <2>5. ASSUME NEW b \in Heads, NEW h \in Heads, NEW d \in Chains, Verified(b, d, h),
               Admit(w, [a EXCEPT !.base = b, !.head = h, !.done = d])
        PROVE  EInv'
    <3> DEFINE l == [a EXCEPT !.base = b, !.head = h, !.done = d]
    <3>1. l \in Locals /\ l.base = b /\ l.head = h /\ l.done = d
      BY <2>2, <2>5 DEF Locals
    <3>2. Admit(w, l)
      BY <2>5
    <3> HIDE DEF l
    <3>3. CASE Record(w, l, "blocked")
      BY <2>4, <2>5, <3>1, <3>3, RecordEvidence DEF Verified
    <3>4. CASE Checkpoint(w, l, "initialized", "none")
      BY <2>4, <2>5, <3>1, <3>4, CheckpointEvidence
    <3> QED
      BY <3>2, <3>3, <3>4 DEF Admit
  <2>6. CASE Record(w, a, "blocked")
    BY <1>3, <2>2, <2>4, <2>6, RecordEvidence
  <2>7. ASSUME NEW tip \in Discover({a.c}), a.mode = "fresh", Admit(w, [a EXCEPT !.base = tip, !.head = tip])
        PROVE  EInv'
    <3>1. tip \in Heads /\ CommitExists(tip)
      <4>1. ReceiptsOK
        BY DEF EInv, EvidenceOK
      <4> QED
        BY <2>7, <4>1, TipType, TipAccepted DEF EInv, Made, CommitExists
    <3> DEFINE l == [a EXCEPT !.base = tip, !.head = tip]
    <3>2. l \in Locals /\ l.base = tip /\ l.head = tip /\ l.done = k.done
      BY <2>2, <3>1 DEF Locals
    <3>3. Admit(w, l)
      BY <2>7
    <3> HIDE DEF l
    <3>4. Verified(l.base, l.done, l.head)
      BY <1>3, <3>1, <3>2 DEF Verified, ChainFrom, LastHead, Sound
    <3>5. CASE Record(w, l, "blocked")
      BY <1>3, <2>4, <3>2, <3>5, RecordEvidence
    <3>6. CASE Checkpoint(w, l, "initialized", "none")
      BY <2>4, <3>2, <3>4, <3>6, CheckpointEvidence
    <3> QED
      BY <3>3, <3>5, <3>6 DEF Admit
  <2>8. ASSUME a.mode = "terminal", SeedValid(a.pred), NEW s, s = LoadedCkpt(a.pred),
               Admit(w, [a EXCEPT !.base = s.base, !.head = s.head, !.done = s.done])
        PROVE  EInv'
    <3>1. s \in Ckpts /\ CkptOK(s)
      BY <1>3, <2>2, <2>8, LoadedOK DEF SeedValid
    <3> QED
      BY <2>5, <2>8, <3>1 DEF CkptOK, Ckpts
  <2>9. ASSUME NEW tip \in Heads, Record(w, [a EXCEPT !.base = tip], "blocked")
        PROVE  EInv'
    <3> DEFINE l == [a EXCEPT !.base = tip]
    <3>1. l \in Locals /\ l.done = k.done
      BY <2>2 DEF Locals
    <3>2. Record(w, l, "blocked")
      BY <2>9
    <3> HIDE DEF l
    <3> QED
      BY <1>3, <2>4, <3>1, <3>2, RecordEvidence
  <2> QED
    BY <1>1, <1>7, <2>1, <2>2, <2>6, <2>7, <2>8, <2>9, TipType DEF PreflightNew
<1> QED
  BY <1>5, <1>6, <1>7 DEF Preflight

\* A resume goes on from the verified chain of the latest checkpoint.
LEMMA VerifyEvidence ==
  ASSUME EInv, IInv', NEW w \in Workers, Verify(w)
  PROVE  EInv'
<1>1. PICK k : k = wk[w]
  OBVIOUS
<1>2. k.pc = "verify" /\ ~At(w, "idle")
  BY <1>1 DEF Verify, ResumeUnloadable, ResumeDrifted, ResumeRebased, ResumeChainInvalid,
         ResumeLoop, ResumeFinalizing, ResumeActive, Trusted, LoadAndDiscover, At
<1>3. k \in Locals /\ k.c \in Cycles /\ Sound(k.done)
  BY <1>1, <1>2, OwnState DEF EInv, Holds
<1>4. ASSUME UNCHANGED <<receipt, child>>, NEW cs, hist' \in {hist, Cleaned(cs)} PROVE EvidenceOK'
  BY <1>4, SameEvidence DEF EInv
<1>5. CASE ResumeUnloadable(w)
  BY <1>1, <1>3, <1>4, <1>5, RecordEvidence DEF ResumeUnloadable
<1>6. CASE ResumeDrifted(w)
  BY <1>1, <1>3, <1>4, <1>6, RecordEvidence DEF ResumeDrifted
<1>7. CASE \/ ResumeRebased(w) \/ ResumeChainInvalid(w) \/ ResumeLoop(w)
           \/ ResumeFinalizing(w) \/ ResumeActive(w)
  <2>1. LoadAndDiscover(w)
    BY <1>7 DEF ResumeRebased, ResumeChainInvalid, ResumeLoop, ResumeFinalizing,
                ResumeActive, Trusted
  <2>2. Loadable(k.c) /\ UNCHANGED <<receipt, child>> /\ EvidenceOK'
    BY <1>1, <1>4, <2>1 DEF LoadAndDiscover
  <2>3. PICK s : s = LoadedCkpt(k.c)
    OBVIOUS
  <2>4. s \in Ckpts /\ CkptOK(s)
    BY <1>3, <2>2, <2>3, LoadedOK
  <2>5. PICK r : r = Restored(k)
    OBVIOUS
  <2>6. r = [k EXCEPT !.base = s.base, !.head = s.head, !.done = s.done]
    BY <2>3, <2>5 DEF Restored
  <2>7. r \in Locals /\ r.c = k.c /\ r.base = s.base /\ r.head = s.head /\ r.done = s.done
    BY <1>3, <2>4, <2>6 DEF Locals, Ckpts
  <2>8. Verified(r.base, r.done, r.head) /\ Sound(r.done)
    BY <2>4, <2>7 DEF CkptOK, Verified
  <2>9. CASE ResumeRebased(w)
    <3> DEFINE l == [k EXCEPT !.base = s.base]
    <3>1. l \in Locals /\ l.done = k.done
      BY <1>3, <2>4 DEF Locals, Ckpts
    <3>2. Record(w, l, "blocked")
      BY <1>1, <2>3, <2>9 DEF ResumeRebased
    <3> HIDE DEF l
    <3> QED
      BY <1>3, <2>2, <3>1, <3>2, RecordEvidence
  <2>10. CASE ResumeChainInvalid(w)
    BY <1>1, <2>2, <2>5, <2>7, <2>8, <2>10, RecordEvidence DEF ResumeChainInvalid
  <2>11. CASE ResumeLoop(w)
    <3> DEFINE l == [r EXCEPT !.pc = "loop", !.guarded = FALSE]
    <3>1. Become(w, l)
      BY <1>1, <2>5, <2>11 DEF ResumeLoop
    <3>2. l.pc = "loop" /\ l.base = r.base /\ l.head = r.head /\ l.done = r.done
      BY <2>7 DEF Locals
    <3> HIDE DEF l
    <3>3. Holds(l)
      BY <2>8, <3>2 DEF Holds
    <3> QED
      BY <2>2, <3>1, <3>3, QuietStep
  <2>12. CASE ResumeFinalizing(w)
    <3> DEFINE l == [r EXCEPT !.pc = "pair", !.ck = s]
    <3>1. Become(w, l) \/ Become(w, Idle)
      BY <1>1, <2>3, <2>5, <2>7, <2>12 DEF ResumeFinalizing
    <3>2. l.pc = "pair" /\ l.ck = s /\ l.done = r.done
      BY <2>7 DEF Locals
    <3> HIDE DEF l
    <3>3. Holds(l)
      BY <2>4, <2>8, <3>2 DEF Holds
    <3> QED
      BY <2>2, <3>1, <3>3, QuietStep, IdleEvidence
  <2>13. CASE ResumeActive(w)
    <3>1. Len(r.done) < TaskCount
      <4>1. s \in GoodCkpts
        BY <1>3, <2>2, <2>3, LoadedType DEF EInv, IInv, FilesOK
      <4>2. s.life = "active_task"
        BY <1>1, <2>3, <2>13 DEF ResumeActive, Trusted
      <4> QED
        BY <2>7, <4>1, <4>2 DEF GoodCkpts
    <3>2. \/ Become(w, [r EXCEPT !.pc = "loop", !.active = TRUE, !.guarded = FALSE])
          \/ Record(w, r, "failed")
          \/ Record(w, r, "blocked")
          \/ ChildVerified(Current(r), r.head) /\ Completed(Current(r)) /\ Accept(w, r)
          \/ Terminalize(w, r)
      BY <1>1, <2>5, <2>13 DEF ResumeActive
    <3>3. CASE Become(w, [r EXCEPT !.pc = "loop", !.active = TRUE, !.guarded = FALSE])
      <4> DEFINE l == [r EXCEPT !.pc = "loop", !.active = TRUE, !.guarded = FALSE]
      <4>1. l.pc = "loop" /\ l.base = r.base /\ l.head = r.head /\ l.done = r.done
        BY <2>7 DEF Locals
      <4>2. Become(w, l)
        BY <3>3
      <4> HIDE DEF l
      <4>3. Holds(l)
        BY <2>8, <4>1 DEF Holds
      <4> QED
        BY <2>2, <4>2, <4>3, QuietStep
    <3>4. CASE Record(w, r, "failed") \/ Record(w, r, "blocked")
      BY <2>2, <2>7, <2>8, <3>4, RecordEvidence
    <3>5. CASE ChildVerified(Current(r), r.head) /\ Completed(Current(r)) /\ Accept(w, r)
      BY <1>3, <2>2, <2>7, <2>8, <3>1, <3>5, AcceptEvidence
    <3>6. CASE Terminalize(w, r)
      BY <2>2, <2>7, <2>8, <3>6, TerminalizeEvidence
    <3> QED
      BY <3>2, <3>3, <3>4, <3>5, <3>6
  <2> QED
    BY <1>7, <2>9, <2>10, <2>11, <2>12, <2>13
<1> QED
  BY <1>5, <1>6, <1>7 DEF Verify

\* Initially there is no evidence.
LEMMA InitEvidence == Init => EInv
<1> SUFFICES ASSUME Init PROVE EInv
  OBVIOUS
<1>1. IInv
  BY InitInv
<1>2. HistoryOK /\ ReceiptsOK /\ BasesOK
  BY DEF Init, StoreInit, HistoryOK, ReceiptsOK, BasesOK
<1>3. Made = {}
  BY DEF Init, StoreInit, Made
<1>4. Ranked
  <2>1. [id \in Commits |-> 0] \in [Commits -> Nat]
    OBVIOUS
  <2> QED
    BY <1>3, <2>1 DEF Ranked, Numbered
<1>5. Idle.done = <<>> /\ Idle.pc = "idle" /\ \A w \in Workers : wk[w] = Idle
  BY DEF Idle, Init
<1>6. \A w \in Workers : Holds(wk[w])
  BY <1>5 DEF Holds, Sound
<1> QED
  BY <1>1, <1>2, <1>4, <1>6 DEF EInv, EvidenceOK

\* Every step keeps the evidence sound.
LEMMA NextEvidence == EInv /\ [Next]_vars => EInv'
<1> SUFFICES ASSUME EInv, [Next]_vars PROVE EInv'
  OBVIOUS
<1>1. IInv'
  BY NextInv DEF EInv
<1>2. ASSUME NEW w \in Workers, Launch(w) PROVE EInv'
  BY <1>1, <1>2, LaunchEvidence
<1>3. ASSUME NEW w \in Workers, Work(w) PROVE EInv'
  BY <1>1, <1>3, PreflightEvidence, VerifyEvidence, LoopEvidence, ChildEvidenceSteps, WriteEvidence,
     PublishEvidence DEF Work
<1>4. ASSUME NEW w \in Workers, Kill(w) PROVE EInv'
  <2>1. UNCHANGED <<hist, receipt, child>> /\ Become(w, Idle)
    BY <1>4 DEF Kill, store
  <2>2. EvidenceOK'
    BY <2>1, SameEvidence DEF EInv
  <2> QED
    BY <1>1, <2>1, <2>2, IdleEvidence
<1>5. CASE UNCHANGED <<store, wk>>
  <2>1. EvidenceOK'
    BY <1>5, SameEvidence DEF EInv, store
  <2>2. ASSUME NEW w \in Workers PROVE Holds(wk[w])'
    <3>1. PICK k : k = wk[w]
      OBVIOUS
    <3>2. Holds(k) /\ wk'[w] = k /\ UNCHANGED child
      BY <1>5, <3>1 DEF EInv, store
    <3>3. Holds(k)'
      BY <3>2 DEF Holds, CkptOK, Verified, Sound, ChainFrom, CommitExists, Parent, LastHead, ChildSealedAs
    <3> QED
      BY <3>2, <3>3
  <2> QED
    BY <1>1, <2>1, <2>2 DEF EInv
<1> QED
  BY <1>2, <1>3, <1>4, <1>5 DEF Next, EditSource, RestoreSource, vars

\* Sound evidence is what a run may build on.
LEMMA EvidenceGives == EInv => EvidenceSound
<1> SUFFICES ASSUME EInv PROVE EvidenceSound
  OBVIOUS
<1>1. TypeOK
  BY InvTypeOK DEF EInv
<1>2. CheckpointsAreVerifiedChains
  BY DEF CheckpointsAreVerifiedChains, EInv, EvidenceOK, HistoryOK, CkptOK, Verified, Sound, Sealed
<1>3. TipIsAccepted
  <2> SUFFICES ASSUME NEW tip \in Discover({}), tip # Anchor
               PROVE  ChildSealedAs(tip, "completed") /\ IsAncestor(Anchor, tip)
    BY DEF TipIsAccepted
  <2>1. tip \in Made /\ ChildSealedAs(tip, "completed")
    BY TipAccepted DEF EInv, EvidenceOK
  <2> QED
    BY <2>1, Descends DEF EInv, EvidenceOK
<1> QED
  BY <1>1, <1>2, <1>3 DEF EvidenceSound

\* Whatever any number of workers do, and wherever they are killed: a sealed
\* checkpoint records a chain of commits of sealed, completed child runs, and
\* discovery continues on the anchor or on the commit of such a run.
THEOREM EvidenceIsSound == Spec => []EvidenceSound
BY InitEvidence, NextEvidence, EvidenceGives, PTL DEF Spec

=============================================================================
