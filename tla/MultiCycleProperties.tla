------------------------ MODULE MultiCycleProperties ------------------------
(***************************************************************************)
(* What the executor of MultiCycleExecutor must guarantee.                 *)
(***************************************************************************)
EXTENDS MultiCycleExecutor

\* The store and the workers' local variables hold values of their kinds.
TypeOK ==
  /\ StoreTypeOK
  /\ wk \in [Workers -> Locals]
  /\ dirty \in BOOLEAN
  /\ faults \in 0..MaxFaults

\* A sealed checkpoint only ever records an accepted chain that Git and the
\* sealed child receipts bear out, whoever wrote it and whatever was killed.
CheckpointsAreVerifiedChains ==
  \A c \in Cycles : \A i \in 1..Len(hist[c]) : Sealed(hist[c][i]) =>
    LET s == hist[c][i].json IN
      /\ ChainFrom(s.base, s.done) /\ s.head = LastHead(s.base, s.done)
      /\ \A j \in 1..Len(s.done) : ChildSealedAs(s.done[j], "completed")

\* "Immutable, crash-consistent checkpoint pairs": once sealed, a checkpoint is
\* neither changed nor removed by any later write, resume or clean-up.
SealedCheckpointsImmutable ==
  [][\A c \in Cycles : \A i \in 1..Len(hist[c]) : Sealed(hist[c][i]) =>
       i <= Len(hist[c]') /\ hist[c]'[i] = hist[c][i]]_vars

\* However many workers a cycle has, no two of them execute the same child
\* run: the directory of a run is made by one worker only.
OneWorkerPerChild ==
  \A v, w \in Workers : v # w /\ {wk[v].pc, wk[w].pc} \subseteq {"child", "seal"} =>
    Current(wk[v]) # Current(wk[w])

\* A receipt that reports a child's outcome or the end of the queue is the
\* image of the durable finalizing checkpoint, even half-written ones.
TerminalReceiptBacked ==
  \A c \in Cycles : receipt[c] # Null /\ receipt[c].reason # "other" =>
    /\ Loadable(c) /\ LoadedCkpt(c).life = "finalizing"
    /\ LET s == LoadedCkpt(c) IN
         /\ receipt[c].base = s.base /\ receipt[c].head = s.head /\ receipt[c].done = s.done
         /\ receipt[c].status = TermStatus(s.term)
         /\ receipt[c].status = "completed" <=> Len(s.done) = TaskCount

\* A verified receipt with completed tasks is an edge discovery can follow:
\* no kill or late resume leaves one that makes every later discovery raise.
EdgesStayUsable ==
  \A c \in dirs : ReceiptRead(c) = "verified" /\ receipt[c].done # <<>> => Usable(c)

\* Continuation builds on the anchor or on a commit whose run completed,
\* never on the commit of a failed run.
TipIsAccepted ==
  \A tip \in Discover({}) :
    tip = Anchor \/ (ChildSealedAs(tip, "completed") /\ IsAncestor(Anchor, tip))

\* The checkpoints any run may build on, and the tip the next one starts at.
EvidenceSound == TypeOK /\ CheckpointsAreVerifiedChains /\ TipIsAccepted

\* The receipts discovery reads.
ReceiptsSound == TerminalReceiptBacked /\ EdgesStayUsable

\* Tasks of the commits from the anchor up to the head of checkpoint s.
Ancestry(s) == {k \in Commits : CommitExists(k) /\ IsAncestor(k, s.head)}

\* Under the supervisor's rule, no accepted history contains a task twice.
TaskAppliedOnce ==
  \A c \in Cycles : Loadable(c) =>
    \A k, m \in Ancestry(LoadedCkpt(c)) : k[2] = m[2] => k = m

\* A supervised cycle left active by a kill is resumed until it is settled.
ActiveCycleSettles ==
  \A c \in Cycles : Classify(c) = "ACTIVE" ~> Classify(c) # "ACTIVE"

\* The checkpoints implement the abstract lines of accepted commits.
Line == [c \in Cycles |->
  IF Loadable(c) THEN [base |-> LoadedCkpt(c).base, done |-> LoadedCkpt(c).done,
                       closed |-> LoadedCkpt(c).life = "finalizing"]
  ELSE Null]

\* A cycle without a checkpoint has no line.
ASSUME UnopenedAssumption == Null \notin [base : Heads, done : Chains, closed : BOOLEAN]

Accepted == INSTANCE AcceptedChain WITH
  line <- Line, Cycles <- Cycles, Tasks <- Tasks, Bases <- Heads, Unopened <- Null

LinesImplemented == Accepted!Spec

=============================================================================
