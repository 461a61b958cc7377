--------------------------- MODULE AcceptedChain ---------------------------
(***************************************************************************)
(* What the checkpoints of repository multi-cycle runs promise: every      *)
(* cycle has one line of accepted commits.  A line is opened once, empty   *)
(* or as a copy of the accepted prefix of an earlier cycle, grows by one   *)
(* new commit at a time, and is closed once; nothing ever takes a commit   *)
(* back, whatever is killed and resumed underneath.                        *)
(***************************************************************************)
EXTENDS Naturals, Sequences

CONSTANTS Cycles, Tasks, Bases, Unopened

VARIABLE line   \* line[c]: Unopened, or base, accepted commits and closed

Commits == Cycles \X Tasks

Init == line = [c \in Cycles |-> Unopened]

Opened == {c \in Cycles : line[c] # Unopened}

AcceptedAnywhere == UNION {{line[c].done[i] : i \in 1..Len(line[c].done)} : c \in Opened}

Open(c) ==
  /\ c \notin Opened
  /\ \E base \in Bases :
       line' = [line EXCEPT ![c] = [base |-> base, done |-> <<>>, closed |-> FALSE]]

\* A cycle that takes up a terminal one starts with its accepted prefix.
OpenSeeded(c) ==
  /\ c \notin Opened
  /\ \E p \in Opened :
       /\ line[p].closed
       /\ line' = [line EXCEPT ![c] = [line[p] EXCEPT !.closed = FALSE]]

Extend(c) ==
  /\ c \in Opened /\ ~line[c].closed
  /\ \E k \in Commits \ AcceptedAnywhere :
       line' = [line EXCEPT ![c].done = Append(@, k)]

Close(c) ==
  /\ c \in Opened /\ ~line[c].closed
  /\ line' = [line EXCEPT ![c].closed = TRUE]

Next == \E c \in Cycles : Open(c) \/ OpenSeeded(c) \/ Extend(c) \/ Close(c)

Spec == Init /\ [][Next]_line

=============================================================================
