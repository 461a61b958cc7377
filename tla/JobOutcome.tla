----------------------------- MODULE JobOutcome -----------------------------
(***************************************************************************)
(* What the job scheduler promises of one job after another: the executor  *)
(* may be called while the job is open, it is settled once, as executed    *)
(* only if the executor was called, and nothing happens to it afterwards.  *)
(***************************************************************************)
EXTENDS Naturals

CONSTANTS Jobs

VARIABLES outcome, effects

vars == <<outcome, effects>>

Init == outcome = [j \in Jobs |-> "open"] /\ effects = [j \in Jobs |-> 0]

Act(j) ==
  /\ outcome[j] = "open"
  /\ effects' = [effects EXCEPT ![j] = @ + 1]
  /\ UNCHANGED outcome

Settle(j, o) ==
  /\ outcome[j] = "open"
  /\ o = "executed" => effects[j] > 0
  /\ outcome' = [outcome EXCEPT ![j] = o]
  /\ UNCHANGED effects

Next == \E j \in Jobs : Act(j) \/ \E o \in {"executed", "escalated", "refused"} : Settle(j, o)

Spec == Init /\ [][Next]_vars

=============================================================================
