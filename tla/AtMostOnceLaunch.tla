-------------------------- MODULE AtMostOnceLaunch --------------------------
(***************************************************************************)
(* What executing a replan launch promises: one attempt is ever begun, it  *)
(* starts at most one worker, and it ends as launched only with a worker   *)
(* and as uncertain only without.  It may also stay begun for ever, since  *)
(* an attempt that was cut short is reported and not repeated.             *)
(***************************************************************************)
EXTENDS Naturals

VARIABLES
  phase,     \* "none", "launching", "launched" or "launch_uncertain"
  workers    \* worker processes started

vars == <<phase, workers>>

Init == phase = "none" /\ workers = 0

Begin   == phase = "none" /\ phase' = "launching" /\ UNCHANGED workers
Start   == phase = "launching" /\ workers = 0 /\ workers' = 1 /\ UNCHANGED phase
Confirm == phase = "launching" /\ workers = 1 /\ phase' = "launched" /\ UNCHANGED workers
GiveUp  == phase = "launching" /\ workers = 0 /\ phase' = "launch_uncertain" /\ UNCHANGED workers

Next == Begin \/ Start \/ Confirm \/ GiveUp

Spec == Init /\ [][Next]_vars

=============================================================================
