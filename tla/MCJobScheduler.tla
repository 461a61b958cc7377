--------------------------- MODULE MCJobScheduler ---------------------------
(***************************************************************************)
(* Model values for the runs of the job scheduler.                         *)
(***************************************************************************)
EXTENDS JobSchedulerProperties, TLC

CONSTANTS s1, s2, h1, h2, j1, j2

One     == {s1}
Two     == {s1, s2}
Names   == {h1, h2}
OwnName == s1 :> h1 @@ s2 :> h2
OneName == s1 :> h1

OneJob      == {j1}
OneJobOrder == <<j1>>
TwoJobs     == {j1, j2}
TwoJobOrder == <<j1, j2>>
=============================================================================
