--------------------------- MODULE MCReplanLaunch ---------------------------
(***************************************************************************)
(* Model values for the runs of the replan launch.                         *)
(***************************************************************************)
EXTENDS ReplanLaunchProperties

CONSTANTS p1, p2

TwoProcs == {p1, p2}
=============================================================================
