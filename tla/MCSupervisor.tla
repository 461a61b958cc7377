---------------------------- MODULE MCSupervisor ----------------------------
(* Instances of the supervisor for TLC.                                    *)
EXTENDS SupervisorProperties

CycleNumbers == 1..MaxCycles
=============================================================================
