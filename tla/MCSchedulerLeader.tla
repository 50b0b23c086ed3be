------------------------- MODULE MCSchedulerLeader -------------------------
(* Instances of SchedulerLeader for TLC; the unit of time is 30 seconds.   *)
EXTENDS SchedulerLeader
CONSTANTS p1, p2, p3, j1, j2, k1
=============================================================================
