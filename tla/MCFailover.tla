----------------------------- MODULE MCFailover -----------------------------
(* Small definitions for Failover; the unit of time is 15 seconds.         *)
EXTENDS Failover
CONSTANTS m1, m2, c1, c2, p1

\* a fallback, and a fallback that is configured twice
Lists == {<<m1, m2>>, <<m2, m1, m1>>}
OneModel == {<<m1>>}

SameWorker == [c \in Call |-> p1]
=============================================================================
