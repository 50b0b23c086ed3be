----------------------------- MODULE MCCronJobs -----------------------------
EXTENDS CronJobs
CONSTANTS j1, j2, j3, p1, t1, t2
\* two dependents of one job, and one of them depends on the other as well
Dependencies == {<<j2, j1>>, <<j3, j1>>, <<j3, j2>>}
=============================================================================
