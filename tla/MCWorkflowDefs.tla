--------------------------- MODULE MCWorkflowDefs ---------------------------
EXTENDS WorkflowDefs, TLC
CONSTANTS t1, t2
Symmetric == Permutations(Threads)
=============================================================================
