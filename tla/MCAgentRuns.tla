---------------------------- MODULE MCAgentRuns ----------------------------
EXTENDS AgentRuns
CONSTANTS p1, p2
=============================================================================
