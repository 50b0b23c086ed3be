--------------------------- MODULE MCEventOutbox ---------------------------
\* EventOutbox with two processes; the constants are in the .cfg files.
EXTENDS EventOutbox
=============================================================================
