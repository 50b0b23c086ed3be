------------------------------- MODULE Lease -------------------------------
(***************************************************************************)
(* What the election of the schedulers promises, with no row, no clock, no *)
(* heartbeat and no job in it: one client at a time owns the lease, acts   *)
(* only while it owns it, and is never deprived of it while it acts.  A    *)
(* client that stops acting, or crashes, keeps the lease until it runs     *)
(* out; only then can another one have it.                                 *)
(***************************************************************************)
CONSTANTS Clients, Nobody

VARIABLES
    owner,      \* the client the lease was granted to, until it runs out
    acting      \* the clients that act on it

vars == <<owner, acting>>

Init == owner = Nobody /\ acting = {}

\* granted, or extended for the client that has it
Grant(c) ==
    /\ owner \in {Nobody, c}
    /\ owner' = c
    /\ UNCHANGED acting

Act(c) ==
    /\ owner = c
    /\ acting' = acting \union {c}
    /\ UNCHANGED owner

Leave(c) ==
    /\ acting' = acting \ {c}
    /\ UNCHANGED owner

RunOut ==
    /\ acting = {}
    /\ owner' = Nobody
    /\ UNCHANGED acting

Next == RunOut \/ \E c \in Clients : Grant(c) \/ Act(c) \/ Leave(c)

Spec == Init /\ [][Next]_vars
=============================================================================
