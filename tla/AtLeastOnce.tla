---------------------------- MODULE AtLeastOnce ----------------------------
(***************************************************************************)
(* What the event bus promises about a recorded business event, with no    *)
(* process, no lease, no retry timer and no crash in it: the event is      *)
(* closed only when every subscriber has taken it, or it is given up after *)
(* Limit failed rounds, and no recorded event is left open for ever.       *)
(*                                                                         *)
(* The header of plugin_manager/event_bus.py states the promise: a failed  *)
(* handler is covered by the resend scan, at least once.  EventOutbox is   *)
(* shown to implement it.                                                  *)
(***************************************************************************)
EXTENDS Naturals, FiniteSets

CONSTANTS Events, Handlers, Limit

VARIABLES
    state,      \* state[e]: "unsent", "open", "closed" or "given up"
    rounds,     \* rounds[e]: rounds of e that ended with a failed subscriber
    took,       \* took[e]: the subscribers that have taken e
    unsure      \* the events handed out where not every subscriber was present

vars == <<state, rounds, took, unsure>>

Init ==
    /\ state = [e \in Events |-> "unsent"]
    /\ rounds = [e \in Events |-> 0]
    /\ took = [e \in Events |-> {}]
    /\ unsure = {}

Record(e) ==
    /\ state[e] = "unsent"
    /\ state' = [state EXCEPT ![e] = "open"]
    /\ UNCHANGED <<rounds, took, unsure>>

\* A subscriber takes the event, for the first time or once more.
Take(e, h) ==
    /\ took' = [took EXCEPT ![e] = @ \union {h}]
    /\ UNCHANGED <<state, rounds, unsure>>

HandOutShort(e) ==
    /\ unsure' = unsure \union {e}
    /\ UNCHANGED <<state, rounds, took>>

\* Closing needs every subscriber, except for an event handed out short.
Close(e) ==
    /\ state[e] # "unsent"
    /\ took[e] = Handlers \/ e \in unsure
    /\ state' = [state EXCEPT ![e] = "closed"]
    /\ UNCHANGED <<rounds, took, unsure>>

\* A failed round opens the event again, a late one after it was closed
\* too; with the last round the event is given up.
FailRound(e) ==
    /\ state[e] # "unsent"
    /\ rounds' = [rounds EXCEPT ![e] = @ + 1]
    /\ state' = [state EXCEPT ![e] =
                    IF rounds[e] + 1 >= Limit THEN "given up" ELSE "open"]
    /\ UNCHANGED <<took, unsure>>

Next ==
    \E e \in Events :
        \/ Record(e)
        \/ \E h \in Handlers : Take(e, h)
        \/ HandOutShort(e)
        \/ Close(e)
        \/ FailRound(e)

\* No recorded event stays open for ever.
Settles == \A e \in Events : state[e] = "open" ~> state[e] \in {"closed", "given up"}

SafeSpec == Init /\ [][Next]_vars
Spec == SafeSpec /\ Settles
=============================================================================
