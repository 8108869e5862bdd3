------------------------------- MODULE Futures -------------------------------
(***************************************************************************)
(* What Dawn promises of a future (native/EventManager.h:44-55, 103-107):  *)
(* its callback is called once, to say that the event is ready only when   *)
(* it is, and to say that the instance is gone only when it is.            *)
(***************************************************************************)
CONSTANT Events

VARIABLES
    outcome, \* of each event: "none", "pending", "ready" or "shutdown"
    due,     \* the events that are ready
    closed   \* the instance has been dropped

futureVars == <<outcome, due, closed>>

Init ==
    /\ outcome \in [Events -> {"none", "pending"}]
    /\ due = {}
    /\ closed = FALSE

Make(e) ==
    /\ outcome[e] = "none"
    /\ outcome' = [outcome EXCEPT ![e] = "pending"]
    /\ due' \in {due, due \union {e}}
    /\ UNCHANGED closed

BecomeReady == due \subseteq due' /\ UNCHANGED <<outcome, closed>>

Ready(e) ==
    /\ outcome[e] = "pending" /\ e \in due
    /\ outcome' = [outcome EXCEPT ![e] = "ready"]
    /\ UNCHANGED <<due, closed>>

ShutDown(e) ==
    /\ outcome[e] = "pending" /\ closed
    /\ outcome' = [outcome EXCEPT ![e] = "shutdown"]
    /\ UNCHANGED <<due, closed>>

Close == closed' = TRUE /\ UNCHANGED <<outcome, due>>

Next == BecomeReady \/ Close \/ \E e \in Events : Make(e) \/ Ready(e) \/ ShutDown(e)

Spec == Init /\ [][Next]_futureVars
=============================================================================
