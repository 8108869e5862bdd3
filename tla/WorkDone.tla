------------------------------- MODULE WorkDone -------------------------------
(***************************************************************************)
(* What a queue promises to whoever asks to be told when the work so far   *)
(* is done (Queue::OnSubmittedWorkDone, and the tasks of buffer mapping):  *)
(* each request is answered at most once, with success only when the work  *)
(* it waits for has finished, and with a loss only when the device is      *)
(* gone.                                                                   *)
(***************************************************************************)
EXTENDS Naturals

CONSTANT Requests

VARIABLES
    answer,   \* of each request: "none", "asked", "success" or "lost"
    need,     \* the work each request waits for
    finished, \* the work that is finished
    gone      \* the device is lost or being destroyed

workDoneVars == <<answer, need, finished, gone>>

Init ==
    /\ answer = [r \in Requests |-> "none"]
    /\ need = [r \in Requests |-> 0]
    /\ finished = 0
    /\ gone = FALSE

Ask(r) ==
    /\ answer[r] = "none"
    /\ answer' = [answer EXCEPT ![r] = "asked"]
    /\ need' = [need EXCEPT ![r] = need'[r]]
    /\ need'[r] \in Nat
    /\ UNCHANGED <<finished, gone>>

Succeed(r) ==
    /\ answer[r] = "asked"
    /\ need[r] <= finished
    /\ answer' = [answer EXCEPT ![r] = "success"]
    /\ UNCHANGED <<need, finished, gone>>

Refuse(r) ==
    /\ answer[r] = "asked"
    /\ gone
    /\ answer' = [answer EXCEPT ![r] = "lost"]
    /\ UNCHANGED <<need, finished, gone>>

Finish == finished' >= finished /\ UNCHANGED <<answer, need, gone>>

(* Waiting for the GPU to be idle and giving the device up may coincide.   *)
Go == gone' = TRUE /\ UNCHANGED <<answer, need, finished>>

Next == Finish \/ Go \/ \E r \in Requests : Ask(r) \/ Succeed(r) \/ Refuse(r)

Spec == Init /\ [][Next]_workDoneVars
=============================================================================
