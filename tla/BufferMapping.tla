---------------------------- MODULE BufferMapping ----------------------------
(***************************************************************************)
(* What mapping a buffer promises.  One request at most, the owner, is     *)
(* about to be granted; every request is answered once, and "Success" only *)
(* in the step that maps the buffer for its owner; and the buffer is never *)
(* mapped while the GPU uses it.                                           *)
(***************************************************************************)
CONSTANTS Requests, Failures, Nobody

VARIABLES
    map,    \* "unmapped", "pending" or "mapped"
    owner,  \* the request that will be granted, or Nobody
    busy,   \* the GPU has still to execute work that uses the buffer
    answer

vars == <<map, owner, busy, answer>>

Init ==
    /\ map \in {"unmapped", "mapped"} /\ owner = Nobody /\ busy = FALSE
    /\ answer = [r \in Requests |-> "none"]

Say(r, status) == answer' = [answer EXCEPT ![r] = status]

(* A request becomes the owner, unless it is granted or refused at once or *)
(* is going to be refused.                                                 *)
Ask(r) ==
    /\ answer[r] = "none"
    /\ \/ map = "unmapped" /\ map' = "pending" /\ owner' \in {owner, r} /\ Say(r, "asked")
       \/ map = "unmapped" /\ map' = "mapped" /\ owner' = owner /\ Say(r, "Success")
       \/ (\E a \in Failures \union {"asked"} : Say(r, a)) /\ UNCHANGED <<map, owner>>

Grant ==
    /\ map = "pending" /\ map' = "mapped"
    /\ owner # Nobody /\ owner' = Nobody
    /\ Say(owner, "Success")

(* An owner that is refused may find the buffer mapped all the same, when  *)
(* the device has just been lost.                                          *)
Refuse(r) ==
    /\ answer[r] = "asked"
    /\ \E f \in Failures : Say(r, f)
    /\ IF owner = r
       THEN owner' = Nobody /\ (map' = map \/ map' = "mapped")
       ELSE UNCHANGED <<map, owner>>

Unmap == map' = "unmapped" /\ owner' = Nobody /\ UNCHANGED answer
Use == UNCHANGED <<map, owner, answer>>

Next ==
    /\ Unmap \/ Use \/ Grant \/ \E r \in Requests : Ask(r) \/ Refuse(r)
    /\ busy' \in BOOLEAN
    /\ map' = "mapped" => ~busy'

Spec == Init /\ [][Next]_vars
=============================================================================
