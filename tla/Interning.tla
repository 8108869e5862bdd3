------------------------------ MODULE Interning ------------------------------
(***************************************************************************)
(* What GetOrCreate promises (native/Device.cpp:96-129): for each content  *)
(* there is at most one object that new callers can be given; everybody    *)
(* who asks is given that one, and it is not replaced while anybody still  *)
(* has it.  Only the device's destruction retires an object in use.        *)
(***************************************************************************)
CONSTANTS Threads, Objects, Contents, NoObject

VARIABLES
    current, \* of each content: the object that callers are given
    given,   \* what each thread has been given
    closed   \* the device is being destroyed, or has been

internVars == <<current, given, closed>>

Init ==
    /\ current = [c \in Contents |-> NoObject]
    /\ given = [t \in Threads |-> NoObject]
    /\ closed = FALSE

InUse(o) == \E t \in Threads : given[t] = o
Give(t, o) == given[t] = NoObject /\ given' = [given EXCEPT ![t] = o]

Find(t, c) ==
    /\ ~closed /\ current[c] # NoObject
    /\ Give(t, current[c])
    /\ UNCHANGED <<current, closed>>

Make(t, c) ==
    /\ ~closed /\ current[c] = NoObject
    /\ \E o \in Objects :
         /\ ~InUse(o) /\ \A d \in Contents : current[d] # o
         /\ Give(t, o)
         /\ current' = [current EXCEPT ![c] = o]
    /\ UNCHANGED closed

Pass(t, u) == given[u] # NoObject /\ Give(t, given[u]) /\ UNCHANGED <<current, closed>>

(* The last one to give up an object may take it out of circulation; a     *)
(* search that is passing by may delay that.                               *)
Drop(t) ==
    /\ given[t] # NoObject
    /\ given' = [given EXCEPT ![t] = NoObject]
    /\ \/ UNCHANGED current
       \/ \E c \in Contents :
            /\ current[c] = given[t] /\ \A u \in Threads \ {t} : given[u] # given[t]
            /\ current' = [current EXCEPT ![c] = NoObject]
    /\ UNCHANGED closed

Vanish(c) ==
    /\ current[c] # NoObject /\ ~InUse(current[c])
    /\ current' = [current EXCEPT ![c] = NoObject]
    /\ UNCHANGED <<given, closed>>

Close == ~closed /\ closed' = TRUE /\ UNCHANGED <<current, given>>

Retire(c) ==
    /\ closed /\ current[c] # NoObject
    /\ current' = [current EXCEPT ![c] = NoObject]
    /\ UNCHANGED <<given, closed>>

Next ==
    \/ Close
    \/ \E c \in Contents : Vanish(c) \/ Retire(c)
    \/ \E t \in Threads :
         \/ Drop(t)
         \/ \E c \in Contents : Find(t, c) \/ Make(t, c)
         \/ \E u \in Threads : Pass(t, u)

Spec == Init /\ [][Next]_internVars
=============================================================================
