--------------------------- MODULE TeckLifecycle ---------------------------
(***************************************************************************)
(* What a run of teck promises to the desktop it runs on, whatever the GPU *)
(* does: it acquires a window, a device and a surface, runs until the user *)
(* asks it to close, and then gives everything back, the window last.      *)
(* A run may give up or die while it starts, never once it is running.     *)
(***************************************************************************)
VARIABLES
    phase,  \* "starting", "running", "stopping", "ended" or "died"
    held,   \* the resources the process holds
    asked   \* has the user asked to close the window

vars == <<phase, held, asked>>

Resources == {"window", "device", "surface"}

(* A surface belongs to a window, so it is acquired later and goes earlier. *)
MayAcquire(r) == r = "surface" => "window" \in held
MayRelease(r) == r = "window" => "surface" \notin held

TypeOK ==
    /\ phase \in {"starting", "running", "stopping", "ended", "died"}
    /\ held \subseteq Resources
    /\ asked \in BOOLEAN

Init == phase = "starting" /\ held = {} /\ asked = FALSE

Acquire(r) ==
    /\ phase = "starting"
    /\ r \notin held
    /\ MayAcquire(r)
    /\ held' = held \union {r}
    /\ UNCHANGED <<phase, asked>>

Ask ==
    /\ "window" \in held
    /\ ~asked
    /\ asked' = TRUE
    /\ UNCHANGED <<phase, held>>

Run ==
    /\ phase = "starting"
    /\ held = Resources
    /\ phase' = "running"
    /\ UNCHANGED <<held, asked>>

(* Only the user ends a running program.                                   *)
Stop ==
    /\ phase = "running"
    /\ asked
    /\ phase' = "stopping"
    /\ UNCHANGED <<held, asked>>

GiveUp == phase = "starting" /\ phase' = "stopping" /\ UNCHANGED <<held, asked>>

Die == phase = "starting" /\ phase' = "died" /\ UNCHANGED <<held, asked>>

Release(r) ==
    /\ phase = "stopping"
    /\ r \in held
    /\ MayRelease(r)
    /\ held' = held \ {r}
    /\ UNCHANGED <<phase, asked>>

End ==
    /\ phase = "stopping"
    /\ held = {}
    /\ phase' = "ended"
    /\ UNCHANGED <<held, asked>>

Next ==
    \/ Ask \/ Run \/ Stop \/ GiveUp \/ Die \/ End
    \/ \E r \in Resources : Acquire(r) \/ Release(r)

(* Startup always settles, a request to close is obeyed, and stopping ends. *)
Progress ==
    /\ WF_vars(Run \/ GiveUp \/ Die)
    /\ WF_vars(Stop)
    /\ WF_vars(End \/ \E r \in Resources : Release(r))

Spec == Init /\ [][Next]_vars /\ Progress
=============================================================================
