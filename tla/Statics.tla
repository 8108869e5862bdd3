------------------------------ MODULE Statics ------------------------------
(***************************************************************************)
(* C++ function-local statics, which is how teck keeps its singletons      *)
(* (tkEngine::Get, tkRegistry::Get, tkRenderer::Get,                       *)
(* tkReader::TextFileReader).  Each is built at the first call of its      *)
(* accessor and destroyed at exit, in the reverse of the order in which    *)
(* they were built.                                                        *)
(***************************************************************************)
EXTENDS Naturals

VARIABLES
    built,   \* [Singletons -> Nat]: its place in the order, 0 if it is not alive
    ticket   \* the next place in the order

staticVars == <<built, ticket>>

Singletons == {"engine", "registry", "renderer", "reader"}

IsBuilt(s) == built[s] # 0

(* The first call of an accessor builds the object, later calls find it.   *)
Build(s) ==
    IF IsBuilt(s)
    THEN UNCHANGED staticVars
    ELSE /\ built' = [built EXCEPT ![s] = ticket]
         /\ ticket' = ticket + 1

(* exit() destroys the object that was built last.                         *)
IsNextToDestroy(s) ==
    IsBuilt(s) /\ \A t \in Singletons : built[t] <= built[s]

Unbuild(s) ==
    /\ built' = [built EXCEPT ![s] = 0]
    /\ UNCHANGED ticket

StaticTypeOK == built \in [Singletons -> Nat] /\ ticket \in Nat \ {0}

StaticInit == built = [s \in Singletons |-> 0] /\ ticket = 1
=============================================================================
