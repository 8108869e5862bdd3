----------------------------- MODULE DawnDevice -----------------------------
(***************************************************************************)
(* The WebGPU device as teck drives it: the front end of the vendored Dawn *)
(* library (lib/dawn/src/dawn/native).  Every API call has the same shape  *)
(* there: check that the device is alive, validate the arguments, call the *)
(* backend, and turn an error into an error object plus one report         *)
(* (DeviceBase::HandleError).  The kinds of outcome are all that teck can  *)
(* observe, because it never looks at a return value.                      *)
(***************************************************************************)
EXTENDS Naturals

VARIABLES
    device,    \* life of tkRenderer::wDevice; "none" is the null handle
    uncaught,  \* calls of the uncaptured-error callback in this phase
    attached,  \* is a swap chain attached to the surface (mAttached)
    image      \* does the swap chain hold this frame's texture

devVars == <<device, uncaught, attached, image>>

DeviceStates == {"none", "alive", "lost", "destroyed"}

(* What a call can come to.  "dead": the device was lost before the call,   *)
(* "invalid": validation failed, "loss": the backend failed in a way the    *)
(* call does not allow, so the device is lost, "oom": out of memory.        *)
CallOutcomes == {"ok", "dead", "invalid", "loss", "oom"}

OutcomesOf(valid, failures) ==
    IF device # "alive" THEN {"dead"}
    ELSE IF ~valid THEN {"invalid"}
    ELSE {"ok"} \union failures

(* Calls that only build a front-end object cannot fail once validated.    *)
NoFailure == {}

(* Calls that reach the backend may lose the device.                       *)
BackendFailure == {"loss"}

(* CreateBuffer and CreateTexture also allow an out-of-memory error.       *)
AllocationFailure == {"loss", "oom"}

(* Mutants of HandleError: the lost state is not recorded, so the callback  *)
(* keeps firing; or the callback is not gated on the device being alive.   *)
HandleErrorForgetsLoss(out) ==
    /\ UNCHANGED device
    /\ uncaught' = IF out \in {"invalid", "oom"} THEN uncaught + 1 ELSE uncaught
HandleErrorIgnoresState(out) ==
    /\ device' = IF out = "loss" THEN "lost" ELSE device
    /\ uncaught' = IF out # "ok" THEN uncaught + 1 ELSE uncaught

(* DeviceBase::HandleError.  A loss disconnects the device and is reported  *)
(* to the lost callback only, which teck does not set; any other error     *)
(* reaches the uncaptured-error callback while the device is alive.        *)
HandleError(out) ==
    /\ device' = IF out = "loss" THEN "lost" ELSE device
    /\ uncaught' = IF out \in {"invalid", "oom"} THEN uncaught + 1 ELSE uncaught

(* SwapChainBase::APIPresent gives the texture up once it was shown.       *)
PresentImage(out) == image' = (image /\ out # "ok")

(* DeviceBase::Destroy: whatever state the device is in, it ends destroyed; *)
(* the objects it tracks, the swap chain's texture among them, go with it. *)
DestroyDevice ==
    /\ device' = IF device = "none" THEN "none" ELSE "destroyed"
    /\ image' = FALSE
    /\ UNCHANGED <<uncaught, attached>>

DevTypeOK ==
    /\ device \in DeviceStates
    /\ uncaught \in Nat
    /\ attached \in BOOLEAN
    /\ image \in BOOLEAN

DevInit ==
    /\ device = "none"
    /\ uncaught = 0
    /\ attached = FALSE
    /\ image = FALSE
=============================================================================
