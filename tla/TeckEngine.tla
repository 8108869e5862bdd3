----------------------------- MODULE TeckEngine -----------------------------
(***************************************************************************)
(* tkEngine (src/core/engine.cpp): Create, Init, the main loop, and the    *)
(* destruction of the singletons when main returns or exit() is called;    *)
(* with tkWindow (src/core/window.cpp), the scene and the renderer's       *)
(* startup and frame (TeckRenderer).  GLFW itself and the user are         *)
(* external.                                                               *)
(***************************************************************************)
EXTENDS TeckRenderer

VARIABLES
    window,       \* tkWindow::Window: "none", "open", "failed" or "destroyed"
    closePending, \* the window system has a close request
    shouldClose,  \* GLFW's flag, which PollEvents sets
    bRunning,     \* tkEngine::bRunning
    scene,        \* the scene of LoadedScenes
    instance      \* tkRenderer::wInstance

engineVars == <<window, closePending, shouldClose, bRunning, scene, instance>>
vars == <<devVars, staticVars, rendererVars, engineVars>>

LoopCalls == {"ShouldExit", "PollEvents", "Update"} \union FrameCalls

ExitCalls ==
    {"Exiting", "ReleaseSwapChain", "ReleaseSurface", "ReleaseDevice",
     "ReleaseInstance", "CleanScenes", "DestroyWindow"}

Terminal == {"Done", "Crashed", "Aborted"}

Pcs ==
    {"Create", "BeginPlay", "RendererInit"} \union InitCalls \union LoopCalls
        \union ExitCalls \union Terminal

-----------------------------------------------------------------------------
(* A mutant of Create: the renderer's singleton is touched first.          *)
CreateRendererFirst ==
    /\ pc = "Create"
    /\ built' = [built EXCEPT !["renderer"] = 1, !["engine"] = 2]
    /\ ticket' = 3
    /\ window' = "open"
    /\ pc' = "BeginPlay"
    /\ UNCHANGED <<devVars, obj, vertexWrite, surface, frameVars,
                   closePending, shouldClose, bRunning, scene, instance>>

(* tkEngine::Create builds the engine, whose constructor opens the window;  *)
(* glfwCreateWindow's result is not checked.                               *)
CreateEngine ==
    /\ pc = "Create"
    /\ Build("engine")
    /\ window' \in {"open", "failed"}
    /\ pc' = "BeginPlay"
    /\ UNCHANGED <<devVars, obj, vertexWrite, surface, frameVars,
                   closePending, shouldClose, bRunning, scene, instance>>

(* A mutant of Init: the scene is put in LoadedScenes only after the        *)
(* renderer was initialised, which the exit inside it skips.               *)
BeginPlayUnlisted ==
    /\ pc = "BeginPlay"
    /\ bRunning' = TRUE
    /\ Build("registry")
    /\ scene' = "none"
    /\ pc' = "RendererInit"
    /\ UNCHANGED <<devVars, obj, vertexWrite, surface, frameVars,
                   window, closePending, shouldClose, instance>>

(* tkEngine::Init up to LoadedScenes.push_back; BeginPlay fills the        *)
(* registry, which this first use builds.                                  *)
BeginPlay ==
    /\ pc = "BeginPlay"
    /\ bRunning' = TRUE
    /\ Build("registry")
    /\ scene' = "loaded"
    /\ pc' = "RendererInit"
    /\ UNCHANGED <<devVars, obj, vertexWrite, surface, frameVars,
                   window, closePending, shouldClose, instance>>

(* tkRenderer::Get().Init up to GetDevice.                                 *)
RendererInitCall ==
    /\ pc = "RendererInit"
    /\ Build("renderer")
    /\ instance' = "live"
    /\ pc' = "RequestAdapter"
    /\ UNCHANGED <<devVars, obj, vertexWrite, surface, frameVars,
                   window, closePending, shouldClose, bRunning, scene>>

(* A mutant of ShouldExit: a lost device ends the loop.                    *)
ShouldExitOnLoss ==
    /\ pc = "ShouldExit"
    /\ pc' = IF shouldClose \/ ~bRunning \/ device = "lost" THEN "Exiting" ELSE "PollEvents"
    /\ UNCHANGED <<devVars, staticVars, obj, vertexWrite, surface, frameVars, engineVars>>

(* ShouldExit.  InputSystems is empty and nothing clears bRunning.         *)
ShouldExit ==
    /\ pc = "ShouldExit"
    /\ pc' = IF shouldClose \/ ~bRunning THEN "Exiting" ELSE "PollEvents"
    /\ UNCHANGED <<devVars, staticVars, obj, vertexWrite, surface, frameVars, engineVars>>

(* glfwPollEvents delivers the close request.                              *)
PollEvents ==
    /\ pc = "PollEvents"
    /\ shouldClose' = (shouldClose \/ closePending)
    /\ pc' = "Update"
    /\ UNCHANGED <<devVars, staticVars, obj, vertexWrite, surface, frameVars,
                   window, closePending, bRunning, scene, instance>>

(* The physics systems run; the count of reports restarts for the frame.   *)
Update ==
    /\ pc = "Update"
    /\ uncaught' = 0
    /\ pc' = "AcquireView"
    /\ UNCHANGED <<device, attached, image, staticVars, obj, vertexWrite, surface,
                   frameVars, engineVars>>

-----------------------------------------------------------------------------
(* Exit: the singletons' destructors, latest built first.                  *)

(* The destructor body that runs for each singleton.                       *)
DestructorOf(s) ==
    CASE s = "renderer" -> "ReleaseSwapChain"
      [] s = "engine" -> "CleanScenes"
      [] OTHER -> "Exiting"

(* A singleton whose destructor only frees memory is gone in one step; the  *)
(* renderer and the engine are gone when their last member is.             *)
DestroyNext ==
    /\ pc = "Exiting"
    /\ \E s \in Singletons :
          /\ IsNextToDestroy(s)
          /\ pc' = DestructorOf(s)
          /\ IF s \in {"reader", "registry"} THEN Unbuild(s) ELSE UNCHANGED staticVars
    /\ UNCHANGED <<devVars, obj, vertexWrite, surface, frameVars, engineVars>>

ExitDone ==
    /\ pc = "Exiting"
    /\ \A s \in Singletons : ~IsBuilt(s)
    /\ pc' = "Done"
    /\ UNCHANGED <<devVars, staticVars, obj, vertexWrite, surface, frameVars, engineVars>>

(* ~tkRenderer releases its members, last declared first: the objects, the  *)
(* swap chain, the surface, the device, the instance.  The surface still   *)
(* refers to the swap chain.  Nobody deletes the 2d render system, so its  *)
(* buffer stays.                                                           *)
ReleaseSwapChain ==
    /\ pc = "ReleaseSwapChain"
    /\ obj' = [o \in GpuObjects |-> IF o = "pointBuffer" THEN obj[o] ELSE "null"]
    /\ pc' = "ReleaseSurface"
    /\ UNCHANGED <<devVars, staticVars, vertexWrite, surface, frameVars, engineVars>>

(* ~Surface detaches the swap chain that is attached to it.                *)
ReleaseSurface ==
    /\ pc = "ReleaseSurface"
    /\ surface' = IF surface = "live" THEN "released" ELSE surface
    /\ attached' = FALSE
    /\ pc' = "ReleaseDevice"
    /\ UNCHANGED <<device, uncaught, image, staticVars, obj, vertexWrite, frameVars, engineVars>>

(* The last external reference goes: DeviceBase::Destroy.                  *)
ReleaseDevice ==
    /\ pc = "ReleaseDevice"
    /\ DestroyDevice
    /\ pc' = "ReleaseInstance"
    /\ UNCHANGED <<staticVars, obj, vertexWrite, surface, frameVars, engineVars>>

ReleaseInstance ==
    /\ pc = "ReleaseInstance"
    /\ instance' = "released"
    /\ Unbuild("renderer")
    /\ pc' = "Exiting"
    /\ UNCHANGED <<devVars, obj, vertexWrite, surface, frameVars,
                   window, closePending, shouldClose, bRunning, scene>>

(* ~tkEngine: CleanUpScene and delete for every loaded scene.              *)
CleanScenes ==
    /\ pc = "CleanScenes"
    /\ scene' = IF scene = "loaded" THEN "deleted" ELSE scene
    /\ pc' = "DestroyWindow"
    /\ UNCHANGED <<devVars, staticVars, obj, vertexWrite, surface, frameVars,
                   window, closePending, shouldClose, bRunning, instance>>

(* ~tkWindow, the engine's member: glfwDestroyWindow and glfwTerminate.    *)
DestroyWindow ==
    /\ pc = "DestroyWindow"
    /\ window' = "destroyed"
    /\ Unbuild("engine")
    /\ pc' = "Exiting"
    /\ UNCHANGED <<devVars, obj, vertexWrite, surface, frameVars,
                   closePending, shouldClose, bRunning, scene, instance>>

Exit ==
    \/ DestroyNext \/ ExitDone \/ ReleaseSwapChain \/ ReleaseSurface
    \/ ReleaseDevice \/ ReleaseInstance \/ CleanScenes \/ DestroyWindow

-----------------------------------------------------------------------------
MainThread ==
    \/ CreateEngine \/ BeginPlay \/ RendererInitCall
    \/ (Startup \/ CreateSurface(window = "open") \/ Render) /\ UNCHANGED engineVars
    \/ ShouldExit \/ PollEvents \/ Update
    \/ Exit

(* The user asks the window system to close the window.                    *)
UserClose ==
    /\ window = "open"
    /\ ~closePending
    /\ closePending' = TRUE
    /\ UNCHANGED <<devVars, staticVars, rendererVars,
                   window, shouldClose, bRunning, scene, instance>>

(* A process that ended takes no more steps.                               *)
Ended == pc \in Terminal /\ UNCHANGED vars

Next == MainThread \/ UserClose \/ Ended

Init ==
    /\ RendererInit
    /\ pc = "Create"
    /\ window = "none"
    /\ closePending = FALSE
    /\ shouldClose = FALSE
    /\ bRunning = FALSE
    /\ scene = "none"
    /\ instance = "none"

(* The operating system keeps running the main thread; the user need never *)
(* close the window.                                                       *)
Fairness == WF_vars(MainThread)

Spec == Init /\ [][Next]_vars /\ Fairness
-----------------------------------------------------------------------------
(* Every variable keeps its type.                                          *)
TypeOK ==
    /\ RendererTypeOK
    /\ pc \in Pcs
    /\ window \in {"none", "open", "failed", "destroyed"}
    /\ closePending \in BOOLEAN
    /\ shouldClose \in BOOLEAN
    /\ bRunning \in BOOLEAN
    /\ scene \in {"none", "loaded", "deleted"}
    /\ instance \in {"none", "live", "released"}

(* On every path to the end of the process, the exit(0) inside the adapter  *)
(* callback included, a surface never outlives its window, a swap chain    *)
(* stays attached only while its surface lives (SwapChain.cpp:155 asserts  *)
(* it), and the device goes before the instance.                           *)
ResourcesNested ==
    /\ surface = "live" => window = "open"
    /\ attached => surface = "live"
    /\ device \in {"alive", "lost"} => instance = "live"

(* The main loop is entered only with a window, a surface and a device that *)
(* was delivered: a failed or still pending request never gets that far.   *)
LoopHasDevice ==
    pc \in LoopCalls =>
        /\ device \in {"alive", "lost"}
        /\ surface = "live"
        /\ window = "open"
        /\ "sync" \in Deliveries

(* Render presents without looking at GetCurrentTextureView's result.  Even *)
(* so Present is never invalid for want of a texture: whenever acquiring   *)
(* one failed on a valid swap chain, the device is lost by then.           *)
PresentHasImage ==
    pc = "Present" /\ device = "alive" /\ Valid("swapChain") => image

FrameObjects ==
    {"swapChain", "vertexBuffer", "indexBuffer", "mvpBuffer", "bindGroup", "depthView", "pipeline"}

(* When every object a frame uses was created, the frame that reaches       *)
(* Present with the device alive has drawn, with this frame's matrices and *)
(* without a single report.                                                *)
SoundFrameDraws ==
    /\ pc = "Present"
    /\ device = "alive"
    /\ \A o \in FrameObjects : Valid(o)
    => drawn /\ mvp /\ uncaught = 0

One(condition) == IF condition THEN 1 ELSE 0

(* An object that could not be created costs a fixed number of reports in   *)
(* each frame, however many commands use it: the encoder keeps the first   *)
(* error only.  A broken swap chain is reported when acquired and when     *)
(* presented, broken uniforms when written, and a broken command buffer    *)
(* when finished and when submitted.                                       *)
FrameReports ==
    pc = "ProcessEvents" /\ device = "alive" =>
        uncaught = 2 * One(~Valid("swapChain")) + One(~Valid("mvpBuffer"))
                   + 2 * One(\E o \in FrameObjects : ~Valid(o))

(* After a loss the uncaptured-error callback ceases firing, although teck  *)
(* keeps calling the lost device every frame.                              *)
QuietAfterLoss == [][device = "lost" => uncaught' <= uncaught]_vars

(* A process that ends in order has run the destructor of each scene it     *)
(* loaded, closed its window, dropped the device and has no singleton left; *)
(* one that ended otherwise died before its main loop.                     *)
CleanEnd ==
    pc = "Done" =>
        /\ scene = "deleted"
        /\ window = "destroyed"
        /\ device \in {"none", "destroyed"}
        /\ instance = "released"
        /\ \A s \in Singletons : ~IsBuilt(s)

(* The program as its desktop sees it.                                     *)
Phase ==
    IF pc \in {"Crashed", "Aborted"} THEN "died"
    ELSE IF pc = "Done" THEN "ended"
    ELSE IF pc \in LoopCalls THEN "running"
    ELSE IF pc \in ExitCalls THEN "stopping"
    ELSE "starting"

Held ==
    (IF window = "open" THEN {"window"} ELSE {})
        \union (IF device \in {"alive", "lost"} THEN {"device"} ELSE {})
        \union (IF surface = "live" THEN {"surface"} ELSE {})

Lifecycle == INSTANCE TeckLifecycle WITH phase <- Phase, held <- Held, asked <- closePending

(* teck keeps the promises of TeckLifecycle: a loss of the device never     *)
(* ends a running program, a request to close always does, and everything  *)
(* is given back in order.                                                 *)
KeepsLifecycle == Lifecycle!Spec
=============================================================================
