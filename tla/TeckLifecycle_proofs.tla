------------------------ MODULE TeckLifecycle_proofs ------------------------
(***************************************************************************)
(* Proofs about the whole run of teck, on top of TeckEngine_proofs: an      *)
(* orderly end leaves nothing behind, and every step is a step of           *)
(* TeckLifecycle or changes nothing it shows.                              *)
(***************************************************************************)
EXTENDS TeckEngine_proofs

-----------------------------------------------------------------------------
(* What the two facts need besides IInv.                                   *)

(* Nothing is held before the call that acquires it.                       *)
NotYetAcquired ==
    /\ pc = "Create" => window = "none"
    /\ pc \in {"Create", "BeginPlay", "RendererInit", "RequestAdapter", "RequestDevice"}
          => device = "none"
    /\ pc \in {"Create", "BeginPlay", "RendererInit", "RequestAdapter", "RequestDevice",
               "CreateSurface"}
          => surface = "none"

(* Only the user's request, once GLFW has delivered it, ends the loop.      *)
LoopEndsOnRequest ==
    /\ shouldClose => closePending
    /\ pc \notin {"Create", "BeginPlay"} => bRunning

(* The scene is listed before anything can end the process.                *)
SceneListed ==
    /\ pc \notin {"Create", "BeginPlay"} => scene \in {"loaded", "deleted"}
    /\ pc = "DestroyWindow" => scene = "deleted"

(* While the process exits, a singleton that is gone has run its destructor *)
(* to the end.                                                             *)
GoneIsReleased ==
    /\ pc \in ExitCalls \union {"Done"} /\ ~IsBuilt("engine")
          => scene = "deleted" /\ window = "destroyed"
    /\ pc \in {"Exiting", "CleanScenes", "DestroyWindow", "Done"} /\ ~IsBuilt("renderer")
          => instance = "released" /\ device \in {"none", "destroyed"}
    /\ pc = "Done" => \A s \in Singletons : ~IsBuilt(s)

EndInv == NotYetAcquired /\ LoopEndsOnRequest /\ SceneListed /\ GoneIsReleased

-----------------------------------------------------------------------------
(* Where a call of startup leads, and what it acquires: no call but         *)
(* CreateSurface touches the surface, and the reader is all it builds.     *)
LEMMA StartupCall ==
    ASSUME IInv, Startup
    PROVE  /\ pc \in {"RequestAdapter", "RequestDevice", "SwapChain"} \union ObjectCalls
           /\ pc = "RequestAdapter"
                 => pc' \in {"RequestDevice", "CreateSurface", "Exiting", "Aborted"}
                    /\ UNCHANGED device
           /\ pc = "RequestDevice"
                 => \/ pc' = "CreateSurface" /\ device' = "alive"
                    \/ pc' = "Crashed" /\ device' = "none"
           /\ pc = "SwapChain"
                 => \/ pc' = "VertexBuffer" /\ device # "none"
                    \/ pc' = "Crashed" /\ UNCHANGED device
           /\ pc \in ObjectCalls => pc' \in ObjectCalls \union {"ShouldExit"}
           /\ pc \in ObjectCalls /\ pc' = "ShouldExit" => pc = "PointBuffer"
           /\ UNCHANGED surface
           /\ built'["engine"] = built["engine"] /\ built'["renderer"] = built["renderer"]
<1> USE DEF ObjectCalls, InitCalls, devVars, staticVars, Create, CreateAs
<1>1. StaticTypeOK
  BY DEF IInv, TypeOK, RendererTypeOK
<1>2. CASE RequestAdapter
  BY <1>2 DEF RequestAdapter
<1>3. CASE RequestDevice
  BY <1>3 DEF RequestDevice
<1>4. CASE NullDeviceCall
  BY <1>4 DEF NullDeviceCall
<1>5. CASE SetupSwapChain
  BY <1>5 DEF SetupSwapChain
<1>6. CASE CreateVertexBuffer \/ CreateIndexBuffer \/ SetupMVPUniformsBuffer
  BY <1>6 DEF CreateVertexBuffer, CreateIndexBuffer, SetupMVPUniformsBuffer
<1>7. CASE WriteVertices \/ WriteIndices
  BY <1>7 DEF WriteVertices, WriteIndices, WriteBuffer
<1>8. CASE CreateBindGroupLayout \/ CreateBindGroup \/ CreateDepthTexture \/ CreateDepthView
  BY <1>8 DEF CreateBindGroupLayout, CreateBindGroup, CreateDepthTexture, CreateDepthView
<1>9. CASE SetupSampler \/ CreatePipelineLayout \/ CreateRenderPipeline \/ SetupPointBuffer
  BY <1>9 DEF SetupSampler, CreatePipelineLayout, CreateRenderPipeline, SetupPointBuffer
<1>10. CASE CreateShaderModule
  <2>1. built'["engine"] = built["engine"] /\ built'["renderer"] = built["renderer"]
    BY <1>10, <1>1 DEF CreateShaderModule, Build, StaticTypeOK, Singletons
  <2> QED BY <1>10, <2>1 DEF CreateShaderModule
<1> QED BY <1>2, <1>3, <1>4, <1>5, <1>6, <1>7, <1>8, <1>9, <1>10 DEF Startup

(* A call of a frame leads to the next one, and holds what it held.        *)
LEMMA FrameCall ==
    ASSUME Render
    PROVE  /\ pc \in FrameCalls
           /\ pc' \in FrameCalls \union {"ShouldExit"}
           /\ UNCHANGED <<surface, staticVars>>
<1> USE DEF FrameCalls, frameVars, devVars
<1>1. CASE AcquireView \/ CreateEncoder \/ BeginRenderPass \/ SetPipeline
  BY <1>1 DEF AcquireView, CreateEncoder, BeginRenderPass, SetPipeline
<1>2. CASE WriteMvp \/ RecordDraw \/ EndPass \/ Finish
  BY <1>2 DEF WriteMvp, RecordDraw, EndPass, Finish
<1>3. CASE Submit \/ Present \/ ProcessEvents
  BY <1>3 DEF Submit, Present, ProcessEvents
<1> QED BY <1>1, <1>2, <1>3 DEF Render
-----------------------------------------------------------------------------
LEMMA InitEndInv == Init => EndInv
BY DEF Init, RendererInit, DevInit, EndInv, NotYetAcquired, LoopEndsOnRequest, SceneListed,
       GoneIsReleased, ExitCalls

LEMMA StartupKeepsEnd ==
    ASSUME IInv, EndInv, Startup, UNCHANGED engineVars
    PROVE  EndInv'
<1> USE StartupCall DEF EndInv, ObjectCalls, InitCalls, engineVars
<1>1. NotYetAcquired'
  BY DEF NotYetAcquired
<1>2. LoopEndsOnRequest' /\ SceneListed'
  BY DEF LoopEndsOnRequest, SceneListed
<1>3. IsBuilt("engine")' /\ IsBuilt("renderer")'
  BY DEF IInv, StaticOrder, IsBuilt
<1>4. GoneIsReleased'
  BY <1>3 DEF GoneIsReleased, ExitCalls
<1> QED BY <1>1, <1>2, <1>4

LEMMA FrameKeepsEnd ==
    ASSUME EndInv, Render, UNCHANGED engineVars
    PROVE  EndInv'
BY FrameCall
DEF EndInv, NotYetAcquired, LoopEndsOnRequest, SceneListed, GoneIsReleased, FrameCalls, ExitCalls,
    engineVars

LEMMA EngineKeepsEnd ==
    ASSUME IInv, EndInv,
           \/ CreateEngine \/ BeginPlay \/ RendererInitCall
           \/ CreateSurface(window = "open") /\ UNCHANGED engineVars
           \/ ShouldExit \/ PollEvents \/ Update \/ UserClose \/ Ended
    PROVE  EndInv'
<1> USE DEF EndInv, devVars, staticVars, rendererVars, frameVars
<1>1. NotYetAcquired'
  BY DEF NotYetAcquired, CreateEngine, BeginPlay, RendererInitCall, CreateSurface, ShouldExit,
         PollEvents, Update, UserClose, Ended, vars, engineVars
<1>2. LoopEndsOnRequest'
  <2>1. CASE PollEvents
    BY <2>1 DEF PollEvents, LoopEndsOnRequest
  <2>2. CASE UserClose
    BY <2>2 DEF UserClose, LoopEndsOnRequest
  <2>3. CASE ShouldExit \/ Update \/ Ended
    BY <2>3 DEF ShouldExit, Update, Ended, vars, engineVars, LoopEndsOnRequest
  <2>4. CASE CreateEngine
    BY <2>4 DEF CreateEngine, LoopEndsOnRequest
  <2>5. CASE BeginPlay
    BY <2>5 DEF BeginPlay, LoopEndsOnRequest
  <2>6. CASE RendererInitCall
    <3>1. bRunning /\ (shouldClose => closePending)
      BY <2>6 DEF RendererInitCall, LoopEndsOnRequest
    <3>2. UNCHANGED <<bRunning, shouldClose, closePending>>
      BY <2>6 DEF RendererInitCall
    <3> QED BY <3>1, <3>2 DEF LoopEndsOnRequest
  <2>7. CASE CreateSurface(window = "open") /\ UNCHANGED engineVars
    BY <2>7 DEF engineVars, CreateSurface, LoopEndsOnRequest
  <2> QED BY <2>1, <2>2, <2>3, <2>4, <2>5, <2>6, <2>7
<1>3. SceneListed'
  BY DEF SceneListed, CreateEngine, BeginPlay, RendererInitCall, CreateSurface, ShouldExit,
         PollEvents, Update, UserClose, Ended, vars, engineVars
<1>4. GoneIsReleased'
  <2>1. CASE ShouldExit
    BY <2>1 DEF ShouldExit, engineVars, IInv, StaticOrder, GoneIsReleased, LoopCalls, IsBuilt
  <2>2. CASE UserClose
    BY <2>2 DEF UserClose, GoneIsReleased, IsBuilt
  <2>3. CASE Ended
    BY <2>3 DEF Ended, vars, engineVars, GoneIsReleased, IsBuilt
  <2>4. CASE \/ CreateEngine \/ BeginPlay \/ RendererInitCall \/ CreateSurface(window = "open")
             \/ PollEvents \/ Update
    BY <2>4 DEF CreateEngine, BeginPlay, RendererInitCall, CreateSurface, PollEvents, Update,
                GoneIsReleased, ExitCalls
  <2> QED BY <2>1, <2>2, <2>3, <2>4
<1> QED BY <1>1, <1>2, <1>3, <1>4

(* The destructors: the engine goes after its window and scene, the         *)
(* renderer after its device and instance.                                 *)
LEMMA ExitKeepsEnd ==
    ASSUME IInv, EndInv, Exit
    PROVE  EndInv'
<1> USE DEF EndInv, devVars, staticVars, frameVars, engineVars
<1>1. NotYetAcquired'
  BY DEF NotYetAcquired, Exit, DestroyNext, ExitDone, ReleaseSwapChain, ReleaseSurface,
         ReleaseDevice, ReleaseInstance, CleanScenes, DestroyWindow, DestructorOf, Singletons
<1>2. LoopEndsOnRequest'
  BY DEF LoopEndsOnRequest, Exit, DestroyNext, ExitDone, ReleaseSwapChain, ReleaseSurface,
         ReleaseDevice, ReleaseInstance, CleanScenes, DestroyWindow, DestructorOf, Singletons
<1>3. SceneListed'
  BY DEF SceneListed, Exit, DestroyNext, ExitDone, ReleaseSwapChain, ReleaseSurface,
         ReleaseDevice, ReleaseInstance, CleanScenes, DestroyWindow, DestructorOf, Singletons
<1>4. StaticTypeOK /\ device \in DeviceStates
  BY DEF IInv, TypeOK, RendererTypeOK, DevTypeOK
<1>5. GoneIsReleased'
  <2> USE DEF GoneIsReleased, ExitCalls, IsBuilt
  <2>1. CASE DestroyNext
    <3>1. PICK s \in Singletons :
            /\ pc' = DestructorOf(s)
            /\ IF s \in {"reader", "registry"} THEN Unbuild(s) ELSE UNCHANGED staticVars
      BY <2>1 DEF DestroyNext
    <3>2. built'["engine"] = built["engine"] /\ built'["renderer"] = built["renderer"]
      BY <3>1, <1>4 DEF Unbuild, StaticTypeOK, Singletons
    <3>3. pc = "Exiting" /\ pc' \in {"ReleaseSwapChain", "CleanScenes", "Exiting"}
      BY <2>1, <3>1 DEF DestroyNext, DestructorOf, Singletons
    <3> QED BY <2>1, <3>2, <3>3 DEF DestroyNext
  <2>2. CASE ExitDone
    BY <2>2 DEF ExitDone
  <2>3. CASE ReleaseSwapChain \/ ReleaseSurface \/ ReleaseDevice
    BY <2>3 DEF ReleaseSwapChain, ReleaseSurface, ReleaseDevice
  <2>4. CASE ReleaseInstance
    <3>1. IsBuilt("engine") /\ device \in {"none", "destroyed"}
      BY <2>4, <1>4
      DEF ReleaseInstance, IInv, StaticOrder, Holdings, Delivered, RendererExitCalls, DeviceStates
    <3>2. built'["engine"] = built["engine"]
      BY <2>4, <1>4 DEF ReleaseInstance, Unbuild, StaticTypeOK, Singletons
    <3> QED BY <2>4, <3>1, <3>2 DEF ReleaseInstance
  <2>5. CASE CleanScenes
    BY <2>5 DEF CleanScenes
  <2>6. CASE DestroyWindow
    <3>1. built'["renderer"] = built["renderer"]
      BY <2>6, <1>4 DEF DestroyWindow, Unbuild, StaticTypeOK, Singletons
    <3> QED BY <2>6, <3>1 DEF DestroyWindow, SceneListed
  <2> QED BY <2>1, <2>2, <2>3, <2>4, <2>5, <2>6 DEF Exit
<1> QED BY <1>1, <1>2, <1>3, <1>5

LEMMA StepEndInv == IInv /\ EndInv /\ [Next]_vars => EndInv'
<1> SUFFICES ASSUME IInv, EndInv, [Next]_vars PROVE EndInv'
  OBVIOUS
<1>1. CASE Next
  BY <1>1, StartupKeepsEnd, FrameKeepsEnd, EngineKeepsEnd, ExitKeepsEnd DEF Next, MainThread
<1>2. CASE UNCHANGED vars
  BY <1>2
  DEF vars, devVars, staticVars, rendererVars, engineVars, EndInv, NotYetAcquired,
      LoopEndsOnRequest, SceneListed, GoneIsReleased, IsBuilt
<1> QED BY <1>1, <1>2

(* On every path: nothing is held early, the scene is listed in time, only  *)
(* the user's request ends the loop, and what is gone was released.        *)
THEOREM EndInvariant == Spec => []EndInv
BY InitEndInv, StepEndInv, EngineInvariant, PTL DEF Spec

(* A process that ends in order, whether the user closed the window or no   *)
(* adapter was found, has run every destructor and holds nothing.          *)
THEOREM EndsClean == Spec => []CleanEnd
<1>1. EndInv => CleanEnd
  BY DEF EndInv, GoneIsReleased, CleanEnd, Singletons, ExitCalls
<1> QED BY <1>1, EndInvariant, PTL

-----------------------------------------------------------------------------
(* Every step of teck is a step of TeckLifecycle or shows nothing there.   *)
LifecycleStep == [Lifecycle!Next]_(Lifecycle!vars)

(* A step that keeps the phase, the request and what is held shows nothing. *)
LEMMA Hidden ==
    ASSUME Phase' = Phase, UNCHANGED <<window, surface, closePending>>, Delivered' <=> Delivered
    PROVE  LifecycleStep
BY DEF LifecycleStep, Lifecycle!vars, Held, Delivered

(* Startup: the request gets the device, and what the loop needs is there   *)
(* when it starts; giving up and dying keep what is held.                  *)
LEMMA StartupShows ==
    ASSUME IInv, IInv', EndInv, Startup, UNCHANGED engineVars
    PROVE  LifecycleStep
<1> USE DEF ObjectCalls, InitCalls, engineVars
<1>1. Phase = "starting" /\ device \in DeviceStates
  BY StartupCall
  DEF Phase, ExitCalls, LoopCalls, FrameCalls, IInv, TypeOK, RendererTypeOK, DevTypeOK
<1>2. CASE pc = "RequestAdapter"
  <2>1. UNCHANGED <<surface, device, window, closePending>> /\ Held' = Held
    BY <1>2, StartupCall DEF Held
  <2>2. CASE pc' \in {"RequestDevice", "CreateSurface"}
    BY <2>1, <2>2, <1>1, Hidden DEF Phase, ExitCalls, LoopCalls, FrameCalls, Delivered
  <2>3. CASE pc' = "Exiting"
    <3>1. Phase' = "stopping"
      BY <2>3 DEF Phase, ExitCalls, LoopCalls, FrameCalls
    <3> QED BY <2>1, <3>1, <1>1 DEF LifecycleStep, Lifecycle!Next, Lifecycle!GiveUp
  <2>4. CASE pc' = "Aborted"
    <3>1. Phase' = "died"
      BY <2>4 DEF Phase
    <3> QED BY <2>1, <3>1, <1>1 DEF LifecycleStep, Lifecycle!Next, Lifecycle!Die
  <2> QED BY <1>2, <2>2, <2>3, <2>4, StartupCall
<1>3. CASE pc = "RequestDevice"
  <2>1. ~Delivered /\ UNCHANGED <<surface, window, closePending>>
    BY <1>3, StartupCall DEF EndInv, NotYetAcquired, Delivered
  <2>2. CASE pc' = "CreateSurface" /\ device' = "alive"
    <3>1. Phase' = "starting"
      BY <2>2 DEF Phase, ExitCalls, LoopCalls, FrameCalls
    <3>2. Held' = Held \union {"device"} /\ "device" \notin Held
      BY <2>1, <2>2 DEF Held, Delivered
    <3> QED BY <2>1, <3>1, <3>2, <1>1
        DEF LifecycleStep, Lifecycle!Next, Lifecycle!Acquire, Lifecycle!Resources, Lifecycle!MayAcquire
  <2>3. CASE pc' = "Crashed" /\ device' = "none"
    <3>1. Phase' = "died" /\ Held' = Held
      BY <2>1, <2>3 DEF Phase, Held, Delivered
    <3> QED BY <2>1, <3>1, <1>1 DEF LifecycleStep, Lifecycle!Next, Lifecycle!Die
  <2> QED BY <1>3, <2>2, <2>3, StartupCall
<1>4. CASE pc = "SwapChain" /\ pc' = "Crashed"
  <2>1. Phase' = "died" /\ Held' = Held /\ UNCHANGED closePending
    BY <1>4, StartupCall DEF Phase, Held
  <2> QED BY <2>1, <1>1 DEF LifecycleStep, Lifecycle!Next, Lifecycle!Die
<1>5. CASE pc = "SwapChain" /\ pc' = "VertexBuffer"
  <2>1. Delivered /\ Delivered'
    BY <1>5, <1>1, StartupCall DEF IInv, Holdings, Delivered, DeviceStates
  <2>2. Phase' = "starting"
    BY <1>5 DEF Phase, ExitCalls, LoopCalls, FrameCalls
  <2> QED BY <2>1, <2>2, <1>1, StartupCall, Hidden
<1>6. CASE pc \in ObjectCalls /\ pc' \in ObjectCalls
  <2>1. Delivered /\ Delivered'
    BY <1>6 DEF IInv, Holdings
  <2>2. Phase' = "starting"
    BY <1>6 DEF Phase, ExitCalls, LoopCalls, FrameCalls
  <2> QED BY <2>1, <2>2, <1>1, StartupCall, Hidden
<1>7. CASE pc \in ObjectCalls /\ pc' = "ShouldExit"
  <2>1. Delivered /\ Delivered' /\ surface = "live" /\ window = "open"
    BY <1>7 DEF IInv, Holdings, LoopCalls
  <2>2. Held = {"window", "device", "surface"} /\ Held' = Held /\ UNCHANGED closePending
    BY <2>1, StartupCall DEF Held, Delivered
  <2>3. Phase' = "running"
    BY <1>7 DEF Phase, LoopCalls
  <2> QED BY <2>2, <2>3, <1>1 DEF LifecycleStep, Lifecycle!Next, Lifecycle!Run, Lifecycle!Resources
<1> QED BY <1>2, <1>3, <1>4, <1>5, <1>6, <1>7, StartupCall

(* A frame shows nothing, whatever becomes of the device.                  *)
LEMMA FrameShows ==
    ASSUME IInv, IInv', Render, UNCHANGED engineVars
    PROVE  LifecycleStep
<1>1. Delivered /\ Delivered'
  BY FrameCall DEF IInv, Holdings, LoopCalls
<1>2. Phase = "running" /\ Phase' = "running"
  BY FrameCall DEF Phase, LoopCalls, FrameCalls
<1> QED BY <1>1, <1>2, FrameCall, Hidden DEF engineVars

(* The window, the surface and the loop.                                   *)
LEMMA EngineShows ==
    ASSUME IInv, EndInv,
           \/ CreateEngine \/ BeginPlay \/ RendererInitCall
           \/ CreateSurface(window = "open") /\ UNCHANGED engineVars
           \/ ShouldExit \/ PollEvents \/ Update \/ UserClose \/ Ended
    PROVE  LifecycleStep
<1> USE DEF devVars, staticVars, rendererVars, frameVars, engineVars
<1>1. CASE CreateEngine
  <2>1. Phase = "starting" /\ Phase' = "starting"
    BY <1>1 DEF CreateEngine, Phase, ExitCalls, LoopCalls, FrameCalls, InitCalls
  <2>2. CASE window' = "open"
    <3>1. Held' = Held \union {"window"} /\ "window" \notin Held /\ UNCHANGED closePending
      BY <1>1, <2>2 DEF CreateEngine, Held, EndInv, NotYetAcquired
    <3> QED BY <2>1, <3>1
        DEF LifecycleStep, Lifecycle!Next, Lifecycle!Acquire, Lifecycle!Resources, Lifecycle!MayAcquire
  <2>3. CASE window' = "failed"
    <3>1. Held' = Held /\ UNCHANGED closePending
      BY <1>1, <2>3 DEF CreateEngine, Held, EndInv, NotYetAcquired
    <3> QED BY <2>1, <3>1 DEF LifecycleStep, Lifecycle!vars
  <2> QED BY <1>1, <2>2, <2>3 DEF CreateEngine
<1>2. CASE BeginPlay \/ RendererInitCall
  <2>1. Phase = "starting" /\ Phase' = "starting"
    BY <1>2 DEF BeginPlay, RendererInitCall, Phase, ExitCalls, LoopCalls, FrameCalls, InitCalls
  <2> QED BY <1>2, <2>1, Hidden DEF BeginPlay, RendererInitCall, Delivered
<1>3. CASE CreateSurface(window = "open") /\ UNCHANGED engineVars
  <2>1. Phase = "starting" /\ UNCHANGED <<device, window, closePending>>
    BY <1>3 DEF CreateSurface, Phase, ExitCalls, LoopCalls, FrameCalls, InitCalls
  <2>2. CASE window = "open"
    <3>1. Phase' = "starting"
      BY <1>3, <2>2 DEF CreateSurface, Phase, ExitCalls, LoopCalls, FrameCalls, InitCalls
    <3>2. Held' = Held \union {"surface"} /\ "surface" \notin Held /\ "window" \in Held
      BY <1>3, <2>1, <2>2 DEF CreateSurface, Held, EndInv, NotYetAcquired
    <3> QED BY <2>1, <3>1, <3>2
        DEF LifecycleStep, Lifecycle!Next, Lifecycle!Acquire, Lifecycle!Resources, Lifecycle!MayAcquire
  <2>3. CASE window # "open"
    <3>1. Phase' = "died" /\ Held' = Held
      BY <1>3, <2>1, <2>3 DEF CreateSurface, Phase, Held
    <3> QED BY <2>1, <3>1 DEF LifecycleStep, Lifecycle!Next, Lifecycle!Die
  <2> QED BY <2>2, <2>3
<1>4. CASE ShouldExit
  <2>1. Phase = "running" /\ UNCHANGED <<device, surface, window, closePending>> /\ Held' = Held
    BY <1>4 DEF ShouldExit, Phase, LoopCalls, Held
  <2>2. CASE pc' = "Exiting"
    <3>1. closePending
      BY <1>4, <2>2 DEF ShouldExit, EndInv, LoopEndsOnRequest
    <3>2. Phase' = "stopping"
      BY <2>2 DEF Phase, ExitCalls, LoopCalls, FrameCalls
    <3> QED BY <2>1, <3>1, <3>2 DEF LifecycleStep, Lifecycle!Next, Lifecycle!Stop
  <2>3. CASE pc' = "PollEvents"
    BY <2>1, <2>3, Hidden DEF Phase, LoopCalls, Delivered
  <2> QED BY <1>4, <2>2, <2>3 DEF ShouldExit
<1>5. CASE PollEvents \/ Update
  <2>1. Phase = "running" /\ Phase' = "running"
    BY <1>5 DEF PollEvents, Update, Phase, LoopCalls, FrameCalls
  <2> QED BY <1>5, <2>1, Hidden DEF PollEvents, Update, Delivered
<1>6. CASE UserClose
  <2>1. Phase' = Phase /\ Held' = Held /\ "window" \in Held
    BY <1>6 DEF UserClose, Phase, Held
  <2> QED BY <1>6, <2>1 DEF UserClose, LifecycleStep, Lifecycle!Next, Lifecycle!Ask
<1>7. CASE Ended
  BY <1>7, Hidden DEF Ended, vars, Phase, Delivered
<1> QED BY <1>1, <1>2, <1>3, <1>4, <1>5, <1>6, <1>7

(* The destructors give the surface, the device and the window back, in     *)
(* that order; the others show nothing.                                    *)
LEMMA ExitShows ==
    ASSUME IInv, EndInv, Exit
    PROVE  LifecycleStep
<1> USE DEF devVars, staticVars, frameVars, engineVars
<1>1. Phase = "stopping"
  BY DEF Exit, DestroyNext, ExitDone, ReleaseSwapChain, ReleaseSurface, ReleaseDevice,
         ReleaseInstance, CleanScenes, DestroyWindow, Phase, ExitCalls, LoopCalls, FrameCalls
<1>2. CASE DestroyNext \/ ReleaseSwapChain \/ ReleaseInstance \/ CleanScenes
  <2>1. pc' \in ExitCalls
    BY <1>2
    DEF DestroyNext, ReleaseSwapChain, ReleaseInstance, CleanScenes, DestructorOf, Singletons, ExitCalls
  <2>2. Phase' = "stopping"
    BY <2>1 DEF Phase, ExitCalls, LoopCalls, FrameCalls
  <2>3. UNCHANGED <<device, window, surface, closePending>>
    BY <1>2 DEF DestroyNext, ReleaseSwapChain, ReleaseInstance, CleanScenes
  <2> QED BY <1>1, <2>2, <2>3, Hidden DEF Delivered
<1>3. CASE ReleaseSurface
  <2>1. Phase' = "stopping" /\ UNCHANGED <<device, window, closePending>>
    BY <1>3 DEF ReleaseSurface, Phase, ExitCalls, LoopCalls, FrameCalls
  <2>2. CASE surface = "live"
    <3>1. "surface" \in Held /\ Held' = Held \ {"surface"}
      BY <1>3, <2>1, <2>2 DEF ReleaseSurface, Held
    <3> QED BY <1>1, <2>1, <3>1
        DEF LifecycleStep, Lifecycle!Next, Lifecycle!Release, Lifecycle!Resources, Lifecycle!MayRelease
  <2>3. CASE surface # "live"
    BY <1>1, <1>3, <2>1, <2>3, Hidden DEF ReleaseSurface, Delivered
  <2> QED BY <2>2, <2>3
<1>4. CASE ReleaseDevice
  <2>1. Phase' = "stopping" /\ ~Delivered' /\ UNCHANGED <<surface, window, closePending>>
    BY <1>4 DEF ReleaseDevice, DestroyDevice, Delivered, Phase, ExitCalls, LoopCalls, FrameCalls
  <2>2. CASE Delivered
    <3>1. "device" \in Held /\ Held' = Held \ {"device"}
      BY <2>1, <2>2 DEF Held, Delivered
    <3> QED BY <1>1, <2>1, <3>1
        DEF LifecycleStep, Lifecycle!Next, Lifecycle!Release, Lifecycle!Resources, Lifecycle!MayRelease
  <2>3. CASE ~Delivered
    BY <1>1, <2>1, <2>3, Hidden
  <2> QED BY <2>2, <2>3
<1>5. CASE DestroyWindow
  <2>1. /\ Phase' = "stopping" /\ UNCHANGED <<surface, device, closePending>>
        /\ window' = "destroyed"
    BY <1>5 DEF DestroyWindow, Phase, ExitCalls, LoopCalls, FrameCalls
  <2>2. surface # "live"
    BY <1>5 DEF DestroyWindow, IInv, StaticOrder, Holdings
  <2>3. CASE window = "open"
    <3>1. "window" \in Held /\ Held' = Held \ {"window"} /\ "surface" \notin Held
      BY <2>1, <2>2, <2>3 DEF Held
    <3> QED BY <1>1, <2>1, <3>1
        DEF LifecycleStep, Lifecycle!Next, Lifecycle!Release, Lifecycle!Resources, Lifecycle!MayRelease
  <2>4. CASE window # "open"
    <3>1. Held' = Held
      BY <2>1, <2>4 DEF Held
    <3> QED BY <1>1, <2>1, <3>1 DEF LifecycleStep, Lifecycle!vars
  <2> QED BY <2>3, <2>4
<1>6. CASE ExitDone
  <2>1. Phase' = "ended" /\ UNCHANGED <<device, surface, window, closePending>>
    BY <1>6 DEF ExitDone, Phase
  <2>2. window = "destroyed" /\ ~Delivered
    BY <1>6 DEF ExitDone, EndInv, GoneIsReleased, Delivered, ExitCalls, Singletons
  <2>3. surface # "live"
    BY <1>6 DEF ExitDone, IInv, Holdings, Singletons
  <2>4. Held = {} /\ Held' = {}
    BY <2>1, <2>2, <2>3 DEF Held, Delivered
  <2> QED BY <1>1, <2>1, <2>4 DEF LifecycleStep, Lifecycle!Next, Lifecycle!End
<1> QED BY <1>2, <1>3, <1>4, <1>5, <1>6 DEF Exit

LEMMA StepShows == IInv /\ IInv' /\ EndInv /\ [Next]_vars => LifecycleStep
<1> SUFFICES ASSUME IInv, IInv', EndInv, [Next]_vars PROVE LifecycleStep
  OBVIOUS
<1>1. CASE Next
  BY <1>1, StartupShows, FrameShows, EngineShows, ExitShows DEF Next, MainThread
<1>2. CASE UNCHANGED vars
  BY <1>2, Hidden DEF vars, devVars, rendererVars, engineVars, Phase, Delivered
<1> QED BY <1>1, <1>2

(* The safety half of KeepsLifecycle, for every choice of delivery and      *)
(* assertion mode: teck acquires, runs, stops and gives back as             *)
(* TeckLifecycle says, and only the user's request ends a running program. *)
THEOREM ImplementsLifecycle == Spec => Lifecycle!Init /\ [][Lifecycle!Next]_(Lifecycle!vars)
<1>1. Init => Lifecycle!Init
  BY DEF Init, RendererInit, DevInit, Lifecycle!Init, Phase, Held, ExitCalls, LoopCalls, FrameCalls
<1>2. IInv /\ IInv' /\ EndInv /\ [Next]_vars => [Lifecycle!Next]_(Lifecycle!vars)
  BY StepShows DEF LifecycleStep
<1> QED BY <1>1, <1>2, EngineInvariant, EndInvariant, PTL DEF Spec
=============================================================================
