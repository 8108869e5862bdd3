------------------------- MODULE TeckEngine_proofs -------------------------
(***************************************************************************)
(* Proofs about TeckEngine: for every choice of delivery and assertion     *)
(* mode, the types, the nesting of window, surface, swap chain, device and *)
(* instance on every path out of the process, and that the main loop never *)
(* runs without a device.                                                  *)
(***************************************************************************)
EXTENDS TeckEngine, TLAPS

-----------------------------------------------------------------------------
(* Every outcome of a device call leaves the device in a state the model   *)
(* knows; a call neither revives a device nor makes one out of the null    *)
(* handle, and a lost device reports nothing (DeviceBase::HandleError).    *)
LEMMA CallLemma ==
    ASSUME NEW valid \in BOOLEAN, NEW failures \in SUBSET CallOutcomes,
           NEW out \in OutcomesOf(valid, failures),
           device \in DeviceStates, uncaught \in Nat, HandleError(out)
    PROVE  /\ device' \in DeviceStates
           /\ uncaught' \in Nat
           /\ device \in {"alive", "lost"} => device' \in {"alive", "lost"}
           /\ device' \in {"alive", "lost"} => device \in {"alive", "lost"}
           /\ device' = "alive" => device = "alive"
           /\ device = "lost" => uncaught' = uncaught
           /\ out = "ok" => valid
BY DEF OutcomesOf, HandleError, DeviceStates, CallOutcomes

(* The sets of failures the calls name are sets of outcomes.               *)
LEMMA FailureSets ==
    /\ NoFailure \in SUBSET CallOutcomes
    /\ BackendFailure \in SUBSET CallOutcomes
    /\ AllocationFailure \in SUBSET CallOutcomes
BY DEF NoFailure, BackendFailure, AllocationFailure, CallOutcomes

(* A creation call keeps the device, the report count and the handles in   *)
(* their types and does nothing else to the device than CallLemma allows.  *)
LEMMA CreateLemma ==
    ASSUME NEW o \in GpuObjects, NEW made \in {"valid", "empty"}, NEW valid \in BOOLEAN,
           NEW failures \in SUBSET CallOutcomes, NEW next,
           device \in DeviceStates, uncaught \in Nat,
           obj \in [GpuObjects -> HandleStates],
           CreateAs(o, made, valid, failures, next)
    PROVE  /\ device' \in DeviceStates
           /\ uncaught' \in Nat
           /\ obj' \in [GpuObjects -> HandleStates]
           /\ pc' = next
           /\ device # "none"
           /\ device \in {"alive", "lost"} => device' \in {"alive", "lost"}
           /\ device' \in {"alive", "lost"} => device \in {"alive", "lost"}
           /\ device = "lost" => uncaught' = uncaught
           /\ obj'[o] = "valid" => valid
           /\ \A p \in GpuObjects \ {o} : obj'[p] = obj[p]
<1>1. PICK out \in OutcomesOf(valid, failures) :
          /\ HandleError(out)
          /\ obj' = [obj EXCEPT ![o] = IF out = "ok" THEN made ELSE "error"]
  BY DEF CreateAs
<1>2. pc' = next /\ device # "none"
  BY DEF CreateAs
<1>3. /\ device' \in DeviceStates
      /\ uncaught' \in Nat
      /\ device \in {"alive", "lost"} => device' \in {"alive", "lost"}
      /\ device' \in {"alive", "lost"} => device \in {"alive", "lost"}
      /\ device = "lost" => uncaught' = uncaught
      /\ out = "ok" => valid
  BY <1>1, CallLemma
<1>4. /\ obj' \in [GpuObjects -> HandleStates]
      /\ obj'[o] = "valid" => out = "ok"
      /\ \A p \in GpuObjects \ {o} : obj'[p] = obj[p]
  BY <1>1 DEF HandleStates
<1> QED BY <1>2, <1>3, <1>4

(* Building a singleton keeps the order's types.                           *)
LEMMA BuildLemma ==
    ASSUME NEW s \in Singletons, StaticTypeOK, Build(s)
    PROVE  StaticTypeOK' /\ IsBuilt(s)'
BY DEF StaticTypeOK, Build, IsBuilt, staticVars, Singletons

LEMMA UnbuildLemma ==
    ASSUME NEW s \in Singletons, StaticTypeOK, Unbuild(s)
    PROVE  StaticTypeOK' /\ ~IsBuilt(s)' /\ \A t \in Singletons \ {s} : built'[t] = built[t]
BY DEF StaticTypeOK, Unbuild, IsBuilt, Singletons
-----------------------------------------------------------------------------
(* The inductive invariant.                                                *)

(* Initialisation from the first object on: InitGraphics got past its       *)
(* first call on the device.                                               *)
ObjectCalls == InitCalls \ {"RequestAdapter", "RequestDevice", "CreateSurface", "SwapChain"}

RendererExitCalls == {"ReleaseSwapChain", "ReleaseSurface", "ReleaseDevice", "ReleaseInstance"}

Delivered == device \in {"alive", "lost"}

(* The engine is built before the renderer, so it is destroyed after it:    *)
(* its destructor, which takes the window, never sees a live renderer.     *)
StaticOrder ==
    /\ \A s \in Singletons : built[s] < ticket
    /\ IsBuilt("renderer") => IsBuilt("engine") /\ built["engine"] < built["renderer"]
    /\ pc \in {"BeginPlay", "RendererInit"} => IsBuilt("engine")
    /\ pc \in InitCalls \union LoopCalls \union RendererExitCalls => IsBuilt("renderer")
    /\ pc \in {"Create", "BeginPlay", "RendererInit", "CleanScenes", "DestroyWindow"}
          => ~IsBuilt("renderer")

(* What the renderer holds, it holds while it is built, and each call finds *)
(* what the calls before it acquired or released.                          *)
Holdings ==
    /\ surface = "live" \/ Delivered \/ instance = "live" => IsBuilt("renderer")
    /\ Delivered => "sync" \in Deliveries
    /\ pc \in InitCalls \union LoopCalls => instance = "live"
    /\ pc \in {"Create", "BeginPlay", "RendererInit"} \union InitCalls => device # "destroyed"
    /\ pc = "RequestDevice" => "sync" \in Deliveries
    /\ pc = "SwapChain" => surface = "live" /\ window = "open"
    /\ pc \in ObjectCalls \union LoopCalls => Delivered /\ surface = "live" /\ window = "open"
    /\ pc \in {"ReleaseDevice", "ReleaseInstance"} => surface # "live"
    /\ pc = "ReleaseInstance" => ~Delivered

(* A valid swap chain is attached until the renderer goes, and between     *)
(* acquiring the texture and presenting it a working device holds it.      *)
ImageHeld ==
    /\ pc \in ObjectCalls \union LoopCalls /\ Valid("swapChain") => attached
    /\ pc \in FrameCalls \ {"AcquireView", "ProcessEvents"} /\ device = "alive" /\ Valid("swapChain")
          => image

IInv == TypeOK /\ StaticOrder /\ Holdings /\ ResourcesNested /\ ImageHeld

-----------------------------------------------------------------------------
(* What one frame has reported and recorded so far (while the device works; *)
(* a lost device reports nothing any more).                                *)

Broken(s) == \E o \in s : ~Valid(o)

BindGroupNeedsUniforms ==
    /\ Valid("bindGroup") => Valid("mvpBuffer")
    /\ pc \in {"Create", "BeginPlay", "RendererInit", "RequestAdapter", "RequestDevice",
              "CreateSurface", "SwapChain", "VertexBuffer", "VertexWrites", "IndexBuffer",
              "IndexWrite", "MvpBuffer"} => ~Valid("bindGroup")

PassObjects == {"swapChain", "depthView"}
PipelineObjects == PassObjects \union {"pipeline", "bindGroup"}

FrameSoFar ==
    device = "alive" =>
        /\ pc = "AcquireView" => uncaught = 0
        /\ pc \in {"CreateEncoder", "BeginPass", "SetPipeline", "WriteMvp"}
              => uncaught = One(~Valid("swapChain"))
        /\ pc \in {"CreateEncoder", "BeginPass"} => (view = "valid" <=> Valid("swapChain"))
        /\ pc = "BeginPass" => ~encErr
        /\ pc \in {"SetPipeline", "WriteMvp", "RecordDraw", "EndPass"}
              => (pass = "open" <=> ~Broken(PassObjects))
        /\ pc = "SetPipeline" => (encErr <=> Broken(PassObjects))
        /\ pc \in {"WriteMvp", "RecordDraw"} => (encErr <=> Broken(PipelineObjects))
        /\ pc \in {"RecordDraw", "EndPass", "Finish"}
              => uncaught = One(~Valid("swapChain")) + One(~Valid("mvpBuffer"))
        /\ pc \in {"EndPass", "Finish"} => (encErr <=> Broken(FrameObjects))
        /\ pc = "Finish" => pass # "open"
        /\ pc \in {"RecordDraw", "EndPass", "Finish", "Submit", "Present"}
              => (mvp <=> Valid("mvpBuffer"))
        /\ pc = "Submit"
              => /\ cmd = "valid" <=> ~Broken(FrameObjects)
                 /\ uncaught = One(~Valid("swapChain")) + One(~Valid("mvpBuffer"))
                                 + One(Broken(FrameObjects))
        /\ pc = "Present"
              => /\ drawn <=> ~Broken(FrameObjects)
                 /\ uncaught = One(~Valid("swapChain")) + One(~Valid("mvpBuffer"))
                                 + 2 * One(Broken(FrameObjects))
        /\ FrameReports

FInv == BindGroupNeedsUniforms /\ FrameSoFar
-----------------------------------------------------------------------------
(* A call of InitGraphics: it creates or fills an object other than the    *)
(* swap chain, perhaps building the file reader on the way.                *)
LEMMA ObjectStep ==
    ASSUME IInv, pc \in ObjectCalls, pc' \in ObjectCalls \union {"ShouldExit"},
           device' \in DeviceStates, uncaught' \in Nat, Delivered',
           obj' \in [GpuObjects -> HandleStates], obj'["swapChain"] = obj["swapChain"],
           vertexWrite' \in 0..LastVertexWrite,
           UNCHANGED staticVars \/ Build("reader"),
           UNCHANGED <<attached, image, surface, frameVars, engineVars>>
    PROVE  IInv'
<1> USE DEF IInv
<1>1. StaticTypeOK' /\ \A s \in Singletons \ {"reader"} : built'[s] = built[s]
  BY DEF TypeOK, RendererTypeOK, StaticTypeOK, Build, IsBuilt, staticVars, Singletons
<1>2. TypeOK'
  BY <1>1 DEF TypeOK, RendererTypeOK, DevTypeOK, frameVars, engineVars, Pcs, ObjectCalls, LoopCalls
<1>3. \A s \in Singletons : built'[s] < ticket'
  BY DEF StaticOrder, TypeOK, RendererTypeOK, StaticTypeOK, Build, IsBuilt, staticVars, Singletons
<1>4. StaticOrder'
  BY <1>1, <1>3
  DEF StaticOrder, IsBuilt, Singletons, ObjectCalls, InitCalls, LoopCalls, RendererExitCalls
<1>5. Holdings'
  BY <1>1
  DEF Holdings, StaticOrder, IsBuilt, Singletons, ObjectCalls, InitCalls, LoopCalls, Delivered, engineVars
<1>6. ResourcesNested'
  BY DEF ResourcesNested, Holdings, Delivered, engineVars
<1>7. ImageHeld'
  BY DEF ImageHeld, Valid, ObjectCalls, InitCalls, LoopCalls, FrameCalls
<1> QED BY <1>2, <1>4, <1>5, <1>6, <1>7

(* A call of Render: it touches the device and the frame's locals only.    *)
LEMMA FrameStep ==
    ASSUME IInv, pc \in FrameCalls, pc' \in FrameCalls \union {"ShouldExit"},
           device' \in DeviceStates, uncaught' \in Nat, Delivered', image' \in BOOLEAN,
           view' \in {"none", "valid", "error"}, encErr' \in BOOLEAN,
           pass' \in {"none", "open", "error", "ended"}, cmd' \in {"none", "valid", "error"},
           mvp' \in BOOLEAN, drawn' \in BOOLEAN,
           pc' \in FrameCalls \ {"AcquireView", "ProcessEvents"} /\ device' = "alive" /\ Valid("swapChain")
              => image',
           UNCHANGED <<attached, staticVars, obj, vertexWrite, surface, engineVars>>
    PROVE  IInv'
<1> USE DEF IInv
<1>1. TypeOK'
  BY DEF TypeOK, RendererTypeOK, DevTypeOK, StaticTypeOK, staticVars, engineVars, Pcs, FrameCalls, LoopCalls
<1>2. StaticOrder'
  BY DEF StaticOrder, IsBuilt, staticVars, FrameCalls, InitCalls, LoopCalls, RendererExitCalls
<1>3. Holdings'
  BY DEF Holdings, IsBuilt, staticVars, Delivered, FrameCalls, InitCalls, LoopCalls, ObjectCalls, engineVars
<1>4. ResourcesNested'
  BY DEF ResourcesNested, Holdings, Delivered, LoopCalls, engineVars
<1>5. ImageHeld'
  BY DEF ImageHeld, Valid, FrameCalls, LoopCalls, ObjectCalls, InitCalls
<1> QED BY <1>1, <1>2, <1>3, <1>4, <1>5

(* The same for a creation call, given as the code makes it.               *)
LEMMA CreationStep ==
    ASSUME IInv, NEW o \in GpuObjects \ {"swapChain"}, NEW made \in {"valid", "empty"},
           NEW valid \in BOOLEAN, NEW failures \in SUBSET CallOutcomes,
           NEW next \in ObjectCalls \union {"ShouldExit"},
           pc \in ObjectCalls, CreateAs(o, made, valid, failures, next),
           UNCHANGED staticVars \/ Build("reader"),
           UNCHANGED <<attached, image, vertexWrite, surface, frameVars, engineVars>>
    PROVE  IInv'
<1>1. /\ device \in DeviceStates /\ uncaught \in Nat /\ obj \in [GpuObjects -> HandleStates]
      /\ vertexWrite \in 0..LastVertexWrite
  BY DEF IInv, TypeOK, RendererTypeOK, DevTypeOK
<1>2. Delivered
  BY DEF IInv, Holdings
<1>3. /\ device' \in DeviceStates /\ uncaught' \in Nat /\ obj' \in [GpuObjects -> HandleStates]
      /\ pc' = next /\ Delivered' /\ obj'["swapChain"] = obj["swapChain"]
  <2>1. "swapChain" \in GpuObjects \ {o}
    BY DEF GpuObjects
  <2> QED BY <1>1, <1>2, <2>1, CreateLemma DEF Delivered
<1> QED BY <1>1, <1>3, ObjectStep

LEMMA CreationsPreserve ==
    ASSUME IInv, UNCHANGED engineVars,
           \/ CreateVertexBuffer \/ CreateIndexBuffer \/ SetupMVPUniformsBuffer
           \/ CreateBindGroupLayout \/ CreateBindGroup \/ CreateDepthTexture
           \/ CreateDepthView \/ SetupSampler \/ CreateShaderModule
           \/ CreatePipelineLayout \/ CreateRenderPipeline \/ SetupPointBuffer
    PROVE  IInv'
<1> USE CreationStep, FailureSets DEF Create, ObjectCalls, InitCalls, GpuObjects, Valid
<1>1. CASE CreateVertexBuffer
  BY <1>1 DEF CreateVertexBuffer
<1>2. CASE CreateIndexBuffer
  BY <1>2 DEF CreateIndexBuffer
<1>3. CASE SetupMVPUniformsBuffer
  BY <1>3 DEF SetupMVPUniformsBuffer
<1>4. CASE CreateBindGroupLayout
  BY <1>4 DEF CreateBindGroupLayout
<1>5. CASE CreateBindGroup
  BY <1>5 DEF CreateBindGroup
<1>6. CASE CreateDepthTexture
  BY <1>6 DEF CreateDepthTexture
<1>7. CASE CreateDepthView
  BY <1>7 DEF CreateDepthView
<1>8. CASE SetupSampler
  BY <1>8 DEF SetupSampler
<1>9. CASE CreateShaderModule
  BY <1>9 DEF CreateShaderModule
<1>10. CASE CreatePipelineLayout
  BY <1>10 DEF CreatePipelineLayout
<1>11. CASE CreateRenderPipeline
  BY <1>11 DEF CreateRenderPipeline
<1>12. CASE SetupPointBuffer
  BY <1>12 DEF SetupPointBuffer
<1> QED BY <1>1, <1>2, <1>3, <1>4, <1>5, <1>6, <1>7, <1>8, <1>9, <1>10, <1>11, <1>12

(* The buffer writes of InitGraphics.                                      *)
LEMMA WritesPreserve ==
    ASSUME IInv, UNCHANGED engineVars, WriteVertices \/ WriteIndices
    PROVE  IInv'
<1>1. /\ device \in DeviceStates /\ uncaught \in Nat /\ obj \in [GpuObjects -> HandleStates]
      /\ vertexWrite \in 0..LastVertexWrite
  BY DEF IInv, TypeOK, RendererTypeOK, DevTypeOK
<1>2. pc \in ObjectCalls /\ pc' \in ObjectCalls /\ Delivered
  BY DEF WriteVertices, WriteIndices, WriteBuffer, IInv, Holdings, ObjectCalls, InitCalls
<1>3. device' \in DeviceStates /\ uncaught' \in Nat /\ Delivered'
  <2>1. CASE WriteVertices
    BY <2>1, <1>1, <1>2, CallLemma, FailureSets
    DEF WriteVertices, WriteBuffer, Valid, VertexWriteFits, Delivered
  <2>2. CASE WriteIndices
    BY <2>2, <1>1, <1>2, CallLemma, FailureSets DEF WriteIndices, WriteBuffer, Valid, Delivered
  <2> QED BY <2>1, <2>2
<1>4. vertexWrite' \in 0..LastVertexWrite
  BY <1>1 DEF WriteVertices, WriteIndices, LastVertexWrite
<1> QED BY <1>1, <1>2, <1>3, <1>4, ObjectStep DEF WriteVertices, WriteIndices

(* The requests, and the first object: what the objects stand on.          *)
LEMMA RequestsPreserve ==
    ASSUME IInv, UNCHANGED engineVars,
           \/ RequestAdapter \/ RequestDevice \/ CreateSurface(window = "open")
           \/ NullDeviceCall \/ SetupSwapChain
    PROVE  IInv'
<1> USE DEF IInv
<1>1. CASE RequestAdapter
  <2> USE <1>1 DEF RequestAdapter, devVars, staticVars, frameVars, engineVars
  <2>1. TypeOK'
    <3>1. pc' \in Pcs
      BY DEF Pcs, InitCalls, ExitCalls, Terminal
    <3> QED BY <3>1 DEF TypeOK, RendererTypeOK, DevTypeOK, StaticTypeOK
  <2>2. StaticOrder'
    BY DEF StaticOrder, IsBuilt, InitCalls, LoopCalls, FrameCalls, RendererExitCalls
  <2>3. Holdings'
    BY DEF Holdings, IsBuilt, Delivered, InitCalls, LoopCalls, FrameCalls, ObjectCalls
  <2>4. ResourcesNested' /\ ImageHeld'
    BY DEF ResourcesNested, ImageHeld, Valid, ObjectCalls, InitCalls, LoopCalls, FrameCalls
  <2> QED BY <2>1, <2>2, <2>3, <2>4
<1>2. CASE RequestDevice
  <2> USE <1>2 DEF RequestDevice, devVars, staticVars, frameVars, engineVars
  <2>1. TypeOK'
    BY DEF TypeOK, RendererTypeOK, DevTypeOK, StaticTypeOK, DeviceStates, Pcs, InitCalls, Terminal
  <2>2. StaticOrder'
    BY DEF StaticOrder, IsBuilt, InitCalls, LoopCalls, FrameCalls, RendererExitCalls
  <2>3. Holdings'
    BY DEF Holdings, IsBuilt, Delivered, InitCalls, LoopCalls, FrameCalls, ObjectCalls
  <2>4. ResourcesNested' /\ ImageHeld'
    BY DEF ResourcesNested, Holdings, ImageHeld, Valid, ObjectCalls, InitCalls, LoopCalls, FrameCalls
  <2> QED BY <2>1, <2>2, <2>3, <2>4
<1>3. CASE CreateSurface(window = "open")
  <2> USE <1>3 DEF CreateSurface, devVars, staticVars, frameVars, engineVars
  <2>1. TypeOK'
    BY DEF TypeOK, RendererTypeOK, DevTypeOK, StaticTypeOK, DeviceStates, Pcs, InitCalls, Terminal
  <2>2. StaticOrder'
    BY DEF StaticOrder, IsBuilt, InitCalls, LoopCalls, FrameCalls, RendererExitCalls
  <2>3. Holdings'
    BY DEF Holdings, IsBuilt, Delivered, InitCalls, LoopCalls, FrameCalls, ObjectCalls
  <2>4. ResourcesNested' /\ ImageHeld'
    BY DEF ResourcesNested, Holdings, ImageHeld, Valid, ObjectCalls, InitCalls, LoopCalls, FrameCalls
  <2> QED BY <2>1, <2>2, <2>3, <2>4
<1>4. CASE NullDeviceCall
  <2> USE <1>4 DEF NullDeviceCall, devVars, staticVars, frameVars, engineVars
  <2>1. TypeOK'
    BY DEF TypeOK, RendererTypeOK, DevTypeOK, StaticTypeOK, DeviceStates, Pcs, InitCalls, Terminal
  <2>2. StaticOrder'
    BY DEF StaticOrder, IsBuilt, InitCalls, LoopCalls, FrameCalls, RendererExitCalls
  <2>3. Holdings'
    BY DEF Holdings, IsBuilt, Delivered, InitCalls, LoopCalls, FrameCalls, ObjectCalls
  <2>4. ResourcesNested' /\ ImageHeld'
    BY DEF ResourcesNested, Holdings, ImageHeld, Valid, ObjectCalls, InitCalls, LoopCalls, FrameCalls
  <2> QED BY <2>1, <2>2, <2>3, <2>4
<1>5. CASE SetupSwapChain
  <2>1. /\ device \in DeviceStates /\ uncaught \in Nat /\ obj \in [GpuObjects -> HandleStates]
        /\ pc = "SwapChain" /\ surface = "live" /\ window = "open"
    BY <1>5 DEF SetupSwapChain, TypeOK, RendererTypeOK, DevTypeOK, Holdings
  <2>2. CreateAs("swapChain", "valid", surface = "live", BackendFailure, "VertexBuffer")
    BY <1>5 DEF SetupSwapChain, Create
  <2>3. /\ device' \in DeviceStates /\ uncaught' \in Nat /\ obj' \in [GpuObjects -> HandleStates]
        /\ pc' = "VertexBuffer" /\ Delivered /\ Delivered'
    <3>1. device # "destroyed"
      BY <2>1 DEF Holdings, InitCalls
    <3>2. /\ device' \in DeviceStates /\ uncaught' \in Nat
          /\ obj' \in [GpuObjects -> HandleStates]
          /\ pc' = "VertexBuffer" /\ device # "none"
          /\ device \in {"alive", "lost"} => device' \in {"alive", "lost"}
      <4>1. "swapChain" \in GpuObjects
        BY DEF GpuObjects
      <4>2. PICK valid \in BOOLEAN :
                CreateAs("swapChain", "valid", valid, BackendFailure, "VertexBuffer")
        BY <2>2
      <4> QED BY <4>1, <4>2, <2>1, CreateLemma, FailureSets
    <3> QED BY <3>1, <3>2, <2>1 DEF DeviceStates, Delivered
  <2>4. UNCHANGED <<image, staticVars, vertexWrite, surface, frameVars, engineVars>>
        /\ attached' = (obj'["swapChain"] = "valid")
    BY <1>5 DEF SetupSwapChain
  <2>5. TypeOK'
    BY <2>3, <2>4
    DEF TypeOK, RendererTypeOK, DevTypeOK, StaticTypeOK, staticVars, frameVars, engineVars, Pcs, InitCalls
  <2>6. StaticOrder'
    BY <2>1, <2>3, <2>4 DEF StaticOrder, IsBuilt, staticVars, InitCalls, LoopCalls, FrameCalls
  <2>7. Holdings'
    BY <2>1, <2>3, <2>4
    DEF Holdings, IsBuilt, staticVars, engineVars, Delivered, InitCalls, LoopCalls, FrameCalls
  <2>8. ResourcesNested' /\ ImageHeld'
    BY <2>1, <2>3, <2>4
    DEF ResourcesNested, Holdings, ImageHeld, Valid, Delivered, engineVars, InitCalls, FrameCalls
  <2> QED BY <2>5, <2>6, <2>7, <2>8
<1> QED BY <1>1, <1>2, <1>3, <1>4, <1>5

(* A frame's calls.  Acquiring the texture is the one that matters: on a    *)
(* valid, attached swap chain only a loss of the device can make it fail.  *)
LEMMA FramePreserves ==
    ASSUME IInv, UNCHANGED engineVars, Render
    PROVE  IInv'
<1>1. /\ device \in DeviceStates /\ uncaught \in Nat /\ image \in BOOLEAN
      /\ view \in {"none", "valid", "error"} /\ encErr \in BOOLEAN
      /\ pass \in {"none", "open", "error", "ended"} /\ cmd \in {"none", "valid", "error"}
      /\ mvp \in BOOLEAN /\ drawn \in BOOLEAN
  BY DEF IInv, TypeOK, RendererTypeOK, DevTypeOK
<1>2. pc \in FrameCalls => Delivered
  BY DEF IInv, Holdings, LoopCalls
<1>3. /\ pc \in FrameCalls /\ Valid("swapChain") => attached
      /\ pc \in FrameCalls \ {"AcquireView", "ProcessEvents"} /\ device = "alive" /\ Valid("swapChain")
            => image
  BY DEF IInv, ImageHeld, LoopCalls
<1>4. CASE AcquireView
  <2>1. PICK out \in OutcomesOf(Valid("swapChain") /\ attached, BackendFailure) :
        /\ HandleError(out)
        /\ image' = (image \/ out = "ok")
        /\ view' = IF out = "ok" THEN "valid" ELSE "error"
    BY <1>4 DEF AcquireView
  <2>2. pc \in FrameCalls /\ pc' \in FrameCalls /\ pc' = "CreateEncoder"
    BY <1>4 DEF AcquireView, FrameCalls
  <2>3. device' \in DeviceStates /\ uncaught' \in Nat /\ Delivered'
    BY <2>1, <2>2, <1>1, <1>2
    DEF HandleError, OutcomesOf, BackendFailure, DeviceStates, Delivered
  <2>4. image' \in BOOLEAN /\ view' \in {"none", "valid", "error"}
    BY <2>1, <1>1
  <2>5. device' = "alive" /\ Valid("swapChain") => image'
    <3>1. device' = "alive" /\ Valid("swapChain") => out = "ok"
      BY <2>1, <2>2, <1>2, <1>3 DEF HandleError, OutcomesOf, BackendFailure, Delivered
    <3> QED BY <3>1, <2>1
  <2>6. mvp' \in BOOLEAN /\ drawn' \in BOOLEAN
    BY <1>4 DEF AcquireView
  <2> QED BY <1>4, <2>2, <2>3, <2>4, <2>5, <2>6, <1>1, FrameStep DEF AcquireView
<1>5. CASE CreateEncoder
  BY <1>5, <1>1, <1>2, <1>3, FrameStep
  DEF CreateEncoder, HandleError, OutcomesOf, NoFailure, BackendFailure, DeviceStates, Delivered, FrameCalls, Valid
<1>6. CASE BeginRenderPass
  BY <1>6, <1>1, <1>2, <1>3, FrameStep DEF BeginRenderPass, Encode, devVars, Delivered, FrameCalls, Valid
<1>7. CASE SetPipeline
  BY <1>7, <1>1, <1>2, <1>3, FrameStep DEF SetPipeline, Encode, devVars, Delivered, FrameCalls, Valid
<1>8. CASE WriteMvp
  BY <1>8, <1>1, <1>2, <1>3, FrameStep
  DEF WriteMvp, HandleError, OutcomesOf, NoFailure, BackendFailure, DeviceStates, Delivered, FrameCalls, Valid
<1>9. CASE RecordDraw
  BY <1>9, <1>1, <1>2, <1>3, FrameStep DEF RecordDraw, Encode, devVars, Delivered, FrameCalls, Valid
<1>10. CASE EndPass
  BY <1>10, <1>1, <1>2, <1>3, FrameStep DEF EndPass, Encode, devVars, Delivered, FrameCalls, Valid
<1>11. CASE Finish
  BY <1>11, <1>1, <1>2, <1>3, FrameStep
  DEF Finish, HandleError, OutcomesOf, NoFailure, BackendFailure, DeviceStates, Delivered, FrameCalls, Valid
<1>12. CASE Submit
  <2>1. PICK out \in OutcomesOf(cmd = "valid", BackendFailure) :
        /\ HandleError(out)
        /\ drawn' \in (IF out = "loss" THEN BOOLEAN ELSE {out = "ok"})
    BY <1>12 DEF Submit
  <2>2. drawn' \in BOOLEAN
    BY <2>1
  <2>3. pc = "Submit" /\ pc' = "Present" /\ UNCHANGED image
    BY <1>12 DEF Submit
  <2>4. device' \in DeviceStates /\ uncaught' \in Nat /\ Delivered' /\ (device' = "alive" => device = "alive")
    BY <2>1, <2>3, <1>1, <1>2 DEF HandleError, OutcomesOf, BackendFailure, DeviceStates, Delivered, FrameCalls
  <2> QED BY <1>12, <2>2, <2>3, <2>4, <1>1, <1>3, FrameStep DEF Submit, FrameCalls
<1>13. CASE Present
  <2>1. PICK out \in OutcomesOf(Valid("swapChain") /\ attached /\ image, BackendFailure) : HandleError(out) /\ PresentImage(out)
    BY <1>13 DEF Present
  <2>2. /\ device' \in DeviceStates /\ uncaught' \in Nat /\ Delivered'
        /\ image' \in BOOLEAN
    BY <2>1, <1>1, <1>2, <1>3, <1>13
    DEF Present, PresentImage, HandleError, OutcomesOf, BackendFailure, DeviceStates, Delivered, FrameCalls, Valid
  <2> QED BY <1>13, <2>1, <2>2, <1>1, <1>3, FrameStep DEF Present, frameVars, FrameCalls
<1>14. CASE ProcessEvents
  <2>1. PICK out \in OutcomesOf(TRUE, BackendFailure) : HandleError(out)
    BY <1>14 DEF ProcessEvents
  <2>2. /\ device' \in DeviceStates /\ uncaught' \in Nat /\ Delivered'
        /\ pc' = "ShouldExit"
    BY <2>1, <1>1, <1>2, <1>3, <1>14
    DEF ProcessEvents, HandleError, OutcomesOf, BackendFailure, DeviceStates, Delivered, FrameCalls, Valid
  <2> QED BY <1>14, <2>1, <2>2, <1>1, <1>3, FrameStep DEF ProcessEvents, frameVars, FrameCalls
<1> QED BY <1>4, <1>5, <1>6, <1>7, <1>8, <1>9, <1>10, <1>11, <1>12, <1>13, <1>14 DEF Render

(* tkEngine outside of startup: building the singletons, and the loop.     *)
LEMMA EnginePreserves ==
    ASSUME IInv,
           \/ CreateEngine \/ BeginPlay \/ RendererInitCall
           \/ ShouldExit \/ PollEvents \/ Update \/ UserClose
    PROVE  IInv'
<1> USE DEF IInv
<1>1. CASE CreateEngine
  <2> USE <1>1 DEF CreateEngine, devVars, staticVars, rendererVars, frameVars, engineVars, Build, Singletons
  <2>1. TypeOK'
    BY DEF TypeOK, RendererTypeOK, DevTypeOK, StaticTypeOK, DeviceStates, Pcs, InitCalls, LoopCalls, FrameCalls, ExitCalls, Terminal
  <2>2. StaticOrder'
    BY DEF TypeOK, RendererTypeOK, StaticTypeOK, StaticOrder, IsBuilt, Singletons, InitCalls, LoopCalls, FrameCalls, RendererExitCalls
  <2>3. Holdings'
    BY DEF Holdings, StaticOrder, IsBuilt, Singletons, Delivered, InitCalls, LoopCalls, FrameCalls, ObjectCalls
  <2>4. ResourcesNested' /\ ImageHeld'
    BY DEF ResourcesNested, StaticOrder, Holdings, ImageHeld, Valid, Delivered, IsBuilt, ObjectCalls, InitCalls, LoopCalls, FrameCalls
  <2> QED BY <2>1, <2>2, <2>3, <2>4
<1>2. CASE BeginPlay
  <2> USE <1>2 DEF BeginPlay, devVars, staticVars, rendererVars, frameVars, engineVars, Build, Singletons
  <2>1. TypeOK'
    BY DEF TypeOK, RendererTypeOK, DevTypeOK, StaticTypeOK, DeviceStates, Pcs, InitCalls, LoopCalls, FrameCalls, ExitCalls, Terminal
  <2>2. StaticOrder'
    BY DEF TypeOK, RendererTypeOK, StaticTypeOK, StaticOrder, IsBuilt, Singletons, InitCalls, LoopCalls, FrameCalls, RendererExitCalls
  <2>3. Holdings'
    BY DEF Holdings, StaticOrder, IsBuilt, Singletons, Delivered, InitCalls, LoopCalls, FrameCalls, ObjectCalls
  <2>4. ResourcesNested' /\ ImageHeld'
    BY DEF ResourcesNested, StaticOrder, Holdings, ImageHeld, Valid, Delivered, IsBuilt, ObjectCalls, InitCalls, LoopCalls, FrameCalls
  <2> QED BY <2>1, <2>2, <2>3, <2>4
<1>3. CASE RendererInitCall
  <2> USE <1>3 DEF RendererInitCall, devVars, staticVars, rendererVars, frameVars, engineVars, Build, Singletons
  <2>1. TypeOK'
    BY DEF TypeOK, RendererTypeOK, DevTypeOK, StaticTypeOK, DeviceStates, Pcs, InitCalls, LoopCalls, FrameCalls, ExitCalls, Terminal
  <2>2. StaticOrder'
    BY DEF TypeOK, RendererTypeOK, StaticTypeOK, StaticOrder, IsBuilt, Singletons, InitCalls, LoopCalls, FrameCalls, RendererExitCalls
  <2>3. Holdings'
    BY DEF TypeOK, RendererTypeOK, StaticTypeOK, Holdings, StaticOrder, IsBuilt, Singletons, Delivered, InitCalls, LoopCalls, FrameCalls, ObjectCalls
  <2>4. ResourcesNested' /\ ImageHeld'
    BY DEF ResourcesNested, StaticOrder, Holdings, ImageHeld, Valid, Delivered, IsBuilt, ObjectCalls, InitCalls, LoopCalls, FrameCalls
  <2> QED BY <2>1, <2>2, <2>3, <2>4
<1>4. CASE ShouldExit
  <2> USE <1>4 DEF ShouldExit, devVars, staticVars, rendererVars, frameVars, engineVars
  <2>1. TypeOK'
    BY DEF TypeOK, RendererTypeOK, DevTypeOK, StaticTypeOK, DeviceStates, Pcs, InitCalls, LoopCalls, FrameCalls, ExitCalls, Terminal
  <2>2. StaticOrder'
    BY DEF TypeOK, RendererTypeOK, StaticTypeOK, StaticOrder, IsBuilt, Singletons, InitCalls, LoopCalls, FrameCalls, RendererExitCalls
  <2>3. Holdings'
    BY DEF Holdings, StaticOrder, IsBuilt, Singletons, Delivered, InitCalls, LoopCalls, FrameCalls, ObjectCalls
  <2>4. ResourcesNested' /\ ImageHeld'
    BY DEF ResourcesNested, StaticOrder, Holdings, ImageHeld, Valid, Delivered, IsBuilt, ObjectCalls, InitCalls, LoopCalls, FrameCalls
  <2> QED BY <2>1, <2>2, <2>3, <2>4
<1>5. CASE PollEvents
  <2> USE <1>5 DEF PollEvents, devVars, staticVars, rendererVars, frameVars, engineVars
  <2>1. TypeOK'
    BY DEF TypeOK, RendererTypeOK, DevTypeOK, StaticTypeOK, DeviceStates, Pcs, InitCalls, LoopCalls, FrameCalls, ExitCalls, Terminal
  <2>2. StaticOrder'
    BY DEF TypeOK, RendererTypeOK, StaticTypeOK, StaticOrder, IsBuilt, Singletons, InitCalls, LoopCalls, FrameCalls, RendererExitCalls
  <2>3. Holdings'
    BY DEF Holdings, StaticOrder, IsBuilt, Singletons, Delivered, InitCalls, LoopCalls, FrameCalls, ObjectCalls
  <2>4. ResourcesNested' /\ ImageHeld'
    BY DEF ResourcesNested, StaticOrder, Holdings, ImageHeld, Valid, Delivered, IsBuilt, ObjectCalls, InitCalls, LoopCalls, FrameCalls
  <2> QED BY <2>1, <2>2, <2>3, <2>4
<1>6. CASE Update
  <2> USE <1>6 DEF Update, devVars, staticVars, rendererVars, frameVars, engineVars
  <2>1. TypeOK'
    BY DEF TypeOK, RendererTypeOK, DevTypeOK, StaticTypeOK, DeviceStates, Pcs, InitCalls, LoopCalls, FrameCalls, ExitCalls, Terminal
  <2>2. StaticOrder'
    BY DEF TypeOK, RendererTypeOK, StaticTypeOK, StaticOrder, IsBuilt, Singletons, InitCalls, LoopCalls, FrameCalls, RendererExitCalls
  <2>3. Holdings'
    BY DEF Holdings, StaticOrder, IsBuilt, Singletons, Delivered, InitCalls, LoopCalls, FrameCalls, ObjectCalls
  <2>4. ResourcesNested' /\ ImageHeld'
    BY DEF ResourcesNested, StaticOrder, Holdings, ImageHeld, Valid, Delivered, IsBuilt, ObjectCalls, InitCalls, LoopCalls, FrameCalls
  <2> QED BY <2>1, <2>2, <2>3, <2>4
<1>7. CASE UserClose
  <2> USE <1>7 DEF UserClose, devVars, staticVars, rendererVars, frameVars, engineVars
  <2>1. TypeOK'
    BY DEF TypeOK, RendererTypeOK, DevTypeOK, StaticTypeOK, DeviceStates, Pcs, InitCalls, LoopCalls, FrameCalls, ExitCalls, Terminal
  <2>2. StaticOrder'
    BY DEF TypeOK, RendererTypeOK, StaticTypeOK, StaticOrder, IsBuilt, Singletons, InitCalls, LoopCalls, FrameCalls, RendererExitCalls
  <2>3. Holdings'
    BY DEF Holdings, StaticOrder, IsBuilt, Singletons, Delivered, InitCalls, LoopCalls, FrameCalls, ObjectCalls
  <2>4. ResourcesNested' /\ ImageHeld'
    BY DEF ResourcesNested, StaticOrder, Holdings, ImageHeld, Valid, Delivered, IsBuilt, ObjectCalls, InitCalls, LoopCalls, FrameCalls
  <2> QED BY <2>1, <2>2, <2>3, <2>4
<1> QED BY <1>1, <1>2, <1>3, <1>4, <1>5, <1>6, <1>7

(* The destructors.  The window goes with the engine, which is destroyed   *)
(* only when the renderer is gone (StaticOrder), and with it the surface.  *)
LEMMA ExitPreserves ==
    ASSUME IInv, Exit
    PROVE  IInv'
<1> USE DEF IInv
<1>1. CASE DestroyNext
  <2> USE <1>1 DEF DestroyNext, devVars, staticVars, rendererVars, frameVars, engineVars, IsNextToDestroy, DestructorOf, Unbuild
  <2>1. TypeOK'
    <3>1. pc' \in Pcs
      BY DEF Pcs, ExitCalls, Terminal
    <3>2. DevTypeOK'
      BY DEF TypeOK, RendererTypeOK, DevTypeOK, DeviceStates
    <3>3. StaticTypeOK'
      BY DEF TypeOK, RendererTypeOK, StaticTypeOK
    <3> QED BY <3>1, <3>2, <3>3 DEF TypeOK, RendererTypeOK, HandleStates
  <2>2. StaticOrder'
    BY DEF TypeOK, RendererTypeOK, StaticTypeOK, StaticOrder, IsBuilt, Singletons, InitCalls, LoopCalls, FrameCalls, RendererExitCalls
  <2>3. Holdings'
    BY DEF TypeOK, RendererTypeOK, StaticTypeOK, Holdings, StaticOrder, IsBuilt, Singletons, Delivered, InitCalls, LoopCalls, FrameCalls, ObjectCalls
  <2>4. ResourcesNested' /\ ImageHeld'
    BY DEF ResourcesNested, StaticOrder, Holdings, ImageHeld, Valid, Delivered, IsBuilt, ObjectCalls, InitCalls, LoopCalls, FrameCalls
  <2> QED BY <2>1, <2>2, <2>3, <2>4
<1>2. CASE ExitDone
  <2> USE <1>2 DEF ExitDone, devVars, staticVars, rendererVars, frameVars, engineVars
  <2>1. TypeOK'
    <3>1. pc' \in Pcs
      BY DEF Pcs, ExitCalls, Terminal
    <3>2. DevTypeOK'
      BY DEF TypeOK, RendererTypeOK, DevTypeOK, DeviceStates
    <3>3. StaticTypeOK'
      BY DEF TypeOK, RendererTypeOK, StaticTypeOK
    <3> QED BY <3>1, <3>2, <3>3 DEF TypeOK, RendererTypeOK, HandleStates
  <2>2. StaticOrder'
    BY DEF TypeOK, RendererTypeOK, StaticTypeOK, StaticOrder, IsBuilt, Singletons, InitCalls, LoopCalls, FrameCalls, RendererExitCalls
  <2>3. Holdings'
    BY DEF Holdings, StaticOrder, IsBuilt, Singletons, Delivered, InitCalls, LoopCalls, FrameCalls, ObjectCalls
  <2>4. ResourcesNested' /\ ImageHeld'
    BY DEF ResourcesNested, StaticOrder, Holdings, ImageHeld, Valid, Delivered, IsBuilt, ObjectCalls, InitCalls, LoopCalls, FrameCalls
  <2> QED BY <2>1, <2>2, <2>3, <2>4
<1>3. CASE ReleaseSwapChain
  <2> USE <1>3 DEF ReleaseSwapChain, devVars, staticVars, rendererVars, frameVars, engineVars
  <2>1. TypeOK'
    <3>1. pc' \in Pcs
      BY DEF Pcs, ExitCalls, Terminal
    <3>2. DevTypeOK'
      BY DEF TypeOK, RendererTypeOK, DevTypeOK, DeviceStates
    <3>3. StaticTypeOK'
      BY DEF TypeOK, RendererTypeOK, StaticTypeOK
    <3> QED BY <3>1, <3>2, <3>3 DEF TypeOK, RendererTypeOK, HandleStates
  <2>2. StaticOrder'
    BY DEF TypeOK, RendererTypeOK, StaticTypeOK, StaticOrder, IsBuilt, Singletons, InitCalls, LoopCalls, FrameCalls, RendererExitCalls
  <2>3. Holdings'
    BY DEF Holdings, StaticOrder, IsBuilt, Singletons, Delivered, InitCalls, LoopCalls, FrameCalls, ObjectCalls
  <2>4. ResourcesNested' /\ ImageHeld'
    BY DEF ResourcesNested, StaticOrder, Holdings, ImageHeld, Valid, Delivered, IsBuilt, ObjectCalls, InitCalls, LoopCalls, FrameCalls
  <2> QED BY <2>1, <2>2, <2>3, <2>4
<1>4. CASE ReleaseSurface
  <2> USE <1>4 DEF ReleaseSurface, devVars, staticVars, rendererVars, frameVars, engineVars
  <2>1. TypeOK'
    <3>1. pc' \in Pcs
      BY DEF Pcs, ExitCalls, Terminal
    <3>2. DevTypeOK'
      BY DEF TypeOK, RendererTypeOK, DevTypeOK, DeviceStates
    <3>3. StaticTypeOK'
      BY DEF TypeOK, RendererTypeOK, StaticTypeOK
    <3> QED BY <3>1, <3>2, <3>3 DEF TypeOK, RendererTypeOK, HandleStates
  <2>2. StaticOrder'
    BY DEF TypeOK, RendererTypeOK, StaticTypeOK, StaticOrder, IsBuilt, Singletons, InitCalls, LoopCalls, FrameCalls, RendererExitCalls
  <2>3. Holdings'
    BY DEF Holdings, StaticOrder, IsBuilt, Singletons, Delivered, InitCalls, LoopCalls, FrameCalls, ObjectCalls
  <2>4. ResourcesNested' /\ ImageHeld'
    BY DEF ResourcesNested, StaticOrder, Holdings, ImageHeld, Valid, Delivered, IsBuilt, ObjectCalls, InitCalls, LoopCalls, FrameCalls
  <2> QED BY <2>1, <2>2, <2>3, <2>4
<1>5. CASE ReleaseDevice
  <2> USE <1>5 DEF ReleaseDevice, devVars, staticVars, rendererVars, frameVars, engineVars, DestroyDevice
  <2>1. TypeOK'
    <3>1. pc' \in Pcs
      BY DEF Pcs, ExitCalls, Terminal
    <3>2. DevTypeOK'
      BY DEF TypeOK, RendererTypeOK, DevTypeOK, DeviceStates
    <3>3. StaticTypeOK'
      BY DEF TypeOK, RendererTypeOK, StaticTypeOK
    <3> QED BY <3>1, <3>2, <3>3 DEF TypeOK, RendererTypeOK, HandleStates
  <2>2. StaticOrder'
    BY DEF TypeOK, RendererTypeOK, StaticTypeOK, StaticOrder, IsBuilt, Singletons, InitCalls, LoopCalls, FrameCalls, RendererExitCalls
  <2>3. Holdings'
    BY DEF Holdings, StaticOrder, IsBuilt, Singletons, Delivered, InitCalls, LoopCalls, FrameCalls, ObjectCalls
  <2>4. ResourcesNested' /\ ImageHeld'
    BY DEF ResourcesNested, StaticOrder, Holdings, ImageHeld, Valid, Delivered, IsBuilt, ObjectCalls, InitCalls, LoopCalls, FrameCalls
  <2> QED BY <2>1, <2>2, <2>3, <2>4
<1>6. CASE ReleaseInstance
  <2> USE <1>6 DEF ReleaseInstance, devVars, staticVars, rendererVars, frameVars, engineVars, Unbuild
  <2>1. TypeOK'
    <3>1. pc' \in Pcs
      BY DEF Pcs, ExitCalls, Terminal
    <3>2. DevTypeOK'
      BY DEF TypeOK, RendererTypeOK, DevTypeOK, DeviceStates
    <3>3. StaticTypeOK'
      BY DEF TypeOK, RendererTypeOK, StaticTypeOK
    <3> QED BY <3>1, <3>2, <3>3 DEF TypeOK, RendererTypeOK, HandleStates
  <2>2. StaticOrder'
    BY DEF TypeOK, RendererTypeOK, StaticTypeOK, StaticOrder, IsBuilt, Singletons, InitCalls, LoopCalls, FrameCalls, RendererExitCalls
  <2>3. Holdings'
    BY DEF Holdings, StaticOrder, IsBuilt, Singletons, Delivered, InitCalls, LoopCalls, FrameCalls, ObjectCalls
  <2>4. ResourcesNested' /\ ImageHeld'
    BY DEF ResourcesNested, StaticOrder, Holdings, ImageHeld, Valid, Delivered, IsBuilt, ObjectCalls, InitCalls, LoopCalls, FrameCalls
  <2> QED BY <2>1, <2>2, <2>3, <2>4
<1>7. CASE CleanScenes
  <2> USE <1>7 DEF CleanScenes, devVars, staticVars, rendererVars, frameVars, engineVars
  <2>1. TypeOK'
    <3>1. pc' \in Pcs
      BY DEF Pcs, ExitCalls, Terminal
    <3>2. DevTypeOK'
      BY DEF TypeOK, RendererTypeOK, DevTypeOK, DeviceStates
    <3>3. StaticTypeOK'
      BY DEF TypeOK, RendererTypeOK, StaticTypeOK
    <3> QED BY <3>1, <3>2, <3>3 DEF TypeOK, RendererTypeOK, HandleStates
  <2>2. StaticOrder'
    BY DEF TypeOK, RendererTypeOK, StaticTypeOK, StaticOrder, IsBuilt, Singletons, InitCalls, LoopCalls, FrameCalls, RendererExitCalls
  <2>3. Holdings'
    BY DEF Holdings, StaticOrder, IsBuilt, Singletons, Delivered, InitCalls, LoopCalls, FrameCalls, ObjectCalls
  <2>4. ResourcesNested' /\ ImageHeld'
    BY DEF ResourcesNested, StaticOrder, Holdings, ImageHeld, Valid, Delivered, IsBuilt, ObjectCalls, InitCalls, LoopCalls, FrameCalls
  <2> QED BY <2>1, <2>2, <2>3, <2>4
<1>8. CASE DestroyWindow
  <2> USE <1>8 DEF DestroyWindow, devVars, staticVars, rendererVars, frameVars, engineVars, Unbuild
  <2>1. TypeOK'
    <3>1. pc' \in Pcs
      BY DEF Pcs, ExitCalls, Terminal
    <3>2. DevTypeOK'
      BY DEF TypeOK, RendererTypeOK, DevTypeOK, DeviceStates
    <3>3. StaticTypeOK'
      BY DEF TypeOK, RendererTypeOK, StaticTypeOK
    <3> QED BY <3>1, <3>2, <3>3 DEF TypeOK, RendererTypeOK, HandleStates
  <2>2. StaticOrder'
    BY DEF TypeOK, RendererTypeOK, StaticTypeOK, StaticOrder, IsBuilt, Singletons, InitCalls, LoopCalls, FrameCalls, RendererExitCalls
  <2>3. Holdings'
    BY DEF Holdings, StaticOrder, IsBuilt, Singletons, Delivered, InitCalls, LoopCalls, FrameCalls, ObjectCalls
  <2>4. ResourcesNested' /\ ImageHeld'
    BY DEF ResourcesNested, StaticOrder, Holdings, ImageHeld, Valid, Delivered, IsBuilt, ObjectCalls, InitCalls, LoopCalls, FrameCalls
  <2> QED BY <2>1, <2>2, <2>3, <2>4
<1> QED BY <1>1, <1>2, <1>3, <1>4, <1>5, <1>6, <1>7, <1>8 DEF Exit

LEMMA InitIInv == Init => IInv
<1> SUFFICES ASSUME Init PROVE IInv
  OBVIOUS
<1> USE DEF Init, RendererInit, DevInit, StaticInit
<1>1. TypeOK
  <2>1. DevTypeOK
    BY DEF DevTypeOK, DeviceStates
  <2>3. StaticTypeOK
    BY DEF StaticTypeOK
  <2>2. pc \in Pcs
    BY DEF Pcs
  <2>4. vertexWrite \in 0..LastVertexWrite
    BY DEF LastVertexWrite
  <2>5. obj \in [GpuObjects -> HandleStates]
    BY DEF HandleStates
  <2> HIDE DEF DevInit, StaticInit
  <2> QED BY <2>1, <2>2, <2>3, <2>4, <2>5 DEF TypeOK, RendererTypeOK
<1>2. StaticOrder
  BY DEF StaticOrder, IsBuilt, Singletons, InitCalls, LoopCalls, FrameCalls, RendererExitCalls
<1>3. Holdings
  BY DEF Holdings, Delivered, InitCalls, ObjectCalls, LoopCalls, FrameCalls
<1>4. ResourcesNested /\ ImageHeld
  BY DEF ResourcesNested, ImageHeld, ObjectCalls, InitCalls, LoopCalls, FrameCalls
<1> QED BY <1>1, <1>2, <1>3, <1>4 DEF IInv

LEMMA StepIInv == IInv /\ [Next]_vars => IInv'
<1> SUFFICES ASSUME IInv, [Next]_vars PROVE IInv'
  OBVIOUS
<1>1. CASE CreateEngine \/ BeginPlay \/ RendererInitCall \/ ShouldExit \/ PollEvents \/ Update \/ UserClose
  BY <1>1, EnginePreserves
<1>2. CASE Startup /\ UNCHANGED engineVars
  <2>1. CASE RequestAdapter \/ RequestDevice \/ NullDeviceCall \/ SetupSwapChain
    BY <1>2, <2>1, RequestsPreserve
  <2>2. CASE WriteVertices \/ WriteIndices
    BY <1>2, <2>2, WritesPreserve
  <2>3. CASE \/ CreateVertexBuffer \/ CreateIndexBuffer \/ SetupMVPUniformsBuffer
             \/ CreateBindGroupLayout \/ CreateBindGroup \/ CreateDepthTexture
             \/ CreateDepthView \/ SetupSampler \/ CreateShaderModule
             \/ CreatePipelineLayout \/ CreateRenderPipeline \/ SetupPointBuffer
    BY <1>2, <2>3, CreationsPreserve
  <2> QED BY <1>2, <2>1, <2>2, <2>3 DEF Startup
<1>3. CASE CreateSurface(window = "open") /\ UNCHANGED engineVars
  BY <1>3, RequestsPreserve
<1>4. CASE Render /\ UNCHANGED engineVars
  BY <1>4, FramePreserves
<1>5. CASE Exit
  BY <1>5, ExitPreserves
<1>6. CASE UNCHANGED vars
  <2> USE <1>6 DEF vars, devVars, staticVars, rendererVars, frameVars, engineVars
  <2>1. TypeOK' /\ StaticOrder'
    BY DEF IInv, TypeOK, RendererTypeOK, DevTypeOK, StaticTypeOK, StaticOrder, IsBuilt
  <2>2. Holdings' /\ ResourcesNested' /\ ImageHeld'
    BY DEF IInv, Holdings, Delivered, IsBuilt, ResourcesNested, ImageHeld, Valid
  <2> QED BY <2>1, <2>2 DEF IInv
<1> QED BY <1>1, <1>2, <1>3, <1>4, <1>5, <1>6 DEF Next, MainThread, Ended

-----------------------------------------------------------------------------
(* The invariant of the engine: what it holds at each call, whatever        *)
(* failed before.                                                          *)
THEOREM EngineInvariant == Spec => []IInv
  BY InitIInv, StepIInv, PTL DEF Spec

(* Type correctness of the whole program.                                  *)
THEOREM TypeCorrect == Spec => []TypeOK
<1>1. IInv => TypeOK
  BY DEF IInv
<1> QED BY <1>1, EngineInvariant, PTL

(* On every path out of the process, normal or by the exit(0) inside the    *)
(* adapter callback (renderer.cpp:40), what was acquired later is released *)
(* earlier.                                                                *)
THEOREM ResourcesStayNested == Spec => []ResourcesNested
<1>1. IInv => ResourcesNested
  BY DEF IInv
<1> QED BY <1>1, EngineInvariant, PTL

(* The loop of engine.cpp:52 never runs without a delivered device, a       *)
(* surface and a window, although no result of startup is checked.         *)
THEOREM LoopOnlyWithDevice == Spec => []LoopHasDevice
<1>1. IInv => LoopHasDevice
  BY DEF IInv, Holdings, LoopHasDevice, Delivered
<1> QED BY <1>1, EngineInvariant, PTL

(* Presenting without looking at the acquired view is sound as long as the *)
(* device works.                                                           *)
THEOREM PresentNeverWantsImage == Spec => []PresentHasImage
<1>1. IInv => PresentHasImage
  BY DEF IInv, ImageHeld, PresentHasImage, FrameCalls
<1> QED BY <1>1, EngineInvariant, PTL

-----------------------------------------------------------------------------
(* On a lost device every call comes to "dead" (DeviceBase::ValidateIsAlive) *)
(* and HandleError reports nothing.                                        *)
LEMMA LostCreationIsQuiet ==
    ASSUME device = "lost", NEW o, NEW made, NEW valid, NEW failures, NEW next,
           CreateAs(o, made, valid, failures, next)
    PROVE  uncaught' = uncaught
BY DEF CreateAs, OutcomesOf, HandleError

LEMMA LostStepIsQuiet ==
    ASSUME TypeOK, device = "lost", Next
    PROVE  uncaught' <= uncaught
<1> SUFFICES ASSUME uncaught' # uncaught PROVE uncaught' <= uncaught
  BY DEF TypeOK, RendererTypeOK, DevTypeOK
<1>1. uncaught \in Nat
  BY DEF TypeOK, RendererTypeOK, DevTypeOK
<1>2. ~Startup
  <2>1. ~(RequestAdapter \/ RequestDevice \/ NullDeviceCall)
    BY DEF RequestAdapter, RequestDevice, NullDeviceCall, devVars
  <2>2. ~(WriteVertices \/ WriteIndices)
    BY DEF WriteVertices, WriteIndices, WriteBuffer, OutcomesOf, HandleError
  <2>3. \A o, made, valid, failures, next : ~CreateAs(o, made, valid, failures, next)
    BY LostCreationIsQuiet
  <2> QED
    BY <2>1, <2>2, <2>3
    DEF Startup, SetupSwapChain, CreateVertexBuffer, CreateIndexBuffer, SetupMVPUniformsBuffer,
        CreateBindGroupLayout, CreateBindGroup, CreateDepthTexture, CreateDepthView, SetupSampler,
        CreateShaderModule, CreatePipelineLayout, CreateRenderPipeline, SetupPointBuffer, Create
<1>3. ~Render
  <2>1. ~(BeginRenderPass \/ SetPipeline \/ RecordDraw \/ EndPass)
    BY DEF BeginRenderPass, SetPipeline, RecordDraw, EndPass, devVars
  <2>2. ~(AcquireView \/ CreateEncoder \/ WriteMvp \/ Finish \/ Submit \/ Present \/ ProcessEvents)
    BY DEF AcquireView, CreateEncoder, WriteMvp, Finish, Submit, Present, ProcessEvents,
           OutcomesOf, HandleError
  <2> QED BY <2>1, <2>2 DEF Render
<1>4. ~Exit
  BY DEF Exit, DestroyNext, ExitDone, ReleaseSwapChain, ReleaseSurface, ReleaseDevice,
         ReleaseInstance, CleanScenes, DestroyWindow, DestroyDevice, devVars
<1>5. CASE \/ CreateEngine \/ BeginPlay \/ RendererInitCall \/ CreateSurface(window = "open")
           \/ ShouldExit \/ PollEvents \/ Update \/ UserClose \/ Ended
  BY <1>5, <1>1
  DEF CreateEngine, BeginPlay, RendererInitCall, CreateSurface, ShouldExit, PollEvents, Update,
      UserClose, Ended, vars, devVars
<1> QED BY <1>2, <1>3, <1>4, <1>5 DEF Next, MainThread

(* Once the device is lost teck keeps calling it every frame, and the       *)
(* uncaptured-error callback stays silent.                                 *)
THEOREM LossIsQuiet == Spec => QuietAfterLoss
<1>1. IInv /\ [Next]_vars => [device = "lost" => uncaught' <= uncaught]_vars
  BY LostStepIsQuiet DEF IInv
<1> QED BY <1>1, EngineInvariant, PTL DEF Spec, QuietAfterLoss

-----------------------------------------------------------------------------
(* What a frame reports.  Outside of a frame there is nothing to show.     *)
LEMMA NoFrame ==
    ASSUME pc' \notin FrameCalls
    PROVE  FrameSoFar'
BY DEF FrameSoFar, FrameReports, FrameCalls

(* A call of a frame on a working device, one case per call of Render.     *)
LEMMA FrameSoFarStep ==
    ASSUME IInv, BindGroupNeedsUniforms, FrameSoFar, Render
    PROVE  FrameSoFar'
<1> SUFFICES ASSUME device' = "alive" PROVE FrameSoFar'
  BY DEF FrameSoFar
<1>1. uncaught \in Nat /\ UNCHANGED obj
  BY DEF IInv, TypeOK, RendererTypeOK, DevTypeOK, Render, AcquireView, CreateEncoder, BeginRenderPass,
         SetPipeline, WriteMvp, RecordDraw, EndPass, Finish, Submit, Present, ProcessEvents
<1>2. \A o \in GpuObjects : Valid(o)' <=> Valid(o)
  BY <1>1 DEF Valid
<1>3. /\ Broken(PassObjects)' <=> Broken(PassObjects)
      /\ Broken(PipelineObjects)' <=> Broken(PipelineObjects)
      /\ Broken(FrameObjects)' <=> Broken(FrameObjects)
      /\ Valid("swapChain")' <=> Valid("swapChain")
      /\ Valid("mvpBuffer")' <=> Valid("mvpBuffer")
  BY <1>2 DEF Broken, PassObjects, PipelineObjects, FrameObjects, GpuObjects
<1>4. /\ NoFailure \in SUBSET BackendFailure
      /\ BackendFailure \in SUBSET BackendFailure
  BY DEF NoFailure
<1>5. CASE AcquireView
  <2>1. Valid("swapChain") => attached
    BY <1>5 DEF AcquireView, IInv, ImageHeld, LoopCalls, FrameCalls
  <2>2. PICK out \in OutcomesOf(Valid("swapChain") /\ attached, BackendFailure) :
            HandleError(out) /\ view' = IF out = "ok" THEN "valid" ELSE "error"
    BY <1>5 DEF AcquireView
  <2>3. /\ device = "alive"
        /\ out = "ok" <=> Valid("swapChain")
        /\ uncaught' = uncaught + One(~Valid("swapChain"))
    <3>1. (Valid("swapChain") /\ attached) <=> Valid("swapChain")
      BY <2>1
    <3> QED BY <3>1, <2>2, <1>1, <1>4 DEF OutcomesOf, HandleError, BackendFailure, One
  <2>4. pc' = "CreateEncoder" /\ uncaught = 0
    BY <1>5, <2>3 DEF AcquireView, FrameSoFar
  <2> QED BY <2>2, <2>3, <2>4, <1>3 DEF FrameSoFar, FrameReports, One
<1>6. CASE CreateEncoder
  <2>1. PICK out \in OutcomesOf(TRUE, NoFailure) : HandleError(out) /\ encErr' = (out # "ok")
    BY <1>6 DEF CreateEncoder
  <2>2. device = "alive" /\ out = "ok" /\ uncaught' = uncaught
    BY <2>1, <1>1 DEF OutcomesOf, NoFailure, HandleError
  <2>3. ~encErr'
    BY <2>1, <2>2
  <2>4. pc = "CreateEncoder" /\ pc' = "BeginPass" /\ UNCHANGED view
    BY <1>6 DEF CreateEncoder
  <2> QED BY <2>2, <2>3, <2>4, <1>3 DEF FrameSoFar, FrameReports, One
<1>7. CASE BeginRenderPass
  <2>1. /\ pc = "BeginPass" /\ pc' = "SetPipeline" /\ device = "alive" /\ UNCHANGED uncaught
        /\ encErr' = (encErr \/ ~(~encErr /\ view = "valid" /\ Valid("depthView")))
        /\ pass' = IF ~encErr /\ view = "valid" /\ Valid("depthView") THEN "open" ELSE "error"
    BY <1>7 DEF BeginRenderPass, Encode, devVars
  <2>2. Broken(PassObjects) <=> ~Valid("swapChain") \/ ~Valid("depthView")
    BY DEF Broken, PassObjects
  <2>3. ~encErr /\ (view = "valid" <=> Valid("swapChain")) /\ uncaught = One(~Valid("swapChain"))
    BY <2>1 DEF FrameSoFar
  <2>4. encErr' <=> Broken(PassObjects)
    BY <2>1, <2>2, <2>3
  <2>5. pass' = "open" <=> ~Broken(PassObjects)
    BY <2>1, <2>2, <2>3
  <2> QED BY <2>1, <2>3, <2>4, <2>5, <1>3 DEF FrameSoFar, FrameReports, One
<1>8. CASE SetPipeline
  <2>1. /\ pc = "SetPipeline" /\ pc' = "WriteMvp" /\ device = "alive" /\ UNCHANGED <<uncaught, pass>>
        /\ encErr' = (encErr \/ ~(pass = "open" /\ Valid("pipeline") /\ Valid("bindGroup")))
    BY <1>8 DEF SetPipeline, Encode, devVars
  <2>2. Broken(PipelineObjects) <=> Broken(PassObjects) \/ ~Valid("pipeline") \/ ~Valid("bindGroup")
    BY DEF Broken, PipelineObjects, PassObjects
  <2>3. /\ encErr <=> Broken(PassObjects)
        /\ pass = "open" <=> ~Broken(PassObjects)
        /\ uncaught = One(~Valid("swapChain"))
    BY <2>1 DEF FrameSoFar
  <2>4. encErr' <=> Broken(PipelineObjects)
    BY <2>1, <2>2, <2>3
  <2> QED BY <2>1, <2>3, <2>4, <1>3 DEF FrameSoFar, FrameReports, One
<1>9. CASE WriteMvp
  <2>1. PICK out \in OutcomesOf(Valid("mvpBuffer"), BackendFailure) :
            HandleError(out) /\ mvp' = (out = "ok")
    BY <1>9 DEF WriteMvp
  <2>2. /\ device = "alive"
        /\ out = "ok" <=> Valid("mvpBuffer")
        /\ uncaught' = uncaught + One(~Valid("mvpBuffer"))
    BY <2>1, <1>1 DEF OutcomesOf, HandleError, BackendFailure, One
  <2>3. mvp' <=> Valid("mvpBuffer")
    BY <2>1, <2>2
  <2>4. pc = "WriteMvp" /\ pc' = "RecordDraw" /\ UNCHANGED <<encErr, pass>>
    BY <1>9 DEF WriteMvp
  <2> QED BY <2>2, <2>3, <2>4, <1>3 DEF FrameSoFar, FrameReports, One
<1>10. CASE RecordDraw
  <2>1. /\ pc = "RecordDraw" /\ pc' = "EndPass" /\ device = "alive" /\ UNCHANGED <<uncaught, pass, mvp>>
        /\ encErr' = (encErr \/ ~(/\ pass = "open" /\ Valid("vertexBuffer")
                                  /\ Valid("bindGroup") /\ Valid("indexBuffer")))
    BY <1>10 DEF RecordDraw, Encode, devVars
  <2>2. Broken(FrameObjects) <=> Broken(PipelineObjects) \/ ~Valid("vertexBuffer") \/ ~Valid("indexBuffer")
    BY DEF BindGroupNeedsUniforms, Broken, FrameObjects, PipelineObjects, PassObjects
  <2>3. (encErr <=> Broken(PipelineObjects)) /\ (pass = "open" <=> ~Broken(PassObjects))
    BY <2>1 DEF FrameSoFar
  <2>4. Broken(PipelineObjects) <=> Broken(PassObjects) \/ ~Valid("pipeline") \/ ~Valid("bindGroup")
    BY DEF Broken, PipelineObjects, PassObjects
  <2>5. encErr' <=> Broken(FrameObjects)
    BY <2>1, <2>2, <2>3, <2>4
  <2> QED BY <2>1, <2>5, <1>3 DEF FrameSoFar, FrameReports, One
<1>11. CASE EndPass
  <2>1. /\ pc = "EndPass" /\ pc' = "Finish" /\ device = "alive" /\ UNCHANGED <<uncaught, mvp>>
        /\ encErr' = (encErr \/ ~(pass = "open"))
        /\ pass' = IF pass = "open" THEN "ended" ELSE pass
    BY <1>11 DEF EndPass, Encode, devVars
  <2>2. Broken(PassObjects) => Broken(FrameObjects)
    BY DEF Broken, PassObjects, FrameObjects
  <2>3. (encErr <=> Broken(FrameObjects)) /\ (pass = "open" <=> ~Broken(PassObjects))
    BY <2>1 DEF FrameSoFar
  <2>4. encErr' <=> Broken(FrameObjects)
    BY <2>1, <2>2, <2>3
  <2>5. pass' # "open"
    BY <2>1
  <2> QED BY <2>1, <2>4, <2>5, <1>3 DEF FrameSoFar, FrameReports, One
<1>12. CASE Finish
  <2>1. PICK out \in OutcomesOf(~encErr /\ pass # "open", NoFailure) :
            HandleError(out) /\ cmd' = IF out = "ok" THEN "valid" ELSE "error"
    BY <1>12 DEF Finish
  <2>2. pc = "Finish" /\ pc' = "Submit" /\ UNCHANGED mvp
    BY <1>12 DEF Finish
  <2>3. device = "alive"
    BY <2>1 DEF HandleError
  <2>4. (~encErr /\ pass # "open") <=> ~Broken(FrameObjects)
    BY <2>2, <2>3 DEF FrameSoFar
  <2>5. (out = "ok" <=> ~Broken(FrameObjects)) /\ uncaught' = uncaught + One(Broken(FrameObjects))
    BY <2>1, <2>3, <2>4, <1>1 DEF OutcomesOf, NoFailure, HandleError, One
  <2> QED BY <2>1, <2>2, <2>3, <2>5, <1>3 DEF FrameSoFar, FrameReports, One
<1>13. CASE Submit
  <2>1. PICK out \in OutcomesOf(cmd = "valid", BackendFailure) :
            HandleError(out) /\ drawn' \in (IF out = "loss" THEN BOOLEAN ELSE {out = "ok"})
    BY <1>13 DEF Submit
  <2>2. pc = "Submit" /\ pc' = "Present" /\ UNCHANGED mvp
    BY <1>13 DEF Submit
  <2>3. device = "alive" /\ out # "loss"
    BY <2>1 DEF HandleError
  <2>4. cmd = "valid" <=> ~Broken(FrameObjects)
    BY <2>2, <2>3 DEF FrameSoFar
  <2>5. (out = "ok" <=> ~Broken(FrameObjects)) /\ uncaught' = uncaught + One(Broken(FrameObjects))
    BY <2>1, <2>3, <2>4, <1>1 DEF OutcomesOf, BackendFailure, HandleError, One
  <2>6. drawn' <=> ~Broken(FrameObjects)
    BY <2>1, <2>3, <2>5
  <2> QED BY <2>2, <2>3, <2>5, <2>6, <1>3 DEF FrameSoFar, FrameReports, One
<1>14. CASE Present
  <2>1. PICK out \in OutcomesOf(Valid("swapChain") /\ attached /\ image, BackendFailure) : HandleError(out)
    BY <1>14 DEF Present
  <2>2. pc = "Present" /\ pc' = "ProcessEvents"
    BY <1>14 DEF Present
  <2>3. device = "alive"
    BY <2>1 DEF HandleError
  <2>4. (Valid("swapChain") /\ attached /\ image) <=> Valid("swapChain")
    BY <2>2, <2>3 DEF IInv, ImageHeld, LoopCalls, FrameCalls
  <2>5. uncaught' = uncaught + One(~Valid("swapChain"))
    BY <2>1, <2>3, <2>4, <1>1 DEF OutcomesOf, BackendFailure, HandleError, One
  <2> QED BY <2>2, <2>3, <2>5, <1>3 DEF FrameSoFar, FrameReports, One, Broken
<1>15. CASE ProcessEvents
  BY <1>15, NoFrame DEF ProcessEvents, FrameCalls
<1> QED BY <1>5, <1>6, <1>7, <1>8, <1>9, <1>10, <1>11, <1>12, <1>13, <1>14, <1>15 DEF Render

(* The bind group is made once, after the uniform buffer it refers to, so   *)
(* it cannot be valid without it.                                          *)
LEMMA BindGroupStep ==
    ASSUME IInv, BindGroupNeedsUniforms, Next
    PROVE  BindGroupNeedsUniforms'
<1> USE DEF BindGroupNeedsUniforms, Valid
<1>1. device \in DeviceStates /\ uncaught \in Nat /\ obj \in [GpuObjects -> HandleStates]
  BY DEF IInv, TypeOK, RendererTypeOK, DevTypeOK
<1>2. CASE SetupMVPUniformsBuffer
  <2>1. pc' = "BindGroupLayout" /\ pc = "MvpBuffer" /\ obj'["bindGroup"] = obj["bindGroup"]
    BY <1>1, <1>2 DEF SetupMVPUniformsBuffer, Create, CreateAs, GpuObjects
  <2> QED BY <2>1
<1>3. CASE CreateBindGroup
  <2>1. PICK valid \in BOOLEAN :
            /\ CreateAs("bindGroup", "valid", valid, BackendFailure, "DepthTexture")
            /\ valid => Valid("mvpBuffer")
    BY <1>3 DEF CreateBindGroup, Create
  <2>2. "bindGroup" \in GpuObjects /\ "mvpBuffer" \in GpuObjects \ {"bindGroup"}
    BY DEF GpuObjects
  <2>3. /\ pc' = "DepthTexture"
        /\ obj'["bindGroup"] = "valid" => valid
        /\ obj'["mvpBuffer"] = obj["mvpBuffer"]
    BY <2>1, <2>2, <1>1, CreateLemma, FailureSets
  <2> QED BY <2>1, <2>3
<1>4. CASE Startup /\ ~SetupMVPUniformsBuffer /\ ~CreateBindGroup
  <2>2. CASE RequestAdapter \/ RequestDevice \/ NullDeviceCall \/ WriteVertices \/ WriteIndices
    BY <2>2 DEF RequestAdapter, RequestDevice, NullDeviceCall, WriteVertices, WriteIndices, WriteBuffer
  <2>3. CASE SetupSwapChain
    BY <1>1, <2>3 DEF SetupSwapChain, Create, CreateAs, GpuObjects
  <2>4. CASE CreateVertexBuffer
    BY <1>1, <2>4 DEF CreateVertexBuffer, Create, CreateAs, GpuObjects
  <2>5. CASE CreateIndexBuffer
    BY <1>1, <2>5 DEF CreateIndexBuffer, Create, CreateAs, GpuObjects
  <2>6. CASE CreateBindGroupLayout
    BY <1>1, <2>6 DEF CreateBindGroupLayout, Create, CreateAs, GpuObjects
  <2>7. CASE CreateDepthTexture
    BY <1>1, <2>7 DEF CreateDepthTexture, Create, CreateAs, GpuObjects
  <2>8. CASE CreateDepthView
    BY <1>1, <2>8 DEF CreateDepthView, Create, CreateAs, GpuObjects
  <2>9. CASE SetupSampler
    BY <1>1, <2>9 DEF SetupSampler, Create, CreateAs, GpuObjects
  <2>10. CASE CreateShaderModule
    BY <1>1, <2>10 DEF CreateShaderModule, Create, CreateAs, GpuObjects
  <2>11. CASE CreatePipelineLayout
    BY <1>1, <2>11 DEF CreatePipelineLayout, Create, CreateAs, GpuObjects
  <2>12. CASE CreateRenderPipeline
    BY <1>1, <2>12 DEF CreateRenderPipeline, Create, CreateAs, GpuObjects
  <2>13. CASE SetupPointBuffer
    BY <1>1, <2>13 DEF SetupPointBuffer, Create, CreateAs, GpuObjects
  <2> QED BY <1>4, <2>2, <2>3, <2>4, <2>5, <2>6, <2>7, <2>8, <2>9, <2>10, <2>11, <2>12, <2>13 DEF Startup
<1>5. CASE Render \/ CreateSurface(window = "open")
  <2>1. UNCHANGED obj
    BY <1>5
    DEF Render, AcquireView, CreateEncoder, BeginRenderPass, SetPipeline, WriteMvp, RecordDraw,
        EndPass, Finish, Submit, Present, ProcessEvents, CreateSurface
  <2> QED BY <2>1, <1>5
    DEF Render, AcquireView, CreateEncoder, BeginRenderPass, SetPipeline, WriteMvp, RecordDraw,
        EndPass, Finish, Submit, Present, ProcessEvents, CreateSurface
<1>6. CASE Exit
  BY <1>6
  DEF Exit, DestroyNext, ExitDone, ReleaseSwapChain, ReleaseSurface, ReleaseDevice, ReleaseInstance,
      CleanScenes, DestroyWindow, DestructorOf, Singletons, GpuObjects
<1>7. CASE \/ BeginPlay \/ CreateEngine \/ RendererInitCall \/ ShouldExit \/ PollEvents \/ Update
           \/ UserClose \/ Ended
  BY <1>7
  DEF BeginPlay, CreateEngine, RendererInitCall, ShouldExit, PollEvents, Update, UserClose, Ended,
      vars, rendererVars
<1> QED BY <1>2, <1>3, <1>4, <1>5, <1>6, <1>7 DEF Next, MainThread

LEMMA StepFInv == IInv /\ FInv /\ [Next]_vars => FInv'
<1> SUFFICES ASSUME IInv, FInv, [Next]_vars PROVE FInv'
  OBVIOUS
<1>1. CASE Next
  <2>1. BindGroupNeedsUniforms'
    BY <1>1, BindGroupStep DEF FInv
  <2>2. FrameSoFar'
    <3>1. CASE Render
      BY <3>1, FrameSoFarStep DEF FInv
    <3>2. CASE Update
      BY <3>2 DEF Update, FrameSoFar, FrameReports
    <3>3. CASE UserClose \/ Ended
      BY <3>3 DEF UserClose, Ended, vars, devVars, rendererVars, frameVars, FInv, FrameSoFar,
                  FrameReports, Broken, Valid
    <3>4. CASE Startup
      BY <3>4, NoFrame
      DEF Startup, RequestAdapter, RequestDevice, NullDeviceCall, SetupSwapChain, CreateVertexBuffer,
          WriteVertices, CreateIndexBuffer, WriteIndices, SetupMVPUniformsBuffer, CreateBindGroupLayout,
          CreateBindGroup, CreateDepthTexture, CreateDepthView, SetupSampler, CreateShaderModule,
          CreatePipelineLayout, CreateRenderPipeline, SetupPointBuffer, Create, CreateAs, WriteBuffer,
          FrameCalls
    <3>5. CASE Exit
      BY <3>5, NoFrame
      DEF Exit, DestroyNext, ExitDone, ReleaseSwapChain, ReleaseSurface, ReleaseDevice,
          ReleaseInstance, CleanScenes, DestroyWindow, DestructorOf, FrameCalls
    <3>6. CASE \/ CreateEngine \/ BeginPlay \/ RendererInitCall
               \/ CreateSurface(window = "open") \/ ShouldExit \/ PollEvents
      BY <3>6, NoFrame
      DEF CreateEngine, BeginPlay, RendererInitCall, CreateSurface, ShouldExit, PollEvents, FrameCalls
    <3> QED BY <1>1, <3>1, <3>2, <3>3, <3>4, <3>5, <3>6 DEF Next, MainThread
  <2> QED BY <2>1, <2>2 DEF FInv
<1>2. CASE UNCHANGED vars
  <2>1. BindGroupNeedsUniforms'
    BY <1>2 DEF vars, rendererVars, FInv, BindGroupNeedsUniforms, Valid
  <2>2. FrameSoFar'
    BY <1>2 DEF vars, devVars, rendererVars, frameVars, FInv, FrameSoFar, FrameReports, Broken, Valid
  <2> QED BY <2>1, <2>2 DEF FInv
<1> QED BY <1>1, <1>2

(* The two facts about a frame together with what they stand on.           *)
THEOREM FrameInvariant == Spec => []FInv
<1>1. Init => FInv
  BY DEF Init, RendererInit, DevInit, FInv, BindGroupNeedsUniforms, FrameSoFar, FrameReports, Valid, GpuObjects
<1> QED BY <1>1, StepFInv, EngineInvariant, PTL DEF Spec

(* An error object costs a fixed number of reports in each frame.          *)
THEOREM ReportsPerFrame == Spec => []FrameReports
<1>1. FInv => FrameReports
  BY DEF FInv, FrameSoFar, FrameReports
<1> QED BY <1>1, FrameInvariant, PTL

(* With all its objects sound, a frame on a working device draws with the   *)
(* matrices of this frame and reports nothing.                             *)
THEOREM SoundFramesDraw == Spec => []SoundFrameDraws
<1>1. FInv => SoundFrameDraws
  BY DEF FInv, FrameSoFar, SoundFrameDraws, Broken, FrameObjects, One
<1> QED BY <1>1, FrameInvariant, PTL
=============================================================================
