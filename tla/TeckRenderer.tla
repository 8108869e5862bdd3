---------------------------- MODULE TeckRenderer ----------------------------
(***************************************************************************)
(* tkRenderer (src/core/renderer.cpp): asking for a device, building the   *)
(* GPU objects in the order of InitGraphics, and the calls of one frame in *)
(* the order of Render.  The main thread is sequential; "pc" names the     *)
(* call it makes next.  Every device call may fail in the ways DawnDevice  *)
(* allows; teck checks none of them and goes on with the error object.     *)
(***************************************************************************)
EXTENDS DawnDevice, Statics

CONSTANTS
    Deliveries,  \* how RequestAdapter calls back: "sync" (native Dawn), "async" (browser)
    Asserts      \* may assert() be compiled in (TRUE: debug build) or out

ASSUME DeliveriesAssumption == Deliveries \subseteq {"sync", "async"}
ASSUME AssertsAssumption == Asserts \subseteq BOOLEAN

VARIABLES
    pc,        \* the main thread's next call
    obj,       \* the handles tkRenderer keeps, and what they refer to
    vertexWrite, \* loop index of SetupLineVertexBuffer
    surface,   \* wSurface: "none", "live" or "released"
    view,      \* frame local: attachment.view
    encErr,    \* frame local: the encoder has a stored error
    pass,      \* frame local: the render pass encoder
    cmd,       \* frame local: commands
    mvp,       \* were this frame's matrices written to the uniform buffer
    drawn      \* was this frame's draw submitted

frameVars == <<view, encErr, pass, cmd, mvp, drawn>>
rendererVars == <<pc, obj, vertexWrite, surface, frameVars>>

GpuObjects ==
    {"swapChain", "vertexBuffer", "indexBuffer", "mvpBuffer", "bindGroupLayout",
     "bindGroup", "depthTexture", "depthView", "sampler", "shaderModule",
     "pipelineLayout", "pipeline", "pointBuffer"}

(* "empty" is a valid shader module that has no entry point.               *)
HandleStates == {"null", "valid", "error", "empty"}

InitCalls ==
    {"RequestAdapter", "RequestDevice", "CreateSurface", "SwapChain",
     "VertexBuffer", "VertexWrites", "IndexBuffer", "IndexWrite", "MvpBuffer",
     "BindGroupLayout", "BindGroup", "DepthTexture", "DepthView", "Sampler",
     "ShaderModule", "PipelineLayout", "Pipeline", "PointBuffer"}

FrameCalls ==
    {"AcquireView", "CreateEncoder", "BeginPass", "SetPipeline", "WriteMvp",
     "RecordDraw", "EndPass", "Finish", "Submit", "Present", "ProcessEvents"}

Valid(o) == obj[o] = "valid"

(* A creation call on the device: the handle gets the object, or an error  *)
(* object when the call failed.                                            *)
CreateAs(o, made, valid, failures, next) ==
    /\ device # "none"
    /\ \E out \in OutcomesOf(valid, failures) :
          /\ HandleError(out)
          /\ obj' = [obj EXCEPT ![o] = IF out = "ok" THEN made ELSE "error"]
    /\ pc' = next

Create(o, valid, failures, next) == CreateAs(o, "valid", valid, failures, next)

(* Queue::WriteBuffer: validated, then uploaded by the backend.            *)
WriteBuffer(valid, next) ==
    /\ device # "none"
    /\ \E out \in OutcomesOf(valid, BackendFailure) : HandleError(out)
    /\ pc' = next

-----------------------------------------------------------------------------
(* Startup.                                                                *)

(* tkRenderer::GetDevice, outer half.  Native Dawn completes the request    *)
(* before RequestAdapter returns: with no adapter the callback logs an     *)
(* error, which aborts a debug build, and calls exit(0).  In a browser the *)
(* callback waits for the event loop, which teck never returns to.         *)
RequestAdapter ==
    /\ pc = "RequestAdapter"
    /\ \/ "sync" \in Deliveries /\ pc' = "RequestDevice"
       \/ "sync" \in Deliveries /\ TRUE \in Asserts /\ pc' = "Aborted"
       \/ "sync" \in Deliveries /\ FALSE \in Asserts /\ pc' = "Exiting"
       \/ "async" \in Deliveries /\ pc' = "CreateSurface"
    /\ UNCHANGED <<devVars, staticVars, obj, vertexWrite, surface, frameVars>>

(* GetDevice, inner half.  The status is not looked at: when the device    *)
(* could not be created, the first call on the null handle ends the run.   *)
RequestDevice ==
    /\ pc = "RequestDevice"
    /\ \/ device' = "alive" /\ pc' = "CreateSurface"
       \/ device' = "none" /\ pc' = "Crashed"
    /\ UNCHANGED <<uncaught, attached, image, staticVars, obj, vertexWrite, surface, frameVars>>

(* wgpu::glfw::CreateSurfaceForWindow; GLFW faults on a null window.       *)
CreateSurface(windowOpen) ==
    /\ pc = "CreateSurface"
    /\ IF windowOpen
       THEN surface' = "live" /\ pc' = "SwapChain"
       ELSE pc' = "Crashed" /\ UNCHANGED surface
    /\ UNCHANGED <<devVars, staticVars, obj, vertexWrite, frameVars>>

(* A mutant of InitGraphics: it returns early when it has no device.       *)
NullDeviceReturns ==
    /\ pc = "SwapChain"
    /\ device = "none"
    /\ pc' = "ShouldExit"
    /\ UNCHANGED <<devVars, staticVars, obj, vertexWrite, surface, frameVars>>

(* A call on the null device handle: InitGraphics starts with one.         *)
NullDeviceCall ==
    /\ pc = "SwapChain"
    /\ device = "none"
    /\ pc' = "Crashed"
    /\ UNCHANGED <<devVars, staticVars, obj, vertexWrite, surface, frameVars>>

SetupSwapChain ==
    /\ pc = "SwapChain"
    /\ Create("swapChain", surface = "live", BackendFailure, "VertexBuffer")
    /\ attached' = (obj'["swapChain"] = "valid")
    /\ UNCHANGED <<image, staticVars, vertexWrite, surface, frameVars>>

CreateVertexBuffer ==
    /\ pc = "VertexBuffer"
    /\ Create("vertexBuffer", TRUE, AllocationFailure, "VertexWrites")
    /\ UNCHANGED <<attached, image, staticVars, vertexWrite, surface, frameVars>>

(* The buffer has room for one block and the loop writes block i at        *)
(* i * size: only the first of the four fits.                              *)
VertexWriteFits == vertexWrite = 0

LastVertexWrite == 3

(* A mutant of the loop: it runs once too often.                           *)
WriteVerticesPastEnd ==
    /\ pc = "VertexWrites"
    /\ WriteBuffer(Valid("vertexBuffer") /\ VertexWriteFits,
                   IF vertexWrite > LastVertexWrite THEN "IndexBuffer" ELSE "VertexWrites")
    /\ vertexWrite' = IF vertexWrite > LastVertexWrite THEN vertexWrite ELSE vertexWrite + 1
    /\ UNCHANGED <<obj, attached, image, staticVars, surface, frameVars>>

WriteVertices ==
    /\ pc = "VertexWrites"
    /\ WriteBuffer(Valid("vertexBuffer") /\ VertexWriteFits,
                   IF vertexWrite = LastVertexWrite THEN "IndexBuffer" ELSE "VertexWrites")
    /\ vertexWrite' = IF vertexWrite = LastVertexWrite THEN vertexWrite ELSE vertexWrite + 1
    /\ UNCHANGED <<obj, attached, image, staticVars, surface, frameVars>>

CreateIndexBuffer ==
    /\ pc = "IndexBuffer"
    /\ Create("indexBuffer", TRUE, AllocationFailure, "IndexWrite")
    /\ UNCHANGED <<attached, image, staticVars, vertexWrite, surface, frameVars>>

WriteIndices ==
    /\ pc = "IndexWrite"
    /\ WriteBuffer(Valid("indexBuffer"), "MvpBuffer")
    /\ UNCHANGED <<obj, attached, image, staticVars, vertexWrite, surface, frameVars>>

SetupMVPUniformsBuffer ==
    /\ pc = "MvpBuffer"
    /\ Create("mvpBuffer", TRUE, AllocationFailure, "BindGroupLayout")
    /\ UNCHANGED <<attached, image, staticVars, vertexWrite, surface, frameVars>>

CreateBindGroupLayout ==
    /\ pc = "BindGroupLayout"
    /\ Create("bindGroupLayout", TRUE, BackendFailure, "BindGroup")
    /\ UNCHANGED <<attached, image, staticVars, vertexWrite, surface, frameVars>>

CreateBindGroup ==
    /\ pc = "BindGroup"
    /\ Create("bindGroup", Valid("bindGroupLayout") /\ Valid("mvpBuffer"), BackendFailure,
              "DepthTexture")
    /\ UNCHANGED <<attached, image, staticVars, vertexWrite, surface, frameVars>>

CreateDepthTexture ==
    /\ pc = "DepthTexture"
    /\ Create("depthTexture", TRUE, AllocationFailure, "DepthView")
    /\ UNCHANGED <<attached, image, staticVars, vertexWrite, surface, frameVars>>

CreateDepthView ==
    /\ pc = "DepthView"
    /\ Create("depthView", Valid("depthTexture"), BackendFailure, "Sampler")
    /\ UNCHANGED <<attached, image, staticVars, vertexWrite, surface, frameVars>>

SetupSampler ==
    /\ pc = "Sampler"
    /\ Create("sampler", TRUE, BackendFailure, "ShaderModule")
    /\ UNCHANGED <<attached, image, staticVars, vertexWrite, surface, frameVars>>

(* The file reader is built here.  A file that cannot be opened reads as   *)
(* the empty string, which is a valid module without entry points.         *)
CreateShaderModule ==
    /\ pc = "ShaderModule"
    /\ Build("reader")
    /\ \E made \in {"valid", "empty"} :
          CreateAs("shaderModule", made, TRUE, BackendFailure, "PipelineLayout")
    /\ UNCHANGED <<attached, image, vertexWrite, surface, frameVars>>

CreatePipelineLayout ==
    /\ pc = "PipelineLayout"
    /\ Create("pipelineLayout", Valid("bindGroupLayout"), BackendFailure, "Pipeline")
    /\ UNCHANGED <<attached, image, staticVars, vertexWrite, surface, frameVars>>

(* An internal error, which this call also lets through (Device.cpp:1465), *)
(* is reported like an invalid descriptor.                                 *)
CreateRenderPipeline ==
    /\ pc = "Pipeline"
    /\ Create("pipeline", Valid("pipelineLayout") /\ Valid("shaderModule"), BackendFailure,
              "PointBuffer")
    /\ UNCHANGED <<attached, image, staticVars, vertexWrite, surface, frameVars>>

(* tsRender2d::SetupBuffers, then RegisterRenderSystem: main loop next.    *)
SetupPointBuffer ==
    /\ pc = "PointBuffer"
    /\ Create("pointBuffer", TRUE, AllocationFailure, "ShouldExit")
    /\ UNCHANGED <<attached, image, staticVars, vertexWrite, surface, frameVars>>

Startup ==
    \/ RequestAdapter \/ RequestDevice \/ NullDeviceCall
    \/ SetupSwapChain \/ CreateVertexBuffer \/ WriteVertices
    \/ CreateIndexBuffer \/ WriteIndices \/ SetupMVPUniformsBuffer
    \/ CreateBindGroupLayout \/ CreateBindGroup \/ CreateDepthTexture
    \/ CreateDepthView \/ SetupSampler \/ CreateShaderModule
    \/ CreatePipelineLayout \/ CreateRenderPipeline \/ SetupPointBuffer

-----------------------------------------------------------------------------
(* One frame (Render).                                                     *)

(* GetCurrentTextureView: takes a texture from the surface unless the swap  *)
(* chain still holds one; an error view stands in when that fails.         *)
AcquireView ==
    /\ pc = "AcquireView"
    /\ \E out \in OutcomesOf(Valid("swapChain") /\ attached, BackendFailure) :
          /\ HandleError(out)
          /\ image' = (image \/ out = "ok")
          /\ view' = IF out = "ok" THEN "valid" ELSE "error"
    /\ mvp' = FALSE /\ drawn' = FALSE
    /\ pc' = "CreateEncoder"
    /\ UNCHANGED <<attached, staticVars, obj, vertexWrite, surface, encErr, pass, cmd>>

(* An encoder made on a lost device stores an error for each later call.   *)
CreateEncoder ==
    /\ pc = "CreateEncoder"
    /\ \E out \in OutcomesOf(TRUE, NoFailure) :
          HandleError(out) /\ encErr' = (out # "ok")
    /\ pc' = "BeginPass"
    /\ UNCHANGED <<attached, image, staticVars, obj, vertexWrite, surface,
                   view, pass, cmd, mvp, drawn>>

(* While a command is encoded an error is not reported but stored in the   *)
(* encoder, the first one only; Finish hands it out.                       *)
Encode(ok) == encErr' = (encErr \/ ~ok)

BeginRenderPass ==
    /\ pc = "BeginPass"
    /\ LET ok == ~encErr /\ view = "valid" /\ Valid("depthView")
       IN  /\ Encode(ok)
           /\ pass' = IF ok THEN "open" ELSE "error"
    /\ pc' = "SetPipeline"
    /\ UNCHANGED <<devVars, staticVars, obj, vertexWrite, surface, view, cmd, mvp, drawn>>

(* SetPipeline and SetBindGroup on the pass.                               *)
SetPipeline ==
    /\ pc = "SetPipeline"
    /\ Encode(pass = "open" /\ Valid("pipeline") /\ Valid("bindGroup"))
    /\ pc' = "WriteMvp"
    /\ UNCHANGED <<devVars, staticVars, obj, vertexWrite, surface, view, pass, cmd, mvp, drawn>>

WriteMvp ==
    /\ pc = "WriteMvp"
    /\ \E out \in OutcomesOf(Valid("mvpBuffer"), BackendFailure) :
          HandleError(out) /\ mvp' = (out = "ok")
    /\ pc' = "RecordDraw"
    /\ UNCHANGED <<attached, image, staticVars, obj, vertexWrite, surface,
                   view, encErr, pass, cmd, drawn>>

(* SetVertexBuffer, SetBindGroup, SetIndexBuffer and DrawIndexed.          *)
RecordDraw ==
    /\ pc = "RecordDraw"
    /\ Encode(pass = "open" /\ Valid("vertexBuffer") /\ Valid("bindGroup") /\ Valid("indexBuffer"))
    /\ pc' = "EndPass"
    /\ UNCHANGED <<devVars, staticVars, obj, vertexWrite, surface, view, pass, cmd, mvp, drawn>>

(* A mutant of Render: the pass is not ended.                              *)
EndPassForgotten ==
    /\ pc = "EndPass"
    /\ pc' = "Finish"
    /\ UNCHANGED <<devVars, staticVars, obj, vertexWrite, surface, frameVars>>

EndPass ==
    /\ pc = "EndPass"
    /\ Encode(pass = "open")
    /\ pass' = IF pass = "open" THEN "ended" ELSE pass
    /\ pc' = "Finish"
    /\ UNCHANGED <<devVars, staticVars, obj, vertexWrite, surface, view, cmd, mvp, drawn>>

(* A mutant of Finish: the encoder's stored error is dropped.              *)
FinishForgetsError ==
    /\ pc = "Finish"
    /\ \E out \in OutcomesOf(pass # "open", NoFailure) :
          HandleError(out) /\ cmd' = IF out = "ok" THEN "valid" ELSE "error"
    /\ pc' = "Submit"
    /\ UNCHANGED <<attached, image, staticVars, obj, vertexWrite, surface,
                   view, encErr, pass, mvp, drawn>>

(* CommandEncoder::Finish: the stored error, an open pass, a lost device.  *)
Finish ==
    /\ pc = "Finish"
    /\ \E out \in OutcomesOf(~encErr /\ pass # "open", NoFailure) :
          HandleError(out) /\ cmd' = IF out = "ok" THEN "valid" ELSE "error"
    /\ pc' = "Submit"
    /\ UNCHANGED <<attached, image, staticVars, obj, vertexWrite, surface,
                   view, encErr, pass, mvp, drawn>>

(* Queue::Submit.  The backend may fail before or after it took the work.  *)
Submit ==
    /\ pc = "Submit"
    /\ \E out \in OutcomesOf(cmd = "valid", BackendFailure) :
          /\ HandleError(out)
          /\ drawn' \in (IF out = "loss" THEN BOOLEAN ELSE {out = "ok"})
    /\ pc' = "Present"
    /\ UNCHANGED <<attached, image, staticVars, obj, vertexWrite, surface,
                   view, encErr, pass, cmd, mvp>>

(* SwapChain::Present: invalid without a texture acquired before it.       *)
Present ==
    /\ pc = "Present"
    /\ \E out \in OutcomesOf(Valid("swapChain") /\ attached /\ image, BackendFailure) :
          HandleError(out) /\ PresentImage(out)
    /\ pc' = "ProcessEvents"
    /\ UNCHANGED <<attached, staticVars, obj, vertexWrite, surface, frameVars>>

(* Instance::ProcessEvents ticks the device, which may find it lost.       *)
ProcessEvents ==
    /\ pc = "ProcessEvents"
    /\ \E out \in OutcomesOf(TRUE, BackendFailure) : HandleError(out)
    /\ pc' = "ShouldExit"
    /\ UNCHANGED <<attached, image, staticVars, obj, vertexWrite, surface, frameVars>>

Render ==
    \/ AcquireView \/ CreateEncoder \/ BeginRenderPass \/ SetPipeline \/ WriteMvp
    \/ RecordDraw \/ EndPass \/ Finish \/ Submit \/ Present \/ ProcessEvents

RendererTypeOK ==
    /\ DevTypeOK
    /\ StaticTypeOK
    /\ obj \in [GpuObjects -> HandleStates]
    /\ vertexWrite \in 0..LastVertexWrite
    /\ surface \in {"none", "live", "released"}
    /\ view \in {"none", "valid", "error"}
    /\ encErr \in BOOLEAN
    /\ pass \in {"none", "open", "error", "ended"}
    /\ cmd \in {"none", "valid", "error"}
    /\ mvp \in BOOLEAN
    /\ drawn \in BOOLEAN

RendererInit ==
    /\ DevInit
    /\ StaticInit
    /\ obj = [o \in GpuObjects |-> "null"]
    /\ vertexWrite = 0
    /\ surface = "none"
    /\ view = "none" /\ encErr = FALSE /\ pass = "none" /\ cmd = "none"
    /\ mvp = FALSE /\ drawn = FALSE
=============================================================================
