------------------------------ MODULE DawnQueue ------------------------------
(***************************************************************************)
(* Dawn's queue and what happens to the requests that wait for it:         *)
(* native/Queue.cpp (tasks in flight), native/CallbackTaskManager.cpp,     *)
(* and of native/Device.cpp Tick, HandleError, Destroy and                 *)
(* WillDropLastExternalRef, over the Vulkan queue.                         *)
(*                                                                         *)
(* A call holds the device's lock.  `calls' is what it has still to do, so *)
(* that the GPU, the driver, threads that flush callbacks and threads that *)
(* wait for a serial, none of which takes the lock, come between its       *)
(* steps.  An error replaces the rest of the call by HandleError.          *)
(***************************************************************************)
EXTENDS VulkanQueue, Sequences

CONSTANTS
    Requests, \* requests to be told when work is done
    Waiters   \* threads in WaitAny, which check serials without the lock

VARIABLES
    state,     \* DeviceBase::mState
    released,  \* the application has dropped its last reference
    calls,     \* the steps that the call in progress has still to take
    tasks,     \* mTasksInFlight
    callbacks, \* CallbackTaskManager: its state
    queued,    \* its queue
    running,   \* tasks taken by a Flush and not executed yet
    waiter,    \* a waiter's progress in CheckPassedSerials
    answer,    \* what each request was told
    need       \* the serial of the work a request waits for

deviceVars == <<state, released>>
taskVars == <<tasks, callbacks, queued, running, answer, need>>
vars == <<queueVars, deviceVars, calls, taskVars, waiter>>

Task == [task: Requests, serial: Serials]
Marks == {"Normal", "DeviceLoss", "ShutDown"}
Marked == [task: Requests, mark: Marks]
Answers == {"none", "asked", "success", "lost"}

DoneCalls == <<>>
TickCalls == <<"CheckPassedSerials", "Recycle", "SubmitPending", "CheckDebugLayer", "TickTasks">>
LossCalls == <<"Disconnect", "Assume", "LoseTasks", "LoseCallbacks">>
InternalErrorCalls ==
    <<"BeginDisconnect", "WaitForIdle", "Recycle", "SubmitIgnoring", "Assume",
      "Disconnect", "LoseTasks", "LoseCallbacks">>
HandleErrorCalls(error) == IF error = "loss" THEN LossCalls ELSE InternalErrorCalls

(* A mutant: the tasks in flight are not ticked once more.                 *)
DestroyCallsWithoutTick ==
    <<"ShutDownCallbacks">>
        \o (IF state = "Alive" THEN <<"WaitForIdle", "Assume">> ELSE <<>>)
        \o <<"Recycle", "SubmitIgnoring", "Disconnect", "Assume", "DestroyQueue">>

(* DeviceBase::Destroy.                                                    *)
DestroyCalls ==
    IF state = "Alive"
    THEN <<"ShutDownCallbacks", "WaitForIdle", "Assume", "TickTasks", "Recycle",
           "SubmitIgnoring", "Disconnect", "Assume", "DestroyQueue">>
    ELSE <<"ShutDownCallbacks", "TickTasks", "Recycle",
           "SubmitIgnoring", "Disconnect", "Assume", "DestroyQueue">>

Steps ==
    {"Tick", "CheckPassedSerials", "Recycle", "SubmitPending", "SubmitIgnoring",
     "CheckDebugLayer", "TickTasks", "Disconnect", "BeginDisconnect", "Assume", "LoseTasks",
     "LoseCallbacks", "WaitForIdle", "ShutDownCallbacks", "DestroyQueue"}

WaiterStates == [at: {"idle", "compare", "store"}, serial: Serials]

(* Every variable has its type; also, no request is answered twice.        *)
TypeOK ==
    /\ QueueTypeOK
    /\ state \in {"Alive", "BeingDisconnected", "Disconnected", "Destroyed"}
    /\ released \in BOOLEAN
    /\ calls \in Seq(Steps)
    /\ tasks \subseteq Task
    /\ callbacks \in Marks
    /\ queued \subseteq Marked /\ running \subseteq Marked
    /\ waiter \in [Waiters -> WaiterStates]
    /\ answer \in [Requests -> Answers]
    /\ need \in [Requests -> Serials]

Init ==
    /\ QueueInit
    /\ state = "Alive" /\ released = FALSE /\ calls = <<>>
    /\ tasks = {} /\ callbacks = "Normal" /\ queued = {} /\ running = {}
    /\ waiter = [w \in Waiters |-> [at |-> "idle", serial |-> 0]]
    /\ answer = [r \in Requests |-> "none"]
    /\ need = [r \in Requests |-> 0]

-----------------------------------------------------------------------------
(* Calls of the application, none while another one holds the lock.        *)
CanCall == calls = <<>> /\ ~released

(* Work is recorded: normally, to be submitted soon, or passively, as the  *)
(* copies from staging memory are.                                         *)
RecordWork ==
    /\ CanCall /\ state = "Alive" /\ lastSubmitted < MaxSerial
    /\ \E normal \in BOOLEAN : Record(normal)
    /\ UNCHANGED <<serialVars, fenceVars, commandsInFlight, unusedPools, pools, poolWork,
                   gpuVars, deviceVars, calls, taskVars, waiter>>

(* APISubmit; on a device that is not alive only an error is reported.     *)
Submit ==
    /\ CanCall /\ state = "Alive" /\ lastSubmitted < MaxSerial
    /\ Record(TRUE)
    /\ calls' = <<"SubmitPending", "Tick">>
    /\ UNCHANGED <<serialVars, fenceVars, commandsInFlight, unusedPools, pools, poolWork,
                   gpuVars, deviceVars, taskVars, waiter>>

(* AddCallbackTask: the task is marked by the manager's state.             *)
AddCallbackTasks(added) ==
    queued' = queued \union {[task |-> r, mark |-> callbacks] : r \in added}

(* TrackTask, after any flush it forces.                                   *)
TrackTask(r, serial) ==
    IF serial <= completed
    THEN AddCallbackTasks({r}) /\ UNCHANGED tasks
    ELSE /\ tasks' = tasks \union {[task |-> r, serial |-> serial]}
         /\ UNCHANGED queued

Asked(r, serial) ==
    /\ answer[r] = "none"
    /\ answer' = [answer EXCEPT ![r] = "asked"]
    /\ need' = [need EXCEPT ![r] = serial]

(* A mutant: work recorded passively is not made to be submitted.          *)
OnSubmittedWorkDoneUnflushed(r) ==
    /\ CanCall /\ state = "Alive"
    /\ Asked(r, RecordedSerial)
    /\ TrackTask(r, ScheduledWorkDoneSerial(context))
    /\ UNCHANGED <<queueVars, deviceVars, calls, callbacks, running, waiter>>

(* APIOnSubmittedWorkDone: a flush is made sure of first.                  *)
OnSubmittedWorkDone(r) ==
    /\ CanCall /\ state = "Alive"
    /\ Asked(r, RecordedSerial)
    /\ context' = Flushed(context)
    /\ TrackTask(r, ScheduledWorkDoneSerial(Flushed(context)))
    /\ UNCHANGED <<serialVars, fenceVars, commandsInFlight, unusedPools, pools, poolWork,
                   gpuVars, deviceVars, calls, callbacks, running, waiter>>

(* On a device that is gone the callback is queued to report the loss.     *)
OnSubmittedWorkDoneLost(r) ==
    /\ CanCall /\ state # "Alive"
    /\ Asked(r, 0)
    /\ queued' = queued \union {[task |-> r, mark |-> "DeviceLoss"]}
    /\ UNCHANGED <<queueVars, deviceVars, calls, tasks, callbacks, running, waiter>>

(* A task that waits for a buffer's last use, MapAsync's, which may be an  *)
(* old one: a flush is forced only for a serial that is not submitted.     *)
TrackLastUse(r) ==
    /\ CanCall /\ state = "Alive"
    /\ \E serial \in 0 .. RecordedSerial :
         /\ Asked(r, serial)
         /\ context' = IF serial > lastSubmitted THEN Flushed(context) ELSE context
         /\ TrackTask(r, serial)
    /\ UNCHANGED <<serialVars, fenceVars, commandsInFlight, unusedPools, pools, poolWork,
                   gpuVars, deviceVars, calls, callbacks, running, waiter>>

(* The part of APITick that holds the lock.                                *)
APITick ==
    /\ CanCall
    /\ calls' = <<"Tick">>
    /\ UNCHANGED <<queueVars, deviceVars, taskVars, waiter>>

(* A thread that polls or waits for a serial that is not submitted flushes *)
(* and ticks under the lock; what it does next is a waiter's action.       *)
FlushForWait ==
    /\ CanCall /\ context.used
    /\ context' = Flushed(context)
    /\ calls' = <<"Tick">>
    /\ UNCHANGED <<serialVars, fenceVars, commandsInFlight, unusedPools, pools, poolWork,
                   gpuVars, deviceVars, taskVars, waiter>>

(* The application must not destroy a device that a thread still waits on. *)
NobodyWaits == \A w \in Waiters : waiter[w].at = "idle"
IsDestroying == \E i \in DOMAIN calls : calls[i] = "DestroyQueue"

APIDestroy ==
    /\ CanCall /\ NobodyWaits
    /\ state # "Destroyed"
    /\ calls' = DestroyCalls
    /\ UNCHANGED <<queueVars, deviceVars, taskVars, waiter>>

(* WillDropLastExternalRef destroys the device and flushes until nothing   *)
(* is queued.                                                              *)
DropLastRef ==
    /\ CanCall /\ NobodyWaits
    /\ released' = TRUE
    /\ calls' = IF state = "Destroyed" THEN DoneCalls ELSE DestroyCalls
    /\ UNCHANGED <<queueVars, state, taskVars, waiter>>

-----------------------------------------------------------------------------
(* The steps of a call.                                                    *)
At(step) == calls # <<>> /\ Head(calls) = step
Return == calls' = Tail(calls)
Fail(error) == calls' = HandleErrorCalls(error)

(* Device::Tick does nothing on a lost device and when no work is          *)
(* scheduled.                                                              *)
Tick ==
    /\ At("Tick")
    /\ calls' = (IF state = "Alive" /\ HasScheduledCommands THEN TickCalls ELSE <<>>) \o Tail(calls)
    /\ UNCHANGED <<queueVars, deviceVars, taskVars, waiter>>

(* CheckPassedSerials under the lock.  A query that fails leaves the       *)
(* serial as it was.                                                       *)
CheckPassedSerials ==
    /\ At("CheckPassedSerials")
    /\ \/ /\ TakeFences(PassedFences)
          /\ completed' = Max({completed, SerialOf(PassedFences)})
          /\ Return
       \/ \E taken \in SUBSET fencesInFlight :
            /\ FencesBeforeError(taken)
            /\ TakeFences(taken)
            /\ \E error \in Errors : Fail(error)
            /\ UNCHANGED completed
    /\ UNCHANGED <<lastSubmitted, poolVars, gpuVars, deviceVars, taskVars, waiter>>

(* Vulkan's TickImpl.                                                      *)
Recycle ==
    /\ At("Recycle")
    /\ RecycleCompletedCommands
    /\ Return
    /\ UNCHANGED <<serialVars, fenceVars, context, pools, poolWork, gpuVars, deviceVars,
                   taskVars, waiter>>

(* SubmitPendingCommands and the ways it can fail: before the submission,  *)
(* in it, or when the next context is prepared.  Where TickImpl's errors   *)
(* are ignored the call goes on.                                           *)
SubmitError == IF At("SubmitIgnoring") THEN Return ELSE \E error \in Errors : Fail(error)

NothingToSubmit ==
    /\ ~context.needsSubmit
    /\ Return
    /\ UNCHANGED <<serialVars, fenceVars, poolVars>>

NotSubmitted ==
    /\ context.needsSubmit
    /\ SubmitError
    /\ UNCHANGED <<serialVars, poolVars>>
    /\ \/ UNCHANGED fenceVars
       \/ /\ Available(unusedFences, fences) # {}
          /\ ReturnFence(Obtain(unusedFences, fences))

IsSubmitted ==
    /\ context.needsSubmit
    /\ Available(unusedFences, fences) # {}
    /\ Submitted(Obtain(unusedFences, fences))
    /\ \/ /\ Available(unusedPools, pools) # {}
          /\ NextPool(Obtain(unusedPools, pools))
          /\ Return
       \/ NextPoolFails /\ SubmitError

SubmitPendingCommands ==
    /\ At("SubmitPending") \/ At("SubmitIgnoring")
    /\ NothingToSubmit \/ NotSubmitted \/ IsSubmitted
    /\ UNCHANGED <<gpuVars, deviceVars, taskVars, waiter>>

(* With the validation layers on, TickImpl ends with an error when they    *)
(* have reported one; where its errors are ignored this changes nothing.   *)
CheckDebugLayer ==
    /\ At("CheckDebugLayer")
    /\ Return \/ Fail("internal")
    /\ UNCHANGED <<queueVars, deviceVars, taskVars, waiter>>

(* Queue::Tick hands the tasks whose serial has passed to the manager.     *)
TickTasks ==
    /\ At("TickTasks")
    /\ LET done == {t \in tasks : t.serial <= completed}
       IN  tasks' = tasks \ done /\ AddCallbackTasks({t.task : t \in done})
    /\ Return
    /\ UNCHANGED <<queueVars, deviceVars, callbacks, running, answer, need, waiter>>

(* Changes of DeviceBase::mState.                                          *)
Disconnect ==
    /\ At("BeginDisconnect") \/ At("Disconnect")
    /\ state' = IF At("Disconnect") THEN "Disconnected" ELSE "BeingDisconnected"
    /\ Return
    /\ UNCHANGED <<queueVars, released, taskVars, waiter>>

IdleWait ==
    /\ At("WaitForIdle")
    /\ WaitForIdle
    /\ Return
    /\ UNCHANGED <<deviceVars, taskVars, waiter>>

Assume ==
    /\ At("Assume")
    /\ AssumeCommandsComplete
    /\ Return
    /\ UNCHANGED <<fenceVars, poolVars, gpuVars, deviceVars, taskVars, waiter>>

(* Queue::HandleDeviceLoss marks every task and hands it over.             *)
LoseTasks ==
    /\ At("LoseTasks")
    /\ queued' = queued \union {[task |-> t.task, mark |-> "DeviceLoss"] : t \in tasks}
    /\ tasks' = {}
    /\ Return
    /\ UNCHANGED <<queueVars, deviceVars, callbacks, running, answer, need, waiter>>

(* CallbackTaskManager::HandleDeviceLoss and HandleShutDown: the first     *)
(* change of state counts, for the manager and for each queued task.       *)
MarkQueued(mark) ==
    IF callbacks # "Normal" THEN UNCHANGED <<callbacks, queued>>
    ELSE /\ callbacks' = mark
         /\ queued' = {[q EXCEPT !.mark = IF @ = "Normal" THEN mark ELSE @] : q \in queued}

MarkCallbacks ==
    /\ \/ At("LoseCallbacks") /\ MarkQueued("DeviceLoss")
       \/ At("ShutDownCallbacks") /\ MarkQueued("ShutDown")
    /\ Return
    /\ UNCHANGED <<queueVars, deviceVars, tasks, running, answer, need, waiter>>

Destroyed ==
    /\ At("DestroyQueue")
    /\ DestroyQueue
    /\ state' = "Destroyed"
    /\ Return
    /\ UNCHANGED <<released, taskVars, waiter>>

CallStep ==
    \/ Tick \/ CheckPassedSerials \/ Recycle \/ SubmitPendingCommands \/ CheckDebugLayer
    \/ TickTasks \/ Disconnect \/ IdleWait \/ Assume \/ LoseTasks \/ MarkCallbacks \/ Destroyed

-----------------------------------------------------------------------------
(* Threads that hold no lock.                                              *)

(* A mutant: the tasks are copied, not swapped, out of the queue.          *)
FlushCopies ==
    /\ queued # {}
    /\ running' = running \union queued
    /\ UNCHANGED <<queueVars, deviceVars, calls, tasks, callbacks, queued, answer, need, waiter>>

(* CallbackTaskManager::Flush empties the queue before it executes the     *)
(* tasks, whose callbacks may call anything, Flush included.               *)
Flush ==
    /\ queued # {}
    /\ running' = running \union queued
    /\ queued' = {}
    /\ UNCHANGED <<queueVars, deviceVars, calls, tasks, callbacks, answer, need, waiter>>

Told(mark) == IF mark = "Normal" THEN "success" ELSE "lost"

(* CallbackTask::Execute.                                                  *)
Execute ==
    \E t \in running :
        /\ running' = running \ {t}
        /\ answer' = [answer EXCEPT ![t.task] = IF @ = "asked" THEN Told(t.mark) ELSE "again"]
        /\ UNCHANGED <<queueVars, deviceVars, calls, tasks, callbacks, queued, need, waiter>>

(* The CheckPassedSerials of WaitAny and ProcessEvents takes no lock:      *)
(* fences are taken under their own, then the serial is compared and       *)
(* stored, in three steps.  An error it handles at once; that this does    *)
(* not fall into another call is assumed.                                  *)
WaiterTakes(w) ==
    /\ waiter[w].at = "idle" /\ ~IsDestroying /\ completed < lastSubmitted
    /\ \/ /\ TakeFences(PassedFences)
          /\ waiter' = [waiter EXCEPT ![w] = [at |-> "compare", serial |-> SerialOf(PassedFences)]]
          /\ UNCHANGED calls
       \/ \E taken \in SUBSET fencesInFlight :
            /\ calls = <<>> /\ FencesBeforeError(taken)
            /\ TakeFences(taken)
            /\ \E error \in Errors : Fail(error)
            /\ UNCHANGED waiter
    /\ UNCHANGED <<serialVars, poolVars, gpuVars, deviceVars, taskVars>>

WaiterCompares(w) ==
    /\ waiter[w].at = "compare"
    /\ waiter' = [waiter EXCEPT ![w].at = IF waiter[w].serial > completed THEN "store" ELSE "idle"]
    /\ UNCHANGED <<queueVars, deviceVars, calls, taskVars>>

WaiterStores(w) ==
    /\ waiter[w].at = "store"
    /\ completed' = waiter[w].serial
    /\ waiter' = [waiter EXCEPT ![w].at = "idle"]
    /\ UNCHANGED <<lastSubmitted, fenceVars, poolVars, gpuVars, deviceVars, calls, taskVars>>

Gpu ==
    /\ GpuFinish \/ DriverLoss
    /\ UNCHANGED <<deviceVars, calls, taskVars, waiter>>

Call ==
    \/ RecordWork \/ Submit \/ APITick \/ FlushForWait \/ APIDestroy \/ DropLastRef
    \/ \E r \in Requests :
         OnSubmittedWorkDone(r) \/ OnSubmittedWorkDoneLost(r) \/ TrackLastUse(r)

Wait == \E w \in Waiters : WaiterTakes(w) \/ WaiterCompares(w) \/ WaiterStores(w)

Next == Call \/ CallStep \/ Flush \/ Execute \/ Wait \/ Gpu

(* A call that holds the lock and a callback that runs come to an end; the *)
(* thread that drops the last reference flushes until nothing is queued.   *)
Fairness == WF_vars(CallStep) /\ WF_vars(Execute) /\ WF_vars(released /\ Flush)

Spec == Init /\ [][Next]_vars /\ Fairness

-----------------------------------------------------------------------------
(* The completed serial runs neither ahead of the submissions nor, while   *)
(* the device lives, ahead of the GPU (ExecutionQueue.cpp:44-59), though   *)
(* threads check it without the lock.                                      *)
CompletedIsFinished ==
    /\ completed <= lastSubmitted
    /\ state = "Alive" /\ callbacks = "Normal" => completed <= finished

(* A task never waits for a serial that nobody is going to submit: it is   *)
(* submitted already or the recorded commands are marked to be, until the  *)
(* loss of the device answers it (ExecutionQueue.cpp:87-101, "it won't be  *)
(* submitted surely").                                                     *)
TasksWillPass ==
    state = "Alive" /\ callbacks = "Normal" =>
        \A t \in tasks : t.serial <= lastSubmitted \/ context.needsSubmit

(* A device whose last reference is dropped answers every request, lost,   *)
(* destroyed or alive, whatever was in flight (Device.cpp:468-518).        *)
ReleaseAnswersAll == released ~> (\A r \in Requests : answer[r] # "asked")

(* The queue keeps the promise of WorkDone: each request is answered once, *)
(* success means that the GPU has finished what was recorded before, a     *)
(* loss is told only when the device is gone.                              *)
Promise ==
    INSTANCE WorkDone WITH gone <- (state # "Alive" \/ callbacks # "Normal")

KeepsWorkDone == Promise!Spec

(* APITick "Returns true if future ticking is needed" (Device.cpp:1585):   *)
(* a device that calls itself idle (Device.cpp:978-987) has no task left.  *)
IdleMeansNoTasks ==
    (state = "Alive" /\ calls = <<>> /\ queued = {} /\ ~HasScheduledCommands) => tasks = {}
=============================================================================
