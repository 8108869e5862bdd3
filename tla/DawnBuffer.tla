------------------------------ MODULE DawnBuffer ------------------------------
(***************************************************************************)
(* Mapping of one Dawn buffer (native/Buffer.cpp), by callback             *)
(* (APIMapAsync, a task in flight) and by future (APIMapAsyncF, an event). *)
(* One thread calls the device.  Of the queue (Queue.cpp, the Vulkan       *)
(* queue) the serials and the tasks in flight are kept, of the callback    *)
(* manager its state and its queue, of the event manager the map events.   *)
(* Which of several queued callbacks is run next does not matter here, so  *)
(* they are sets.  Ranges, modes of access and the data are left out.      *)
(***************************************************************************)
EXTENDS Naturals, Sequences

CONSTANTS
    Requests,  \* the calls of MapAsync and MapAsyncF
    ApiSets,   \* the entry points one application may use for the buffer
    Reentrant, \* callbacks of events may call the buffer or the device
    Nobody,
    MaxSerial  \* bound: no work is given to the queue beyond this serial

ASSUME BufferBounds ==
    /\ MaxSerial \in Nat /\ Reentrant \in BOOLEAN
    /\ Nobody \notin Requests /\ ApiSets \subseteq SUBSET {"task", "event"}

VARIABLES
    apis,          \* the member of ApiSets this application uses
    state,         \* mState
    staging,       \* mStagingBuffer is there
    alive,         \* the buffer is in the device's list (IsAlive)
    lastMapID,     \* mLastMapID
    mapCallback,   \* mMapCallback
    pendingEvent,  \* mPendingMapEvent
    lastUsage,     \* mLastUsageSerial
    unmapping,     \* UnmapInternals that are calling an event's callback
    device,        \* the device's mState
    ending,        \* DeviceBase::Destroy is destroying the objects
    lastSubmitted, completed, \* the queue's serials
    context,       \* what the recording context holds
    finished,      \* the GPU has executed submissions up to this serial
    tasks,         \* mTasksInFlight
    callbacks,     \* CallbackTaskManager: its state, as a status
    queue,         \* its queue
    running,       \* what a Flush has taken from it
    events,        \* the map events that are not complete
    answer         \* what each request was told

bufferVars == <<state, staging, alive, lastMapID, mapCallback, pendingEvent, lastUsage, unmapping>>
deviceVars == <<device, ending, context, lastSubmitted, completed, finished>>
taskVars == <<tasks, callbacks, queue, running>>
vars == <<apis, bufferVars, deviceVars, taskVars, events, answer>>

Failures ==
    {"ValidationError", "MappingAlreadyPending", "UnmappedBeforeCallback",
     "DestroyedBeforeCallback", "DeviceLost"}
Statuses == Failures \union {"Success"}
Owners == Requests \union {Nobody}
Task == [id: Nat, serial: Nat]
Callback == [request: Owners, id: Nat, status: Statuses]
Event == [request: Requests, serial: Nat, status: Statuses, spontaneous: BOOLEAN]

(* Every variable has its type.                                            *)
TypeOK ==
    /\ apis \in ApiSets
    /\ state \in {"Unmapped", "PendingMap", "Mapped", "MappedAtCreation", "Destroyed"}
    /\ staging \in BOOLEAN /\ alive \in BOOLEAN
    /\ lastMapID \in Nat /\ lastUsage \in Nat
    /\ mapCallback \in Owners /\ pendingEvent \in Owners
    /\ unmapping \in Seq({"Unmap", "Destroy"})
    /\ device \in {"Alive", "Disconnected", "Destroyed"} /\ ending \in BOOLEAN
    /\ context \in {"empty", "passive", "needsSubmit"}
    /\ lastSubmitted \in Nat /\ completed \in Nat /\ finished \in Nat
    /\ tasks \subseteq Task
    /\ callbacks \in {"Success", "DeviceLost", "DestroyedBeforeCallback"}
    /\ queue \subseteq Callback /\ running \subseteq Callback
    /\ events \subseteq Event
    /\ answer \in [Requests -> {"none", "asked"} \union Statuses]

Init ==
    /\ apis \in ApiSets
    /\ state \in {"Unmapped", "MappedAtCreation"}
    /\ staging \in {FALSE, state = "MappedAtCreation"}
    /\ alive = TRUE /\ lastMapID = 0 /\ lastUsage = 0
    /\ mapCallback = Nobody /\ pendingEvent = Nobody /\ unmapping = <<>>
    /\ device = "Alive" /\ ending = FALSE /\ context = "empty"
    /\ lastSubmitted = 0 /\ completed = 0 /\ finished = 0
    /\ tasks = {} /\ callbacks = "Success" /\ queue = {} /\ running = {}
    /\ events = {} /\ answer = [r \in Requests |-> "none"]

-----------------------------------------------------------------------------
(* The application calls when it is in no other call or, if its callbacks  *)
(* do so, from the callback of an event.                                   *)
CanCall == Reentrant \/ (unmapping = <<>> /\ ~ending)

PendingSerial == lastSubmitted + 1
IsLost == device # "Alive"

(* Callback tasks: a request's own, and the answer to a request.  The      *)
(* first change of state counts, and answers are not changed by it.        *)
MapRequest(id, status) == [request |-> Nobody, id |-> id, status |-> status]
Answer(r, status) == [request |-> r, id |-> 0, status |-> status]
Marked(c, status) ==
    [c EXCEPT !.status = IF c.request = Nobody /\ @ = "Success" THEN status ELSE @]
AllMarked(cs, status) == {Marked(c, status) : c \in cs}

AddCallbackTask(c) == queue' = queue \union {Marked(c, callbacks)}

(* HandleError on an error that loses the device: what is in flight is     *)
(* handed over, all callbacks are marked, and no command runs any more.    *)
LostQueue ==
    LET all == queue \union {MapRequest(t.id, "DeviceLost") : t \in tasks}
    IN  IF callbacks = "Success" THEN AllMarked(all, "DeviceLost") ELSE all

AssumeCommandsComplete ==
    lastSubmitted' = PendingSerial /\ completed' = PendingSerial /\ finished' = PendingSerial

HandleLoss ==
    /\ device' = "Disconnected"
    /\ AssumeCommandsComplete
    /\ tasks' = {}
    /\ callbacks' = IF callbacks = "Success" THEN "DeviceLost" ELSE callbacks

LoseDevice ==
    /\ CanCall /\ ~IsLost /\ ~ending
    /\ HandleLoss /\ queue' = LostQueue
    /\ UNCHANGED <<apis, bufferVars, ending, context, running, events, answer>>

-----------------------------------------------------------------------------
(* Use of the buffer: ValidateCanUseOnQueueNow refuses it but when it is   *)
(* unmapped.  A submission ticks the device; a write is recorded, to be    *)
(* submitted soon only when much is uploaded.                              *)
CanUseOnQueueNow == state = "Unmapped" /\ ~IsLost

(* What Queue::Tick and CheckPassedSerials do to tasks and serials.        *)
QueueTick ==
    LET done == {t \in tasks : t.serial <= finished}
    IN  /\ completed' = finished
        /\ tasks' = tasks \ done
        /\ queue' = queue \union {Marked(MapRequest(t.id, "Success"), callbacks) : t \in done}

Submit ==
    /\ CanCall /\ CanUseOnQueueNow /\ lastSubmitted < MaxSerial
    /\ lastUsage' = PendingSerial /\ lastSubmitted' = PendingSerial
    /\ context' = "empty"
    /\ QueueTick
    /\ UNCHANGED <<apis, state, staging, alive, lastMapID, mapCallback, pendingEvent, unmapping,
                   device, ending, finished, callbacks, running, events, answer>>

WriteBuffer ==
    /\ CanCall /\ CanUseOnQueueNow /\ lastSubmitted < MaxSerial
    /\ lastUsage' = PendingSerial
    /\ context' \in {"needsSubmit", IF context = "empty" THEN "passive" ELSE context}
    /\ UNCHANGED <<apis, state, staging, alive, lastMapID, mapCallback, pendingEvent, unmapping,
                   device, ending, lastSubmitted, completed, finished, taskVars, events, answer>>

(* Device::Tick, while work is scheduled.                                  *)
Tick ==
    /\ CanCall /\ ~IsLost
    /\ lastSubmitted > completed \/ context = "needsSubmit"
    /\ QueueTick
    /\ IF context = "needsSubmit"
       THEN context' = "empty" /\ lastSubmitted' = PendingSerial
       ELSE UNCHANGED <<context, lastSubmitted>>
    /\ UNCHANGED <<apis, bufferVars, device, ending, finished, callbacks, running, events, answer>>

(* The event manager's poll checks the serials but ticks no task.          *)
CheckPassedSerials ==
    /\ CanCall /\ "event" \in apis
    /\ completed < finished
    /\ completed' = finished
    /\ UNCHANGED <<apis, bufferVars, device, ending, context, lastSubmitted, finished, taskVars,
                   events, answer>>

Gpu ==
    /\ finished < lastSubmitted
    /\ finished' = finished + 1
    /\ UNCHANGED <<apis, bufferVars, device, ending, context, lastSubmitted, completed, taskVars,
                   events, answer>>

-----------------------------------------------------------------------------
(* A mutant: a validation error leaves the status unset.                   *)
EarlyStatusesUnset ==
    IF state = "PendingMap" THEN {"MappingAlreadyPending"}
    ELSE IF IsLost THEN {"DeviceLost"} ELSE {"none"}

(* ValidateMapAsync and what both entry points check before it; the        *)
(* arguments may be wrong too.                                             *)
EarlyStatuses ==
    IF state = "PendingMap" THEN {"MappingAlreadyPending"}
    ELSE IF IsLost THEN {"DeviceLost"} ELSE {"ValidationError"}

CanMap == state = "Unmapped" /\ ~IsLost

MapAsyncRefused(r) ==
    /\ CanCall /\ "task" \in apis /\ answer[r] = "none"
    /\ \E status \in EarlyStatuses : AddCallbackTask(Answer(r, status))
    /\ answer' = [answer EXCEPT ![r] = "asked"]
    /\ UNCHANGED <<apis, bufferVars, deviceVars, tasks, callbacks, running, events>>

(* Vulkan's MapAsyncImpl may record a barrier or a clear, which uses the   *)
(* buffer; in any case the context is to be submitted soon, so that        *)
(* TrackTask has no flush to force.                                        *)
MapAsyncImpl ==
    /\ lastUsage' \in {lastUsage, PendingSerial}
    /\ context' = "needsSubmit"

(* TrackTask for the serial of the buffer's last use.                      *)
TrackTask(id, serial) ==
    IF serial <= completed
    THEN AddCallbackTask(MapRequest(id, "Success")) /\ UNCHANGED tasks
    ELSE tasks' = tasks \union {[id |-> id, serial |-> serial]} /\ UNCHANGED queue

StartMapAsync(r) ==
    /\ CanCall /\ "task" \in apis /\ answer[r] = "none"
    /\ CanMap
    /\ lastMapID' = lastMapID + 1
    /\ state' = "PendingMap"
    /\ answer' = [answer EXCEPT ![r] = "asked"]

(* A mutant: the map request keeps the number of the one before.           *)
MapAsyncSameID(r) ==
    /\ CanCall /\ "task" \in apis /\ answer[r] = "none"
    /\ CanMap
    /\ UNCHANGED lastMapID
    /\ state' = "PendingMap"
    /\ answer' = [answer EXCEPT ![r] = "asked"]
    /\ mapCallback' = r
    /\ MapAsyncImpl
    /\ TrackTask(lastMapID, lastUsage')
    /\ UNCHANGED <<apis, staging, alive, pendingEvent, unmapping, device, ending, lastSubmitted,
                   completed, finished, callbacks, running, events>>

MapAsync(r) ==
    /\ StartMapAsync(r)
    /\ mapCallback' = r
    /\ MapAsyncImpl
    /\ TrackTask(lastMapID', lastUsage')
    /\ UNCHANGED <<apis, staging, alive, pendingEvent, unmapping, device, ending, lastSubmitted,
                   completed, finished, callbacks, running, events>>

(* A MapAsyncImpl that fails, no Vulkan one does, loses the device; the    *)
(* mapping stays pending.                                                  *)
MapAsyncFails(r) ==
    /\ ~ending
    /\ StartMapAsync(r)
    /\ HandleLoss /\ queue' = LostQueue \union {Answer(r, "DeviceLost")}
    /\ UNCHANGED <<apis, staging, alive, mapCallback, pendingEvent, lastUsage, unmapping, ending,
                   context, running, events>>

(* A mutant: an event waits until a later serial has passed.               *)
ReadyAfter(e) == e.serial < completed

(* TrackEvent completes a spontaneous event that is ready.                 *)
Ready(e) == e.serial <= completed

MapAsyncFRefused(r) ==
    /\ CanCall /\ "event" \in apis /\ answer[r] = "none"
    /\ \E status \in EarlyStatuses :
         \/ answer' = [answer EXCEPT ![r] = status] /\ UNCHANGED events
         \/ /\ events' = events \union
                 {[request |-> r, serial |-> 0, status |-> status, spontaneous |-> FALSE]}
            /\ answer' = [answer EXCEPT ![r] = "asked"]
    /\ UNCHANGED <<apis, bufferVars, deviceVars, taskVars>>

MapAsyncF(r) ==
    /\ CanCall /\ "event" \in apis /\ answer[r] = "none"
    /\ CanMap
    /\ MapAsyncImpl
    /\ \E spontaneous \in BOOLEAN :
         LET e == [request |-> r, serial |-> lastUsage', status |-> "Success",
                   spontaneous |-> spontaneous]
         IN  IF spontaneous /\ Ready(e)
             THEN /\ state' = "Mapped" /\ answer' = [answer EXCEPT ![r] = "Success"]
                  /\ UNCHANGED <<pendingEvent, events>>
             ELSE /\ state' = "PendingMap" /\ answer' = [answer EXCEPT ![r] = "asked"]
                  /\ pendingEvent' = r /\ events' = events \union {e}
    /\ UNCHANGED <<apis, staging, alive, lastMapID, mapCallback, unmapping, device, ending,
                   lastSubmitted, completed, finished, taskVars>>

MapAsyncFFails(r) ==
    /\ CanCall /\ "event" \in apis /\ answer[r] = "none" /\ ~ending
    /\ CanMap
    /\ HandleLoss /\ queue' = LostQueue
    /\ \/ answer' = [answer EXCEPT ![r] = "DeviceLost"] /\ UNCHANGED events
       \/ /\ events' = events \union
               {[request |-> r, serial |-> 0, status |-> "DeviceLost", spontaneous |-> FALSE]}
          /\ answer' = [answer EXCEPT ![r] = "asked"]
    /\ UNCHANGED <<apis, bufferVars, ending, context, running>>

-----------------------------------------------------------------------------
(* CallbackTaskManager::Flush, and each callback it runs.                  *)
Flush ==
    /\ running = {} /\ queue # {} /\ CanCall
    /\ running' = queue /\ queue' = {}
    /\ UNCHANGED <<apis, bufferVars, deviceVars, tasks, callbacks, events, answer>>

(* CallbackOnMapRequestCompleted: the request maps the buffer if it is the *)
(* latest and still pending, and its callback is taken if it is there.     *)
RunCallback ==
    /\ CanCall
    /\ \E c \in running :
         LET isLatest == c.request = Nobody /\ c.id = lastMapID
         IN  /\ running' = running \ {c}
             /\ state' = IF isLatest /\ c.status = "Success" /\ state = "PendingMap"
                         THEN "Mapped" ELSE state
             /\ IF isLatest /\ mapCallback # Nobody
                THEN /\ answer' = [answer EXCEPT ![mapCallback] =
                                     IF IsLost THEN "DeviceLost" ELSE c.status]
                     /\ mapCallback' = Nobody
                ELSE /\ answer' = IF c.request = Nobody THEN answer
                                  ELSE [answer EXCEPT ![c.request] = c.status]
                     /\ UNCHANGED mapCallback
    /\ UNCHANGED <<apis, staging, alive, lastMapID, pendingEvent, lastUsage, unmapping, deviceVars,
                   tasks, callbacks, queue, events>>

(* MapAsyncEvent::Complete, called by the event manager.                   *)
Complete(e) ==
    /\ CanCall /\ Ready(e)
    /\ events' = events \ {e}
    /\ answer' = [answer EXCEPT ![e.request] = e.status]
    /\ IF e.status = "Success"
       THEN state' = "Mapped" /\ pendingEvent' = Nobody
       ELSE UNCHANGED <<state, pendingEvent>>
    /\ UNCHANGED <<apis, staging, alive, lastMapID, mapCallback, lastUsage, unmapping, deviceVars,
                   taskVars>>

-----------------------------------------------------------------------------
(* UnmapInternal(status), called by Unmap or by Destroy, which then sets   *)
(* the state.  A pending event is given the status; if it is spontaneous   *)
(* its callback is called before the state changes.  A pending callback is *)
(* queued.                                                                 *)
After(caller) == IF caller = "Destroy" THEN "Destroyed" ELSE "Unmapped"

UnmapEarly(caller, status) ==
    LET e == CHOOSE e \in events : e.request = pendingEvent /\ e.status = "Success"
    IN  /\ pendingEvent' = Nobody
        /\ IF e.spontaneous
           THEN /\ events' = events \ {e} /\ answer' = [answer EXCEPT ![e.request] = status]
                /\ unmapping' = <<caller>> \o unmapping /\ UNCHANGED state
           ELSE /\ events' = (events \ {e}) \union {[e EXCEPT !.status = status]}
                /\ state' = After(caller) /\ UNCHANGED <<answer, unmapping>>
        /\ UNCHANGED <<mapCallback, queue>>

UnmapCallback(caller, status) ==
    /\ IF mapCallback = Nobody THEN UNCHANGED queue
       ELSE AddCallbackTask(Answer(mapCallback, IF IsLost THEN "DeviceLost" ELSE status))
    /\ mapCallback' = Nobody
    /\ state' = After(caller)
    /\ UNCHANGED <<pendingEvent, unmapping, events, answer>>

UnmapInternal(caller, status) ==
    IF state = "PendingMap"
    THEN IF pendingEvent # Nobody THEN UnmapEarly(caller, status) ELSE UnmapCallback(caller, status)
    ELSE state' = After(caller) /\ UNCHANGED <<pendingEvent, unmapping, mapCallback, queue, events, answer>>

(* APIUnmap, on a device that is alive; a destroyed buffer stays as it is. *)
(* A staging buffer is copied by a command, recorded passively, and given  *)
(* up.                                                                     *)
Unmap ==
    /\ CanCall /\ ~IsLost /\ state # "Destroyed"
    /\ IF staging
       THEN /\ lastUsage' = PendingSerial
            /\ context' \in {"needsSubmit", IF context = "empty" THEN "passive" ELSE context}
       ELSE UNCHANGED <<lastUsage, context>>
    /\ staging' = FALSE
    /\ UnmapInternal("Unmap", "UnmappedBeforeCallback")
    /\ UNCHANGED <<apis, alive, lastMapID, device, ending, lastSubmitted, completed, finished,
                   tasks, callbacks, running>>

(* Destroy, by the application or when the last reference goes, or by the  *)
(* device: once.                                                           *)
DestroyBuffer ==
    /\ alive /\ alive' = FALSE
    /\ staging' = FALSE
    /\ UnmapInternal("Destroy", "DestroyedBeforeCallback")
    /\ UNCHANGED <<apis, lastMapID, lastUsage, deviceVars, tasks, callbacks, running>>

Destroy == (CanCall \/ ending) /\ DestroyBuffer

FinishUnmap ==
    /\ unmapping # <<>>
    /\ state' = After(Head(unmapping))
    /\ unmapping' = Tail(unmapping)
    /\ UNCHANGED <<apis, staging, alive, lastMapID, mapCallback, pendingEvent, lastUsage,
                   deviceVars, taskVars, events, answer>>

(* DeviceBase::Destroy: callbacks are marked, the GPU is waited for, the   *)
(* objects are destroyed, by Destroy, and the queue is ticked.             *)
BeginDestroyDevice ==
    /\ CanCall /\ device # "Destroyed" /\ ~ending
    /\ ending' = TRUE
    /\ IF callbacks = "Success"
       THEN /\ callbacks' = "DestroyedBeforeCallback"
            /\ queue' = AllMarked(queue, "DestroyedBeforeCallback")
       ELSE UNCHANGED <<callbacks, queue>>
    /\ IF IsLost THEN UNCHANGED <<lastSubmitted, completed, finished, context>>
       ELSE AssumeCommandsComplete /\ context' = "empty"
    /\ UNCHANGED <<apis, bufferVars, device, tasks, running, events, answer>>

EndDestroyDevice ==
    /\ ending /\ ~alive /\ unmapping = <<>>
    /\ ending' = FALSE /\ device' = "Destroyed"
    /\ QueueTick
    /\ UNCHANGED <<apis, bufferVars, context, lastSubmitted, finished, callbacks, running, events,
                   answer>>

-----------------------------------------------------------------------------
Next ==
    \/ \E r \in Requests :
         \/ MapAsync(r) \/ MapAsyncRefused(r) \/ MapAsyncFails(r)
         \/ MapAsyncF(r) \/ MapAsyncFRefused(r) \/ MapAsyncFFails(r)
    \/ Submit \/ WriteBuffer \/ Unmap \/ Destroy \/ FinishUnmap
    \/ Tick \/ CheckPassedSerials \/ Flush \/ RunCallback
    \/ \E e \in events : Complete(e)
    \/ Gpu \/ LoseDevice \/ BeginDestroyDevice \/ EndDestroyDevice

(* The application ticks the device and polls its futures again and again, *)
(* and the GPU executes what is submitted.                                 *)
Fairness ==
    /\ WF_vars(Tick) /\ WF_vars(CheckPassedSerials) /\ WF_vars(Flush) /\ WF_vars(RunCallback)
    /\ WF_vars(\E e \in events : Complete(e))
    /\ WF_vars(Gpu) /\ WF_vars(FinishUnmap)
    /\ WF_vars(ending /\ Destroy) /\ WF_vars(EndDestroyDevice)

Spec == Init /\ [][Next]_vars /\ Fairness

-----------------------------------------------------------------------------
(* A buffer whose mapping is pending or which is mapped keeps to the       *)
(* promise of BufferMapping: answers come once, a request is told          *)
(* "Success" just when the buffer becomes mapped for it, and no work of    *)
(* the GPU's uses a mapped buffer, whatever was unmapped, mapped again,    *)
(* destroyed or lost while requests were in flight.                        *)
MapState ==
    CASE state \in {"Mapped", "MappedAtCreation"} -> "mapped"
      [] state = "PendingMap" -> "pending"
      [] OTHER -> "unmapped"

Mapping ==
    INSTANCE BufferMapping WITH
        map <- MapState,
        owner <- IF pendingEvent # Nobody THEN pendingEvent ELSE mapCallback,
        busy <- lastUsage > finished

MapsAsPromised == Mapping!Spec

(* A request that is made is answered, as long as the application ticks    *)
(* the device and polls its futures.                                       *)
EveryRequestAnswered ==
    \A r \in Requests : answer[r] = "asked" ~> answer[r] \notin {"none", "asked"}

(* "Test that it is invalid to submit a destroyed buffer in a queue"       *)
(* (BufferValidationTests.cpp:816).                                        *)
DestroyedIsRefused == ~alive /\ unmapping = <<>> => ~CanUseOnQueueNow
=============================================================================
