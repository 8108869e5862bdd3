--------------------------- MODULE DawnBuffer_proofs ---------------------------
(***************************************************************************)
(* Proofs about DawnBuffer, for every number of requests: the types for    *)
(* any application, and that mapping keeps the promise of BufferMapping    *)
(* for one that uses one of the two entry points for a buffer and calls    *)
(* nothing from the callback of an event.                                  *)
(***************************************************************************)
EXTENDS DawnBuffer, SequenceTheorems, TLAPS

(* What the promise is proved under; reentrant_unmap shows that the code   *)
(* does not keep it from such callbacks.                                   *)
OneEntryPoint == ~Reentrant /\ ApiSets \subseteq {{"task"}, {"event"}}

-----------------------------------------------------------------------------
(* An early unmap finds the event that is pending.                         *)
PendingEventOK ==
    pendingEvent # Nobody => \E e \in events : e.request = pendingEvent /\ e.status = "Success"

(* What each entry point leaves alone.                                     *)
ApisOK ==
    /\ apis \in {{"task"}, {"event"}}
    /\ "event" \notin apis => events = {} /\ pendingEvent = Nobody /\ unmapping = <<>>
    /\ "task" \notin apis => mapCallback = Nobody /\ tasks = {} /\ queue = {} /\ running = {}

(* The GPU has finished with what is mapped, and nothing uses the buffer   *)
(* beyond the work that is recorded.                                       *)
SerialsOK ==
    /\ completed <= finished /\ lastUsage <= lastSubmitted + 1
    /\ state \in {"Mapped", "MappedAtCreation"} => lastUsage <= finished

-----------------------------------------------------------------------------
(* By callback.  Each map request and each answer exists once.             *)
SameKey(c, d) == c.request = d.request /\ c.id = d.id
IsLatest(c) == c.request = Nobody /\ c.id = lastMapID

CallbacksOK ==
    /\ \A t \in tasks : t.id <= lastMapID
    /\ \A c \in queue \union running : c.request = Nobody => c.id <= lastMapID
    /\ \A t, u \in tasks : t.id = u.id => t = u
    /\ \A t \in tasks, c \in queue \union running : c.request = Nobody => c.id # t.id
    /\ \A c, d \in queue : SameKey(c, d) => c = d
    /\ \A c, d \in running : SameKey(c, d) => c = d
    /\ \A c \in queue, d \in running : ~SameKey(c, d)

(* An answer on its way is a failure, and the only one of its request.     *)
AnswersOK ==
    /\ mapCallback # Nobody => answer[mapCallback] = "asked" /\ state = "PendingMap"
    /\ \A c \in queue \union running : c.request # Nobody =>
         /\ answer[c.request] = "asked" /\ c.status \in Failures /\ c.id = 0
         /\ c.request # mapCallback

(* The latest map request waits for the last use of the buffer; once its   *)
(* callback is answered, or was refused, there is none.                    *)
LatestOK ==
    state = "PendingMap" =>
        /\ \A t \in tasks : t.id = lastMapID => mapCallback # Nobody /\ lastUsage <= t.serial
        /\ \A c \in queue \union running : IsLatest(c) =>
             mapCallback # Nobody /\ (c.status = "Success" => lastUsage <= finished)

(* By future.  Only the pending event will succeed, after the last use.    *)
EventsOK ==
    /\ \A e \in events : answer[e.request] = "asked"
    /\ \A d, e \in events : d.request = e.request => d = e
    /\ \A e \in events : e.status = "Success" => pendingEvent = e.request /\ lastUsage <= e.serial
    /\ pendingEvent # Nobody => state = "PendingMap" /\ unmapping = <<>>

RequestsOK == ApisOK /\ CallbacksOK /\ AnswersOK /\ LatestOK /\ EventsOK
RInv == TypeOK /\ PendingEventOK /\ SerialsOK /\ RequestsOK

-----------------------------------------------------------------------------
USE DEF bufferVars, deviceVars, taskVars, vars

(* What a mark does to a callback.                                         *)
LEMMA MarkedIs ==
    ASSUME NEW c \in Callback, NEW status \in Statuses
    PROVE  /\ Marked(c, status) \in Callback
           /\ SameKey(Marked(c, status), c)
           /\ c.request # Nobody => Marked(c, status) = c
           /\ Marked(c, status).status = "Success" => c.status = "Success"
  BY DEF Marked, Callback, SameKey

LEMMA RequestIs ==
    ASSUME NEW id \in Nat, NEW r \in Requests, NEW status \in Statuses
    PROVE  /\ MapRequest(id, status) \in Callback /\ Answer(r, status) \in Callback
           /\ MapRequest(id, status).request = Nobody /\ MapRequest(id, status).id = id
           /\ MapRequest(id, status).status = status
           /\ Answer(r, status).request = r /\ Answer(r, status).id = 0
           /\ Answer(r, status).status = status
  BY DEF MapRequest, Answer, Callback, Owners

(* What is queued when tasks are handed on: what was, and their requests.  *)
HandedOn(done, new) ==
    /\ new \subseteq Callback
    /\ \A c \in new :
         \/ \E d \in queue :
               /\ SameKey(c, d)
               /\ c.request # Nobody => c = d
               /\ c.status = "Success" => d.status = "Success"
         \/ c.request = Nobody /\ \E u \in done : c.id = u.id

LEMMA TickHandsOn ==
    ASSUME TypeOK, QueueTick
    PROVE  /\ HandedOn(tasks \ tasks', queue') /\ tasks' \subseteq tasks
           /\ completed' = finished
           /\ \A u \in tasks \ tasks' : u.serial <= finished
<1> DEFINE done == {u \in tasks : u.serial <= finished}
<1>1. /\ completed' = finished /\ tasks' = tasks \ done /\ tasks \ tasks' = done
      /\ queue' = queue \union {Marked(MapRequest(u.id, "Success"), callbacks) : u \in done}
  BY DEF QueueTick
<1>2. \A u \in done : u.serial <= finished /\ u \in tasks
  OBVIOUS
<1> HIDE DEF done
<1>3. callbacks \in Statuses /\ "Success" \in Statuses /\ queue \subseteq Callback
  BY DEF TypeOK, Statuses, Failures
<1>4. ASSUME NEW u \in done
      PROVE  /\ Marked(MapRequest(u.id, "Success"), callbacks) \in Callback
             /\ Marked(MapRequest(u.id, "Success"), callbacks).request = Nobody
             /\ Marked(MapRequest(u.id, "Success"), callbacks).id = u.id
  <2>1. u.id \in Nat
    BY <1>2 DEF TypeOK, Task
  <2>2. /\ MapRequest(u.id, "Success") \in Callback
        /\ MapRequest(u.id, "Success").request = Nobody /\ MapRequest(u.id, "Success").id = u.id
    BY <1>3, <2>1 DEF MapRequest, Callback, Owners
  <2>3. QED
    BY <1>3, <2>2, MarkedIs DEF SameKey
<1>5. HandedOn(done, queue')
  <2>1. queue' \subseteq Callback
    BY <1>1, <1>3, <1>4
  <2>2. ASSUME NEW c \in queue'
        PROVE  c \in queue \/ (c.request = Nobody /\ \E u \in done : c.id = u.id)
    BY <1>1, <1>4
  <2>3. QED
    BY <2>1, <2>2 DEF HandedOn, SameKey
<1>6. QED
  BY <1>1, <1>2, <1>5

LEMMA LossHandsOn ==
    ASSUME TypeOK
    PROVE  HandedOn(tasks, LostQueue)
<1> DEFINE all == queue \union {MapRequest(u.id, "DeviceLost") : u \in tasks}
<1>1. LostQueue = IF callbacks = "Success" THEN AllMarked(all, "DeviceLost") ELSE all
  BY DEF LostQueue
<1>2. \A u \in tasks :
        /\ MapRequest(u.id, "DeviceLost") \in Callback
        /\ MapRequest(u.id, "DeviceLost").request = Nobody /\ MapRequest(u.id, "DeviceLost").id = u.id
  BY DEF MapRequest, Callback, Owners, Statuses, Failures, TypeOK, Task
<1>3. /\ all \subseteq Callback
      /\ \A c \in all : c \in queue \/ (c.request = Nobody /\ \E u \in tasks : c.id = u.id)
  BY <1>2 DEF TypeOK
<1> HIDE DEF all
<1>4. CASE LostQueue = all
  BY <1>3, <1>4 DEF HandedOn, SameKey
<1>5. CASE LostQueue = AllMarked(all, "DeviceLost")
  <2>1. ASSUME NEW c \in LostQueue
        PROVE  \E d \in all :
                 /\ c \in Callback /\ SameKey(c, d) /\ (c.request # Nobody => c = d)
                 /\ c.status = "Success" => d.status = "Success"
    <3>1. PICK d \in all : c = Marked(d, "DeviceLost")
      BY <1>5, <2>1 DEF AllMarked
    <3>2. d \in Callback /\ "DeviceLost" \in Statuses
      BY <1>3 DEF Statuses, Failures
    <3>3. QED
      BY <3>1, <3>2, MarkedIs DEF SameKey
  <2>2. QED
    BY <1>3, <2>1 DEF HandedOn, SameKey
<1>6. QED
  BY <1>1, <1>4, <1>5

LEMMA MarkHandsOn ==
    ASSUME TypeOK, NEW status \in Statuses
    PROVE  HandedOn({}, AllMarked(queue, status))
<1>1. ASSUME NEW c \in AllMarked(queue, status)
      PROVE  \E d \in queue :
               /\ c \in Callback /\ SameKey(c, d) /\ (c.request # Nobody => c = d)
               /\ c.status = "Success" => d.status = "Success"
  <2>1. PICK d \in queue : c = Marked(d, status)
    BY <1>1 DEF AllMarked
  <2>2. d \in Callback
    BY DEF TypeOK
  <2>3. QED
    BY <2>1, <2>2, MarkedIs DEF SameKey
<1>2. QED
  BY <1>1 DEF HandedOn

(* The event that is unmapped early.                                       *)
LEMMA EarlyEvent ==
    ASSUME PendingEventOK, pendingEvent # Nobody, NEW caller, NEW status, UnmapEarly(caller, status)
    PROVE  \E e \in events :
             /\ e.request = pendingEvent /\ e.status = "Success"
             /\ pendingEvent' = Nobody /\ UNCHANGED <<mapCallback, queue>>
             /\ \/ /\ e.spontaneous
                   /\ events' = events \ {e} /\ answer' = [answer EXCEPT ![e.request] = status]
                   /\ unmapping' = <<caller>> \o unmapping /\ UNCHANGED state
                \/ /\ events' = (events \ {e}) \union {[e EXCEPT !.status = status]}
                   /\ state' = After(caller) /\ UNCHANGED <<answer, unmapping>>
<1> DEFINE e == CHOOSE e \in events : e.request = pendingEvent /\ e.status = "Success"
<1>1. e \in events /\ e.request = pendingEvent /\ e.status = "Success"
  BY DEF PendingEventOK
<1>2. /\ pendingEvent' = Nobody
      /\ IF e.spontaneous
         THEN /\ events' = events \ {e} /\ answer' = [answer EXCEPT ![e.request] = status]
              /\ unmapping' = <<caller>> \o unmapping /\ UNCHANGED state
         ELSE /\ events' = (events \ {e}) \union {[e EXCEPT !.status = status]}
              /\ state' = After(caller) /\ UNCHANGED <<answer, unmapping>>
      /\ UNCHANGED <<mapCallback, queue>>
  BY DEF UnmapEarly
<1> HIDE DEF e
<1>3. QED
  BY <1>1, <1>2

-----------------------------------------------------------------------------
(* The types, for any application.                                         *)
TypesOK == TypeOK /\ PendingEventOK

LEMMA UnmapTypes ==
    ASSUME TypesOK, NEW caller \in {"Unmap", "Destroy"}, NEW status \in Failures,
           UnmapInternal(caller, status), UNCHANGED <<tasks, callbacks, running>>
    PROVE  /\ state' \in {"Unmapped", "PendingMap", "Mapped", "MappedAtCreation", "Destroyed"}
           /\ mapCallback' \in Owners /\ pendingEvent' \in Owners
           /\ unmapping' \in Seq({"Unmap", "Destroy"})
           /\ queue' \subseteq Callback /\ events' \subseteq Event
           /\ answer' \in [Requests -> {"none", "asked"} \union Statuses]
           /\ PendingEventOK'
<1> USE DEF TypesOK
<1>1. Nobody \in Owners /\ After(caller) \in {"Unmapped", "Destroyed"} /\ status \in Statuses
  BY DEF Owners, After, Statuses
<1>2. CASE state = "PendingMap" /\ pendingEvent # Nobody
  <2>1. UnmapEarly(caller, status)
    BY <1>2 DEF UnmapInternal
  <2>2. PICK e \in events :
          /\ pendingEvent' = Nobody /\ UNCHANGED <<mapCallback, queue>>
          /\ \/ /\ events' = events \ {e} /\ answer' = [answer EXCEPT ![e.request] = status]
                /\ unmapping' = <<caller>> \o unmapping /\ UNCHANGED state
             \/ /\ events' = (events \ {e}) \union {[e EXCEPT !.status = status]}
                /\ state' = After(caller) /\ UNCHANGED <<answer, unmapping>>
    BY <1>2, <2>1, EarlyEvent
  <2>3. e \in Event /\ [e EXCEPT !.status = status] \in Event
    BY <1>1 DEF TypeOK, Event
  <2>4. <<caller>> \o unmapping \in Seq({"Unmap", "Destroy"})
    <3>1. <<caller>> \in Seq({"Unmap", "Destroy"}) /\ unmapping \in Seq({"Unmap", "Destroy"})
      BY DEF TypeOK
    <3>2. QED
      BY <3>1, ConcatProperties
  <2>5. PendingEventOK'
    BY <2>2 DEF PendingEventOK
  <2>6. QED
    BY <1>1, <2>2, <2>3, <2>4, <2>5 DEF TypeOK
<1>3. CASE state = "PendingMap" /\ pendingEvent = Nobody
  <2>1. UnmapCallback(caller, status)
    BY <1>3 DEF UnmapInternal
  <2>2. /\ mapCallback' = Nobody /\ state' = After(caller)
        /\ UNCHANGED <<pendingEvent, unmapping, events, answer>>
    BY <2>1 DEF UnmapCallback
  <2>3. queue' \subseteq Callback
    <3>1. CASE mapCallback = Nobody
      BY <2>1, <3>1 DEF UnmapCallback, TypeOK
    <3>2. CASE mapCallback # Nobody
      <4>1. PICK s \in Statuses : queue' = queue \union {Marked(Answer(mapCallback, s), callbacks)}
        BY <1>1, <2>1, <3>2 DEF UnmapCallback, AddCallbackTask, Statuses, Failures
      <4>2. Answer(mapCallback, s) \in Callback /\ callbacks \in Statuses
        BY <3>2 DEF Answer, Callback, Owners, TypeOK, Statuses, Failures
      <4>3. QED
        BY <4>1, <4>2, MarkedIs DEF TypeOK
    <3>3. QED
      BY <3>1, <3>2
  <2>4. QED
    BY <1>1, <2>2, <2>3 DEF TypeOK, PendingEventOK
<1>4. CASE state # "PendingMap"
  <2>1. state' = After(caller) /\ UNCHANGED <<pendingEvent, unmapping, mapCallback, queue, events, answer>>
    BY <1>4 DEF UnmapInternal
  <2>2. QED
    BY <1>1, <2>1 DEF TypeOK, PendingEventOK
<1>5. QED
  BY <1>2, <1>3, <1>4

LEMMA TypeStep ==
    ASSUME TypesOK, [Next]_vars
    PROVE  TypesOK'
<1> USE DEF TypesOK, PendingSerial, AssumeCommandsComplete
<1>0. TypeOK /\ PendingEventOK /\ Failures \subseteq Statuses /\ "Success" \in Statuses
      /\ callbacks \in Statuses /\ Requests \subseteq Owners /\ Nobody \in Owners
  BY DEF Statuses, TypeOK, Failures, Owners
<1>1. CASE UNCHANGED vars
  BY <1>1 DEF TypeOK, PendingEventOK
<1>2. ASSUME UNCHANGED <<pendingEvent, events>> PROVE PendingEventOK'
  BY <1>2 DEF PendingEventOK
<1>3. CASE LoseDevice
  <2>1. queue' \subseteq Callback
    BY <1>3, LossHandsOn DEF LoseDevice, HandedOn
  <2>2. QED
    BY <1>2, <1>3, <2>1 DEF LoseDevice, HandleLoss, TypeOK
<1>4. CASE Submit \/ Tick \/ EndDestroyDevice
  <2>1. QueueTick
    BY <1>4 DEF Submit, Tick, EndDestroyDevice
  <2>2. queue' \subseteq Callback /\ tasks' \subseteq tasks /\ completed' \in Nat
    BY <2>1, TickHandsOn DEF HandedOn, TypeOK
  <2>3. CASE Submit
    BY <1>2, <2>2, <2>3 DEF Submit, TypeOK
  <2>4. CASE Tick
    BY <1>2, <2>2, <2>4 DEF Tick, TypeOK
  <2>5. CASE EndDestroyDevice
    BY <1>2, <2>2, <2>5 DEF EndDestroyDevice, TypeOK
  <2>6. QED
    BY <1>4, <2>3, <2>4, <2>5
<1>5. CASE WriteBuffer \/ CheckPassedSerials \/ Gpu \/ Flush
  BY <1>2, <1>5 DEF WriteBuffer, CheckPassedSerials, Gpu, Flush, TypeOK
<1>6. EarlyStatuses \subseteq Failures
  BY DEF EarlyStatuses, Failures
<1>7. ASSUME NEW r \in Requests, MapAsyncRefused(r) PROVE TypesOK'
  <2>1. PICK status \in Statuses : queue' = queue \union {Marked(Answer(r, status), callbacks)}
    BY <1>0, <1>6, <1>7 DEF MapAsyncRefused, AddCallbackTask
  <2>2. queue' \subseteq Callback
    <3>1. Answer(r, status) \in Callback
      BY DEF Answer, Callback, Owners
    <3>2. QED
      BY <1>0, <2>1, <3>1, MarkedIs DEF TypeOK
  <2>3. QED
    BY <1>2, <1>7, <2>2 DEF MapAsyncRefused, TypeOK
<1>8. ASSUME NEW r \in Requests, MapAsync(r) PROVE TypesOK'
  <2>1. lastMapID' \in Nat /\ lastUsage' \in Nat
    BY <1>8 DEF MapAsync, StartMapAsync, MapAsyncImpl, TypeOK
  <2>2. \/ queue' = queue \union {Marked(MapRequest(lastMapID', "Success"), callbacks)} /\ UNCHANGED tasks
        \/ tasks' = tasks \union {[id |-> lastMapID', serial |-> lastUsage']} /\ UNCHANGED queue
    BY <1>8 DEF MapAsync, TrackTask, AddCallbackTask
  <2>3. queue' \subseteq Callback /\ tasks' \subseteq Task
    <3>1. MapRequest(lastMapID', "Success") \in Callback
      BY <1>0, <2>1 DEF MapRequest, Callback
    <3>2. QED
      BY <1>0, <2>1, <2>2, <3>1, MarkedIs DEF TypeOK, Task
  <2>4. QED
    BY <1>0, <1>2, <1>8, <2>1, <2>3 DEF MapAsync, StartMapAsync, MapAsyncImpl, TypeOK
<1>9. ASSUME NEW r \in Requests, MapAsyncFails(r) PROVE TypesOK'
  <2>1. Answer(r, "DeviceLost") \in Callback
    BY <1>0 DEF Answer, Callback, Failures
  <2>2. queue' \subseteq Callback
    BY <1>9, <2>1, LossHandsOn DEF MapAsyncFails, HandedOn
  <2>3. QED
    BY <1>2, <1>9, <2>2 DEF MapAsyncFails, StartMapAsync, HandleLoss, TypeOK
<1>10. ASSUME NEW r \in Requests, NEW serial \in Nat, NEW status \in Statuses, NEW early \in BOOLEAN
       PROVE  [request |-> r, serial |-> serial, status |-> status, spontaneous |-> early] \in Event
  BY DEF Event
<1>11. ASSUME NEW r \in Requests, MapAsyncFRefused(r) \/ MapAsyncFFails(r) PROVE TypesOK'
  <2>1. PICK status \in Failures :
          \/ answer' = [answer EXCEPT ![r] = status] /\ UNCHANGED events
          \/ /\ events' = events \union
                  {[request |-> r, serial |-> 0, status |-> status, spontaneous |-> FALSE]}
             /\ answer' = [answer EXCEPT ![r] = "asked"]
    BY <1>6, <1>11 DEF MapAsyncFRefused, MapAsyncFFails, Failures
  <2>2. events' \subseteq Event /\ answer' \in [Requests -> {"none", "asked"} \union Statuses]
    BY <1>0, <1>10, <2>1 DEF TypeOK
  <2>3. PendingEventOK'
    BY <1>11, <2>1 DEF PendingEventOK, MapAsyncFRefused, MapAsyncFFails
  <2>4. queue' \subseteq Callback
    BY <1>11, LossHandsOn DEF MapAsyncFRefused, MapAsyncFFails, HandedOn, TypeOK
  <2>5. QED
    BY <1>11, <2>2, <2>3, <2>4 DEF MapAsyncFRefused, MapAsyncFFails, HandleLoss, TypeOK
<1>12. ASSUME NEW r \in Requests, MapAsyncF(r) PROVE TypesOK'
  <2>1. lastUsage' \in Nat /\ context' = "needsSubmit"
    BY <1>12 DEF MapAsyncF, MapAsyncImpl, TypeOK
  <2>2. PICK early \in BOOLEAN :
          LET e == [request |-> r, serial |-> lastUsage', status |-> "Success", spontaneous |-> early]
          IN  \/ /\ state' = "Mapped" /\ answer' = [answer EXCEPT ![r] = "Success"]
                 /\ UNCHANGED <<pendingEvent, events>>
              \/ /\ state' = "PendingMap" /\ answer' = [answer EXCEPT ![r] = "asked"]
                 /\ pendingEvent' = r /\ events' = events \union {e}
    BY <1>12 DEF MapAsyncF
  <2> DEFINE new == [request |-> r, serial |-> lastUsage', status |-> "Success", spontaneous |-> early]
  <2>3. new \in Event /\ new.request = r /\ new.status = "Success"
    BY <1>0, <1>10, <2>1
  <2>4. \/ /\ state' = "Mapped" /\ answer' = [answer EXCEPT ![r] = "Success"]
           /\ UNCHANGED <<pendingEvent, events>>
        \/ /\ state' = "PendingMap" /\ answer' = [answer EXCEPT ![r] = "asked"]
           /\ pendingEvent' = r /\ events' = events \union {new}
    BY <2>2
  <2> HIDE DEF new
  <2>5. PendingEventOK' /\ events' \subseteq Event /\ pendingEvent' \in Owners
    BY <1>0, <2>3, <2>4 DEF PendingEventOK, TypeOK
  <2>6. QED
    BY <1>0, <1>12, <2>1, <2>4, <2>5 DEF MapAsyncF, TypeOK
<1>13. CASE RunCallback
  <2>1. PICK c \in running :
          /\ running' = running \ {c}
          /\ state' \in {"Mapped", state}
          /\ \/ \E s \in Statuses : mapCallback # Nobody /\ answer' = [answer EXCEPT ![mapCallback] = s]
             \/ UNCHANGED answer
             \/ c.request # Nobody /\ answer' = [answer EXCEPT ![c.request] = c.status]
          /\ mapCallback' \in {mapCallback, Nobody}
    <3>1. \A c \in running : c.status \in Statuses /\ "DeviceLost" \in Statuses
      BY DEF TypeOK, Callback, Statuses, Failures
    <3>2. QED
      BY <1>13, <3>1 DEF RunCallback
  <2>2. answer' \in [Requests -> {"none", "asked"} \union Statuses]
    <3>1. c.request \in Owners /\ c.status \in Statuses
      BY DEF TypeOK, Callback
    <3>2. QED
      BY <2>1, <3>1 DEF TypeOK, Owners
  <2>3. QED
    BY <1>2, <1>13, <2>1, <2>2 DEF RunCallback, TypeOK, Owners
<1>14. ASSUME NEW e \in events, Complete(e) PROVE TypesOK'
  <2>1. e.request \in Requests /\ e.status \in Statuses
    BY DEF TypeOK, Event
  <2>2. PendingEventOK'
    BY <1>14 DEF Complete, PendingEventOK
  <2>3. QED
    BY <1>0, <1>14, <2>1, <2>2 DEF Complete, TypeOK
<1>15. {"UnmappedBeforeCallback", "DestroyedBeforeCallback"} \subseteq Failures
  BY DEF Failures
<1>16. CASE Unmap
  <2>1. UnmapInternal("Unmap", "UnmappedBeforeCallback") /\ UNCHANGED <<tasks, callbacks, running>>
    BY <1>16 DEF Unmap
  <2>2. lastUsage' \in Nat /\ context' \in {"empty", "passive", "needsSubmit"}
    BY <1>16 DEF Unmap, TypeOK
  <2>3. QED
    BY <1>15, <1>16, <2>1, <2>2, UnmapTypes DEF Unmap, TypeOK
<1>17. CASE Destroy
  BY <1>15, <1>17, UnmapTypes DEF Destroy, DestroyBuffer, TypeOK
<1>18. CASE FinishUnmap
  <2>1. Tail(unmapping) \in Seq({"Unmap", "Destroy"})
    BY <1>18 DEF FinishUnmap, TypeOK
  <2>2. QED
    BY <1>2, <1>18, <2>1 DEF FinishUnmap, After, TypeOK
<1>19. CASE BeginDestroyDevice
  <2>1. queue' \subseteq Callback
    <3>1. "DestroyedBeforeCallback" \in Statuses
      BY DEF Statuses, Failures
    <3>2. QED
      BY <1>19, <3>1, MarkHandsOn DEF BeginDestroyDevice, HandedOn, TypeOK
  <2>2. QED
    BY <1>2, <1>19, <2>1 DEF BeginDestroyDevice, TypeOK
<1>20. QED
  BY <1>1, <1>3, <1>4, <1>5, <1>7, <1>8, <1>9, <1>11, <1>12, <1>13, <1>14, <1>16, <1>17, <1>18,
     <1>19 DEF Next

LEMMA InitTypes == Init => TypesOK
<1> SUFFICES ASSUME Init PROVE TypesOK
  OBVIOUS
<1>1. staging \in BOOLEAN
  <2>1. (state = "MappedAtCreation") \in BOOLEAN
    OBVIOUS
  <2>2. QED
    BY <2>1 DEF Init
<1>2. unmapping \in Seq({"Unmap", "Destroy"}) /\ answer \in [Requests -> {"none", "asked"} \union Statuses]
  BY DEF Init
<1>3. QED
  BY <1>1, <1>2 DEF Init, TypesOK, TypeOK, PendingEventOK, Owners

(* Every variable has its type, whatever the callbacks do.                 *)
THEOREM TypeCorrect == Spec => []TypeOK
<1>1. Init /\ [][Next]_vars => []TypesOK
  BY InitTypes, TypeStep, PTL
<1>2. TypesOK => TypeOK
  BY DEF TypesOK
<1>3. QED
  BY <1>1, <1>2, PTL DEF Spec

-----------------------------------------------------------------------------
(* What is proved beside the types, in three frames: an application that   *)
(* uses events has no callbacks to care for and the other way round.       *)
LEMMA EventMode ==
    ASSUME ApisOK', "event" \in apis'
    PROVE  CallbacksOK' /\ AnswersOK' /\ LatestOK'
<1>1. mapCallback' = Nobody /\ tasks' = {} /\ queue' = {} /\ running' = {}
  BY DEF ApisOK
<1>2. QED
  BY <1>1 DEF CallbacksOK, AnswersOK, LatestOK

LEMMA TaskMode ==
    ASSUME ApisOK', "task" \in apis'
    PROVE  EventsOK'
  BY DEF ApisOK, EventsOK

LEMMA OneOrTheOther ==
    ASSUME ApisOK
    PROVE  /\ "task" \in apis \/ "event" \in apis
           /\ "task" \in apis =>
                "event" \notin apis /\ events = {} /\ pendingEvent = Nobody /\ unmapping = <<>>
           /\ "event" \in apis =>
                /\ "task" \notin apis /\ mapCallback = Nobody
                /\ tasks = {} /\ queue = {} /\ running = {}
<1>1. "task" # "event"
  OBVIOUS
<1>2. QED
  BY <1>1 DEF ApisOK

(* A request is handed on once.                                            *)
LEMMA TickOnce ==
    ASSUME TypeOK, CallbacksOK, QueueTick
    PROVE  \A c, d \in queue' : SameKey(c, d) => c = d
<1> DEFINE done == {u \in tasks : u.serial <= finished}
<1>1. queue' = queue \union {Marked(MapRequest(u.id, "Success"), callbacks) : u \in done}
  BY DEF QueueTick
<1>2. done \subseteq tasks
  OBVIOUS
<1> HIDE DEF done
<1>3. ASSUME NEW u \in done
      PROVE  /\ Marked(MapRequest(u.id, "Success"), callbacks).request = Nobody
             /\ Marked(MapRequest(u.id, "Success"), callbacks).id = u.id
  BY DEF Marked, MapRequest
<1>4. ASSUME NEW c \in queue' PROVE c \in queue \/ \E u \in done :
          c = Marked(MapRequest(u.id, "Success"), callbacks) /\ c.request = Nobody /\ c.id = u.id
  BY <1>1, <1>3
<1>5. \A u, w \in done : u.id = w.id => u = w
  BY <1>2 DEF CallbacksOK
<1>6. \A c \in queue, u \in done : c.request = Nobody => c.id # u.id
  BY <1>2 DEF CallbacksOK
<1>7. \A c, d \in queue : SameKey(c, d) => c = d
  BY DEF CallbacksOK
<1>8. QED
  BY <1>4, <1>5, <1>6, <1>7 DEF SameKey

LEMMA LossOnce ==
    ASSUME TypeOK, CallbacksOK
    PROVE  \A c, d \in LostQueue : SameKey(c, d) => c = d
<1> DEFINE all == queue \union {MapRequest(u.id, "DeviceLost") : u \in tasks}
<1>1. LostQueue = all \/ LostQueue = AllMarked(all, "DeviceLost")
  BY DEF LostQueue
<1>2. ASSUME NEW c \in all PROVE c \in queue \/ \E u \in tasks :
          c = MapRequest(u.id, "DeviceLost") /\ c.request = Nobody /\ c.id = u.id
  BY DEF MapRequest
<1>3. all \subseteq Callback
  BY DEF MapRequest, Callback, Owners, Statuses, Failures, TypeOK, Task
<1> HIDE DEF all
<1>4. \A c, d \in all : SameKey(c, d) => c = d
  <2>1. \A u, w \in tasks : u.id = w.id => u = w
    BY DEF CallbacksOK
  <2>2. \A c \in queue, u \in tasks : c.request = Nobody => c.id # u.id
    BY DEF CallbacksOK
  <2>3. \A c, d \in queue : SameKey(c, d) => c = d
    BY DEF CallbacksOK
  <2>4. QED
    BY <1>2, <2>1, <2>2, <2>3 DEF SameKey
<1>5. ASSUME NEW c \in AllMarked(all, "DeviceLost"), NEW d \in AllMarked(all, "DeviceLost"),
             SameKey(c, d)
      PROVE  c = d
  <2>1. PICK x \in all : c = Marked(x, "DeviceLost")
    BY DEF AllMarked
  <2>2. PICK y \in all : d = Marked(y, "DeviceLost")
    BY DEF AllMarked
  <2>3. SameKey(c, x) /\ SameKey(d, y)
    BY <1>3, <2>1, <2>2, MarkedIs DEF Statuses, Failures
  <2>4. QED
    BY <1>4, <1>5, <2>1, <2>2, <2>3 DEF SameKey
<1>6. QED
  BY <1>1, <1>4, <1>5

LEMMA MarkOnce ==
    ASSUME TypeOK, CallbacksOK, NEW status \in Statuses
    PROVE  \A c, d \in AllMarked(queue, status) : SameKey(c, d) => c = d
<1> SUFFICES ASSUME NEW c \in AllMarked(queue, status), NEW d \in AllMarked(queue, status),
                    SameKey(c, d)
             PROVE  c = d
  OBVIOUS
<1>1. PICK x \in queue : c = Marked(x, status)
  BY DEF AllMarked
<1>2. PICK y \in queue : d = Marked(y, status)
  BY DEF AllMarked
<1>3. SameKey(c, x) /\ SameKey(d, y)
  BY <1>1, <1>2, MarkedIs DEF TypeOK
<1>4. QED
  BY <1>1, <1>2, <1>3 DEF SameKey, CallbacksOK

(* A step that hands tasks on, or marks what is queued, keeps everything   *)
(* that is said of callbacks.                                              *)
LEMMA HandOnKeeps ==
    ASSUME RInv, TypeOK', NEW done, done \subseteq tasks, tasks' \subseteq tasks \ done,
           HandedOn(done, queue'), \A c, d \in queue' : SameKey(c, d) => c = d,
           UNCHANGED <<apis, state, running, lastMapID, mapCallback, pendingEvent, unmapping,
                       events, answer>>,
           state = "PendingMap" =>
             /\ lastUsage' = lastUsage
             /\ lastUsage <= finished' \/ (finished <= finished' /\ \A u \in done : u.serial <= finished')
    PROVE  RequestsOK'
<1> USE DEF RInv, RequestsOK
<1>1. CallbacksOK'
  <2>1. \A c \in queue' : c.request = Nobody => c.id <= lastMapID
    BY DEF HandedOn, CallbacksOK, SameKey
  <2>2. \A u \in tasks', c \in queue' : c.request = Nobody => c.id # u.id
    BY DEF HandedOn, CallbacksOK, SameKey
  <2>3. \A c \in queue', d \in running : ~SameKey(c, d)
    BY DEF HandedOn, CallbacksOK, SameKey
  <2>4. QED
    BY <2>1, <2>2, <2>3 DEF CallbacksOK, SameKey
<1>2. AnswersOK'
  <2>1. \A c \in queue' : c.request # Nobody => c \in queue
    BY DEF HandedOn
  <2>2. QED
    BY <2>1 DEF AnswersOK
<1>3. ASSUME state = "PendingMap" PROVE LatestOK'
  <2>1. \A u \in tasks' : u.id = lastMapID => mapCallback # Nobody /\ lastUsage <= u.serial
    BY <1>3 DEF LatestOK
  <2>2. \A c \in running : IsLatest(c) =>
          mapCallback # Nobody /\ (c.status = "Success" => lastUsage <= finished)
    BY <1>3 DEF LatestOK
  <2>3. ASSUME NEW c \in queue', IsLatest(c)
        PROVE  mapCallback # Nobody /\ (c.status = "Success" => lastUsage <= finished')
    <3>1. CASE \E d \in queue : SameKey(c, d) /\ (c.status = "Success" => d.status = "Success")
      <4>1. PICK d \in queue : IsLatest(d) /\ (c.status = "Success" => d.status = "Success")
        BY <2>3, <3>1 DEF SameKey, IsLatest
      <4>2. mapCallback # Nobody /\ (c.status = "Success" => lastUsage <= finished)
        BY <1>3, <4>1 DEF LatestOK
      <4>3. QED
        BY <1>3, <4>2 DEF TypeOK
    <3>2. CASE \E u \in done : c.id = u.id
      <4>1. PICK u \in done : u.id = lastMapID
        BY <2>3, <3>2 DEF IsLatest
      <4>2. mapCallback # Nobody /\ lastUsage <= u.serial /\ u.serial \in Nat
        BY <1>3, <4>1 DEF LatestOK, TypeOK, Task
      <4>3. QED
        BY <1>3, <4>2 DEF TypeOK
    <3>3. QED
      BY <3>1, <3>2 DEF HandedOn
  <2>4. QED
    <3>1. lastUsage' = lastUsage /\ lastMapID' = lastMapID /\ mapCallback' = mapCallback
      BY <1>3
    <3>2. \A c \in running : IsLatest(c) =>
            mapCallback # Nobody /\ (c.status = "Success" => lastUsage <= finished')
      <4>1. lastUsage <= finished => lastUsage <= finished'
        BY <1>3 DEF TypeOK
      <4>2. QED
        BY <2>2, <4>1
    <3>3. QED
      BY <2>1, <2>3, <3>1, <3>2 DEF LatestOK, IsLatest
<1>4. state # "PendingMap" => LatestOK'
  BY DEF LatestOK
<1>5. EventsOK'
  <2>1. \A e \in events : e.status = "Success" => pendingEvent = e.request /\ pendingEvent # Nobody
    BY BufferBounds DEF EventsOK, TypeOK, Event
  <2>2. \A e \in events : e.status = "Success" => lastUsage' = lastUsage
    BY <2>1 DEF EventsOK
  <2>3. QED
    BY <2>2 DEF EventsOK
<1>6. ApisOK'
  BY DEF ApisOK, HandedOn
<1>7. QED
  BY <1>1, <1>2, <1>3, <1>4, <1>5, <1>6

-----------------------------------------------------------------------------
(* The serials.                                                            *)
LEMMA SerialsStep ==
    ASSUME RInv, TypeOK', [Next]_vars
    PROVE  SerialsOK'
<1> USE DEF RInv, SerialsOK, PendingSerial
<1>0. /\ lastUsage \in Nat /\ lastSubmitted \in Nat /\ completed \in Nat /\ finished \in Nat
      /\ lastUsage' \in Nat /\ lastSubmitted' \in Nat /\ completed' \in Nat /\ finished' \in Nat
  BY DEF TypeOK
<1>1. CASE UNCHANGED vars
  BY <1>1
<1>2. ASSUME HandleLoss, UNCHANGED lastUsage PROVE SerialsOK'
  BY <1>0, <1>2 DEF HandleLoss, AssumeCommandsComplete
<1>3. CASE LoseDevice
  BY <1>2, <1>3 DEF LoseDevice
<1>4. CASE Submit \/ Tick \/ EndDestroyDevice
  <2>1. completed' = finished
    BY <1>4 DEF Submit, Tick, EndDestroyDevice, QueueTick
  <2>2. /\ finished' = finished /\ state' = state
        /\ lastSubmitted' = lastSubmitted \/ lastSubmitted' = lastSubmitted + 1
        /\ \/ lastUsage' = lastUsage
           \/ lastUsage' = lastSubmitted + 1 /\ lastSubmitted' = lastSubmitted + 1 /\ state = "Unmapped"
    <3>1. CASE Submit
      BY <3>1 DEF Submit, CanUseOnQueueNow
    <3>2. CASE Tick
      BY <3>2 DEF Tick
    <3>3. CASE EndDestroyDevice
      BY <3>3 DEF EndDestroyDevice
    <3>4. QED
      BY <1>4, <3>1, <3>2, <3>3
  <2>3. lastUsage' <= lastSubmitted' + 1
    <3>1. lastSubmitted <= lastSubmitted'
      BY <1>0, <2>2
    <3>2. CASE lastUsage' = lastUsage
      <4>1. lastUsage <= lastSubmitted + 1
        OBVIOUS
      <4>2. \A x, y, z \in Nat : x <= y + 1 /\ y <= z => x <= z + 1
        OBVIOUS
      <4>3. QED
        BY <1>0, <3>1, <3>2, <4>1, <4>2
    <3>3. CASE lastUsage' = lastSubmitted + 1 /\ lastSubmitted' = lastSubmitted + 1
      BY <1>0, <3>3
    <3>4. QED
      BY <2>2, <3>2, <3>3
  <2>4. completed' <= finished'
    BY <1>0, <2>1, <2>2
  <2>5. state' \in {"Mapped", "MappedAtCreation"} => lastUsage' <= finished'
    BY <2>2
  <2>6. QED
    BY <2>3, <2>4, <2>5
<1>5. CASE WriteBuffer
  <2>1. /\ state' = "Unmapped" /\ lastUsage' = lastSubmitted + 1
        /\ UNCHANGED <<lastSubmitted, completed, finished>>
    BY <1>5 DEF WriteBuffer, CanUseOnQueueNow
  <2>2. QED
    BY <1>0, <2>1
<1>6. CASE CheckPassedSerials \/ Flush
  <2>1. /\ UNCHANGED <<state, lastUsage, lastSubmitted, finished>>
        /\ completed' = completed \/ completed' = finished
    BY <1>6 DEF CheckPassedSerials, Flush
  <2>2. completed' <= finished'
    BY <1>0, <2>1
  <2>3. QED
    BY <2>1, <2>2
<1>7. CASE Gpu
  BY <1>0, <1>7 DEF Gpu
<1>8. ASSUME NEW r \in Requests, MapAsyncRefused(r) \/ MapAsyncFRefused(r) PROVE SerialsOK'
  BY <1>8 DEF MapAsyncRefused, MapAsyncFRefused
<1>9. ASSUME NEW r \in Requests, MapAsyncFails(r) PROVE SerialsOK'
  BY <1>2, <1>9 DEF MapAsyncFails
<1>10. ASSUME NEW r \in Requests, MapAsyncFFails(r) PROVE SerialsOK'
  BY <1>2, <1>10 DEF MapAsyncFFails
<1>11. ASSUME NEW r \in Requests, MapAsync(r) PROVE SerialsOK'
  BY <1>0, <1>11 DEF MapAsync, StartMapAsync, MapAsyncImpl
<1>12. ASSUME NEW r \in Requests, MapAsyncF(r) PROVE SerialsOK'
  <2>1. lastUsage' <= lastSubmitted + 1 /\ UNCHANGED <<lastSubmitted, completed, finished>>
    BY <1>0, <1>12 DEF MapAsyncF, MapAsyncImpl
  <2>2. (state' = "Mapped" /\ lastUsage' <= completed) \/ state' = "PendingMap"
    BY <1>12 DEF MapAsyncF, Ready
  <2>3. QED
    BY <1>0, <2>1, <2>2
<1>13. CASE RunCallback
  <2>1. state' = "Mapped" => state = "Mapped" \/ lastUsage <= finished
    BY <1>13 DEF RunCallback, RequestsOK, LatestOK, IsLatest
  <2>2. state' \in {"Mapped", state} /\ UNCHANGED <<lastUsage, lastSubmitted, completed, finished>>
    BY <1>13 DEF RunCallback
  <2>3. QED
    BY <2>1, <2>2
<1>14. ASSUME NEW e \in events, Complete(e) PROVE SerialsOK'
  <2>1. e.status = "Success" => lastUsage <= finished
    BY <1>0, <1>14 DEF Complete, Ready, RequestsOK, EventsOK, TypeOK, Event
  <2>2. QED
    BY <1>14, <2>1 DEF Complete
<1>15. CASE Unmap \/ Destroy
  <2>1. PICK caller, status : UnmapInternal(caller, status)
    BY <1>15 DEF Unmap, Destroy, DestroyBuffer
  <2>2. state' \notin {"Mapped", "MappedAtCreation"}
    BY <2>1 DEF UnmapInternal, UnmapEarly, UnmapCallback, After
  <2>3. /\ lastUsage' \in {lastUsage, lastSubmitted + 1}
        /\ UNCHANGED <<lastSubmitted, completed, finished>>
    BY <1>15 DEF Unmap, Destroy, DestroyBuffer
  <2>4. QED
    BY <1>0, <2>2, <2>3
<1>16. CASE FinishUnmap
  BY <1>16 DEF FinishUnmap, After
<1>17. CASE BeginDestroyDevice
  <2>1. /\ UNCHANGED <<state, lastUsage>>
        /\ \/ UNCHANGED <<lastSubmitted, completed, finished>>
           \/ AssumeCommandsComplete
    BY <1>17 DEF BeginDestroyDevice
  <2>2. CASE AssumeCommandsComplete
    BY <1>0, <2>1, <2>2 DEF AssumeCommandsComplete
  <2>3. CASE UNCHANGED <<lastSubmitted, completed, finished>>
    BY <2>1, <2>3
  <2>4. QED
    BY <2>1, <2>2, <2>3
<1>18. QED
  BY <1>1, <1>3, <1>4, <1>5, <1>6, <1>7, <1>8, <1>9, <1>10, <1>11, <1>12, <1>13, <1>14, <1>15,
     <1>16, <1>17 DEF Next

-----------------------------------------------------------------------------
(* Requests, action by action.                                             *)
LEMMA LossGrows ==
    ASSUME RInv, AssumeCommandsComplete
    PROVE  lastUsage <= finished'
  BY DEF RInv, SerialsOK, AssumeCommandsComplete, PendingSerial

LEMMA LoseDeviceKeeps == ASSUME RInv, TypeOK', LoseDevice PROVE RequestsOK'
<1>1. HandedOn(tasks, queue') /\ \A c, d \in queue' : SameKey(c, d) => c = d
  BY LossHandsOn, LossOnce DEF LoseDevice, RInv, RequestsOK
<1>2. /\ tasks' = {} /\ lastUsage <= finished'
      /\ UNCHANGED <<apis, state, running, lastMapID, mapCallback, pendingEvent, unmapping, events,
                     answer, lastUsage>>
  BY LossGrows DEF LoseDevice, HandleLoss
<1>3. QED
  BY <1>1, <1>2, HandOnKeeps

LEMMA TickKeeps == ASSUME RInv, TypeOK', Submit \/ Tick \/ EndDestroyDevice PROVE RequestsOK'
<1>1. QueueTick
  BY DEF Submit, Tick, EndDestroyDevice
<1>2. /\ HandedOn(tasks \ tasks', queue') /\ \A c, d \in queue' : SameKey(c, d) => c = d
      /\ tasks' \subseteq tasks \ (tasks \ tasks')
      /\ \A u \in tasks \ tasks' : u.serial <= finished
  BY <1>1, TickHandsOn, TickOnce DEF RInv, RequestsOK
<1>3. /\ UNCHANGED <<apis, state, running, lastMapID, mapCallback, pendingEvent, unmapping, events,
                     answer>>
      /\ finished' = finished
      /\ state = "PendingMap" => lastUsage' = lastUsage
  <2>1. CASE Submit
    BY <2>1 DEF Submit, CanUseOnQueueNow
  <2>2. CASE Tick
    BY <2>2 DEF Tick
  <2>3. CASE EndDestroyDevice
    BY <2>3 DEF EndDestroyDevice
  <2>4. QED
    BY <2>1, <2>2, <2>3
<1>4. finished <= finished'
  BY <1>3 DEF RInv, TypeOK
<1>5. QED
  BY <1>2, <1>3, <1>4, HandOnKeeps

LEMMA QuietKeeps ==
    ASSUME RInv, TypeOK',
           UNCHANGED <<apis, state, tasks, queue, running, lastMapID, mapCallback, pendingEvent,
                       unmapping, events, answer>>,
           state = "PendingMap" => lastUsage' = lastUsage,
           finished <= finished'
    PROVE  RequestsOK'
<1>1. HandedOn({}, queue')
  BY DEF HandedOn, RInv, TypeOK, SameKey
<1>2. \A c, d \in queue' : SameKey(c, d) => c = d
  BY DEF RInv, RequestsOK, CallbacksOK
<1>3. QED
  BY <1>1, <1>2, HandOnKeeps

LEMMA UseKeeps ==
    ASSUME RInv, TypeOK', WriteBuffer \/ CheckPassedSerials \/ Gpu PROVE RequestsOK'
<1>0. finished \in Nat
  BY DEF RInv, TypeOK
<1>1. CASE WriteBuffer
  BY <1>0, <1>1, QuietKeeps DEF WriteBuffer, CanUseOnQueueNow
<1>2. CASE CheckPassedSerials
  BY <1>0, <1>2, QuietKeeps DEF CheckPassedSerials
<1>3. CASE Gpu
  BY <1>0, <1>3, QuietKeeps DEF Gpu
<1>4. QED
  BY <1>1, <1>2, <1>3

LEMMA FlushKeeps == ASSUME RInv, TypeOK', Flush PROVE RequestsOK'
<1> USE DEF RInv, RequestsOK
<1>1. /\ running = {} /\ running' = queue /\ queue' = {}
      /\ UNCHANGED <<apis, state, tasks, lastMapID, mapCallback, pendingEvent, unmapping, events,
                     answer, lastUsage, finished>>
  BY DEF Flush
<1>2. ApisOK' /\ EventsOK'
  BY <1>1 DEF ApisOK, EventsOK
<1>3. CallbacksOK'
  BY <1>1 DEF CallbacksOK, SameKey
<1>4. AnswersOK' /\ LatestOK'
  BY <1>1 DEF AnswersOK, LatestOK, IsLatest
<1>5. QED
  BY <1>2, <1>3, <1>4

LEMMA BeginDestroyKeeps == ASSUME RInv, TypeOK', BeginDestroyDevice PROVE RequestsOK'
<1>1. /\ UNCHANGED <<apis, state, tasks, running, lastMapID, mapCallback, pendingEvent, unmapping,
                     events, answer, lastUsage>>
      /\ UNCHANGED finished \/ AssumeCommandsComplete
      /\ UNCHANGED queue \/ queue' = AllMarked(queue, "DestroyedBeforeCallback")
  BY DEF BeginDestroyDevice
<1>2. lastUsage <= finished' \/ finished <= finished'
  BY <1>1, LossGrows DEF RInv, TypeOK
<1>3. HandedOn({}, queue') /\ \A c, d \in queue' : SameKey(c, d) => c = d
  <2>1. CASE UNCHANGED queue
    BY <2>1 DEF HandedOn, RInv, TypeOK, SameKey, RequestsOK, CallbacksOK
  <2>2. CASE queue' = AllMarked(queue, "DestroyedBeforeCallback")
    BY <2>2, MarkHandsOn, MarkOnce DEF RInv, RequestsOK, Statuses, Failures
  <2>3. QED
    BY <1>1, <2>1, <2>2
<1>4. QED
  BY <1>1, <1>2, <1>3, HandOnKeeps

LEMMA FinishUnmapKeeps == ASSUME RInv, TypeOK', FinishUnmap PROVE RequestsOK'
<1> USE DEF RInv, RequestsOK
<1>1. /\ UNCHANGED <<apis, tasks, queue, running, lastMapID, mapCallback, pendingEvent, events,
                     answer, lastUsage>>
      /\ unmapping # <<>>
  BY DEF FinishUnmap
<1>2. "event" \in apis /\ pendingEvent = Nobody
  BY <1>1 DEF ApisOK, EventsOK
<1>3. ApisOK'
  BY <1>1, <1>2 DEF ApisOK
<1>4. EventsOK'
  BY <1>1, <1>2 DEF EventsOK
<1>5. QED
  BY <1>1, <1>2, <1>3, <1>4, EventMode

(* A new answer: its request has no other one.                             *)
LEMMA AnswerKeeps ==
    ASSUME RInv, NEW r \in Requests, NEW f \in Failures, NEW q, HandedOn(tasks \ tasks', q),
           tasks' \subseteq tasks, \A c, d \in q : SameKey(c, d) => c = d,
           queue' = q \union {Answer(r, f)},
           UNCHANGED running, lastMapID' \in Nat, lastMapID <= lastMapID',
           \A c \in queue \union running : c.request # r
    PROVE  CallbacksOK'
<1> USE DEF RInv, RequestsOK
<1>1. Answer(r, f).request = r /\ r # Nobody
  BY BufferBounds DEF Answer
<1>2. /\ q \subseteq Callback
      /\ \A c \in q :
           \/ \E d \in queue : SameKey(c, d)
           \/ c.request = Nobody /\ \E u \in tasks : u \notin tasks' /\ c.id = u.id
  BY DEF HandedOn
<1>3. \A c \in q : c.request # r
  BY <1>1, <1>2 DEF SameKey
<1>4. \A c \in queue' : c \in q \/ (c = Answer(r, f) /\ c.request = r)
  BY <1>1
<1>5. lastMapID \in Nat /\ (\A u \in tasks : u.id \in Nat) /\ \A c \in q \union running : c.id \in Nat
  BY <1>2 DEF TypeOK, Task, Callback
<1>6. \A c \in q : c.request = Nobody => c.id <= lastMapID
  BY <1>2 DEF CallbacksOK, SameKey
<1>7. /\ \A u \in tasks' : u.id <= lastMapID'
      /\ \A c \in queue' \union running' : c.request = Nobody => c.id <= lastMapID'
  <2>1. \A u \in tasks : u.id <= lastMapID
    BY DEF CallbacksOK
  <2>2. \A c \in running : c.request = Nobody => c.id <= lastMapID
    BY DEF CallbacksOK
  <2>3. \A n \in Nat : n <= lastMapID => n <= lastMapID'
    BY <1>5
  <2>4. QED
    BY <1>1, <1>4, <1>5, <1>6, <2>1, <2>2, <2>3
<1>8. \A u, w \in tasks' : u.id = w.id => u = w
  BY DEF CallbacksOK
<1>9. \A u \in tasks', c \in queue' \union running' : c.request = Nobody => c.id # u.id
  <2>1. \A u \in tasks', c \in q : c.request = Nobody => c.id # u.id
    BY <1>2 DEF CallbacksOK, SameKey
  <2>2. \A u \in tasks', c \in running : c.request = Nobody => c.id # u.id
    BY DEF CallbacksOK
  <2>3. QED
    BY <1>1, <1>4, <2>1, <2>2
<1>10. \A c, d \in queue' : SameKey(c, d) => c = d
  BY <1>3, <1>4 DEF SameKey
<1>11. \A c \in queue', d \in running' : ~SameKey(c, d)
  <2>1. \A c \in q, d \in running : ~SameKey(c, d)
    BY <1>2 DEF CallbacksOK, SameKey
  <2>2. QED
    BY <1>4, <2>1 DEF SameKey
<1>12. \A c, d \in running' : SameKey(c, d) => c = d
  BY DEF CallbacksOK
<1>13. QED
  BY <1>7, <1>8, <1>9, <1>10, <1>11, <1>12 DEF CallbacksOK

(* A request that was not made has no callback.                            *)
LEMMA NoneAsked ==
    ASSUME RInv, NEW r \in Requests, answer[r] = "none"
    PROVE  (\A c \in queue \union running : c.request # r) /\ mapCallback # r
           /\ \A e \in events : e.request # r
<1>1. r # Nobody
  BY BufferBounds
<1>2. QED
  BY <1>1 DEF RInv, RequestsOK, AnswersOK, EventsOK

LEMMA AskedStay ==
    ASSUME RInv, NEW r \in Requests, answer[r] = "none", NEW a, answer' = [answer EXCEPT ![r] = a]
    PROVE  /\ answer'[r] = a
           /\ \A c \in queue \union running : c.request # Nobody =>
                /\ answer'[c.request] = "asked" /\ c.status \in Failures /\ c.id = 0
                /\ c.request # mapCallback /\ c.request # r
           /\ \A e \in events : answer'[e.request] = "asked"
<1> USE DEF RInv, RequestsOK
<1>1. answer'[r] = a /\ \A q \in Requests : q # r => answer'[q] = answer[q]
  BY DEF TypeOK
<1>2. \A c \in queue \union running : c.request # Nobody => c.request \in Requests
  BY DEF TypeOK, Callback, Owners
<1>3. \A e \in events : e.request \in Requests
  BY DEF TypeOK, Event
<1>4. QED
  BY <1>1, <1>2, <1>3, NoneAsked DEF AnswersOK, EventsOK

LEMMA AsIsHandedOn ==
    ASSUME RInv PROVE HandedOn({}, queue) /\ \A c, d \in queue : SameKey(c, d) => c = d
  BY DEF RInv, RequestsOK, CallbacksOK, HandedOn, TypeOK, SameKey

LEMMA MapAsyncRefusedKeeps ==
    ASSUME RInv, TypeOK', NEW r \in Requests, MapAsyncRefused(r) PROVE RequestsOK'
<1> USE DEF RInv, RequestsOK
<1>1. PICK f \in Failures : queue' = queue \union {Marked(Answer(r, f), callbacks)}
  BY DEF MapAsyncRefused, EarlyStatuses, Failures, AddCallbackTask
<1>2. /\ r # Nobody /\ answer[r] = "none" /\ "task" \in apis
      /\ answer' = [answer EXCEPT ![r] = "asked"]
      /\ UNCHANGED <<apis, state, tasks, running, lastMapID, mapCallback, pendingEvent, unmapping,
                     events, lastUsage, finished>>
  BY BufferBounds DEF MapAsyncRefused
<1>3. Answer(r, f) \in Callback /\ Answer(r, f).request = r /\ Answer(r, f).id = 0 /\ Answer(r, f).status = f
  BY RequestIs DEF Statuses
<1>4. queue' = queue \union {Answer(r, f)}
  BY <1>1, <1>2, <1>3, MarkedIs DEF TypeOK, Statuses, Failures
<1>5. CallbacksOK'
  <2>1. tasks' \subseteq tasks /\ lastMapID' \in Nat /\ lastMapID <= lastMapID' /\ running' = running
    BY <1>2 DEF TypeOK
  <2>2. HandedOn(tasks \ tasks', queue) /\ \A c, d \in queue : SameKey(c, d) => c = d
    BY AsIsHandedOn DEF HandedOn
  <2>3. \A c \in queue \union running : c.request # r
    BY <1>2, NoneAsked
  <2>4. QED
    BY <1>4, <2>1, <2>2, <2>3, AnswerKeeps
<1>6. AnswersOK'
  <2>1. mapCallback' = mapCallback /\ mapCallback \in Owners /\ mapCallback # r
    BY <1>2, NoneAsked DEF TypeOK
  <2>2. mapCallback # Nobody => answer'[mapCallback] = "asked" /\ state' = "PendingMap"
    BY <1>2, <2>1 DEF AnswersOK, Owners, TypeOK
  <2>3. ASSUME NEW c \in queue' \union running, c.request # Nobody
        PROVE  answer'[c.request] = "asked" /\ c.status \in Failures /\ c.id = 0 /\ c.request # mapCallback
    <3>1. CASE c = Answer(r, f)
      <4>1. c.request = r /\ c.id = 0 /\ c.status = f
        BY <1>3, <3>1
      <4>2. QED
        BY <1>2, <2>1, <4>1, AskedStay
    <3>2. CASE c \in queue \union running
      BY <1>2, <2>3, <3>2, AskedStay
    <3>3. QED
      BY <1>4, <3>1, <3>2
  <2>4. running' = running
    BY <1>2
  <2>5. QED
    BY <2>1, <2>2, <2>3, <2>4 DEF AnswersOK
<1>7. LatestOK'
  BY <1>2, <1>3, <1>4 DEF LatestOK, IsLatest
<1>8. ApisOK'
  BY <1>2, OneOrTheOther DEF ApisOK
<1>9. QED
  BY <1>2, <1>5, <1>6, <1>7, <1>8, TaskMode

LEMMA MapAsyncKeeps ==
    ASSUME RInv, TypeOK', NEW r \in Requests, MapAsync(r) PROVE RequestsOK'
<1> USE DEF RInv, RequestsOK
<1> DEFINE asked == MapRequest(lastMapID', "Success")
           task == [id |-> lastMapID', serial |-> lastUsage']
<1>1. /\ r # Nobody /\ answer[r] = "none" /\ "task" \in apis /\ state = "Unmapped"
      /\ lastMapID' = lastMapID + 1 /\ mapCallback' = r /\ state' = "PendingMap"
      /\ answer' = [answer EXCEPT ![r] = "asked"]
      /\ UNCHANGED <<apis, running, completed, pendingEvent, unmapping, events, finished>>
  BY BufferBounds DEF MapAsync, StartMapAsync, CanMap
<1>2. \/ lastUsage' <= completed /\ queue' = queue \union {Marked(asked, callbacks)} /\ UNCHANGED tasks
      \/ tasks' = tasks \union {task} /\ UNCHANGED queue
  BY DEF MapAsync, TrackTask, AddCallbackTask
<1>3. lastMapID \in Nat /\ completed \in Nat /\ finished \in Nat /\ lastUsage' \in Nat
  BY DEF TypeOK
<1>4. task.id = lastMapID + 1 /\ task.serial = lastUsage'
  BY <1>1
<1>5. Marked(asked, callbacks).request = Nobody /\ Marked(asked, callbacks).id = lastMapID + 1
  BY <1>1 DEF Marked, MapRequest
<1> DEFINE new == Marked(asked, callbacks)
<1> HIDE DEF task, new
<1>6. /\ \A c \in queue' : c \in queue \/
           (c = new /\ c.request = Nobody /\ c.id = lastMapID + 1 /\ lastUsage' <= completed /\ tasks' = tasks)
      /\ \A u \in tasks' : u \in tasks \/
           (u = task /\ u.id = lastMapID + 1 /\ u.serial = lastUsage' /\ queue' = queue)
  BY <1>2, <1>4, <1>5 DEF new
<1>7. /\ \A u \in tasks : u.id \in Nat /\ u.id <= lastMapID
      /\ \A c \in queue \union running : c.id \in Nat /\ (c.request = Nobody => c.id <= lastMapID)
  BY DEF TypeOK, Task, Callback, CallbacksOK
<1>8. \A n \in Nat : n <= lastMapID => n # lastMapID + 1 /\ n <= lastMapID + 1
  BY <1>3
<1>9. CallbacksOK'
  <2>1. \A u \in tasks' : u.id <= lastMapID'
    BY <1>1, <1>3, <1>6, <1>7, <1>8
  <2>2. \A c \in queue' \union running' : c.request = Nobody => c.id <= lastMapID'
    BY <1>1, <1>3, <1>6, <1>7, <1>8
  <2>3. \A u, w \in tasks' : u.id = w.id => u = w
    BY <1>6, <1>7, <1>8 DEF CallbacksOK
  <2>4. \A u \in tasks', c \in queue' \union running' : c.request = Nobody => c.id # u.id
    BY <1>1, <1>6, <1>7, <1>8 DEF CallbacksOK
  <2>5. \A c, d \in queue' : SameKey(c, d) => c = d
    BY <1>6, <1>7, <1>8 DEF CallbacksOK, SameKey
  <2>6. \A c \in queue', d \in running' : ~SameKey(c, d)
    BY <1>1, <1>6, <1>7, <1>8 DEF CallbacksOK, SameKey
  <2>7. \A c, d \in running' : SameKey(c, d) => c = d
    BY <1>1 DEF CallbacksOK
  <2>8. QED
    BY <2>1, <2>2, <2>3, <2>4, <2>5, <2>6, <2>7 DEF CallbacksOK
<1>10. AnswersOK'
  <2>1. answer'[r] = "asked"
    BY <1>1, AskedStay
  <2>2. ASSUME NEW c \in queue' \union running', c.request # Nobody
        PROVE  answer'[c.request] = "asked" /\ c.status \in Failures /\ c.id = 0 /\ c.request # r
    <3>1. c \in queue \union running
      BY <1>1, <1>6, <2>2
    <3>2. QED
      BY <1>1, <2>2, <3>1, AskedStay
  <2>3. QED
    BY <1>1, <2>1, <2>2 DEF AnswersOK
<1>11. LatestOK'
  <2>1. ASSUME NEW u \in tasks', u.id = lastMapID' PROVE lastUsage' <= u.serial
    BY <1>1, <1>3, <1>6, <1>7, <1>8, <2>1
  <2>2. ASSUME NEW c \in queue' \union running', c.request = Nobody, c.id = lastMapID'
        PROVE  lastUsage' <= finished'
    <3>1. lastUsage' <= completed
      BY <1>1, <1>6, <1>7, <1>8, <2>2
    <3>2. QED
      BY <1>1, <1>3, <3>1 DEF SerialsOK
  <2>3. QED
    BY <1>1, <2>1, <2>2 DEF LatestOK, IsLatest
<1>12. ApisOK'
  BY <1>1, OneOrTheOther DEF ApisOK
<1>13. QED
  BY <1>1, <1>9, <1>10, <1>11, <1>12, TaskMode

LEMMA MapAsyncFailsKeeps ==
    ASSUME RInv, TypeOK', NEW r \in Requests, MapAsyncFails(r) PROVE RequestsOK'
<1> USE DEF RInv, RequestsOK
<1>1. /\ r # Nobody /\ answer[r] = "none" /\ "task" \in apis /\ state = "Unmapped"
      /\ lastMapID' = lastMapID + 1 /\ tasks' = {} /\ state' = "PendingMap"
      /\ answer' = [answer EXCEPT ![r] = "asked"]
      /\ UNCHANGED <<apis, running, mapCallback, pendingEvent, unmapping, events>>
  BY BufferBounds DEF MapAsyncFails, StartMapAsync, CanMap, HandleLoss
<1>2. queue' = LostQueue \union {Answer(r, "DeviceLost")}
  BY DEF MapAsyncFails
<1>3. HandedOn(tasks, LostQueue) /\ \A c, d \in LostQueue : SameKey(c, d) => c = d
  BY LossHandsOn, LossOnce
<1>4. mapCallback = Nobody
  BY <1>1 DEF AnswersOK
<1>5. lastMapID \in Nat
  BY DEF TypeOK
<1>6. CallbacksOK'
  <2>1. HandedOn(tasks \ tasks', LostQueue) /\ tasks' \subseteq tasks /\ UNCHANGED running
    BY <1>1, <1>3 DEF HandedOn
  <2>2. lastMapID' \in Nat /\ lastMapID <= lastMapID' /\ "DeviceLost" \in Failures
    BY <1>1, <1>5 DEF Failures
  <2>3. \A c \in queue \union running : c.request # r
    BY <1>1, NoneAsked
  <2>4. QED
    BY <1>2, <1>3, <2>1, <2>2, <2>3, AnswerKeeps
<1>7. AnswersOK'
  <2>1. ASSUME NEW c \in queue' \union running, c.request # Nobody
        PROVE  answer'[c.request] = "asked" /\ c.status \in Failures /\ c.id = 0
    <3>1. CASE c = Answer(r, "DeviceLost")
      <4>1. c.request = r /\ c.id = 0 /\ c.status = "DeviceLost" /\ "DeviceLost" \in Failures
        BY <3>1 DEF Answer, Failures
      <4>2. QED
        BY <1>1, <4>1, AskedStay
    <3>2. CASE c # Answer(r, "DeviceLost")
      <4>1. c \in queue \union running
        BY <1>2, <1>3, <2>1, <3>2 DEF HandedOn
      <4>2. QED
        BY <1>1, <2>1, <4>1, AskedStay
    <3>3. QED
      BY <3>1, <3>2
  <2>2. mapCallback' = Nobody /\ running' = running
    BY <1>1, <1>4
  <2>3. QED
    BY <2>1, <2>2 DEF AnswersOK
<1>8. LatestOK'
  <2>1. ASSUME NEW c \in queue' \union running', c.request = Nobody PROVE c.id # lastMapID'
    <3>1. c \in LostQueue \union running
      BY <1>1, <1>2, <2>1 DEF Answer
    <3>2. c.id \in Nat /\ c.id <= lastMapID
      BY <1>3, <2>1, <3>1 DEF HandedOn, CallbacksOK, SameKey, TypeOK, Callback
    <3>3. QED
      BY <1>1, <1>5, <3>2
  <2>2. QED
    BY <1>1, <2>1 DEF LatestOK, IsLatest
<1>9. ApisOK'
  BY <1>1, OneOrTheOther DEF ApisOK
<1>10. QED
  BY <1>1, <1>6, <1>7, <1>8, <1>9, TaskMode

-----------------------------------------------------------------------------
(* By future.                                                              *)
LEMMA OnlyPending ==
    ASSUME RInv, NEW e \in events, e.status = "Success"
    PROVE  pendingEvent = e.request /\ pendingEvent # Nobody /\ state = "PendingMap"
  BY BufferBounds DEF RInv, RequestsOK, EventsOK, TypeOK, Event

(* What is queued stays nothing.                                           *)
LEMMA EventsKeep ==
    ASSUME RInv, "event" \in apis, EventsOK',
           HandedOn(tasks, queue') \/ UNCHANGED queue, tasks' \subseteq tasks,
           UNCHANGED <<apis, running, mapCallback>>
    PROVE  RequestsOK'
<1>1. /\ "task" \notin apis /\ mapCallback = Nobody /\ tasks = {} /\ queue = {} /\ running = {}
      /\ apis \in {{"task"}, {"event"}}
  BY OneOrTheOther DEF RInv, RequestsOK, ApisOK
<1>2. queue' = {} /\ tasks' = {}
  BY <1>1 DEF HandedOn
<1>3. ApisOK'
  BY <1>1, <1>2 DEF ApisOK
<1>4. QED
  BY <1>3, EventMode DEF RequestsOK

LEMMA RefusedFKeeps ==
    ASSUME RInv, TypeOK', NEW r \in Requests, MapAsyncFRefused(r) \/ MapAsyncFFails(r)
    PROVE  RequestsOK'
<1> USE DEF RInv, RequestsOK
<1>1. PICK f \in Failures :
        \/ answer' = [answer EXCEPT ![r] = f] /\ UNCHANGED events
        \/ /\ events' = events \union
                {[request |-> r, serial |-> 0, status |-> f, spontaneous |-> FALSE]}
           /\ answer' = [answer EXCEPT ![r] = "asked"]
  BY DEF MapAsyncFRefused, MapAsyncFFails, EarlyStatuses, Failures
<1>2. /\ "event" \in apis /\ answer[r] = "none"
      /\ HandedOn(tasks, queue') \/ UNCHANGED queue
      /\ tasks' \subseteq tasks
      /\ UNCHANGED <<apis, state, running, mapCallback, pendingEvent, unmapping, lastUsage>>
  BY LossHandsOn DEF MapAsyncFRefused, MapAsyncFFails, HandleLoss
<1> DEFINE new == [request |-> r, serial |-> 0, status |-> f, spontaneous |-> FALSE]
<1>3. new.request = r /\ new.status \in Failures /\ new.status # "Success"
  BY DEF Failures
<1>4. \/ answer' = [answer EXCEPT ![r] = f] /\ events' = events
      \/ events' = events \union {new} /\ answer' = [answer EXCEPT ![r] = "asked"]
  BY <1>1
<1> HIDE DEF new
<1>5. \A e \in events : answer'[e.request] = "asked" /\ e.request # r
  BY <1>2, <1>4, AskedStay, NoneAsked
<1>6. \A e \in events' : e \in events \/ (e = new /\ answer'[r] = "asked")
  BY <1>2, <1>4, AskedStay
<1>7. EventsOK'
  <2>1. \A e \in events' : answer'[e.request] = "asked"
    BY <1>3, <1>5, <1>6
  <2>2. \A d, e \in events' : d.request = e.request => d = e
    BY <1>3, <1>5, <1>6 DEF EventsOK
  <2>3. \A e \in events' : e.status = "Success" => pendingEvent' = e.request /\ lastUsage' <= e.serial
    BY <1>2, <1>3, <1>6 DEF EventsOK
  <2>4. pendingEvent' # Nobody => state' = "PendingMap" /\ unmapping' = <<>>
    BY <1>2 DEF EventsOK
  <2>5. QED
    BY <2>1, <2>2, <2>3, <2>4 DEF EventsOK
<1>8. QED
  BY <1>2, <1>7, EventsKeep

LEMMA MapAsyncFKeeps ==
    ASSUME RInv, TypeOK', OneEntryPoint, NEW r \in Requests, MapAsyncF(r) PROVE RequestsOK'
<1> USE DEF RInv, RequestsOK
<1>1. /\ "event" \in apis /\ answer[r] = "none" /\ state = "Unmapped" /\ unmapping = <<>>
      /\ UNCHANGED <<apis, tasks, queue, running, mapCallback, unmapping>>
  BY DEF MapAsyncF, CanMap, CanCall, OneEntryPoint
<1>2. PICK early \in BOOLEAN :
        LET e == [request |-> r, serial |-> lastUsage', status |-> "Success", spontaneous |-> early]
        IN  \/ /\ state' = "Mapped" /\ answer' = [answer EXCEPT ![r] = "Success"]
               /\ UNCHANGED <<pendingEvent, events>>
            \/ /\ state' = "PendingMap" /\ answer' = [answer EXCEPT ![r] = "asked"]
               /\ pendingEvent' = r /\ events' = events \union {e}
  BY DEF MapAsyncF
<1> DEFINE new == [request |-> r, serial |-> lastUsage', status |-> "Success", spontaneous |-> early]
<1>3. new.request = r /\ new.serial = lastUsage'
  OBVIOUS
<1>4. \/ /\ state' = "Mapped" /\ answer' = [answer EXCEPT ![r] = "Success"]
         /\ UNCHANGED <<pendingEvent, events>>
      \/ /\ state' = "PendingMap" /\ answer' = [answer EXCEPT ![r] = "asked"]
         /\ pendingEvent' = r /\ events' = events \union {new}
  BY <1>2
<1> HIDE DEF new
<1>5. pendingEvent = Nobody /\ \A e \in events : e.status # "Success"
  BY <1>1, OnlyPending DEF EventsOK
<1>6. \A e \in events : answer'[e.request] = "asked" /\ e.request # r
  BY <1>1, <1>4, AskedStay, NoneAsked
<1>7. \A e \in events' : e \in events \/ (e = new /\ answer'[r] = "asked" /\ pendingEvent' = r)
  BY <1>1, <1>4, AskedStay
<1>8. EventsOK'
  <2>1. \A e \in events' : answer'[e.request] = "asked"
    BY <1>3, <1>6, <1>7
  <2>2. \A d, e \in events' : d.request = e.request => d = e
    BY <1>3, <1>6, <1>7 DEF EventsOK
  <2>3. ASSUME NEW e \in events', e.status = "Success"
        PROVE  pendingEvent' = e.request /\ lastUsage' <= e.serial
    <3>1. e = new /\ pendingEvent' = r
      BY <1>5, <1>7, <2>3
    <3>2. lastUsage' \in Nat
      BY DEF TypeOK
    <3>3. QED
      BY <1>3, <3>1, <3>2
  <2>4. pendingEvent' # Nobody => state' = "PendingMap" /\ unmapping' = <<>>
    BY <1>1, <1>4, <1>5
  <2>5. QED
    BY <2>1, <2>2, <2>3, <2>4 DEF EventsOK
<1>9. QED
  BY <1>1, <1>8, EventsKeep

LEMMA CompleteKeeps ==
    ASSUME RInv, TypeOK', NEW e \in events, Complete(e) PROVE RequestsOK'
<1> USE DEF RInv, RequestsOK
<1>1. /\ events' = events \ {e} /\ answer' = [answer EXCEPT ![e.request] = e.status]
      /\ UNCHANGED <<apis, tasks, queue, running, mapCallback, unmapping, lastUsage>>
      /\ \/ e.status = "Success" /\ pendingEvent' = Nobody
         \/ e.status # "Success" /\ UNCHANGED <<state, pendingEvent>>
  BY DEF Complete
<1>2. "event" \in apis
  BY OneOrTheOther
<1>3. ASSUME NEW d \in events' PROVE d \in events /\ d.request # e.request /\ answer'[d.request] = "asked"
  <2>1. d \in events /\ d # e
    BY <1>1
  <2>2. d.request # e.request /\ answer[d.request] = "asked" /\ d.request \in Requests
    BY <2>1 DEF EventsOK, TypeOK, Event
  <2>3. QED
    BY <1>1, <2>1, <2>2 DEF TypeOK
<1>4. EventsOK'
  <2>1. \A d, c \in events' : d.request = c.request => d = c
    BY <1>3 DEF EventsOK
  <2>2. ASSUME NEW d \in events', d.status = "Success"
        PROVE  pendingEvent' = d.request /\ lastUsage' <= d.serial
    <3>1. pendingEvent = d.request /\ lastUsage <= d.serial
      BY <1>3, <2>2 DEF EventsOK
    <3>2. e.status # "Success"
      BY <1>3, <3>1, OnlyPending
    <3>3. QED
      BY <1>1, <3>1, <3>2
  <2>3. pendingEvent' # Nobody => state' = "PendingMap" /\ unmapping' = <<>>
    BY <1>1 DEF EventsOK
  <2>4. QED
    BY <1>3, <2>1, <2>2, <2>3 DEF EventsOK
<1>5. QED
  BY <1>1, <1>2, <1>4, EventsKeep

-----------------------------------------------------------------------------
(* The end of a mapping, by either way.                                    *)
LEMMA UnmapKeeps ==
    ASSUME RInv, TypeOK', NEW caller \in {"Unmap", "Destroy"}, NEW status \in Failures,
           UnmapInternal(caller, status), UNCHANGED <<apis, tasks, callbacks, running, lastMapID>>
    PROVE  RequestsOK'
<1> USE DEF RInv, RequestsOK
<1>1. After(caller) # "PendingMap"
  BY DEF After
<1>2. CASE state = "PendingMap" /\ pendingEvent # Nobody
  <2>1. PICK e \in events :
          /\ e.request = pendingEvent
          /\ pendingEvent' = Nobody /\ UNCHANGED <<mapCallback, queue>>
          /\ \/ /\ events' = events \ {e} /\ answer' = [answer EXCEPT ![e.request] = status]
                /\ unmapping' = <<caller>> \o unmapping /\ UNCHANGED state
             \/ /\ events' = (events \ {e}) \union {[e EXCEPT !.status = status]}
                /\ state' = After(caller) /\ UNCHANGED <<answer, unmapping>>
    BY <1>2, EarlyEvent DEF UnmapInternal
  <2> DEFINE old == [e EXCEPT !.status = status]
  <2>2. old.request = e.request /\ old.status = status /\ status # "Success"
    BY DEF TypeOK, Event, Failures
  <2>3. \/ events' = events \ {e} /\ answer' = [answer EXCEPT ![e.request] = status]
        \/ events' = (events \ {e}) \union {old} /\ answer' = answer
    BY <2>1
  <2> HIDE DEF old
  <2>4. \A d \in events \ {e} :
          /\ d.request # e.request /\ answer[d.request] = "asked" /\ d.request \in Requests
          /\ d.status # "Success"
    BY <2>1, OnlyPending DEF EventsOK, TypeOK, Event
  <2>5. e.request \in Requests /\ answer[e.request] = "asked"
    BY DEF EventsOK, TypeOK, Event
  <2>6. \A d \in events' :
          \/ d \in events /\ d \in events \ {e} /\ answer'[d.request] = "asked"
          \/ d = old /\ answer' = answer
    BY <2>3, <2>4, <2>5 DEF TypeOK
  <2>7. EventsOK'
    <3>1. \A d \in events' : answer'[d.request] = "asked"
      BY <2>2, <2>5, <2>6
    <3>2. \A c, d \in events' : c.request = d.request => c = d
      BY <2>2, <2>4, <2>6 DEF EventsOK
    <3>3. \A d \in events' : d.status # "Success"
      BY <2>2, <2>4, <2>6
    <3>4. QED
      BY <2>1, <3>1, <3>2, <3>3 DEF EventsOK
  <2>8. "event" \in apis
    BY OneOrTheOther
  <2>9. QED
    BY <2>1, <2>7, <2>8, EventsKeep
<1>3. CASE state = "PendingMap" /\ pendingEvent = Nobody
  <2>1. UnmapCallback(caller, status)
    BY <1>3 DEF UnmapInternal
  <2>2. /\ mapCallback' = Nobody /\ state' # "PendingMap"
        /\ UNCHANGED <<pendingEvent, unmapping, events, answer>>
    BY <1>1, <2>1 DEF UnmapCallback
  <2>3. LatestOK'
    BY <2>2 DEF LatestOK
  <2>4. EventsOK'
    <3>1. \A e \in events : e.status # "Success"
      BY <1>3, OnlyPending
    <3>2. QED
      BY <1>3, <2>2, <3>1 DEF EventsOK
  <2>5. CASE mapCallback = Nobody
    <3>1. queue' = queue
      BY <2>1, <2>5 DEF UnmapCallback
    <3>2. CallbacksOK'
      BY <3>1 DEF CallbacksOK
    <3>3. AnswersOK'
      BY <2>2, <2>5, <3>1 DEF AnswersOK
    <3>4. ApisOK'
      BY <2>2, <3>1 DEF ApisOK
    <3>5. QED
      BY <2>3, <2>4, <3>2, <3>3, <3>4
  <2>6. CASE mapCallback # Nobody
    <3>1. mapCallback \in Requests /\ answer[mapCallback] = "asked" /\ "task" \in apis
      BY <2>6, OneOrTheOther DEF TypeOK, Owners, AnswersOK
    <3>2. PICK f \in Failures : queue' = queue \union {Marked(Answer(mapCallback, f), callbacks)}
      BY <2>1, <2>6 DEF UnmapCallback, AddCallbackTask, Failures
    <3>3. /\ Answer(mapCallback, f) \in Callback /\ Answer(mapCallback, f).request = mapCallback
          /\ Answer(mapCallback, f).id = 0 /\ Answer(mapCallback, f).status = f
      BY <3>1, RequestIs DEF Statuses
    <3>4. queue' = queue \union {Answer(mapCallback, f)}
      BY <2>6, <3>2, <3>3, MarkedIs DEF TypeOK, Statuses, Failures
    <3>5. \A c \in queue \union running : c.request # mapCallback
      BY <2>6 DEF AnswersOK
    <3>6. CallbacksOK'
      <4>1. HandedOn(tasks \ tasks', queue) /\ \A c, d \in queue : SameKey(c, d) => c = d
        BY AsIsHandedOn DEF HandedOn
      <4>2. tasks' \subseteq tasks /\ UNCHANGED running /\ lastMapID' \in Nat /\ lastMapID <= lastMapID'
        BY DEF TypeOK
      <4>3. QED
        BY <3>1, <3>4, <3>5, <4>1, <4>2, AnswerKeeps
    <3>7. AnswersOK'
      <4>1. ASSUME NEW c \in queue' \union running, c.request # Nobody
            PROVE  answer[c.request] = "asked" /\ c.status \in Failures /\ c.id = 0
        <5>1. CASE c = Answer(mapCallback, f)
          BY <3>1, <3>3, <5>1
        <5>2. CASE c \in queue \union running
          BY <4>1, <5>2 DEF AnswersOK
        <5>3. QED
          BY <3>4, <5>1, <5>2
      <4>2. mapCallback' = Nobody /\ answer' = answer /\ running' = running
        BY <2>2
      <4>3. QED
        BY <4>1, <4>2 DEF AnswersOK
    <3>8. ApisOK'
      BY <2>2, <3>1, OneOrTheOther DEF ApisOK
    <3>9. QED
      BY <2>3, <2>4, <3>6, <3>7, <3>8
  <2>7. QED
    BY <2>5, <2>6
<1>4. CASE state # "PendingMap"
  <2>1. state' # "PendingMap" /\ UNCHANGED <<pendingEvent, unmapping, mapCallback, queue, events, answer>>
    BY <1>1, <1>4 DEF UnmapInternal
  <2>2. mapCallback = Nobody /\ pendingEvent = Nobody /\ \A e \in events : e.status # "Success"
    BY <1>4, OnlyPending DEF AnswersOK, EventsOK
  <2>3. CallbacksOK' /\ LatestOK'
    BY <2>1 DEF CallbacksOK, LatestOK
  <2>4. AnswersOK'
    BY <2>1, <2>2 DEF AnswersOK
  <2>5. EventsOK'
    BY <2>1, <2>2 DEF EventsOK
  <2>6. ApisOK'
    BY <2>1 DEF ApisOK
  <2>7. QED
    BY <2>3, <2>4, <2>5, <2>6
<1>5. QED
  BY <1>2, <1>3, <1>4

LEMMA RunCallbackKeeps == ASSUME RInv, TypeOK', RunCallback PROVE RequestsOK'
<1> USE DEF RInv, RequestsOK
<1>1. PICK c \in running :
        /\ running' = running \ {c}
        /\ state' = IF IsLatest(c) /\ c.status = "Success" /\ state = "PendingMap"
                    THEN "Mapped" ELSE state
        /\ \/ /\ IsLatest(c) /\ mapCallback # Nobody /\ mapCallback' = Nobody
              /\ \E s : answer' = [answer EXCEPT ![mapCallback] = s]
           \/ ~IsLatest(c) /\ c.request = Nobody /\ UNCHANGED <<answer, mapCallback>>
           \/ IsLatest(c) /\ mapCallback = Nobody /\ UNCHANGED <<answer, mapCallback>>
           \/ /\ c.request # Nobody /\ UNCHANGED mapCallback
              /\ answer' = [answer EXCEPT ![c.request] = c.status]
  BY DEF RunCallback, IsLatest
<1>2. UNCHANGED <<apis, tasks, queue, lastMapID, pendingEvent, unmapping, lastUsage, finished, events>>
  BY DEF RunCallback
<1>3. /\ "task" \in apis /\ \A d \in running' : d \in running /\ d # c
      /\ \A d \in queue \union running' : ~SameKey(c, d)
  <2>1. "task" \in apis
    BY OneOrTheOther
  <2>2. \A d \in running' : d \in running /\ d # c
    BY <1>1
  <2>3. \A d \in queue \union running' : ~SameKey(c, d)
    BY <2>2 DEF CallbacksOK, SameKey
  <2>4. QED
    BY <2>1, <2>2, <2>3
<1>4. CallbacksOK'
  BY <1>2, <1>3 DEF CallbacksOK, SameKey
<1>5. AnswersOK'
  <2>1. ASSUME NEW d \in queue \union running', d.request # Nobody
        PROVE  /\ answer'[d.request] = "asked" /\ d.status \in Failures /\ d.id = 0
               /\ d.request # mapCallback'
    <3>1. /\ answer[d.request] = "asked" /\ d.status \in Failures /\ d.id = 0
          /\ d.request # mapCallback /\ d.request \in Requests
      BY <1>3, <2>1 DEF AnswersOK, TypeOK, Callback, Owners
    <3>2. c.request # Nobody => c.request # d.request
      BY <1>3, <3>1 DEF AnswersOK, SameKey
    <3>3. QED
      BY <1>1, <2>1, <3>1, <3>2 DEF TypeOK
  <2>2. mapCallback' # Nobody => answer'[mapCallback'] = "asked" /\ state' = "PendingMap"
    <3>1. ASSUME mapCallback' # Nobody
          PROVE  /\ mapCallback' = mapCallback /\ ~IsLatest(c) /\ mapCallback \in Requests
                 /\ state' = state /\ (c.request # Nobody => c.request # mapCallback)
                 /\ answer' = answer \/ (c.request # Nobody /\ answer' = [answer EXCEPT ![c.request] = c.status])
      BY <1>1, <3>1 DEF IsLatest, TypeOK, Owners, AnswersOK
    <3>2. QED
      BY <3>1 DEF AnswersOK, TypeOK
  <2>3. QED
    BY <1>2, <2>1, <2>2 DEF AnswersOK
<1>6. LatestOK'
  <2>1. CASE IsLatest(c)
    <3>1. /\ \A u \in tasks : u.id # lastMapID
          /\ \A d \in queue \union running' : ~IsLatest(d)
      BY <1>3, <2>1 DEF CallbacksOK, SameKey, IsLatest
    <3>2. QED
      BY <1>2, <3>1 DEF LatestOK, IsLatest
  <2>2. CASE ~IsLatest(c)
    <3>1. state' = state /\ mapCallback' = mapCallback
      BY <1>1, <2>2
    <3>2. QED
      BY <1>2, <1>3, <3>1 DEF LatestOK, IsLatest
  <2>3. QED
    BY <2>1, <2>2
<1>7. ApisOK'
  BY <1>2, <1>3, OneOrTheOther DEF ApisOK
<1>8. QED
  BY <1>2, <1>3, <1>4, <1>5, <1>6, <1>7, TaskMode

LEMMA RequestsStep ==
    ASSUME RInv, TypeOK', OneEntryPoint, [Next]_vars
    PROVE  RequestsOK'
<1>1. CASE UNCHANGED vars
  BY <1>1, QuietKeeps DEF RInv, TypeOK
<1>2. {"UnmappedBeforeCallback", "DestroyedBeforeCallback"} \subseteq Failures
  BY DEF Failures
<1>3. CASE Unmap
  BY <1>2, <1>3, UnmapKeeps DEF Unmap
<1>4. CASE Destroy
  BY <1>2, <1>4, UnmapKeeps DEF Destroy, DestroyBuffer
<1>5. ASSUME NEW r \in Requests, MapAsync(r) \/ MapAsyncRefused(r) \/ MapAsyncFails(r)
                                 \/ MapAsyncF(r) \/ MapAsyncFRefused(r) \/ MapAsyncFFails(r)
      PROVE  RequestsOK'
  BY <1>5, MapAsyncKeeps, MapAsyncRefusedKeeps, MapAsyncFailsKeeps, MapAsyncFKeeps, RefusedFKeeps
<1>6. ASSUME NEW e \in events, Complete(e) PROVE RequestsOK'
  BY <1>6, CompleteKeeps
<1>7. QED
  BY <1>1, <1>3, <1>4, <1>5, <1>6, LoseDeviceKeeps, TickKeeps, UseKeeps, FlushKeeps, BeginDestroyKeeps,
     FinishUnmapKeeps, RunCallbackKeeps DEF Next

LEMMA InvStep ==
    ASSUME RInv, OneEntryPoint, [Next]_vars
    PROVE  RInv'
<1>1. TypeOK' /\ PendingEventOK'
  BY TypeStep DEF RInv, TypesOK
<1>2. SerialsOK' /\ RequestsOK'
  BY <1>1, SerialsStep, RequestsStep
<1>3. QED
  BY <1>1, <1>2 DEF RInv

LEMMA InitInv == ASSUME OneEntryPoint, Init PROVE RInv
<1>1. TypeOK /\ PendingEventOK
  BY InitTypes DEF TypesOK
<1>2. SerialsOK
  BY DEF Init, SerialsOK
<1>3. ApisOK
  BY DEF Init, ApisOK, OneEntryPoint
<1>4. CallbacksOK /\ AnswersOK /\ LatestOK /\ EventsOK
  BY DEF Init, CallbacksOK, AnswersOK, LatestOK, EventsOK
<1>5. QED
  BY <1>1, <1>2, <1>3, <1>4 DEF RInv, RequestsOK

-----------------------------------------------------------------------------
(* What each step is to BufferMapping.                                     *)
Owner == IF pendingEvent # Nobody THEN pendingEvent ELSE mapCallback

(* A step of the owner, the map and the answers is one of BufferMapping's: *)
(* what is mapped is not in use.                                           *)
LEMMA Promised ==
    ASSUME SerialsOK', TypeOK',
           \/ Mapping!Unmap \/ Mapping!Use \/ Mapping!Grant
           \/ \E r \in Requests : Mapping!Ask(r) \/ Mapping!Refuse(r)
    PROVE  [Mapping!Next]_Mapping!vars
<1>1. (lastUsage > finished)' \in BOOLEAN
  OBVIOUS
<1>2. MapState' = "mapped" => ~(lastUsage > finished)'
  <2>1. MapState' = "mapped" => state' \in {"Mapped", "MappedAtCreation"}
    BY DEF MapState
  <2>2. lastUsage' <= finished' => ~(lastUsage' > finished')
    BY DEF TypeOK
  <2>3. QED
    BY <2>1, <2>2 DEF SerialsOK
<1>3. QED
  BY <1>1, <1>2 DEF Mapping!Next

LEMMA Uses ==
    ASSUME UNCHANGED <<state, pendingEvent, mapCallback, answer>>
    PROVE  Mapping!Use
  BY DEF Mapping!Use, MapState

LEMMA MapStateIs ==
    /\ state = "Unmapped" => MapState = "unmapped"
    /\ state = "PendingMap" => MapState = "pending"
    /\ state = "Mapped" => MapState = "mapped"
    /\ state = "Destroyed" => MapState = "unmapped"
  BY DEF MapState

(* Nothing is owned but while the mapping is pending.                      *)
LEMMA OwnerIs ==
    ASSUME RInv
    PROVE  /\ state # "PendingMap" => mapCallback = Nobody /\ pendingEvent = Nobody
           /\ pendingEvent # Nobody => mapCallback = Nobody
  BY OneOrTheOther DEF RInv, RequestsOK, AnswersOK, EventsOK

LEMMA AskMaps ==
    ASSUME RInv, NEW r \in Requests,
           MapAsync(r) \/ MapAsyncRefused(r) \/ MapAsyncFails(r)
             \/ MapAsyncF(r) \/ MapAsyncFRefused(r) \/ MapAsyncFFails(r)
    PROVE  Mapping!Ask(r)
<1>1. answer[r] = "none" /\ r # Nobody
  BY BufferBounds DEF MapAsync, StartMapAsync, MapAsyncRefused, MapAsyncFails, MapAsyncF,
     MapAsyncFRefused, MapAsyncFFails
<1>2. CASE MapAsyncRefused(r)
  <2>1. /\ answer' = [answer EXCEPT ![r] = "asked"]
        /\ UNCHANGED <<state, pendingEvent, mapCallback>>
    BY <1>2 DEF MapAsyncRefused
  <2>2. MapState' = MapState /\ Owner' = Owner
    BY <2>1 DEF MapState, Owner
  <2>3. QED
    BY <1>1, <2>1, <2>2 DEF Mapping!Ask, Mapping!Say, Owner
<1>3. CASE MapAsyncFRefused(r) \/ MapAsyncFFails(r)
  <2>1. \E a \in Failures \union {"asked"} : answer' = [answer EXCEPT ![r] = a]
    BY <1>3 DEF MapAsyncFRefused, MapAsyncFFails, EarlyStatuses, Failures
  <2>2. UNCHANGED <<state, pendingEvent, mapCallback>>
    BY <1>3 DEF MapAsyncFRefused, MapAsyncFFails
  <2>3. MapState' = MapState /\ Owner' = Owner
    BY <2>2 DEF MapState, Owner
  <2>4. QED
    BY <1>1, <2>1, <2>3 DEF Mapping!Ask, Mapping!Say, Owner
<1>4. CASE MapAsync(r)
  <2>1. /\ state = "Unmapped" /\ state' = "PendingMap"
        /\ mapCallback' = r /\ pendingEvent' = pendingEvent
        /\ answer' = [answer EXCEPT ![r] = "asked"]
    BY <1>4 DEF MapAsync, StartMapAsync, CanMap
  <2>2. pendingEvent = Nobody
    BY <2>1, OwnerIs
  <2>3. MapState = "unmapped" /\ MapState' = "pending" /\ Owner' = r
    BY <2>1, <2>2 DEF MapState, Owner
  <2>4. QED
    BY <1>1, <2>1, <2>3 DEF Mapping!Ask, Mapping!Say, Owner
<1>5. CASE MapAsyncFails(r)
  <2>1. /\ state = "Unmapped" /\ state' = "PendingMap"
        /\ mapCallback' = mapCallback /\ pendingEvent' = pendingEvent
        /\ answer' = [answer EXCEPT ![r] = "asked"]
    BY <1>5 DEF MapAsyncFails, StartMapAsync, CanMap
  <2>2. MapState = "unmapped" /\ MapState' = "pending" /\ Owner' = Owner
    BY <2>1 DEF MapState, Owner
  <2>3. QED
    BY <1>1, <2>1, <2>2 DEF Mapping!Ask, Mapping!Say, Owner
<1>6. CASE MapAsyncF(r)
  <2>1. /\ state = "Unmapped" /\ mapCallback' = mapCallback
        /\ \/ /\ state' = "Mapped" /\ answer' = [answer EXCEPT ![r] = "Success"]
              /\ pendingEvent' = pendingEvent
           \/ /\ state' = "PendingMap" /\ answer' = [answer EXCEPT ![r] = "asked"]
              /\ pendingEvent' = r
    BY <1>6 DEF MapAsyncF, CanMap
  <2>2. MapState = "unmapped"
    BY <2>1, MapStateIs
  <2>3. CASE state' = "Mapped"
    <3>1. MapState' = "mapped" /\ Owner' = Owner /\ answer' = [answer EXCEPT ![r] = "Success"]
      BY <2>1, <2>3 DEF MapState, Owner
    <3>2. QED
      BY <1>1, <2>2, <3>1 DEF Mapping!Ask, Mapping!Say, Owner
  <2>4. CASE state' = "PendingMap"
    <3>1. MapState' = "pending" /\ Owner' = r /\ answer' = [answer EXCEPT ![r] = "asked"]
      BY <1>1, <2>1, <2>4 DEF MapState, Owner
    <3>2. QED
      BY <1>1, <2>2, <3>1 DEF Mapping!Ask, Mapping!Say, Owner
  <2>5. QED
    BY <2>1, <2>3, <2>4
<1>7. QED
  BY <1>2, <1>3, <1>4, <1>5, <1>6

(* A future that succeeds grants the owner; one that fails refuses it or   *)
(* one of those it has refused already.                                    *)
LEMMA CompleteMaps ==
    ASSUME RInv, NEW e \in events, Complete(e)
    PROVE  Mapping!Grant \/ \E r \in Requests : Mapping!Refuse(r)
<1>1. /\ answer' = [answer EXCEPT ![e.request] = e.status] /\ mapCallback' = mapCallback
      /\ \/ e.status = "Success" /\ state' = "Mapped" /\ pendingEvent' = Nobody
         \/ e.status # "Success" /\ UNCHANGED <<state, pendingEvent>>
  BY DEF Complete
<1>2. /\ e.request \in Requests /\ e.request # Nobody /\ answer[e.request] = "asked"
      /\ e.status \in Statuses
  BY BufferBounds DEF RInv, RequestsOK, EventsOK, TypeOK, Event
<1>3. CASE e.status = "Success"
  <2>1. pendingEvent = e.request /\ state = "PendingMap" /\ mapCallback = Nobody
    BY <1>2, <1>3, OnlyPending, OwnerIs
  <2>2. MapState = "pending" /\ MapState' = "mapped" /\ Owner = e.request /\ Owner' = Nobody
    BY <1>1, <1>2, <1>3, <2>1 DEF MapState, Owner
  <2>3. QED
    BY <1>1, <1>2, <1>3, <2>2 DEF Mapping!Grant, Mapping!Say, Owner
<1>4. CASE e.status # "Success"
  <2>1. e.status \in Failures
    BY <1>2, <1>4 DEF Statuses
  <2>2. Owner # e.request
    <3>1. pendingEvent # e.request
      <4>1. pendingEvent # Nobody => \E d \in events : d.request = pendingEvent /\ d.status = "Success"
        BY DEF RInv, PendingEventOK
      <4>2. \A d \in events : d.request = e.request => d = e
        BY DEF RInv, RequestsOK, EventsOK
      <4>3. QED
        BY <1>2, <1>4, <4>1, <4>2
    <3>2. mapCallback = Nobody
      BY OneOrTheOther DEF RInv, RequestsOK
    <3>3. QED
      BY <1>2, <3>1, <3>2 DEF Owner
  <2>3. MapState' = MapState /\ Owner' = Owner
    BY <1>1, <1>4 DEF MapState, Owner
  <2>4. Mapping!Refuse(e.request)
    BY <1>1, <1>2, <2>1, <2>2, <2>3 DEF Mapping!Refuse, Mapping!Say, Owner
  <2>5. QED
    BY <1>2, <2>4
<1>5. QED
  BY <1>3, <1>4

(* A callback grants or refuses the owner if it is the latest request's;   *)
(* an earlier request's has no effect; an answer refuses another request.  *)
LEMMA CallbackMaps ==
    ASSUME RInv, RunCallback
    PROVE  Mapping!Grant \/ Mapping!Use \/ \E r \in Requests : Mapping!Refuse(r)
<1> DEFINE told(c) == IF IsLost THEN "DeviceLost" ELSE c.status
<1>1. PICK c \in running :
        /\ state' = IF IsLatest(c) /\ c.status = "Success" /\ state = "PendingMap"
                    THEN "Mapped" ELSE state
        /\ \/ /\ IsLatest(c) /\ mapCallback # Nobody /\ mapCallback' = Nobody
              /\ answer' = [answer EXCEPT ![mapCallback] = told(c)]
           \/ ~IsLatest(c) /\ c.request = Nobody /\ UNCHANGED <<answer, mapCallback>>
           \/ IsLatest(c) /\ mapCallback = Nobody /\ UNCHANGED <<answer, mapCallback>>
           \/ /\ c.request # Nobody /\ UNCHANGED mapCallback
              /\ answer' = [answer EXCEPT ![c.request] = c.status]
  BY DEF RunCallback, IsLatest
<1>2. told(c) = "DeviceLost" \/ told(c) = c.status
  OBVIOUS
<1>3. c.status \in Statuses /\ c.request \in Owners /\ "DeviceLost" \in Failures
  BY DEF RInv, TypeOK, Callback, Failures
<1> HIDE DEF told
<1>4. pendingEvent' = pendingEvent /\ pendingEvent = Nobody
  BY OneOrTheOther DEF RunCallback, RInv, RequestsOK
<1>5. CASE IsLatest(c) /\ mapCallback # Nobody
  <2>1. /\ mapCallback \in Requests /\ answer[mapCallback] = "asked" /\ state = "PendingMap"
    BY <1>5 DEF RInv, RequestsOK, AnswersOK, TypeOK, Owners
  <2>2. c.request = Nobody
    BY <1>5 DEF IsLatest
  <2>3. mapCallback' = Nobody /\ answer' = [answer EXCEPT ![mapCallback] = told(c)]
    BY <1>1, <1>5, <2>2
  <2>4. Owner = mapCallback /\ Owner' = Nobody /\ MapState = "pending"
    BY <1>4, <2>1, <2>3 DEF Owner, MapState
  <2>5. CASE told(c) \in Failures
    <3>1. MapState' = MapState \/ MapState' = "mapped"
      BY <1>1 DEF MapState
    <3>2. Mapping!Refuse(mapCallback)
      BY <2>1, <2>3, <2>4, <2>5, <3>1 DEF Mapping!Refuse, Mapping!Say, Owner
    <3>3. QED
      BY <2>1, <3>2
  <2>6. CASE told(c) \notin Failures
    <3>1. c.status = "Success" /\ told(c) = "Success"
      BY <1>2, <1>3, <2>6 DEF Statuses
    <3>2. MapState' = "mapped"
      BY <1>1, <1>5, <2>1, <3>1 DEF MapState
    <3>3. Mapping!Grant
      BY <1>5, <2>3, <2>4, <3>1, <3>2 DEF Mapping!Grant, Mapping!Say, Owner
    <3>4. QED
      BY <3>3
  <2>7. QED
    BY <2>5, <2>6
<1>6. CASE c.request = Nobody /\ ~(IsLatest(c) /\ mapCallback # Nobody)
  <2>1. IsLatest(c) => state # "PendingMap"
    BY <1>6 DEF RInv, RequestsOK, LatestOK
  <2>2. UNCHANGED <<state, pendingEvent, mapCallback, answer>>
    BY <1>1, <1>4, <1>6, <2>1
  <2>3. QED
    BY <2>2, Uses
<1>7. CASE c.request # Nobody
  <2>1. ~IsLatest(c)
    BY <1>7 DEF IsLatest
  <2>2. /\ UNCHANGED <<state, mapCallback>> /\ answer' = [answer EXCEPT ![c.request] = c.status]
    BY <1>1, <1>7, <2>1
  <2>3. /\ answer[c.request] = "asked" /\ c.status \in Failures /\ c.request # mapCallback
        /\ c.request \in Requests
    BY <1>3, <1>7 DEF RInv, RequestsOK, AnswersOK, Owners
  <2>4. Owner # c.request /\ Owner' = Owner /\ MapState' = MapState
    BY <1>4, <2>2, <2>3 DEF Owner, MapState
  <2>5. Mapping!Refuse(c.request)
    BY <2>2, <2>3, <2>4 DEF Mapping!Refuse, Mapping!Say, Owner
  <2>6. QED
    BY <2>3, <2>5
<1>8. QED
  BY <1>5, <1>6, <1>7

LEMMA UnmapMaps ==
    ASSUME RInv, NEW caller \in {"Unmap", "Destroy"}, NEW status \in Failures,
           UnmapInternal(caller, status)
    PROVE  Mapping!Unmap \/ \E r \in Requests : Mapping!Refuse(r)
<1>1. After(caller) \in {"Unmapped", "Destroyed"}
  BY DEF After
<1>2. CASE state = "PendingMap" /\ pendingEvent # Nobody
  <2>1. PICK e \in events :
          /\ e.request = pendingEvent
          /\ pendingEvent' = Nobody /\ UNCHANGED <<mapCallback, queue>>
          /\ \/ /\ events' = events \ {e} /\ answer' = [answer EXCEPT ![e.request] = status]
                /\ unmapping' = <<caller>> \o unmapping /\ UNCHANGED state
             \/ /\ events' = (events \ {e}) \union {[e EXCEPT !.status = status]}
                /\ state' = After(caller) /\ UNCHANGED <<answer, unmapping>>
    <3>1. UnmapEarly(caller, status) /\ PendingEventOK
      BY <1>2 DEF UnmapInternal, RInv
    <3>2. QED
      BY <1>2, <3>1, EarlyEvent
  <2>2. e.request \in Requests /\ answer[e.request] = "asked" /\ mapCallback = Nobody
    BY <1>2, OwnerIs DEF RInv, RequestsOK, EventsOK, TypeOK, Event
  <2>3. Owner = e.request /\ Owner' = Nobody
    BY <1>2, <2>1, <2>2 DEF Owner
  <2>4. CASE answer' = [answer EXCEPT ![e.request] = status] /\ UNCHANGED state
    <3>1. MapState' = MapState
      BY <2>4 DEF MapState
    <3>2. Mapping!Refuse(e.request)
      BY <2>2, <2>3, <2>4, <3>1 DEF Mapping!Refuse, Mapping!Say, Owner
    <3>3. QED
      BY <2>2, <3>2
  <2>5. CASE state' = After(caller) /\ UNCHANGED answer
    <3>1. MapState' = "unmapped"
      BY <1>1, <2>5 DEF MapState
    <3>2. QED
      BY <2>3, <2>5, <3>1 DEF Mapping!Unmap, Owner
  <2>6. QED
    BY <2>1, <2>4, <2>5
<1>3. CASE ~(state = "PendingMap" /\ pendingEvent # Nobody)
  <2>1. /\ state' = After(caller) /\ UNCHANGED <<pendingEvent, answer>>
        /\ mapCallback' = Nobody \/ (state # "PendingMap" /\ UNCHANGED mapCallback)
    BY <1>3 DEF UnmapInternal, UnmapCallback
  <2>2. pendingEvent' = Nobody /\ mapCallback' = Nobody
    BY <1>3, <2>1, OwnerIs
  <2>3. MapState' = "unmapped" /\ Owner' = Nobody
    BY <1>1, <2>1, <2>2 DEF MapState, Owner
  <2>4. QED
    BY <2>1, <2>3 DEF Mapping!Unmap, Owner
<1>4. QED
  BY <1>2, <1>3

LEMMA FinishMaps == ASSUME RInv, FinishUnmap PROVE Mapping!Unmap
<1>1. /\ state' \in {"Unmapped", "Destroyed"} /\ unmapping # <<>>
      /\ UNCHANGED <<pendingEvent, mapCallback, answer>>
  BY DEF FinishUnmap, After
<1>2. pendingEvent = Nobody /\ mapCallback = Nobody
  BY <1>1, OneOrTheOther DEF RInv, RequestsOK, EventsOK
<1>3. MapState' = "unmapped" /\ Owner' = Nobody
  BY <1>1, <1>2 DEF MapState, Owner
<1>4. QED
  BY <1>1, <1>3 DEF Mapping!Unmap, Owner

LEMMA StepMaps ==
    ASSUME RInv, RInv', [Next]_vars
    PROVE  [Mapping!Next]_Mapping!vars
<1>1. CASE UNCHANGED vars
  BY <1>1, Uses, Promised DEF RInv
<1>2. ASSUME NEW r \in Requests, MapAsync(r) \/ MapAsyncRefused(r) \/ MapAsyncFails(r)
                                 \/ MapAsyncF(r) \/ MapAsyncFRefused(r) \/ MapAsyncFFails(r)
      PROVE  [Mapping!Next]_Mapping!vars
  BY <1>2, AskMaps, Promised DEF RInv
<1>3. CASE LoseDevice \/ Submit \/ WriteBuffer \/ Tick \/ CheckPassedSerials \/ Flush \/ Gpu
           \/ BeginDestroyDevice \/ EndDestroyDevice
  <2>1. UNCHANGED <<state, pendingEvent, mapCallback, answer>>
    BY <1>3 DEF LoseDevice, Submit, WriteBuffer, Tick, CheckPassedSerials, Flush, Gpu,
       BeginDestroyDevice, EndDestroyDevice
  <2>2. QED
    BY <2>1, Uses, Promised DEF RInv
<1>4. CASE RunCallback
  BY <1>4, CallbackMaps, Promised DEF RInv
<1>5. ASSUME NEW e \in events, Complete(e) PROVE [Mapping!Next]_Mapping!vars
  BY <1>5, CompleteMaps, Promised DEF RInv
<1>6. CASE Unmap \/ Destroy
  <2>1. PICK caller \in {"Unmap", "Destroy"}, status \in Failures : UnmapInternal(caller, status)
    BY <1>6 DEF Unmap, Destroy, DestroyBuffer, Failures
  <2>2. QED
    BY <2>1, UnmapMaps, Promised DEF RInv
<1>7. CASE FinishUnmap
  BY <1>7, FinishMaps, Promised DEF RInv
<1>8. QED
  BY <1>1, <1>2, <1>3, <1>4, <1>5, <1>6, <1>7 DEF Next

LEMMA InitMaps == ASSUME Init PROVE Mapping!Init
<1>1. MapState \in {"unmapped", "mapped"}
  BY DEF Init, MapState
<1>2. (lastUsage > finished) = FALSE
  BY DEF Init
<1>3. QED
  BY <1>1, <1>2 DEF Init, Mapping!Init

(* The invariant, of an application that uses one entry point: callbacks   *)
(* and events are kept apart, each request has one, and only the latest    *)
(* that is still wanted can map the buffer, after its last use.            *)
THEOREM InductiveInvariant ==
    ASSUME OneEntryPoint PROVE Spec => []RInv
<1>1. Init => RInv
  BY InitInv
<1>2. RInv /\ [Next]_vars => RInv'
  BY InvStep
<1>3. QED
  BY <1>1, <1>2, PTL DEF Spec

(* A request is told "Success" just when the buffer becomes mapped for it, *)
(* each is answered once, and what is mapped is not used by the GPU.       *)
THEOREM ImplementsMapping ==
    ASSUME OneEntryPoint PROVE Spec => MapsAsPromised
<1>1. Init => Mapping!Init
  BY InitMaps
<1>2. RInv /\ RInv' /\ [Next]_vars => [Mapping!Next]_Mapping!vars
  BY StepMaps
<1>3. QED
  BY <1>1, <1>2, InductiveInvariant, PTL DEF Spec, MapsAsPromised, Mapping!Spec

=============================================================================
