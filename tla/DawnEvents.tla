----------------------------- MODULE DawnEvents ------------------------------
(***************************************************************************)
(* Dawn's event manager (native/EventManager.cpp): events are tracked by   *)
(* one thread, made ready by others, and completed by whichever of them,   *)
(* or of the threads in ProcessEvents and WaitAny, gets to it first.       *)
(*                                                                         *)
(* todo[t] is what thread t has still to do of the calls it is in.  Two    *)
(* locks are modelled: mEvents' own, which ProcessPollEvents holds while   *)
(* it polls, and the device's.  A section that holds mEvents' lock and     *)
(* takes no other is one step.  Of the queue only the two serials are      *)
(* kept; waiting with a timeout is polling late.                           *)
(***************************************************************************)
EXTENDS Naturals, FiniteSetsExt, SequencesExt

CONSTANTS
    Threads,
    Count,     \* bound: events that are made besides the device's lost event
    MaxSerial, \* bound: no event waits for a later serial
    NewModes,  \* the callback modes with which events are made
    MapModes,  \* the callback modes of the events of map requests
    LostModes  \* the callback modes the device's lost event may have

ASSUME EventBounds == Count \in Nat /\ MaxSerial \in Nat

Lost == 0
Events == 0 .. Count
NoEvent == Count + 1
Modes == {"WaitAnyOnly", "AllowProcessEvents", "AllowSpontaneous"}
NoThread == "none"

ASSUME KnownModes ==
    LostModes \union NewModes \union MapModes \subseteq Modes /\ NoThread \notin Threads

VARIABLES
    event,      \* of each event: mode, completion data, id, early status, outcome
    nextID,     \* mNextFutureID
    tracked,    \* mEvents
    shut,       \* mEvents has been reset
    working,    \* events a worker, the device or a buffer (mPendingMapEvent) holds
    wait,       \* the futures a thread holds in ProcessPollEvents or WaitAny
    todo,       \* the steps a thread has still to take
    eventsLock, \* the thread that holds mEvents' lock
    deviceLock, \* the thread that holds the device's lock
    submitted,  \* the queue's last submitted serial
    passed      \* the queue's completed serial

manager == <<nextID, tracked, shut>>
locks == <<eventsLock, deviceLock>>
serials == <<submitted, passed>>
vars == <<event, manager, working, wait, todo, locks, serials>>

Serials == 0 .. MaxSerial + 1
EventStates ==
    [mode: Modes, kind: {"none", "system", "serial"}, serial: 0 .. MaxSerial, id: Nat,
     signaled: BOOLEAN, early: BOOLEAN, outcome: {"none", "pending", "ready", "shutdown"}]
Waits == [set: SUBSET Events, ready: SUBSET Events]
NoWait == [set |-> {}, ready |-> {}]
EventSteps ==
    [do: {"track", "check", "emplace", "signal", "handle", "erase", "complete", "release"},
     event: Events]
OtherSteps ==
    [do: {"serials", "systems", "flush", "checkPassed", "unlockDevice", "untrackPolled",
          "untrackWaited", "unlockEvents"},
     event: {NoEvent}]
Steps == EventSteps \union OtherSteps

TypeOK ==
    /\ event \in [Events -> EventStates]
    /\ nextID \in Nat \ {0}
    /\ tracked \subseteq Events /\ working \subseteq Events
    /\ shut \in BOOLEAN
    /\ wait \in [Threads -> Waits]
    /\ todo \in [Threads -> Seq(Steps)]
    /\ eventsLock \in Threads \union {NoThread} /\ deviceLock \in Threads \union {NoThread}
    /\ submitted \in Serials /\ passed \in Serials

Unmade(mode) ==
    [mode |-> mode, kind |-> "none", serial |-> 0, id |-> 0, signaled |-> FALSE,
     early |-> FALSE, outcome |-> "none"]

(* A device has been made, and its lost event, which is tracked.           *)
Init ==
    /\ \E mode \in LostModes :
         event = [e \in Events |->
                    IF e = Lost
                    THEN [Unmade(mode) EXCEPT !.kind = "system", !.id = 1, !.outcome = "pending"]
                    ELSE Unmade("WaitAnyOnly")]
    /\ nextID = 2
    /\ tracked = {Lost} /\ working = {Lost} /\ shut = FALSE
    /\ wait = [t \in Threads |-> NoWait] /\ todo = [t \in Threads |-> <<>>]
    /\ eventsLock = NoThread /\ deviceLock = NoThread
    /\ submitted = 0 /\ passed = 0

-----------------------------------------------------------------------------
Step(do, e) == [do |-> do, event |-> e]
At(t, do) == todo[t] # <<>> /\ Head(todo[t]).do = do
Now(t) == Head(todo[t]).event
Goto(t, steps) == todo' = [todo EXCEPT ![t] = steps \o Tail(@)]
Return(t) == Goto(t, <<>>)
Free(lock) == lock = NoThread

IsDue(e) ==
    \/ event[e].kind = "system" /\ event[e].signaled
    \/ event[e].kind = "serial" /\ event[e].serial <= passed

(* References to an event besides the one thread t is about to give up.    *)
HeldElsewhere(t, e) ==
    \/ e \in tracked \union working
    \/ \E u \in Threads : e \in wait[u].set
    \/ \E u \in Threads \ {t} : \E i \in DOMAIN todo[u] : todo[u][i].event = e
    \/ \E i \in DOMAIN Tail(todo[t]) : Tail(todo[t])[i].event = e

(* A mutant: mCompleted is not exchanged, the callback is called again.    *)
EnsureCompleteAgain(e, outcome) ==
    event' = [event EXCEPT ![e].outcome = IF @ = "pending" THEN outcome ELSE "again"]

EnsureComplete(e, outcome) ==
    event' = [event EXCEPT ![e].outcome = IF @ = "pending" THEN outcome ELSE @]

-----------------------------------------------------------------------------
(* An entry point makes an event, which it then tracks.                    *)
Pending(mode, kind, serial) ==
    [Unmade(mode) EXCEPT !.kind = kind, !.serial = serial, !.outcome = "pending"]

Make(t, e, new) ==
    /\ todo[t] = <<>> /\ event[e].kind = "none"
    /\ \A d \in Events : d < e => event[d].kind # "none"
    /\ event' = [event EXCEPT ![e] = new]
    /\ todo' = [todo EXCEPT ![t] = <<Step("track", e)>>]
    /\ UNCHANGED <<manager, wait, locks, serials>>

(* Work that is done with what is submitted, or with what is pending.      *)
OnSubmittedWorkDoneF(t, e) ==
    /\ Free(deviceLock) /\ Lost \in working
    /\ \E mode \in NewModes, serial \in {submitted, submitted + 1} \intersect 0 .. MaxSerial :
         Make(t, e, Pending(mode, "serial", serial))
    /\ UNCHANGED working

(* A map request waits for the buffer's last use, however long ago, and    *)
(* the buffer holds the event.                                             *)
MapAsyncF(t, e) ==
    /\ Free(deviceLock) /\ Lost \in working
    /\ \E mode \in MapModes, serial \in {s \in 0 .. MaxSerial : s <= submitted + 1} :
         Make(t, e, Pending(mode, "serial", serial))
    /\ working' = working \union {e}

(* What either call refuses gets an early status and waits for nothing.    *)
Refuse(t, e) ==
    /\ Free(deviceLock)
    /\ \E mode \in NewModes \union MapModes :
         Make(t, e, [Pending(mode, "serial", 0) EXCEPT !.early = TRUE])
    /\ UNCHANGED working

(* An event that is ready already, or that a worker will make ready.       *)
MakeSystem(t, e) ==
    \E mode \in NewModes, signaled \in BOOLEAN :
      /\ Make(t, e, [Pending(mode, "system", 0) EXCEPT !.signaled = signaled])
      /\ working' = IF signaled THEN working ELSE working \union {e}

(* TrackEvent, in three steps: the id, the check of a spontaneous event,   *)
(* and the entry into mEvents, which drops the event after ShutDown.       *)
TrackEvent(t) ==
    /\ At(t, "track")
    /\ event' = [event EXCEPT ![Now(t)].id = nextID]
    /\ nextID' = nextID + 1
    /\ Goto(t, <<Step(IF event[Now(t)].mode = "AllowSpontaneous" THEN "check" ELSE "emplace", Now(t))>>)
    /\ UNCHANGED <<tracked, shut, working, wait, locks, serials>>

CheckTracked(t) ==
    /\ At(t, "check")
    /\ Goto(t, <<Step(IF IsDue(Now(t)) THEN "complete" ELSE "emplace", Now(t))>>)
    /\ UNCHANGED <<event, manager, working, wait, locks, serials>>

Emplace(t) ==
    /\ At(t, "emplace") /\ Free(eventsLock)
    /\ IF shut
       THEN Goto(t, <<Step("release", Now(t))>>) /\ UNCHANGED tracked
       ELSE Return(t) /\ tracked' = tracked \union {Now(t)}
    /\ UNCHANGED <<event, nextID, shut, working, wait, locks, serials>>

-----------------------------------------------------------------------------
(* A mutant: whether the event has an id is looked at first.               *)
HandleBeforeSignal(e) == <<Step("handle", e), Step("signal", e), Step("release", e)>>

(* SetFutureReady: signal, look whether the event has an id, and complete  *)
(* a spontaneous one; then the reference of the worker, the device or the  *)
(* buffer goes.                                                            *)
SetFutureReadyCalls(e) == <<Step("signal", e), Step("handle", e), Step("release", e)>>

WorkerDone(t, e) ==
    /\ todo[t] = <<>> /\ e \in working \ {Lost} /\ event[e].kind = "system"
    /\ todo' = [todo EXCEPT ![t] = SetFutureReadyCalls(e)]
    /\ working' = working \ {e}
    /\ UNCHANGED <<event, manager, wait, locks, serials>>

(* Unmap and Destroy end a map request early, all of it under the device's *)
(* lock.                                                                   *)
UnmapEarly(t, e) ==
    /\ todo[t] = <<>> /\ e \in working /\ event[e].kind = "serial"
    /\ Free(deviceLock) /\ deviceLock' = t
    /\ event' = [event EXCEPT ![e].early = TRUE]
    /\ working' = working \ {e}
    /\ todo' = [todo EXCEPT ![t] = Append(SetFutureReadyCalls(e), Step("unlockDevice", NoEvent))]
    /\ UNCHANGED <<manager, wait, eventsLock, serials>>

(* The serial of an event stays: SetFutureReady writes to a copy of it.    *)
Signal(t) ==
    /\ At(t, "signal")
    /\ event' = [event EXCEPT ![Now(t)].signaled = @ \/ event[Now(t)].kind = "system"]
    /\ Return(t)
    /\ UNCHANGED <<manager, working, wait, locks, serials>>

(* A mutant: events of every mode are untracked and completed.             *)
HandleAnyMode(t) ==
    /\ At(t, "handle")
    /\ IF event[Now(t)].id # 0
       THEN Goto(t, <<Step("erase", Now(t)), Step("complete", Now(t))>>)
       ELSE Return(t)
    /\ UNCHANGED <<event, manager, working, wait, locks, serials>>

HandleSpontaneous(t) ==
    /\ At(t, "handle")
    /\ IF event[Now(t)].id # 0 /\ event[Now(t)].mode = "AllowSpontaneous"
       THEN Goto(t, <<Step("erase", Now(t)), Step("complete", Now(t))>>)
       ELSE Return(t)
    /\ UNCHANGED <<event, manager, working, wait, locks, serials>>

Erase(t) ==
    /\ At(t, "erase") /\ Free(eventsLock)
    /\ tracked' = tracked \ {Now(t)}
    /\ Return(t)
    /\ UNCHANGED <<event, nextID, shut, working, wait, locks, serials>>

(* A map event leaves its buffer when it is completed.                     *)
Complete(t) ==
    /\ At(t, "complete")
    /\ EnsureComplete(Now(t), "ready")
    /\ working' = IF event[Now(t)].kind = "serial" THEN working \ {Now(t)} ELSE working
    /\ Return(t)
    /\ UNCHANGED <<manager, wait, locks, serials>>

(* A reference is dropped; with the last one the event is destroyed.       *)
Release(t) ==
    /\ At(t, "release")
    /\ IF HeldElsewhere(t, Now(t)) THEN UNCHANGED event ELSE EnsureComplete(Now(t), "shutdown")
    /\ Return(t)
    /\ UNCHANGED <<manager, working, wait, locks, serials>>

-----------------------------------------------------------------------------
(* WaitImpl polls one kind of event after the other, then untracks those   *)
(* that are ready.  ProcessPollEvents keeps the lock while it does.        *)
WaitImpl(t, futures, untrack) ==
    LET do == [serial |-> "serials", system |-> "systems"]
        kinds == {event[e].kind : e \in futures}
    IN  /\ wait' = [wait EXCEPT ![t].set = futures]
        /\ \E order \in SetToSeqs(kinds) :
             todo' = [todo EXCEPT ![t] =
                        Append([i \in DOMAIN order |-> Step(do[order[i]], NoEvent)],
                               Step(untrack, NoEvent))]

ProcessPollEvents(t) ==
    /\ todo[t] = <<>> /\ ~shut /\ Free(eventsLock)
    /\ LET futures == {e \in tracked : event[e].mode # "WaitAnyOnly"}
       IN  futures # {} /\ WaitImpl(t, futures, "untrackPolled")
    /\ eventsLock' = t
    /\ UNCHANGED <<event, manager, working, deviceLock, serials>>

(* WaitAny returns at once when one of the futures is not tracked.  The    *)
(* future of the lost event is given to nobody.                            *)
WaitAny(t) ==
    /\ todo[t] = <<>> /\ ~shut /\ Free(eventsLock)
    /\ \E futures \in (SUBSET (tracked \ {Lost})) \ {{}} : WaitImpl(t, futures, "untrackWaited")
    /\ UNCHANGED <<event, manager, working, locks, serials>>

WaitSystems(t) ==
    /\ At(t, "systems")
    /\ wait' = [wait EXCEPT ![t].ready =
                  @ \union {e \in wait[t].set : event[e].kind = "system" /\ event[e].signaled}]
    /\ Return(t)
    /\ UNCHANGED <<event, manager, working, locks, serials>>

(* WaitQueueSerialsImpl: what is not submitted is flushed and ticked under *)
(* the device's lock; without it, the serials are checked.                 *)
SerialFutures(t) == {e \in wait[t].set : event[e].kind = "serial"}
LowestSerial(t) == Min({event[e].serial : e \in SerialFutures(t)})

WaitSerials(t) ==
    /\ At(t, "serials")
    /\ Goto(t, (IF LowestSerial(t) > submitted THEN <<Step("flush", NoEvent)>> ELSE <<>>)
                  \o <<Step("checkPassed", NoEvent)>>)
    /\ UNCHANGED <<event, manager, working, wait, locks, serials>>

(* Tick checks the serials, then submits what is pending.                  *)
TickQueue ==
    /\ passed' \in passed .. submitted
    /\ submitted' = IF \E e \in Events : event[e].serial > submitted THEN submitted + 1 ELSE submitted

(* HandleError on a loss completes all serials and sets the lost event.    *)
Lose ==
    /\ Lost \in working
    /\ working' = working \ {Lost}
    /\ submitted' = submitted + 1 /\ passed' = submitted + 1

Flush(t) ==
    /\ At(t, "flush") /\ Free(deviceLock)
    /\ TickQueue
    /\ Return(t)
    /\ UNCHANGED <<event, manager, working, wait, locks>>

(* After a flush that fails the lock is released, the serials are not      *)
(* checked, and the loss makes all futures ready.                          *)
FlushFails(t) ==
    /\ At(t, "flush") /\ Free(deviceLock)
    /\ Lose
    /\ todo' = [todo EXCEPT ![t] = SetFutureReadyCalls(Lost) \o Tail(Tail(@))]
    /\ wait' = [wait EXCEPT ![t].ready = @ \union SerialFutures(t)]
    /\ UNCHANGED <<event, manager, locks>>

(* APITick handles a loss while it holds the device's lock; so does every  *)
(* other call that loses the device under its lock.                        *)
APITick(t) ==
    /\ todo[t] = <<>> /\ Free(deviceLock)
    /\ TickQueue
    /\ UNCHANGED <<event, manager, working, wait, todo, locks>>

APITickFails(t) ==
    /\ todo[t] = <<>> /\ Free(deviceLock)
    /\ Lose
    /\ deviceLock' = t
    /\ todo' = [todo EXCEPT ![t] = Append(SetFutureReadyCalls(Lost), Step("unlockDevice", NoEvent))]
    /\ UNCHANGED <<event, manager, wait, eventsLock>>

UnlockDevice(t) ==
    /\ At(t, "unlockDevice")
    /\ deviceLock' = NoThread
    /\ Return(t)
    /\ UNCHANGED <<event, manager, working, wait, eventsLock, serials>>

(* A mutant: when the lowest serial has passed all futures are ready.      *)
CheckPassedForAll(t) ==
    /\ At(t, "checkPassed")
    /\ passed' \in (IF passed < LowestSerial(t) THEN passed .. submitted ELSE {passed})
    /\ wait' = [wait EXCEPT ![t].ready =
                  @ \union {e \in SerialFutures(t) : LowestSerial(t) <= passed'}]
    /\ Return(t)
    /\ UNCHANGED <<event, manager, working, locks, submitted>>

CheckPassed(t) ==
    /\ At(t, "checkPassed")
    /\ passed' \in (IF passed < LowestSerial(t) THEN passed .. submitted ELSE {passed})
    /\ wait' = [wait EXCEPT ![t].ready =
                  @ \union {e \in SerialFutures(t) : event[e].serial <= passed'}]
    /\ Return(t)
    /\ UNCHANGED <<event, manager, working, locks, submitted>>

CheckPassedFails(t) ==
    /\ At(t, "checkPassed") /\ passed < LowestSerial(t)
    /\ Lose
    /\ Goto(t, SetFutureReadyCalls(Lost))
    /\ wait' = [wait EXCEPT ![t].ready = @ \union SerialFutures(t)]
    /\ UNCHANGED <<event, manager, locks>>

(* The ready futures are untracked, then completed in the order of their   *)
(* ids.                                                                    *)
StepsFor(do, events) == [i \in DOMAIN events |-> Step(do, events[i])]

InOrder(ready) ==
    {events \in SetToSeqs(ready) :
       \A i, j \in DOMAIN events : i < j => event[events[i]].id < event[events[j]].id}

CompleteReady(t) ==
    /\ \E events \in InOrder(wait[t].ready) : Goto(t, StepsFor("complete", events))
    /\ wait' = [wait EXCEPT ![t] = NoWait]

(* A mutant: all the futures polled are untracked.                         *)
UntrackAllPolled(t) ==
    /\ At(t, "untrackPolled")
    /\ tracked' = tracked \ wait[t].set
    /\ CompleteReady(t)
    /\ eventsLock' = NoThread
    /\ UNCHANGED <<event, nextID, shut, working, deviceLock, serials>>

UntrackPolled(t) ==
    /\ At(t, "untrackPolled")
    /\ tracked' = tracked \ wait[t].ready
    /\ CompleteReady(t)
    /\ eventsLock' = NoThread
    /\ UNCHANGED <<event, nextID, shut, working, deviceLock, serials>>

UntrackWaited(t) ==
    /\ At(t, "untrackWaited")
    /\ wait[t].ready # {} => Free(eventsLock)
    /\ tracked' = tracked \ wait[t].ready
    /\ CompleteReady(t)
    /\ UNCHANGED <<event, nextID, shut, working, locks, serials>>

-----------------------------------------------------------------------------
(* The last external reference to the instance is dropped, while nobody is *)
(* in ProcessEvents or WaitAny: the map and its references go, under the   *)
(* lock, and so do the callbacks of the events this destroys.              *)
ShutDown(t) ==
    /\ todo[t] = <<>> /\ ~shut /\ Free(eventsLock)
    /\ \A u \in Threads : wait[u].set = {}
    /\ shut' = TRUE /\ tracked' = {}
    /\ eventsLock' = t
    /\ \E events \in SetToSeqs(tracked) :
         todo' = [todo EXCEPT ![t] = Append(StepsFor("release", events), Step("unlockEvents", NoEvent))]
    /\ UNCHANGED <<event, nextID, working, wait, deviceLock, serials>>

UnlockEvents(t) ==
    /\ At(t, "unlockEvents")
    /\ eventsLock' = NoThread
    /\ Return(t)
    /\ UNCHANGED <<event, manager, working, wait, deviceLock, serials>>

-----------------------------------------------------------------------------
Begin(t) ==
    \/ \E e \in Events :
         \/ OnSubmittedWorkDoneF(t, e) \/ MapAsyncF(t, e) \/ Refuse(t, e) \/ MakeSystem(t, e)
         \/ WorkerDone(t, e) \/ UnmapEarly(t, e)
    \/ ProcessPollEvents(t) \/ WaitAny(t) \/ APITick(t) \/ APITickFails(t) \/ ShutDown(t)

Continue(t) ==
    \/ TrackEvent(t) \/ CheckTracked(t) \/ Emplace(t)
    \/ Signal(t) \/ HandleSpontaneous(t) \/ Erase(t) \/ Complete(t) \/ Release(t)
    \/ WaitSystems(t) \/ WaitSerials(t) \/ Flush(t) \/ FlushFails(t)
    \/ CheckPassed(t) \/ CheckPassedFails(t) \/ UnlockDevice(t)
    \/ UntrackPolled(t) \/ UntrackWaited(t) \/ UnlockEvents(t)

Next == \E t \in Threads : Begin(t) \/ Continue(t)

(* A thread goes on with a call it has begun.                              *)
Fairness == \A t \in Threads : SF_vars(Continue(t))

Spec == Init /\ [][Next]_vars /\ Fairness

-----------------------------------------------------------------------------
(* An event that is not completed is never lost: the map, a worker, its    *)
(* buffer or a thread in the middle of a call still refers to it           *)
(* (EventManager.cpp:347-411, 458-463, and ShutDown's promise in           *)
(* EventManager.h:67-70).                                                  *)
NoneForgotten ==
    \A e \in Events :
        event[e].outcome = "pending" =>
            \/ e \in tracked \union working
            \/ \E t \in Threads : \E i \in DOMAIN todo[t] : todo[t][i].event = e

(* Two threads in ProcessEvents never hold the same event ("it's supposed  *)
(* to be synchronized so that this never happens", EventManager.cpp:54).   *)
Polling(t) == \E i \in DOMAIN todo[t] : todo[t][i].do = "untrackPolled"

PollsDisjoint ==
    \A t, u \in Threads :
        t # u /\ Polling(t) /\ Polling(u) => wait[t].set \intersect wait[u].set = {}

(* No set of threads waits for locks that its own members hold: a loss     *)
(* (Device.cpp:727) and the end of a map request (Buffer.cpp:714) make an  *)
(* event ready under the device's lock, and serials are polled, which      *)
(* takes that lock, under the lock of the events                           *)
(* (EventManager.cpp:166, 419).                                            *)
WaitsFor(t) ==
    IF \/ At(t, "emplace") \/ At(t, "erase")
       \/ At(t, "untrackWaited") /\ wait[t].ready # {}
    THEN eventsLock
    ELSE IF At(t, "flush") THEN deviceLock ELSE NoThread

NoDeadlock == \A T \in (SUBSET Threads) \ {{}} : \E t \in T : WaitsFor(t) \notin T

(* A spontaneous event that has been made ready and tracked is completed   *)
(* without anyone polling, whichever of the two happens first              *)
(* (EventManager.cpp:356-373, 394-411): as only Count events are made,     *)
(* again and again all of them are.                                        *)
MadeReady(e) ==
    event[e].mode = "AllowSpontaneous" /\ (event[e].signaled \/ event[e].early)

SpontaneousCompletes ==
    []<>(\A e \in Events :
            MadeReady(e) /\ event[e].id # 0 => event[e].outcome # "pending")

(* Events may become ready before they are tracked, and "if the event is   *)
(* spontaneous, it will be completed when it is tracked"                   *)
(* (EventManager.cpp:394-396): one that is in the map has been completed,  *)
(* or a call is about to do so.                                            *)
CompletedWhenTracked ==
    \A e \in tracked :
        MadeReady(e) /\ event[e].outcome = "pending" =>
            \E t \in Threads : \E i \in DOMAIN todo[t] :
                todo[t][i].event = e /\ todo[t][i].do \in {"handle", "erase", "complete"}

(* The manager keeps the promise of Futures.                               *)
Promise ==
    INSTANCE Futures WITH
        outcome <- [e \in Events |-> event[e].outcome],
        due <- {e \in Events : event[e].kind # "none" /\ (IsDue(e) \/ event[e].early)},
        closed <- shut

KeepsFutures == Promise!Spec
=============================================================================
