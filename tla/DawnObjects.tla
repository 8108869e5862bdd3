----------------------------- MODULE DawnObjects -----------------------------
(***************************************************************************)
(* Dawn's cached, reference-counted objects: RefCounted.cpp, the weak      *)
(* references, ContentLessObjectCache.h, GetOrCreate and the device's list *)
(* of objects (ObjectBase.cpp), used by several threads.  The objects are  *)
(* shader modules: neither creating nor releasing one takes the device's   *)
(* lock.                                                                   *)
(*                                                                         *)
(* The cache's mutex is held from a lookup's first probe to its last; one  *)
(* probe is one step, so that other threads drop references in between.    *)
(* Sections that hold a mutex and touch nothing outside are one step.      *)
(* Objects are addresses: one that is freed may be used again.             *)
(***************************************************************************)
EXTENDS Naturals, FiniteSets

CONSTANTS
    Threads,
    Objects,  \* bound: the objects that exist at one time
    Contents, \* what the cache compares: the descriptors
    Overlap   \* whether other threads' calls may overlap the device's destruction

NoObject == "none"
NoContent == "none"
NoThread == "none"

ASSUME ObjectBounds == IsFiniteSet(Threads) /\ Overlap \in BOOLEAN
ASSUME NoneIsNoOther == NoObject \notin Objects /\ NoContent \notin Contents /\ NoThread \notin Threads

VARIABLES
    refs,      \* mRefCount of each object
    content,   \* what each object holds, NoContent when its memory is free
    marked,    \* objects whose mCache is set
    destroyed, \* how often DestroyImpl has run for each object (history)
    cache,     \* the objects with a weak reference in mCache
    lock,      \* the thread that holds the cache's mutex
    listed,    \* the device's list of objects
    moved,     \* the list that ApiObjectList::Destroy is working on
    closed,    \* mMarkedDestroyed
    alive,     \* the device is alive
    pc,        \* where each thread is in its call
    want,      \* the content a thread looks up
    unseen,    \* cached objects a lookup has not compared yet
    target,    \* the object a lookup has found, or the head Destroy works on
    held,      \* the reference the application holds in each thread
    made,      \* the reference to the object a call has made
    got,       \* the reference a call will return
    temps,     \* mTemporaryRefs: references a lookup leaves behind
    dying,     \* the object whose count a thread has brought to zero
    stage      \* how far that object's deletion is

counts == <<refs, content, marked, destroyed>>
cacheVars == <<cache, lock>>
deviceVars == <<listed, moved, closed, alive>>
lookup == <<want, unseen, target>>
holding == <<held, made, got, temps>>
deletion == <<dying, stage>>
vars == <<counts, cacheVars, deviceVars, pc, lookup, holding, deletion>>

CallPCs == {"find", "probe", "found", "settle", "create", "track", "prepend", "insert"}
DestroyPCs == {"move", "head", "take", "destroy", "caches"}
MaybeObject == Objects \union {NoObject}

TypeOK ==
    /\ refs \in [Objects -> Nat] /\ content \in [Objects -> Contents \union {NoContent}]
    /\ destroyed \in [Objects -> Nat]
    /\ marked \subseteq Objects /\ cache \subseteq Objects
    /\ listed \subseteq Objects /\ moved \subseteq Objects
    /\ lock \in Threads \union {NoThread}
    /\ closed \in BOOLEAN /\ alive \in BOOLEAN
    /\ pc \in [Threads -> CallPCs \union DestroyPCs \union {"idle"}]
    /\ want \in [Threads -> Contents \union {NoContent}]
    /\ unseen \in [Threads -> SUBSET Objects] /\ temps \in [Threads -> SUBSET Objects]
    /\ target \in [Threads -> MaybeObject] /\ held \in [Threads -> MaybeObject]
    /\ made \in [Threads -> MaybeObject] /\ got \in [Threads -> MaybeObject]
    /\ dying \in [Threads -> MaybeObject]
    /\ stage \in [Threads -> {"none", "untrack", "uncache", "free"}]

Init ==
    /\ refs = [o \in Objects |-> 0] /\ content = [o \in Objects |-> NoContent]
    /\ destroyed = [o \in Objects |-> 0]
    /\ marked = {} /\ cache = {} /\ listed = {} /\ moved = {}
    /\ lock = NoThread /\ closed = FALSE /\ alive = TRUE
    /\ pc = [t \in Threads |-> "idle"]
    /\ want = [t \in Threads |-> NoContent]
    /\ unseen = [t \in Threads |-> {}] /\ temps = [t \in Threads |-> {}]
    /\ target = [t \in Threads |-> NoObject] /\ held = [t \in Threads |-> NoObject]
    /\ made = [t \in Threads |-> NoObject] /\ got = [t \in Threads |-> NoObject]
    /\ dying = [t \in Threads |-> NoObject] /\ stage = [t \in Threads |-> "none"]

-----------------------------------------------------------------------------
Set(f, t, x) == f' = [f EXCEPT ![t] = x]
Goto(t, label) == Set(pc, t, label)
At(t, label) == pc[t] = label /\ dying[t] = NoObject
Existing(o) == content[o] # NoContent

(* A call begins.  Unless calls may overlap the device's destruction, a    *)
(* thread that destroys it is alone.                                       *)
MayCall(t) ==
    /\ At(t, "idle")
    /\ Overlap \/ \A u \in Threads : pc[u] \notin DestroyPCs

(* A mutant: the two halves of Release are not one atomic step.            *)
DecrementTooLate(t, o) ==
    /\ Set(refs, o, refs[o] - 1)
    /\ IF refs[o] <= 2
       THEN Set(dying, t, o) /\ Set(stage, t, "untrack")
       ELSE UNCHANGED deletion

(* Release: the thread that brings the count to zero deletes the object.   *)
Decrement(t, o) ==
    /\ Set(refs, o, refs[o] - 1)
    /\ IF refs[o] = 1
       THEN Set(dying, t, o) /\ Set(stage, t, "untrack")
       ELSE UNCHANGED deletion

Increment(o) == Set(refs, o, refs[o] + 1)

-----------------------------------------------------------------------------
(* GetOrCreate: Find, then make an object, then Insert it.                 *)
GetOrCreate(t, c) ==
    /\ MayCall(t) /\ alive /\ held[t] = NoObject
    /\ Set(want, t, c)
    /\ Goto(t, "find")
    /\ UNCHANGED <<counts, cacheVars, deviceVars, unseen, target, holding, deletion>>

(* Find and Insert take the mutex (WithLockAndCleanup).                    *)
LockCache(t) ==
    /\ At(t, "find") \/ At(t, "insert")
    /\ alive /\ lock = NoThread
    /\ lock' = t
    /\ Set(unseen, t, cache)
    /\ Goto(t, "probe")
    /\ UNCHANGED <<counts, cache, deviceVars, want, target, holding, deletion>>

(* A mutant: TryIncrement is a plain Increment, which revives the dead.    *)
ProbeRevives(t) ==
    /\ At(t, "probe")
    /\ \E o \in unseen[t] :
         /\ Set(unseen, t, unseen[t] \ {o})
         /\ Increment(o)
         /\ Set(temps, t, temps[t] \union {o})
         /\ IF content[o] = want[t]
            THEN Set(target, t, o) /\ Goto(t, "found")
            ELSE UNCHANGED <<target, pc>>
    /\ UNCHANGED <<content, marked, destroyed, cacheVars, deviceVars, want, held, made, got, deletion>>

(* EqualityFunc: an object is compared when its weak reference can be      *)
(* promoted; the reference is kept until the mutex is given back.          *)
Probe(t) ==
    /\ At(t, "probe")
    /\ \E o \in unseen[t] :
         /\ Set(unseen, t, unseen[t] \ {o})
         /\ IF refs[o] = 0
            THEN UNCHANGED <<refs, temps, target, pc>>
            ELSE /\ Increment(o)
                 /\ Set(temps, t, temps[t] \union {o})
                 /\ IF content[o] = want[t]
                    THEN Set(target, t, o) /\ Goto(t, "found")
                    ELSE UNCHANGED <<target, pc>>
    /\ UNCHANGED <<content, marked, destroyed, cacheVars, deviceVars, want, held, made, got, deletion>>

(* A mutant: the temporary references die inside the critical section.     *)
FoundUnderLock(t) ==
    /\ At(t, "found") /\ refs[target[t]] > 0
    /\ Increment(target[t])
    /\ Set(got, t, target[t])
    /\ Set(target, t, NoObject) /\ Set(unseen, t, {})
    /\ lock' = IF temps[t] = {target[t]} THEN NoThread ELSE lock
    /\ Goto(t, "settle")
    /\ UNCHANGED <<content, marked, destroyed, cache, deviceVars, want, held, made, temps, deletion>>

(* An equal object is in the cache: it is promoted once more to be         *)
(* returned, by Find as by Insert.                                         *)
Found(t) ==
    /\ At(t, "found") /\ refs[target[t]] > 0
    /\ Increment(target[t])
    /\ Set(got, t, target[t])
    /\ Set(target, t, NoObject) /\ Set(unseen, t, {})
    /\ lock' = NoThread
    /\ Goto(t, "settle")
    /\ UNCHANGED <<content, marked, destroyed, cache, deviceVars, want, held, made, temps, deletion>>

(* No element with an equal hash is left to compare; others need not be.   *)
NoneEqual(t) == At(t, "probe") /\ \A o \in unseen[t] : content[o] # want[t]

FindMisses(t) ==
    /\ NoneEqual(t) /\ made[t] = NoObject
    /\ Set(unseen, t, {})
    /\ lock' = NoThread
    /\ Goto(t, "settle")
    /\ UNCHANGED <<counts, cache, deviceVars, want, target, holding, deletion>>

(* A mutant: Insert relies on what Find saw.                               *)
InsertBlindly(t) ==
    /\ At(t, "probe") /\ made[t] # NoObject
    /\ cache' = cache \union {made[t]}
    /\ marked' = marked \union {made[t]}
    /\ Increment(made[t])
    /\ Set(got, t, made[t])
    /\ Set(unseen, t, {})
    /\ lock' = NoThread
    /\ Goto(t, "settle")
    /\ UNCHANGED <<content, destroyed, deviceVars, want, target, held, made, temps, deletion>>

Insert(t) ==
    /\ NoneEqual(t) /\ made[t] # NoObject
    /\ cache' = cache \union {made[t]}
    /\ marked' = marked \union {made[t]}
    /\ Increment(made[t])
    /\ Set(got, t, made[t])
    /\ Set(unseen, t, {})
    /\ lock' = NoThread
    /\ Goto(t, "settle")
    /\ UNCHANGED <<content, destroyed, deviceVars, want, target, held, made, temps, deletion>>

(* The temporary references are dropped outside the mutex: each may have   *)
(* become the last.                                                        *)
DropTemporary(t) ==
    /\ At(t, "settle")
    /\ \E o \in temps[t] : Set(temps, t, temps[t] \ {o}) /\ Decrement(t, o)
    /\ UNCHANGED <<content, marked, destroyed, cacheVars, deviceVars, pc, lookup, held, made, got>>

(* The reference to the object made gives way to the one returned.         *)
DropMade(t) ==
    /\ At(t, "settle") /\ temps[t] = {} /\ got[t] # NoObject /\ made[t] # NoObject
    /\ Set(made, t, NoObject)
    /\ Decrement(t, made[t])
    /\ UNCHANGED <<content, marked, destroyed, cacheVars, deviceVars, pc, lookup, held, got, temps>>

Return(t) ==
    /\ At(t, "settle") /\ temps[t] = {} /\ got[t] # NoObject /\ made[t] = NoObject
    /\ Set(held, t, got[t]) /\ Set(got, t, NoObject)
    /\ Set(want, t, NoContent)
    /\ Goto(t, "idle")
    /\ UNCHANGED <<counts, cacheVars, deviceVars, unseen, target, made, temps, deletion>>

(* After a miss the object is made, or its creation fails.                 *)
GoOn(t) ==
    /\ At(t, "settle") /\ temps[t] = {} /\ got[t] = NoObject
    /\ Goto(t, "create")
    /\ UNCHANGED <<counts, cacheVars, deviceVars, lookup, holding, deletion>>

Create(t) ==
    /\ At(t, "create")
    /\ \E o \in Objects :
         /\ ~Existing(o)
         /\ Set(content, o, want[t]) /\ Set(refs, o, 1) /\ Set(destroyed, o, 0)
         /\ Set(made, t, o)
    /\ Goto(t, "track")
    /\ UNCHANGED <<marked, cacheVars, deviceVars, lookup, held, got, temps, deletion>>

CreateFails(t) ==
    /\ At(t, "create")
    /\ Set(want, t, NoContent)
    /\ Goto(t, "idle")
    /\ UNCHANGED <<counts, cacheVars, deviceVars, unseen, target, holding, deletion>>

(* ApiObjectList::Track reads the mark first and takes the mutex later.    *)
Track(t) ==
    /\ At(t, "track")
    /\ IF closed
       THEN Set(destroyed, made[t], destroyed[made[t]] + 1) /\ Goto(t, "insert")
       ELSE UNCHANGED destroyed /\ Goto(t, "prepend")
    /\ UNCHANGED <<refs, content, marked, cacheVars, deviceVars, lookup, holding, deletion>>

Prepend(t) ==
    /\ At(t, "prepend")
    /\ listed' = listed \union {made[t]}
    /\ Goto(t, "insert")
    /\ UNCHANGED <<counts, cacheVars, moved, closed, alive, lookup, holding, deletion>>

(* The back end's Initialize fails: the new object is dropped again.       *)
InitializeFails(t) ==
    /\ At(t, "insert")
    /\ Set(made, t, NoObject) /\ Decrement(t, made[t])
    /\ Set(want, t, NoContent)
    /\ Goto(t, "idle")
    /\ UNCHANGED <<content, marked, destroyed, cacheVars, deviceVars, unseen, target, held, got, temps>>

-----------------------------------------------------------------------------
(* The application copies a reference it holds in another thread, and      *)
(* gives one up.                                                           *)
AddRef(t, u) ==
    /\ MayCall(t) /\ held[t] = NoObject /\ held[u] # NoObject
    /\ Increment(held[u])
    /\ Set(held, t, held[u])
    /\ UNCHANGED <<content, marked, destroyed, cacheVars, deviceVars, pc, lookup, made, got, temps, deletion>>

Release(t) ==
    /\ MayCall(t) /\ held[t] # NoObject
    /\ Set(held, t, NoObject)
    /\ Decrement(t, held[t])
    /\ UNCHANGED <<content, marked, destroyed, cacheVars, deviceVars, pc, lookup, made, got, temps>>

(* A mutant: the object's class does not uncache it.                       *)
DestroyImplForgetsCache(o) ==
    /\ marked' = marked \ {o}
    /\ Set(destroyed, o, destroyed[o] + 1)
    /\ UNCHANGED cacheVars

(* DestroyImpl uncaches the object: Erase finds it by its address.         *)
DestroyImpl(o) ==
    /\ o \in marked => lock = NoThread
    /\ cache' = IF o \in marked THEN cache \ {o} ELSE cache
    /\ marked' = marked \ {o}
    /\ Set(destroyed, o, destroyed[o] + 1)
    /\ UNCHANGED lock

(* A mutant: Untrack always says that the object was in the list.          *)
UntrackAlways(t) ==
    /\ stage[t] = "untrack"
    /\ Set(stage, t, "uncache")
    /\ listed' = listed \ {dying[t]} /\ moved' = moved \ {dying[t]}
    /\ UNCHANGED <<counts, cacheVars, closed, alive, pc, lookup, holding, dying>>

(* DeleteThis: untrack the object, destroy it if that had not happened,    *)
(* and free it.                                                            *)
Untrack(t) ==
    /\ stage[t] = "untrack"
    /\ Set(stage, t, IF dying[t] \in listed \union moved THEN "uncache" ELSE "free")
    /\ listed' = listed \ {dying[t]} /\ moved' = moved \ {dying[t]}
    /\ UNCHANGED <<counts, cacheVars, closed, alive, pc, lookup, holding, dying>>

Uncache(t) ==
    /\ stage[t] = "uncache"
    /\ DestroyImpl(dying[t])
    /\ Set(stage, t, "free")
    /\ UNCHANGED <<refs, content, deviceVars, pc, lookup, holding, dying>>

Free(t) ==
    /\ stage[t] = "free"
    /\ Set(content, dying[t], NoContent)
    /\ Set(dying, t, NoObject) /\ Set(stage, t, "none")
    /\ UNCHANGED <<refs, marked, destroyed, cacheVars, deviceVars, pc, lookup, holding>>

-----------------------------------------------------------------------------
(* DeviceBase::Destroy, under the device's lock: ApiObjectList::Destroy    *)
(* moves the list and takes its objects one by one without the mutex.      *)
BeginDestroy(t) ==
    /\ MayCall(t) /\ alive
    /\ \A u \in Threads : pc[u] \notin DestroyPCs
    /\ Overlap \/ \A u \in Threads : At(u, "idle")
    /\ Goto(t, "move")
    /\ UNCHANGED <<counts, cacheVars, deviceVars, lookup, holding, deletion>>

MoveList(t) ==
    /\ At(t, "move")
    /\ closed' = TRUE
    /\ moved' = listed /\ listed' = {}
    /\ Goto(t, "head")
    /\ UNCHANGED <<counts, cacheVars, alive, lookup, holding, deletion>>

TakeHead(t) ==
    /\ At(t, "head")
    /\ \E o \in moved : Set(target, t, o)
    /\ Goto(t, "take")
    /\ UNCHANGED <<counts, cacheVars, deviceVars, want, unseen, holding, deletion>>

RemoveHead(t) ==
    /\ At(t, "take") /\ target[t] \in moved
    /\ moved' = moved \ {target[t]}
    /\ Goto(t, "destroy")
    /\ UNCHANGED <<counts, cacheVars, listed, closed, alive, lookup, holding, deletion>>

DestroyObject(t) ==
    /\ At(t, "destroy")
    /\ DestroyImpl(target[t])
    /\ Set(target, t, NoObject)
    /\ Goto(t, "head")
    /\ UNCHANGED <<refs, content, deviceVars, want, unseen, holding, deletion>>

ListDone(t) ==
    /\ At(t, "head") /\ moved = {}
    /\ Goto(t, "caches")
    /\ UNCHANGED <<counts, cacheVars, deviceVars, lookup, holding, deletion>>

(* The caches are deleted, and the device is no longer alive.              *)
EndDestroy(t) ==
    /\ At(t, "caches")
    /\ alive' = FALSE
    /\ Goto(t, "idle")
    /\ UNCHANGED <<counts, cacheVars, listed, moved, closed, lookup, holding, deletion>>

-----------------------------------------------------------------------------
(* What a thread that is in a call does next.                              *)
Lookup(t) ==
    LockCache(t) \/ Probe(t) \/ Found(t) \/ FindMisses(t) \/ Insert(t)
Settle(t) == DropTemporary(t) \/ DropMade(t) \/ Return(t) \/ GoOn(t)
Make(t) == Create(t) \/ CreateFails(t) \/ Track(t) \/ Prepend(t) \/ InitializeFails(t)
Delete(t) == Untrack(t) \/ Uncache(t) \/ Free(t)
DestroyDevice(t) ==
    MoveList(t) \/ TakeHead(t) \/ RemoveHead(t) \/ DestroyObject(t) \/ ListDone(t) \/ EndDestroy(t)
Continue(t) == Lookup(t) \/ Settle(t) \/ Make(t) \/ Delete(t) \/ DestroyDevice(t)

Next ==
    \E t \in Threads :
      \/ Continue(t)
      \/ \E c \in Contents : GetOrCreate(t, c)
      \/ \E u \in Threads : AddRef(t, u)
      \/ Release(t) \/ BeginDestroy(t)

(* A thread goes on with the call it is in; the mutex it waits for is      *)
(* given back again and again.                                             *)
Spec == Init /\ [][Next]_vars /\ \A t \in Threads : SF_vars(Continue(t))

-----------------------------------------------------------------------------
Slots == {"held", "made", "got", "temp"}
HeldAt(o, h) ==
    \/ h[2] = "held" /\ held[h[1]] = o
    \/ h[2] = "made" /\ made[h[1]] = o
    \/ h[2] = "got" /\ got[h[1]] = o
    \/ h[2] = "temp" /\ o \in temps[h[1]]
Holders(o) == {h \in Threads \X Slots : HeldAt(o, h)}

(* RefCounted.cpp: an object's count is the number of references to it,    *)
(* wherever calls keep them, so it is deleted neither early nor never.     *)
RefsAreCounted == \A o \in Objects : refs[o] = Cardinality(Holders(o))

(* ContentLessObjectCache.h:84-89: the object behind every weak reference  *)
(* in the cache still exists, which makes comparing addresses safe.        *)
CacheHoldsExisting == \A o \in cache : Existing(o)

(* Device.cpp:114-127: racing inserts leave one living object of a content *)
(* in the cache, whichever thread's it is.                                 *)
OnePerContent ==
    \A o, p \in cache : refs[o] > 0 /\ refs[p] > 0 /\ content[o] = content[p] => o = p

(* ObjectBase.cpp:103-105, 150-156: DestroyImpl has run once when an       *)
(* object is freed, whether the device was destroyed before or not, and    *)
(* neither the list nor the cache knows the object any more.               *)
FreedAfterDestroy ==
    \A t \in Threads : stage[t] = "free" =>
      destroyed[dying[t]] = 1 /\ dying[t] \notin marked \union cache \union listed \union moved

(* ContentLessObjectCache.h:219-224 (dawn:1993): a thread that must erase  *)
(* an object, and take the mutex for that, does not hold the mutex.        *)
EraserHoldsNoLock == \A t \in Threads : dying[t] # NoObject => lock # t

(* ~ContentLessObjectCache: when the device deletes its caches all objects *)
(* have left them, those the application still holds included.             *)
CachesEmptied == (\E t \in Threads : pc[t] = "caches") \/ ~alive => cache = {}

(* GetOrCreate with its racing lookups, inserts and deletions implements   *)
(* Interning.                                                              *)
Current ==
    [c \in Contents |->
       IF \E o \in cache : refs[o] > 0 /\ content[o] = c
       THEN CHOOSE o \in cache : refs[o] > 0 /\ content[o] = c
       ELSE NoObject]
Given == [t \in Threads |-> IF got[t] # NoObject THEN got[t] ELSE held[t]]
Interned == INSTANCE Interning WITH current <- Current, given <- Given
KeepsInterning == Interned!Spec

(* Every call returns, deletions on the way included: no thread waits for  *)
(* the mutex for ever.                                                     *)
CallsReturn == \A t \in Threads : ~At(t, "idle") ~> At(t, "idle")

-----------------------------------------------------------------------------
(* ObjectBase.cpp:83, DAWN_ASSERT(removed): the head of the list that is   *)
(* being destroyed is still in it when it is removed.                      *)
HeadIsInList == \A t \in Threads : pc[t] = "take" => target[t] \in moved

=============================================================================
