-------------------------- MODULE DawnObjects_proofs --------------------------
(***************************************************************************)
(* Proofs about DawnObjects, for every number of threads, objects and      *)
(* contents.  The counts are right whatever overlaps; the order of         *)
(* destruction is, when no call overlaps the device's destruction.         *)
(***************************************************************************)
EXTENDS DawnObjects, FiniteSetTheorems, TLAPS

-----------------------------------------------------------------------------
(* What a thread has in hand at each point of a call.                      *)
ThreadOK(t) ==
    /\ pc[t] \in CallPCs => held[t] = NoObject /\ want[t] \in Contents
    /\ pc[t] # "settle" => got[t] = NoObject
    /\ pc[t] \notin {"probe", "found", "settle"} => temps[t] = {}
    /\ pc[t] \in {"track", "prepend", "insert"} => made[t] # NoObject
    /\ pc[t] \in {"idle", "find", "create"} \union DestroyPCs => made[t] = NoObject
    /\ pc[t] = "settle" /\ got[t] = NoObject => made[t] = NoObject
    /\ pc[t] = "probe" => unseen[t] \intersect temps[t] = {}
    /\ pc[t] = "found" => target[t] \in temps[t]
    /\ pc[t] \in {"take", "destroy"} => target[t] # NoObject
    /\ pc[t] \in {"probe", "found"} <=> lock = t
    /\ dying[t] # NoObject => pc[t] \in {"idle", "settle"}
    /\ dying[t] = NoObject <=> stage[t] = "none"

AllOK == \A t \in Threads : ThreadOK(t)

Living == \A o \in Objects : refs[o] > 0 => Existing(o)

(* An object that is being deleted has one deleter and no reference.       *)
DyingOK ==
    \A t \in Threads : dying[t] # NoObject =>
      /\ Existing(dying[t]) /\ refs[dying[t]] = 0
      /\ \A u \in Threads : dying[u] = dying[t] => u = t

IInv == TypeOK /\ RefsAreCounted /\ AllOK /\ Living /\ DyingOK

-----------------------------------------------------------------------------
(* Objects whose DestroyImpl is still to come.                             *)
New(o) == \E t \in Threads : made[t] = o /\ pc[t] \in {"track", "prepend"}
Uncaching(o) == \E t \in Threads : dying[t] = o /\ stage[t] = "uncache"
Destroying(o) == \E t \in Threads : pc[t] = "destroy" /\ target[t] = o
Known(o) == o \in listed \union moved
Pending(o) == Known(o) \/ New(o) \/ Uncaching(o) \/ Destroying(o)

(* The device's destruction is alone, and what it leaves behind.           *)
Alone ==
    /\ \A t, u \in Threads : pc[t] \in DestroyPCs /\ u # t => At(u, "idle")
    /\ \A t \in Threads :
         /\ pc[t] \in DestroyPCs => alive
         /\ pc[t] \in {"head", "take", "destroy", "caches"} => closed
         /\ pc[t] \in CallPCs \/ stage[t] = "uncache" => ~closed
         /\ pc[t] = "take" => target[t] \in moved
    /\ ~alive => closed
    /\ closed => listed = {}
    /\ closed /\ alive => \E t \in Threads : pc[t] \in {"head", "take", "destroy", "caches"}
    /\ moved # {} => \E t \in Threads : pc[t] \in {"head", "take", "destroy"}

ObjectsOK ==
    /\ \A o \in Objects :
         /\ Pending(o) => Existing(o)
         /\ Existing(o) => destroyed[o] = IF Pending(o) THEN 0 ELSE 1
         /\ Uncaching(o) \/ Destroying(o) => ~Known(o)
    /\ marked = cache
    /\ \A o \in cache : Known(o) \/ Uncaching(o) \/ Destroying(o)
    /\ \A t \in Threads : stage[t] = "free" => ~Pending(dying[t])

(* The object that a call has made, and what its lookup has gone past.     *)
LookupOK ==
    \A t \in Threads :
      /\ made[t] # NoObject /\ pc[t] # "settle" => content[made[t]] = want[t]
      /\ made[t] # NoObject /\ pc[t] \in {"insert", "probe", "found"} => made[t] \in listed
      /\ pc[t] = "probe" =>
           \A e \in cache \ unseen[t] : content[e] = want[t] => refs[e] = 0

DInv == IInv /\ Alone /\ ObjectsOK /\ LookupOK /\ OnePerContent

-----------------------------------------------------------------------------
(* Counting references.                                                    *)
USE DEF Set, Goto, At, counts, cacheVars, deviceVars, lookup, holding, deletion

LEMMA SlotsFinite == IsFiniteSet(Slots)
<1>1. Slots = ((({} \union {"held"}) \union {"made"}) \union {"got"}) \union {"temp"}
  BY DEF Slots
<1>2. IsFiniteSet({} \union {"held"}) /\ IsFiniteSet(({} \union {"held"}) \union {"made"})
  BY FS_EmptySet, FS_AddElement
<1>3. IsFiniteSet((({} \union {"held"}) \union {"made"}) \union {"got"})
  BY <1>2, FS_AddElement
<1>4. QED
  BY <1>1, <1>3, FS_AddElement

LEMMA HoldersFinite ==
    ASSUME NEW o \in Objects
    PROVE  IsFiniteSet(Holders(o))
<1>1. IsFiniteSet(Slots)
  BY SlotsFinite
<1>2. IsFiniteSet(Threads \X Slots)
  BY <1>1, FS_Product, ObjectBounds
<1>3. QED
  BY <1>2, FS_Subset DEF Holders

(* What is held has a count that is not zero.                              *)
LEMMA HeldCounts ==
    ASSUME TypeOK, RefsAreCounted, NEW o \in Objects, NEW h \in Threads \X Slots, HeldAt(o, h)
    PROVE  refs[o] \in Nat /\ refs[o] > 0
<1>1. h \in Holders(o)
  BY DEF Holders
<1>2. Cardinality(Holders(o)) # 0
  BY <1>1, HoldersFinite, FS_EmptySet
<1>3. QED
  BY <1>2 DEF TypeOK, RefsAreCounted

(* One holder more, and one less.                                          *)
LEMMA OneMore ==
    ASSUME TypeOK, RefsAreCounted, NEW o \in Objects, NEW h \in Threads \X Slots,
           ~HeldAt(o, h),
           \A p \in Objects : \A g \in Threads \X Slots :
             HeldAt(p, g)' <=> HeldAt(p, g) \/ (p = o /\ g = h),
           refs' = [refs EXCEPT ![o] = refs[o] + 1]
    PROVE  RefsAreCounted'
<1>1. ASSUME NEW p \in Objects PROVE refs'[p] = Cardinality(Holders(p)')
  <2>1. CASE p # o
    <3>1. Holders(p)' = Holders(p)
      BY <2>1 DEF Holders
    <3>2. QED
      BY <2>1, <3>1 DEF RefsAreCounted, TypeOK
  <2>2. CASE p = o
    <3>1. Holders(p)' = Holders(p) \union {h} /\ h \notin Holders(p)
      BY <2>2 DEF Holders
    <3>2. Cardinality(Holders(p)') = Cardinality(Holders(p)) + 1
      BY <3>1, HoldersFinite, FS_AddElement
    <3>3. QED
      BY <2>2, <3>2 DEF RefsAreCounted, TypeOK
  <2>3. QED
    BY <2>1, <2>2
<1>2. QED
  BY <1>1 DEF RefsAreCounted

LEMMA OneLess ==
    ASSUME TypeOK, RefsAreCounted, NEW o \in Objects, NEW h \in Threads \X Slots,
           HeldAt(o, h),
           \A p \in Objects : \A g \in Threads \X Slots :
             HeldAt(p, g)' <=> HeldAt(p, g) /\ ~(p = o /\ g = h),
           refs' = [refs EXCEPT ![o] = refs[o] - 1]
    PROVE  RefsAreCounted'
<1>1. ASSUME NEW p \in Objects PROVE refs'[p] = Cardinality(Holders(p)')
  <2>1. CASE p # o
    <3>1. Holders(p)' = Holders(p)
      BY <2>1 DEF Holders
    <3>2. QED
      BY <2>1, <3>1 DEF RefsAreCounted, TypeOK
  <2>2. CASE p = o
    <3>1. Holders(p)' = Holders(p) \ {h} /\ h \in Holders(p)
      BY <2>2 DEF Holders
    <3>2. Cardinality(Holders(p)') = Cardinality(Holders(p)) - 1
      BY <3>1, HoldersFinite, FS_RemoveElement
    <3>3. QED
      BY <2>2, <3>2 DEF RefsAreCounted, TypeOK
  <2>3. QED
    BY <2>1, <2>2
<1>2. QED
  BY <1>1 DEF RefsAreCounted

(* The global part of the invariant, when a reference is added, when one   *)
(* is dropped, and when none moves.                                        *)
Global == RefsAreCounted /\ Living /\ DyingOK

LEMMA Incremented ==
    ASSUME IInv, NEW o \in Objects, NEW h \in Threads \X Slots,
           ~HeldAt(o, h), refs[o] > 0, Increment(o), UNCHANGED <<content, deletion>>,
           \A p \in Objects : \A g \in Threads \X Slots :
             HeldAt(p, g)' <=> HeldAt(p, g) \/ (p = o /\ g = h)
    PROVE  Global' /\ refs' \in [Objects -> Nat]
<1>1. RefsAreCounted'
  BY OneMore DEF IInv, Increment
<1>2. Living' /\ refs' \in [Objects -> Nat]
  BY DEF IInv, Living, Increment, Existing, TypeOK
<1>3. DyingOK'
  BY DEF IInv, DyingOK, Increment, Existing, TypeOK, MaybeObject
<1>4. QED
  BY <1>1, <1>2, <1>3 DEF Global

LEMMA Decremented ==
    ASSUME IInv, NEW t \in Threads, NEW o \in Objects, NEW h \in Threads \X Slots,
           HeldAt(o, h), Decrement(t, o), dying[t] = NoObject, content' = content,
           \A p \in Objects : \A g \in Threads \X Slots :
             HeldAt(p, g)' <=> HeldAt(p, g) /\ ~(p = o /\ g = h)
    PROVE  /\ Global' /\ refs' \in [Objects -> Nat]
           /\ dying' \in [Threads -> MaybeObject]
           /\ stage' \in [Threads -> {"none", "untrack", "uncache", "free"}]
           /\ dying'[t] = NoObject <=> stage'[t] = "none"
           /\ \A u \in Threads \ {t} : dying'[u] = dying[u] /\ stage'[u] = stage[u]
<1>1. refs[o] \in Nat /\ refs[o] > 0
  BY HeldCounts DEF IInv
<1>2. RefsAreCounted'
  BY OneLess DEF IInv, Decrement
<1>3. Living' /\ refs' \in [Objects -> Nat]
  BY <1>1 DEF IInv, Living, Decrement, Existing, TypeOK
<1>4. /\ dying' \in [Threads -> MaybeObject]
      /\ stage' \in [Threads -> {"none", "untrack", "uncache", "free"}]
      /\ dying'[t] = NoObject <=> stage'[t] = "none"
      /\ \A u \in Threads \ {t} : dying'[u] = dying[u] /\ stage'[u] = stage[u]
  BY NoneIsNoOther DEF IInv, Decrement, TypeOK, MaybeObject, AllOK, ThreadOK
<1>5. DyingOK'
  <2>1. \A u \in Threads : dying[u] # o
    BY <1>1, NoneIsNoOther DEF IInv, DyingOK
  <2>2. CASE refs[o] = 1
    BY <1>1, <2>1, <2>2, NoneIsNoOther DEF IInv, DyingOK, Living, Existing, Decrement, TypeOK, MaybeObject
  <2>3. CASE refs[o] # 1
    BY <1>1, <2>1, <2>3 DEF IInv, DyingOK, Existing, Decrement, TypeOK, MaybeObject
  <2>4. QED
    BY <2>2, <2>3
<1>6. QED
  BY <1>2, <1>3, <1>4, <1>5 DEF Global

LEMMA Unmoved ==
    ASSUME IInv, UNCHANGED <<refs, content, holding, dying>>
    PROVE  Global'
<1>1. \A o \in Objects : Holders(o)' = Holders(o)
  BY DEF Holders, HeldAt
<1>2. RefsAreCounted'
  BY <1>1 DEF IInv, RefsAreCounted
<1>3. Living' /\ DyingOK'
  BY DEF IInv, Living, DyingOK, Existing
<1>4. QED
  BY <1>2, <1>3 DEF Global

LEMMA Inductive ==
    ASSUME TypeOK', AllOK', Global'
    PROVE  IInv'
BY DEF IInv, Global

-----------------------------------------------------------------------------
(* The invariant holds at first, and every action keeps it.                *)
LEMMA InitIInv == Init => IInv
<1> SUFFICES ASSUME Init PROVE IInv
  OBVIOUS
<1>1. TypeOK
  BY DEF Init, TypeOK, MaybeObject, CallPCs, DestroyPCs
<1>5. AllOK
  BY NoneIsNoOther DEF Init, AllOK, ThreadOK, CallPCs, DestroyPCs
<1>6. Living /\ DyingOK
  BY DEF Init, Living, DyingOK
<1>2. \A o \in Objects : Holders(o) = {}
  BY NoneIsNoOther DEF Init, Holders, HeldAt
<1>3. RefsAreCounted
  BY <1>2, FS_EmptySet DEF RefsAreCounted, Init
<1>4. QED
  BY <1>1, <1>3, <1>5, <1>6 DEF IInv

LEMMA GetOrCreateIInv ==
    ASSUME IInv, NEW t \in Threads, NEW c \in Contents, GetOrCreate(t, c)
    PROVE  IInv'
<1>1. TypeOK'
  BY NoneIsNoOther DEF GetOrCreate, MayCall, IInv, TypeOK, AllOK, ThreadOK, MaybeObject, CallPCs, DestroyPCs
<1>2. AllOK'
  BY NoneIsNoOther DEF GetOrCreate, MayCall, IInv, TypeOK, AllOK, ThreadOK, MaybeObject, CallPCs, DestroyPCs
<1>3. Global'
  BY Unmoved DEF GetOrCreate, MayCall
<1>4. QED
  BY <1>1, <1>2, <1>3, Inductive

LEMMA LockCacheIInv ==
    ASSUME IInv, NEW t \in Threads, LockCache(t)
    PROVE  IInv'
<1>1. TypeOK'
  BY NoneIsNoOther DEF LockCache, IInv, TypeOK, AllOK, ThreadOK, MaybeObject, CallPCs, DestroyPCs
<1>2. AllOK'
  BY NoneIsNoOther DEF LockCache, IInv, TypeOK, AllOK, ThreadOK, MaybeObject, CallPCs, DestroyPCs
<1>3. Global'
  BY Unmoved DEF LockCache
<1>4. QED
  BY <1>1, <1>2, <1>3, Inductive

LEMMA FindMissesIInv ==
    ASSUME IInv, NEW t \in Threads, FindMisses(t)
    PROVE  IInv'
<1>1. TypeOK'
  BY NoneIsNoOther DEF FindMisses, NoneEqual, IInv, TypeOK, AllOK, ThreadOK, MaybeObject, CallPCs, DestroyPCs
<1>2. AllOK'
  BY NoneIsNoOther DEF FindMisses, NoneEqual, IInv, TypeOK, AllOK, ThreadOK, MaybeObject, CallPCs, DestroyPCs
<1>3. Global'
  BY Unmoved DEF FindMisses, NoneEqual
<1>4. QED
  BY <1>1, <1>2, <1>3, Inductive

LEMMA GoOnIInv ==
    ASSUME IInv, NEW t \in Threads, GoOn(t)
    PROVE  IInv'
<1>1. TypeOK'
  BY NoneIsNoOther DEF GoOn, IInv, TypeOK, AllOK, ThreadOK, MaybeObject, CallPCs, DestroyPCs
<1>2. AllOK'
  BY NoneIsNoOther DEF GoOn, IInv, TypeOK, AllOK, ThreadOK, MaybeObject, CallPCs, DestroyPCs
<1>3. Global'
  BY Unmoved DEF GoOn
<1>4. QED
  BY <1>1, <1>2, <1>3, Inductive

LEMMA CreateFailsIInv ==
    ASSUME IInv, NEW t \in Threads, CreateFails(t)
    PROVE  IInv'
<1>1. TypeOK'
  BY NoneIsNoOther DEF CreateFails, IInv, TypeOK, AllOK, ThreadOK, MaybeObject, CallPCs, DestroyPCs
<1>2. AllOK'
  BY NoneIsNoOther DEF CreateFails, IInv, TypeOK, AllOK, ThreadOK, MaybeObject, CallPCs, DestroyPCs
<1>3. Global'
  BY Unmoved DEF CreateFails
<1>4. QED
  BY <1>1, <1>2, <1>3, Inductive

LEMMA TrackIInv ==
    ASSUME IInv, NEW t \in Threads, Track(t)
    PROVE  IInv'
<1>1. TypeOK'
  BY NoneIsNoOther DEF Track, IInv, TypeOK, AllOK, ThreadOK, MaybeObject, CallPCs, DestroyPCs
<1>2. AllOK'
  BY NoneIsNoOther DEF Track, IInv, TypeOK, AllOK, ThreadOK, MaybeObject, CallPCs, DestroyPCs
<1>3. Global'
  BY Unmoved DEF Track
<1>4. QED
  BY <1>1, <1>2, <1>3, Inductive

LEMMA PrependIInv ==
    ASSUME IInv, NEW t \in Threads, Prepend(t)
    PROVE  IInv'
<1>1. TypeOK'
  BY NoneIsNoOther DEF Prepend, IInv, TypeOK, AllOK, ThreadOK, MaybeObject, CallPCs, DestroyPCs
<1>2. AllOK'
  BY NoneIsNoOther DEF Prepend, IInv, TypeOK, AllOK, ThreadOK, MaybeObject, CallPCs, DestroyPCs
<1>3. Global'
  BY Unmoved DEF Prepend
<1>4. QED
  BY <1>1, <1>2, <1>3, Inductive

LEMMA UntrackIInv ==
    ASSUME IInv, NEW t \in Threads, Untrack(t)
    PROVE  IInv'
<1>1. TypeOK'
  BY NoneIsNoOther DEF Untrack, IInv, TypeOK, AllOK, ThreadOK, MaybeObject, CallPCs, DestroyPCs
<1>2. AllOK'
  BY NoneIsNoOther DEF Untrack, IInv, TypeOK, AllOK, ThreadOK, MaybeObject, CallPCs, DestroyPCs
<1>3. Global'
  BY Unmoved DEF Untrack
<1>4. QED
  BY <1>1, <1>2, <1>3, Inductive

LEMMA UncacheIInv ==
    ASSUME IInv, NEW t \in Threads, Uncache(t)
    PROVE  IInv'
<1>1. TypeOK'
  BY NoneIsNoOther DEF Uncache, DestroyImpl, IInv, TypeOK, AllOK, ThreadOK, MaybeObject, CallPCs, DestroyPCs
<1>2. AllOK'
  BY NoneIsNoOther DEF Uncache, DestroyImpl, IInv, TypeOK, AllOK, ThreadOK, MaybeObject, CallPCs, DestroyPCs
<1>3. Global'
  BY Unmoved DEF Uncache, DestroyImpl
<1>4. QED
  BY <1>1, <1>2, <1>3, Inductive

LEMMA BeginDestroyIInv ==
    ASSUME IInv, NEW t \in Threads, BeginDestroy(t)
    PROVE  IInv'
<1>1. TypeOK'
  BY NoneIsNoOther DEF BeginDestroy, MayCall, IInv, TypeOK, AllOK, ThreadOK, MaybeObject, CallPCs, DestroyPCs
<1>2. AllOK'
  BY NoneIsNoOther DEF BeginDestroy, MayCall, IInv, TypeOK, AllOK, ThreadOK, MaybeObject, CallPCs, DestroyPCs
<1>3. Global'
  BY Unmoved DEF BeginDestroy, MayCall
<1>4. QED
  BY <1>1, <1>2, <1>3, Inductive

LEMMA MoveListIInv ==
    ASSUME IInv, NEW t \in Threads, MoveList(t)
    PROVE  IInv'
<1>1. TypeOK'
  BY NoneIsNoOther DEF MoveList, IInv, TypeOK, AllOK, ThreadOK, MaybeObject, CallPCs, DestroyPCs
<1>2. AllOK'
  BY NoneIsNoOther DEF MoveList, IInv, TypeOK, AllOK, ThreadOK, MaybeObject, CallPCs, DestroyPCs
<1>3. Global'
  BY Unmoved DEF MoveList
<1>4. QED
  BY <1>1, <1>2, <1>3, Inductive

LEMMA TakeHeadIInv ==
    ASSUME IInv, NEW t \in Threads, TakeHead(t)
    PROVE  IInv'
<1>1. TypeOK'
  BY NoneIsNoOther DEF TakeHead, IInv, TypeOK, AllOK, ThreadOK, MaybeObject, CallPCs, DestroyPCs
<1>2. AllOK'
  BY NoneIsNoOther DEF TakeHead, IInv, TypeOK, AllOK, ThreadOK, MaybeObject, CallPCs, DestroyPCs
<1>3. Global'
  BY Unmoved DEF TakeHead
<1>4. QED
  BY <1>1, <1>2, <1>3, Inductive

LEMMA RemoveHeadIInv ==
    ASSUME IInv, NEW t \in Threads, RemoveHead(t)
    PROVE  IInv'
<1>1. TypeOK'
  BY NoneIsNoOther DEF RemoveHead, IInv, TypeOK, AllOK, ThreadOK, MaybeObject, CallPCs, DestroyPCs
<1>2. AllOK'
  BY NoneIsNoOther DEF RemoveHead, IInv, TypeOK, AllOK, ThreadOK, MaybeObject, CallPCs, DestroyPCs
<1>3. Global'
  BY Unmoved DEF RemoveHead
<1>4. QED
  BY <1>1, <1>2, <1>3, Inductive

LEMMA DestroyObjectIInv ==
    ASSUME IInv, NEW t \in Threads, DestroyObject(t)
    PROVE  IInv'
<1>1. TypeOK'
  BY NoneIsNoOther DEF DestroyObject, DestroyImpl, IInv, TypeOK, AllOK, ThreadOK, MaybeObject, CallPCs, DestroyPCs
<1>2. AllOK'
  BY NoneIsNoOther DEF DestroyObject, DestroyImpl, IInv, TypeOK, AllOK, ThreadOK, MaybeObject, CallPCs, DestroyPCs
<1>3. Global'
  BY Unmoved DEF DestroyObject, DestroyImpl
<1>4. QED
  BY <1>1, <1>2, <1>3, Inductive

LEMMA ListDoneIInv ==
    ASSUME IInv, NEW t \in Threads, ListDone(t)
    PROVE  IInv'
<1>1. TypeOK'
  BY NoneIsNoOther DEF ListDone, IInv, TypeOK, AllOK, ThreadOK, MaybeObject, CallPCs, DestroyPCs
<1>2. AllOK'
  BY NoneIsNoOther DEF ListDone, IInv, TypeOK, AllOK, ThreadOK, MaybeObject, CallPCs, DestroyPCs
<1>3. Global'
  BY Unmoved DEF ListDone
<1>4. QED
  BY <1>1, <1>2, <1>3, Inductive

LEMMA EndDestroyIInv ==
    ASSUME IInv, NEW t \in Threads, EndDestroy(t)
    PROVE  IInv'
<1>1. TypeOK'
  BY NoneIsNoOther DEF EndDestroy, IInv, TypeOK, AllOK, ThreadOK, MaybeObject, CallPCs, DestroyPCs
<1>2. AllOK'
  BY NoneIsNoOther DEF EndDestroy, IInv, TypeOK, AllOK, ThreadOK, MaybeObject, CallPCs, DestroyPCs
<1>3. Global'
  BY Unmoved DEF EndDestroy
<1>4. QED
  BY <1>1, <1>2, <1>3, Inductive

LEMMA FoundIInv ==
    ASSUME IInv, NEW t \in Threads, Found(t)
    PROVE  IInv'
<1> DEFINE o == target[t]
<1> DEFINE h == <<t, "got">>
<1>1. o \in Objects /\ h \in Threads \X Slots /\ ~HeldAt(o, h) /\ refs[o] > 0
  BY NoneIsNoOther DEF Found, Increment, HeldAt, Slots, IInv, TypeOK, AllOK, ThreadOK, MaybeObject, CallPCs, DestroyPCs
<1>2. \A p \in Objects : \A g \in Threads \X Slots :
        HeldAt(p, g)' <=> HeldAt(p, g) \/ (p = o /\ g = h)
  BY <1>1, NoneIsNoOther DEF Found, Increment, HeldAt, Slots, IInv, TypeOK, AllOK, ThreadOK, MaybeObject, CallPCs, DestroyPCs
<1>3. Increment(o) /\ UNCHANGED <<content, deletion>>
  BY DEF Found, Increment
<1> HIDE DEF o, h
<1>4. Global' /\ refs' \in [Objects -> Nat]
  BY <1>1, <1>2, <1>3, Incremented
<1> USE DEF o, h
<1>5. TypeOK'
  BY <1>1, <1>4, NoneIsNoOther DEF Found, Increment, IInv, TypeOK, AllOK, ThreadOK, MaybeObject, CallPCs, DestroyPCs
<1>6. AllOK'
  BY <1>1, NoneIsNoOther DEF Found, Increment, IInv, TypeOK, AllOK, ThreadOK, MaybeObject, CallPCs, DestroyPCs
<1>7. QED
  BY <1>4, <1>5, <1>6, Inductive

LEMMA InsertIInv ==
    ASSUME IInv, NEW t \in Threads, Insert(t)
    PROVE  IInv'
<1> DEFINE o == made[t]
<1> DEFINE h == <<t, "got">>
<1>1. o \in Objects /\ h \in Threads \X Slots /\ ~HeldAt(o, h) /\ refs[o] > 0
  <2>1. made[t] \in Objects /\ got[t] = NoObject
    BY NoneIsNoOther DEF Insert, NoneEqual, IInv, TypeOK, AllOK, ThreadOK, MaybeObject
  <2>2. HeldAt(made[t], <<t, "made">>) /\ <<t, "made">> \in Threads \X Slots
    BY <2>1 DEF HeldAt, Slots
  <2>3. refs[made[t]] > 0
    BY <2>1, <2>2, HeldCounts DEF IInv
  <2>4. QED
    BY <2>1, <2>3, NoneIsNoOther DEF HeldAt, Slots
<1>2. \A p \in Objects : \A g \in Threads \X Slots :
        HeldAt(p, g)' <=> HeldAt(p, g) \/ (p = o /\ g = h)
  BY <1>1, NoneIsNoOther DEF Insert, Increment, NoneEqual, HeldAt, Slots, IInv, TypeOK, AllOK, ThreadOK, MaybeObject, CallPCs, DestroyPCs
<1>3. Increment(o) /\ UNCHANGED <<content, deletion>>
  BY DEF Insert, Increment, NoneEqual
<1> HIDE DEF o, h
<1>4. Global' /\ refs' \in [Objects -> Nat]
  BY <1>1, <1>2, <1>3, Incremented
<1> USE DEF o, h
<1>5. TypeOK'
  BY <1>1, <1>4, NoneIsNoOther DEF Insert, Increment, NoneEqual, IInv, TypeOK, AllOK, ThreadOK, MaybeObject, CallPCs, DestroyPCs
<1>6. AllOK'
  BY <1>1, NoneIsNoOther DEF Insert, Increment, NoneEqual, IInv, TypeOK, AllOK, ThreadOK, MaybeObject, CallPCs, DestroyPCs
<1>7. QED
  BY <1>4, <1>5, <1>6, Inductive

LEMMA AddRefIInv ==
    ASSUME IInv, NEW t \in Threads, NEW u \in Threads, AddRef(t, u)
    PROVE  IInv'
<1> DEFINE o == held[u]
<1> DEFINE h == <<t, "held">>
<1>1. o \in Objects /\ h \in Threads \X Slots /\ ~HeldAt(o, h) /\ refs[o] > 0
  <2>1. held[u] \in Objects
    BY DEF AddRef, IInv, TypeOK, MaybeObject
  <2>2. HeldAt(held[u], <<u, "held">>) /\ <<u, "held">> \in Threads \X Slots
    BY <2>1 DEF HeldAt, Slots
  <2>3. refs[held[u]] > 0
    BY <2>1, <2>2, HeldCounts DEF IInv
  <2>4. QED
    BY <2>1, <2>3, NoneIsNoOther DEF AddRef, IInv, HeldAt, Slots
<1>2. \A p \in Objects : \A g \in Threads \X Slots :
        HeldAt(p, g)' <=> HeldAt(p, g) \/ (p = o /\ g = h)
  BY <1>1, NoneIsNoOther DEF AddRef, Increment, MayCall, HeldAt, Slots, IInv, TypeOK, AllOK, ThreadOK, MaybeObject, CallPCs, DestroyPCs
<1>3. Increment(o) /\ UNCHANGED <<content, deletion>>
  BY DEF AddRef, Increment, MayCall
<1> HIDE DEF o, h
<1>4. Global' /\ refs' \in [Objects -> Nat]
  BY <1>1, <1>2, <1>3, Incremented
<1> USE DEF o, h
<1>5. TypeOK'
  BY <1>1, <1>4, NoneIsNoOther DEF AddRef, Increment, MayCall, IInv, TypeOK, AllOK, ThreadOK, MaybeObject, CallPCs, DestroyPCs
<1>6. AllOK'
  BY <1>1, NoneIsNoOther DEF AddRef, Increment, MayCall, IInv, TypeOK, AllOK, ThreadOK, MaybeObject, CallPCs, DestroyPCs
<1>7. QED
  BY <1>4, <1>5, <1>6, Inductive

LEMMA DropMadeIInv ==
    ASSUME IInv, NEW t \in Threads, DropMade(t)
    PROVE  IInv'
<1> DEFINE o == made[t]
<1> DEFINE h == <<t, "made">>
<1>1. o \in Objects /\ h \in Threads \X Slots /\ HeldAt(o, h) /\ dying[t] = NoObject
  BY NoneIsNoOther DEF DropMade, HeldAt, Slots, IInv, TypeOK, AllOK, ThreadOK, MaybeObject, CallPCs, DestroyPCs
<1>2. \A p \in Objects : \A g \in Threads \X Slots :
        HeldAt(p, g)' <=> HeldAt(p, g) /\ ~(p = o /\ g = h)
  BY <1>1, NoneIsNoOther DEF DropMade, HeldAt, Slots, IInv, TypeOK, AllOK, ThreadOK, MaybeObject, CallPCs, DestroyPCs
<1>3. Decrement(t, o) /\ content' = content
  BY DEF DropMade
<1> HIDE DEF o, h
<1>4. /\ Global' /\ refs' \in [Objects -> Nat]
      /\ dying' \in [Threads -> MaybeObject]
      /\ stage' \in [Threads -> {"none", "untrack", "uncache", "free"}]
      /\ dying'[t] = NoObject <=> stage'[t] = "none"
      /\ \A u \in Threads \ {t} : dying'[u] = dying[u] /\ stage'[u] = stage[u]
  BY <1>1, <1>2, <1>3, Decremented
<1> USE DEF o, h
<1>5. TypeOK'
  BY <1>1, <1>4 DEF DropMade, IInv, TypeOK, MaybeObject, CallPCs, DestroyPCs
<1>6. AllOK'
  BY <1>1, <1>4, NoneIsNoOther DEF DropMade, IInv, TypeOK, AllOK, ThreadOK, MaybeObject, CallPCs, DestroyPCs
<1>7. QED
  BY <1>4, <1>5, <1>6, Inductive

LEMMA InitializeFailsIInv ==
    ASSUME IInv, NEW t \in Threads, InitializeFails(t)
    PROVE  IInv'
<1> DEFINE o == made[t]
<1> DEFINE h == <<t, "made">>
<1>1. o \in Objects /\ h \in Threads \X Slots /\ HeldAt(o, h) /\ dying[t] = NoObject
  BY NoneIsNoOther DEF InitializeFails, HeldAt, Slots, IInv, TypeOK, AllOK, ThreadOK, MaybeObject, CallPCs, DestroyPCs
<1>2. \A p \in Objects : \A g \in Threads \X Slots :
        HeldAt(p, g)' <=> HeldAt(p, g) /\ ~(p = o /\ g = h)
  BY <1>1, NoneIsNoOther DEF InitializeFails, HeldAt, Slots, IInv, TypeOK, AllOK, ThreadOK, MaybeObject, CallPCs, DestroyPCs
<1>3. Decrement(t, o) /\ content' = content
  BY DEF InitializeFails
<1> HIDE DEF o, h
<1>4. /\ Global' /\ refs' \in [Objects -> Nat]
      /\ dying' \in [Threads -> MaybeObject]
      /\ stage' \in [Threads -> {"none", "untrack", "uncache", "free"}]
      /\ dying'[t] = NoObject <=> stage'[t] = "none"
      /\ \A u \in Threads \ {t} : dying'[u] = dying[u] /\ stage'[u] = stage[u]
  BY <1>1, <1>2, <1>3, Decremented
<1> USE DEF o, h
<1>5. TypeOK'
  BY <1>1, <1>4 DEF InitializeFails, IInv, TypeOK, MaybeObject, CallPCs, DestroyPCs
<1>6. AllOK'
  BY <1>1, <1>4, NoneIsNoOther DEF InitializeFails, IInv, TypeOK, AllOK, ThreadOK, MaybeObject, CallPCs, DestroyPCs
<1>7. QED
  BY <1>4, <1>5, <1>6, Inductive

LEMMA ReleaseIInv ==
    ASSUME IInv, NEW t \in Threads, Release(t)
    PROVE  IInv'
<1> DEFINE o == held[t]
<1> DEFINE h == <<t, "held">>
<1>1. o \in Objects /\ h \in Threads \X Slots /\ HeldAt(o, h) /\ dying[t] = NoObject
  BY NoneIsNoOther DEF Release, MayCall, HeldAt, Slots, IInv, TypeOK, AllOK, ThreadOK, MaybeObject, CallPCs, DestroyPCs
<1>2. \A p \in Objects : \A g \in Threads \X Slots :
        HeldAt(p, g)' <=> HeldAt(p, g) /\ ~(p = o /\ g = h)
  BY <1>1, NoneIsNoOther DEF Release, MayCall, HeldAt, Slots, IInv, TypeOK, AllOK, ThreadOK, MaybeObject, CallPCs, DestroyPCs
<1>3. Decrement(t, o) /\ content' = content
  BY DEF Release
<1> HIDE DEF o, h
<1>4. /\ Global' /\ refs' \in [Objects -> Nat]
      /\ dying' \in [Threads -> MaybeObject]
      /\ stage' \in [Threads -> {"none", "untrack", "uncache", "free"}]
      /\ dying'[t] = NoObject <=> stage'[t] = "none"
      /\ \A u \in Threads \ {t} : dying'[u] = dying[u] /\ stage'[u] = stage[u]
  BY <1>1, <1>2, <1>3, Decremented
<1> USE DEF o, h
<1>5. TypeOK'
  BY <1>1, <1>4 DEF Release, MayCall, IInv, TypeOK, MaybeObject, CallPCs, DestroyPCs
<1>6. AllOK'
  BY <1>1, <1>4, NoneIsNoOther DEF Release, MayCall, IInv, TypeOK, AllOK, ThreadOK, MaybeObject, CallPCs, DestroyPCs
<1>7. QED
  BY <1>4, <1>5, <1>6, Inductive
LEMMA DropTemporaryIInv ==
    ASSUME IInv, NEW t \in Threads, DropTemporary(t)
    PROVE  IInv'
<1>1. PICK o \in temps[t] : Set(temps, t, temps[t] \ {o}) /\ Decrement(t, o)
  BY DEF DropTemporary
<1> DEFINE h == <<t, "temp">>
<1>2. o \in Objects /\ h \in Threads \X Slots /\ HeldAt(o, h) /\ dying[t] = NoObject
  BY NoneIsNoOther DEF DropTemporary, HeldAt, Slots, IInv, TypeOK
<1>3. \A p \in Objects : \A g \in Threads \X Slots :
        HeldAt(p, g)' <=> HeldAt(p, g) /\ ~(p = o /\ g = h)
  BY <1>1, <1>2 DEF DropTemporary, HeldAt, Slots, IInv, TypeOK
<1>4. content' = content
  BY DEF DropTemporary
<1> HIDE DEF h
<1>5. /\ Global' /\ refs' \in [Objects -> Nat]
      /\ dying' \in [Threads -> MaybeObject]
      /\ stage' \in [Threads -> {"none", "untrack", "uncache", "free"}]
      /\ dying'[t] = NoObject <=> stage'[t] = "none"
      /\ \A u \in Threads \ {t} : dying'[u] = dying[u] /\ stage'[u] = stage[u]
  BY <1>1, <1>2, <1>3, <1>4, Decremented
<1>6. TypeOK'
  BY <1>1, <1>5 DEF DropTemporary, IInv, TypeOK, MaybeObject, CallPCs, DestroyPCs
<1>7. AllOK'
  BY <1>1, <1>5, NoneIsNoOther DEF DropTemporary, IInv, TypeOK, AllOK, ThreadOK, MaybeObject, CallPCs, DestroyPCs
<1>8. QED
  BY <1>5, <1>6, <1>7, Inductive

LEMMA ReturnIInv ==
    ASSUME IInv, NEW t \in Threads, Return(t)
    PROVE  IInv'
<1>1. TypeOK'
  BY DEF Return, IInv, TypeOK, MaybeObject, CallPCs, DestroyPCs
<1>2. AllOK'
  BY NoneIsNoOther DEF Return, IInv, TypeOK, AllOK, ThreadOK, MaybeObject, CallPCs, DestroyPCs
<1>3. RefsAreCounted'
  <2>1. ASSUME NEW o \in Objects PROVE Cardinality(Holders(o)') = Cardinality(Holders(o))
    <3>1. CASE got[t] # o
      <4>1. Holders(o)' = Holders(o)
        BY <3>1, NoneIsNoOther DEF Return, Holders, HeldAt, Slots, IInv, TypeOK, AllOK, ThreadOK, CallPCs
      <4>2. QED
        BY <4>1
    <3>2. CASE got[t] = o
      <4> DEFINE S == Holders(o) \ {<<t, "got">>}
      <4>1. Holders(o)' = S \union {<<t, "held">>} /\ <<t, "held">> \notin S /\ <<t, "got">> \in Holders(o)
        BY <3>2, NoneIsNoOther DEF Return, Holders, HeldAt, Slots, IInv, TypeOK, AllOK, ThreadOK, CallPCs
      <4>2. IsFiniteSet(S) /\ Cardinality(S) = Cardinality(Holders(o)) - 1 /\ Cardinality(Holders(o)) \in Nat
        BY <4>1, HoldersFinite, FS_RemoveElement, FS_CardinalityType
      <4> HIDE DEF S
      <4>3. Cardinality(S \union {<<t, "held">>}) = Cardinality(S) + 1
        BY <4>1, <4>2, FS_AddElement
      <4>4. QED
        BY <4>1, <4>2, <4>3
    <3>3. QED
      BY <3>1, <3>2
  <2>2. QED
    BY <2>1 DEF Return, IInv, RefsAreCounted
<1>4. Living' /\ DyingOK'
  BY DEF Return, IInv, Living, DyingOK, Existing
<1>5. QED
  BY <1>1, <1>2, <1>3, <1>4 DEF IInv

LEMMA ProbeIInv ==
    ASSUME IInv, NEW t \in Threads, Probe(t)
    PROVE  IInv'
<1>1. PICK o \in unseen[t] :
        /\ Set(unseen, t, unseen[t] \ {o})
        /\ IF refs[o] = 0
           THEN UNCHANGED <<refs, temps, target, pc>>
           ELSE /\ Increment(o)
                /\ Set(temps, t, temps[t] \union {o})
                /\ IF content[o] = want[t]
                   THEN Set(target, t, o) /\ Goto(t, "found")
                   ELSE UNCHANGED <<target, pc>>
  BY DEF Probe
<1>2. o \in Objects /\ refs[o] \in Nat /\ At(t, "probe") /\ o \notin temps[t]
  BY DEF Probe, IInv, TypeOK, AllOK, ThreadOK
<1>3. UNCHANGED <<content, marked, destroyed, cacheVars, deviceVars, want, held, made, got, deletion>>
  BY DEF Probe
<1>4. CASE refs[o] = 0
  <2>1. TypeOK'
    BY <1>1, <1>2, <1>3, <1>4 DEF IInv, TypeOK
  <2>2. AllOK'
    BY <1>1, <1>2, <1>3, <1>4 DEF IInv, TypeOK, AllOK, ThreadOK, CallPCs, DestroyPCs
  <2>3. Global'
    BY <1>1, <1>3, <1>4, Unmoved
  <2>4. QED
    BY <2>1, <2>2, <2>3, Inductive
<1>5. CASE refs[o] # 0
  <2> DEFINE h == <<t, "temp">>
  <2>1. h \in Threads \X Slots /\ ~HeldAt(o, h)
    BY <1>2 DEF HeldAt, Slots
  <2>2. \A p \in Objects : \A g \in Threads \X Slots :
          HeldAt(p, g)' <=> HeldAt(p, g) \/ (p = o /\ g = h)
    BY <1>1, <1>2, <1>3, <1>5 DEF HeldAt, Slots, IInv, TypeOK
  <2> HIDE DEF h
  <2>3. Global' /\ refs' \in [Objects -> Nat]
    BY <1>1, <1>2, <1>3, <1>5, <2>1, <2>2, Incremented
  <2>4. TypeOK'
    BY <1>1, <1>2, <1>3, <1>5, <2>3 DEF IInv, TypeOK, MaybeObject, CallPCs, DestroyPCs
  <2>5. AllOK'
    BY <1>1, <1>2, <1>3, <1>5 DEF IInv, TypeOK, AllOK, ThreadOK, CallPCs, DestroyPCs
  <2>6. QED
    BY <2>3, <2>4, <2>5, Inductive
<1>6. QED
  BY <1>4, <1>5

LEMMA CreateIInv ==
    ASSUME IInv, NEW t \in Threads, Create(t)
    PROVE  IInv'
<1>1. PICK o \in Objects :
        /\ ~Existing(o)
        /\ Set(content, o, want[t]) /\ Set(refs, o, 1) /\ Set(destroyed, o, 0)
        /\ Set(made, t, o)
  BY DEF Create
<1>2. refs[o] = 0 /\ refs[o] \in Nat
  BY <1>1 DEF IInv, TypeOK, Living
<1>3. At(t, "create") /\ made[t] = NoObject /\ want[t] \in Contents
  BY DEF Create, IInv, AllOK, ThreadOK, CallPCs
<1>4. TypeOK'
  BY <1>1, <1>3 DEF Create, IInv, TypeOK, MaybeObject, CallPCs, DestroyPCs
<1>5. AllOK'
  BY <1>1, <1>3, NoneIsNoOther DEF Create, IInv, TypeOK, AllOK, ThreadOK, CallPCs, DestroyPCs
<1>6. RefsAreCounted'
  <2> DEFINE h == <<t, "made">>
  <2>1. h \in Threads \X Slots /\ ~HeldAt(o, h)
    BY <1>3, NoneIsNoOther DEF HeldAt, Slots
  <2>2. \A p \in Objects : \A g \in Threads \X Slots :
          HeldAt(p, g)' <=> HeldAt(p, g) \/ (p = o /\ g = h)
    BY <1>1, <1>3, NoneIsNoOther DEF Create, HeldAt, Slots, IInv, TypeOK
  <2>3. refs' = [refs EXCEPT ![o] = refs[o] + 1]
    BY <1>1, <1>2
  <2> HIDE DEF h
  <2>4. QED
    BY <2>1, <2>2, <2>3, OneMore DEF IInv
<1>7. Living'
  BY <1>1, <1>3, NoneIsNoOther DEF IInv, TypeOK, Living, Existing
<1>8. DyingOK'
  <2>1. \A u \in Threads : dying[u] # o
    BY <1>1, NoneIsNoOther DEF IInv, DyingOK
  <2>2. QED
    BY <1>1, <2>1 DEF Create, IInv, TypeOK, DyingOK, Existing, MaybeObject
<1>9. QED
  BY <1>4, <1>5, <1>6, <1>7, <1>8 DEF IInv

LEMMA FreeIInv ==
    ASSUME IInv, NEW t \in Threads, Free(t)
    PROVE  IInv'
<1>1. dying[t] \in Objects /\ refs[dying[t]] = 0
  BY NoneIsNoOther DEF Free, IInv, TypeOK, AllOK, ThreadOK, DyingOK, MaybeObject
<1>2. TypeOK'
  BY <1>1 DEF Free, IInv, TypeOK, MaybeObject
<1>3. AllOK'
  BY <1>1 DEF Free, IInv, TypeOK, AllOK, ThreadOK, CallPCs, DestroyPCs
<1>4. RefsAreCounted'
  <2>1. \A o \in Objects : Holders(o)' = Holders(o)
    BY DEF Free, Holders, HeldAt
  <2>2. QED
    BY <2>1 DEF Free, IInv, RefsAreCounted
<1>5. Living'
  BY <1>1 DEF Free, IInv, TypeOK, Living, Existing
<1>6. DyingOK'
  BY <1>1, NoneIsNoOther DEF Free, IInv, TypeOK, DyingOK, Existing, MaybeObject
<1>7. QED
  BY <1>2, <1>3, <1>4, <1>5, <1>6 DEF IInv

LEMMA StepIInv ==
    ASSUME IInv, [Next]_vars
    PROVE  IInv'
<1>1. CASE UNCHANGED vars
  <2>1. TypeOK' /\ AllOK'
    BY <1>1 DEF vars, IInv, TypeOK, AllOK, ThreadOK
  <2>2. Global'
    BY <1>1, Unmoved DEF vars
  <2>3. QED
    BY <2>1, <2>2, Inductive
<1>2. ASSUME NEW t \in Threads, Continue(t) PROVE IInv'
  <2>1. CASE Lookup(t)
    BY <1>2, <2>1, LockCacheIInv, ProbeIInv, FoundIInv, FindMissesIInv, InsertIInv DEF Lookup
  <2>2. CASE Settle(t)
    BY <1>2, <2>2, DropTemporaryIInv, DropMadeIInv, ReturnIInv, GoOnIInv DEF Settle
  <2>3. CASE Make(t)
    BY <1>2, <2>3, CreateIInv, CreateFailsIInv, TrackIInv, PrependIInv, InitializeFailsIInv DEF Make
  <2>4. CASE Delete(t)
    BY <1>2, <2>4, UntrackIInv, UncacheIInv, FreeIInv DEF Delete
  <2>5. CASE DestroyDevice(t)
    BY <1>2, <2>5, MoveListIInv, TakeHeadIInv, RemoveHeadIInv, DestroyObjectIInv, ListDoneIInv,
       EndDestroyIInv DEF DestroyDevice
  <2>6. QED
    BY <1>2, <2>1, <2>2, <2>3, <2>4, <2>5 DEF Continue
<1>3. QED
  BY <1>1, <1>2, GetOrCreateIInv, AddRefIInv, ReleaseIInv, BeginDestroyIInv DEF Next

(* The inductive invariant, whatever calls overlap the destruction.        *)
THEOREM CountInvariant == Spec => []IInv
BY InitIInv, StepIInv, PTL DEF Spec

(* Every variable keeps its type.                                          *)
THEOREM TypeCorrect == Spec => []TypeOK
<1>1. IInv => TypeOK
  BY DEF IInv
<1>2. QED
  BY <1>1, CountInvariant, PTL

(* RefCounted.cpp: an object's count is the number of references to it     *)
(* that threads, calls and lookups hold.                                   *)
THEOREM CountsAreRight == Spec => []RefsAreCounted
<1>1. IInv => RefsAreCounted
  BY DEF IInv
<1>2. QED
  BY <1>1, CountInvariant, PTL

(* ContentLessObjectCache.h:219-224: no thread deletes an object while it  *)
(* holds the mutex that deleting it takes.                                 *)
THEOREM EraserUnlocked == Spec => []EraserHoldsNoLock
<1>1. IInv => EraserHoldsNoLock
  BY NoneIsNoOther DEF IInv, AllOK, ThreadOK, EraserHoldsNoLock
<1>2. QED
  BY <1>1, CountInvariant, PTL

-----------------------------------------------------------------------------
(* The order of destruction, when no call overlaps the device's.           *)
LEMMA ObjectsSame ==
    ASSUME DInv, UNCHANGED <<content, destroyed, marked, cache, listed, moved>>,
           \A o \in Objects :
             /\ New(o)' <=> New(o)
             /\ Uncaching(o)' <=> Uncaching(o)
             /\ Destroying(o)' <=> Destroying(o),
           \A t \in Threads :
             stage'[t] = "free" => stage[t] = "free" /\ dying'[t] = dying[t] /\ dying[t] \in Objects
    PROVE  ObjectsOK'
<1>1. \A o \in Objects : (Known(o)' <=> Known(o)) /\ (Pending(o)' <=> Pending(o))
  BY DEF Known, Pending
<1>2. cache \subseteq Objects
  BY DEF DInv, IInv, TypeOK
<1>3. QED
  BY <1>1, <1>2 DEF DInv, ObjectsOK, Existing

LEMMA MadeCounts ==
    ASSUME IInv, NEW t \in Threads, made[t] # NoObject
    PROVE  made[t] \in Objects /\ refs[made[t]] > 0
<1>1. made[t] \in Objects
  BY DEF IInv, TypeOK, MaybeObject
<1>2. <<t, "made">> \in Threads \X Slots /\ HeldAt(made[t], <<t, "made">>)
  BY DEF Slots, HeldAt
<1>3. QED
  BY <1>1, <1>2, HeldCounts DEF IInv

(* What is being deleted is neither new nor destroyed with the device.     *)
LEMMA DyingIsNot ==
    ASSUME DInv, NEW t \in Threads, dying[t] # NoObject
    PROVE  /\ dying[t] \in Objects /\ Existing(dying[t])
           /\ ~New(dying[t])
           /\ \A u \in Threads : made[u] # dying[t]
           /\ \A u \in Threads : pc[u] \notin DestroyPCs
           /\ \A o \in Objects : ~Destroying(o)
           /\ \A u \in Threads \ {t} : dying[u] # dying[t]
<1>1. dying[t] \in Objects /\ Existing(dying[t]) /\ refs[dying[t]] = 0
  BY DEF DInv, IInv, TypeOK, DyingOK, MaybeObject
<1>2. \A u \in Threads : made[u] # dying[t]
  BY <1>1, MadeCounts DEF DInv
<1>3. \A u \in Threads : pc[u] \notin DestroyPCs
  BY DEF DInv, IInv, AllOK, ThreadOK, Alone, DestroyPCs
<1>4. \A u \in Threads \ {t} : dying[u] # dying[t]
  BY DEF DInv, IInv, DyingOK
<1>5. QED
  BY <1>1, <1>2, <1>3, <1>4 DEF New, Destroying, DestroyPCs

LEMMA CachedExist ==
    ASSUME DInv, NEW o \in cache
    PROVE  o \in Objects /\ Existing(o)
BY DEF DInv, IInv, TypeOK, ObjectsOK, Pending

LEMMA GetOrCreateDInv ==
    ASSUME ~Overlap, DInv, IInv', NEW t \in Threads, NEW c \in Contents, GetOrCreate(t, c)
    PROVE  DInv'
<1>1. Alone'
  BY NoneIsNoOther DEF GetOrCreate, MayCall, DInv, Alone, IInv, TypeOK, AllOK, ThreadOK, MaybeObject, CallPCs, DestroyPCs
<1>2. ObjectsOK'
  <2>1. /\ \A o \in Objects : New(o)' <=> New(o)
        /\ \A o \in Objects : Uncaching(o)' <=> Uncaching(o)
        /\ \A o \in Objects : Destroying(o)' <=> Destroying(o)
    BY NoneIsNoOther DEF GetOrCreate, MayCall, DInv, New, Uncaching, Destroying, IInv, TypeOK, AllOK, ThreadOK, MaybeObject, CallPCs, DestroyPCs
  <2>2. \A v \in Threads :
          stage'[v] = "free" => stage[v] = "free" /\ dying'[v] = dying[v] /\ dying[v] \in Objects
    BY NoneIsNoOther DEF GetOrCreate, MayCall, DInv, IInv, TypeOK, AllOK, ThreadOK, MaybeObject, CallPCs, DestroyPCs
  <2>3. UNCHANGED <<content, destroyed, marked, cache, listed, moved>>
    BY DEF GetOrCreate, MayCall
  <2>4. QED
    BY <2>1, <2>2, <2>3, ObjectsSame
<1>3. LookupOK'
  BY NoneIsNoOther DEF GetOrCreate, MayCall, DInv, Alone, LookupOK, ObjectsOK, Pending, Known, New, Uncaching, Destroying, Existing, Living, DyingOK, IInv, TypeOK, AllOK, ThreadOK, MaybeObject, CallPCs, DestroyPCs
<1>4. OnePerContent'
  BY NoneIsNoOther DEF GetOrCreate, MayCall, DInv, Alone, LookupOK, ObjectsOK, OnePerContent, Existing, IInv, TypeOK, AllOK, ThreadOK, MaybeObject, CallPCs, DestroyPCs
<1>5. QED
  BY <1>1, <1>2, <1>3, <1>4 DEF DInv

LEMMA AddRefDInv ==
    ASSUME ~Overlap, DInv, IInv', NEW t \in Threads, NEW u \in Threads, AddRef(t, u)
    PROVE  DInv'
<1>0. held[u] \in Objects /\ refs[held[u]] > 0
  <2>1. held[u] \in Objects
    BY DEF AddRef, DInv, IInv, TypeOK, MaybeObject
  <2>2. HeldAt(held[u], <<u, "held">>) /\ <<u, "held">> \in Threads \X Slots
    BY DEF HeldAt, Slots
  <2>3. QED
    BY <2>1, <2>2, HeldCounts DEF DInv, IInv
<1>1. Alone'
  BY NoneIsNoOther DEF AddRef, Increment, MayCall, DInv, Alone, IInv, TypeOK, AllOK, ThreadOK, MaybeObject, CallPCs, DestroyPCs
<1>2. ObjectsOK'
  <2>1. /\ \A o \in Objects : New(o)' <=> New(o)
        /\ \A o \in Objects : Uncaching(o)' <=> Uncaching(o)
        /\ \A o \in Objects : Destroying(o)' <=> Destroying(o)
    BY NoneIsNoOther DEF AddRef, Increment, MayCall, DInv, New, Uncaching, Destroying, IInv, TypeOK, AllOK, ThreadOK, MaybeObject, CallPCs, DestroyPCs
  <2>2. \A v \in Threads :
          stage'[v] = "free" => stage[v] = "free" /\ dying'[v] = dying[v] /\ dying[v] \in Objects
    BY NoneIsNoOther DEF AddRef, Increment, MayCall, DInv, IInv, TypeOK, AllOK, ThreadOK, MaybeObject, CallPCs, DestroyPCs
  <2>3. UNCHANGED <<content, destroyed, marked, cache, listed, moved>>
    BY DEF AddRef, Increment, MayCall
  <2>4. QED
    BY <2>1, <2>2, <2>3, ObjectsSame
<1>3. LookupOK'
  <2>1. held[u] \in Objects /\ refs[held[u]] > 0
    BY <1>0
  <2>2. QED
    BY <2>1, NoneIsNoOther DEF AddRef, Increment, MayCall, DInv, LookupOK, IInv, TypeOK
<1>4. OnePerContent'
  BY <1>0 DEF AddRef, Increment, MayCall, DInv, OnePerContent, IInv, TypeOK
<1>5. QED
  BY <1>1, <1>2, <1>3, <1>4 DEF DInv

LEMMA ReleaseDInv ==
    ASSUME ~Overlap, DInv, IInv', NEW t \in Threads, Release(t)
    PROVE  DInv'
<1>1. Alone'
  BY NoneIsNoOther DEF Release, Decrement, MayCall, DInv, Alone, IInv, TypeOK, AllOK, ThreadOK, MaybeObject, CallPCs, DestroyPCs
<1>2. ObjectsOK'
  <2>1. /\ \A o \in Objects : New(o)' <=> New(o)
        /\ \A o \in Objects : Uncaching(o)' <=> Uncaching(o)
        /\ \A o \in Objects : Destroying(o)' <=> Destroying(o)
    BY NoneIsNoOther DEF Release, Decrement, MayCall, DInv, New, Uncaching, Destroying, IInv, TypeOK, AllOK, ThreadOK, MaybeObject, CallPCs, DestroyPCs
  <2>2. \A v \in Threads :
          stage'[v] = "free" => stage[v] = "free" /\ dying'[v] = dying[v] /\ dying[v] \in Objects
    BY NoneIsNoOther DEF Release, Decrement, MayCall, DInv, IInv, TypeOK, AllOK, ThreadOK, MaybeObject, CallPCs, DestroyPCs
  <2>3. UNCHANGED <<content, destroyed, marked, cache, listed, moved>>
    BY DEF Release, Decrement, MayCall
  <2>4. QED
    BY <2>1, <2>2, <2>3, ObjectsSame
<1>3. LookupOK'
  BY NoneIsNoOther DEF Release, Decrement, MayCall, DInv, Alone, LookupOK, ObjectsOK, Pending, Known, New, Uncaching, Destroying, Existing, Living, DyingOK, IInv, TypeOK, AllOK, ThreadOK, MaybeObject, CallPCs, DestroyPCs
<1>4. OnePerContent'
  BY NoneIsNoOther DEF Release, Decrement, MayCall, DInv, Alone, LookupOK, ObjectsOK, OnePerContent, Existing, IInv, TypeOK, AllOK, ThreadOK, MaybeObject, CallPCs, DestroyPCs
<1>5. QED
  BY <1>1, <1>2, <1>3, <1>4 DEF DInv

LEMMA BeginDestroyDInv ==
    ASSUME ~Overlap, DInv, IInv', NEW t \in Threads, BeginDestroy(t)
    PROVE  DInv'
<1>1. Alone'
  BY NoneIsNoOther DEF BeginDestroy, MayCall, DInv, Alone, IInv, TypeOK, AllOK, ThreadOK, MaybeObject, CallPCs, DestroyPCs
<1>2. ObjectsOK'
  <2>1. /\ \A o \in Objects : New(o)' <=> New(o)
        /\ \A o \in Objects : Uncaching(o)' <=> Uncaching(o)
        /\ \A o \in Objects : Destroying(o)' <=> Destroying(o)
    BY NoneIsNoOther DEF BeginDestroy, MayCall, DInv, New, Uncaching, Destroying, IInv, TypeOK, AllOK, ThreadOK, MaybeObject, CallPCs, DestroyPCs
  <2>2. \A v \in Threads :
          stage'[v] = "free" => stage[v] = "free" /\ dying'[v] = dying[v] /\ dying[v] \in Objects
    BY NoneIsNoOther DEF BeginDestroy, MayCall, DInv, IInv, TypeOK, AllOK, ThreadOK, MaybeObject, CallPCs, DestroyPCs
  <2>3. UNCHANGED <<content, destroyed, marked, cache, listed, moved>>
    BY DEF BeginDestroy, MayCall
  <2>4. QED
    BY <2>1, <2>2, <2>3, ObjectsSame
<1>3. LookupOK'
  BY NoneIsNoOther DEF BeginDestroy, MayCall, DInv, Alone, LookupOK, ObjectsOK, Pending, Known, New, Uncaching, Destroying, Existing, Living, DyingOK, IInv, TypeOK, AllOK, ThreadOK, MaybeObject, CallPCs, DestroyPCs
<1>4. OnePerContent'
  BY NoneIsNoOther DEF BeginDestroy, MayCall, DInv, Alone, LookupOK, ObjectsOK, OnePerContent, Existing, IInv, TypeOK, AllOK, ThreadOK, MaybeObject, CallPCs, DestroyPCs
<1>5. QED
  BY <1>1, <1>2, <1>3, <1>4 DEF DInv

LEMMA LockCacheDInv ==
    ASSUME ~Overlap, DInv, IInv', NEW t \in Threads, LockCache(t)
    PROVE  DInv'
<1>1. Alone'
  BY NoneIsNoOther DEF LockCache, DInv, Alone, IInv, TypeOK, AllOK, ThreadOK, MaybeObject, CallPCs, DestroyPCs
<1>2. ObjectsOK'
  <2>1. /\ \A o \in Objects : New(o)' <=> New(o)
        /\ \A o \in Objects : Uncaching(o)' <=> Uncaching(o)
        /\ \A o \in Objects : Destroying(o)' <=> Destroying(o)
    BY NoneIsNoOther DEF LockCache, DInv, New, Uncaching, Destroying, IInv, TypeOK, AllOK, ThreadOK, MaybeObject, CallPCs, DestroyPCs
  <2>2. \A v \in Threads :
          stage'[v] = "free" => stage[v] = "free" /\ dying'[v] = dying[v] /\ dying[v] \in Objects
    BY NoneIsNoOther DEF LockCache, DInv, IInv, TypeOK, AllOK, ThreadOK, MaybeObject, CallPCs, DestroyPCs
  <2>3. UNCHANGED <<content, destroyed, marked, cache, listed, moved>>
    BY DEF LockCache
  <2>4. QED
    BY <2>1, <2>2, <2>3, ObjectsSame
<1>3. LookupOK'
  BY NoneIsNoOther DEF LockCache, DInv, Alone, LookupOK, ObjectsOK, Pending, Known, New, Uncaching, Destroying, Existing, Living, DyingOK, IInv, TypeOK, AllOK, ThreadOK, MaybeObject, CallPCs, DestroyPCs
<1>4. OnePerContent'
  BY NoneIsNoOther DEF LockCache, DInv, Alone, LookupOK, ObjectsOK, OnePerContent, Existing, IInv, TypeOK, AllOK, ThreadOK, MaybeObject, CallPCs, DestroyPCs
<1>5. QED
  BY <1>1, <1>2, <1>3, <1>4 DEF DInv

LEMMA ProbeDInv ==
    ASSUME ~Overlap, DInv, IInv', NEW t \in Threads, Probe(t)
    PROVE  DInv'
<1>1. Alone'
  BY NoneIsNoOther DEF Probe, Increment, DInv, Alone, IInv, TypeOK, AllOK, ThreadOK, MaybeObject, CallPCs, DestroyPCs
<1>2. ObjectsOK'
  BY NoneIsNoOther DEF Probe, Increment, DInv, Alone, ObjectsOK, Pending, Known, New, Uncaching, Destroying, Existing, Living, DyingOK, IInv, TypeOK, AllOK, ThreadOK, MaybeObject, CallPCs, DestroyPCs
<1>3. LookupOK'
  BY NoneIsNoOther DEF Probe, Increment, DInv, Alone, LookupOK, ObjectsOK, Pending, Known, New, Uncaching, Destroying, Existing, Living, DyingOK, IInv, TypeOK, AllOK, ThreadOK, MaybeObject, CallPCs, DestroyPCs
<1>4. OnePerContent'
  BY NoneIsNoOther DEF Probe, Increment, DInv, Alone, LookupOK, ObjectsOK, OnePerContent, Existing, IInv, TypeOK, AllOK, ThreadOK, MaybeObject, CallPCs, DestroyPCs
<1>5. QED
  BY <1>1, <1>2, <1>3, <1>4 DEF DInv

LEMMA FoundDInv ==
    ASSUME ~Overlap, DInv, IInv', NEW t \in Threads, Found(t)
    PROVE  DInv'
<1>1. Alone'
  BY NoneIsNoOther DEF Found, Increment, DInv, Alone, IInv, TypeOK, AllOK, ThreadOK, MaybeObject, CallPCs, DestroyPCs
<1>2. ObjectsOK'
  <2>1. /\ \A o \in Objects : New(o)' <=> New(o)
        /\ \A o \in Objects : Uncaching(o)' <=> Uncaching(o)
        /\ \A o \in Objects : Destroying(o)' <=> Destroying(o)
    BY NoneIsNoOther DEF Found, Increment, DInv, New, Uncaching, Destroying, IInv, TypeOK, AllOK, ThreadOK, MaybeObject, CallPCs, DestroyPCs
  <2>2. \A v \in Threads :
          stage'[v] = "free" => stage[v] = "free" /\ dying'[v] = dying[v] /\ dying[v] \in Objects
    BY NoneIsNoOther DEF Found, Increment, DInv, IInv, TypeOK, AllOK, ThreadOK, MaybeObject, CallPCs, DestroyPCs
  <2>3. UNCHANGED <<content, destroyed, marked, cache, listed, moved>>
    BY DEF Found, Increment
  <2>4. QED
    BY <2>1, <2>2, <2>3, ObjectsSame
<1>3. LookupOK'
  BY NoneIsNoOther DEF Found, Increment, DInv, Alone, LookupOK, ObjectsOK, Pending, Known, New, Uncaching, Destroying, Existing, Living, DyingOK, IInv, TypeOK, AllOK, ThreadOK, MaybeObject, CallPCs, DestroyPCs
<1>4. OnePerContent'
  BY NoneIsNoOther DEF Found, Increment, DInv, Alone, LookupOK, ObjectsOK, OnePerContent, Existing, IInv, TypeOK, AllOK, ThreadOK, MaybeObject, CallPCs, DestroyPCs
<1>5. QED
  BY <1>1, <1>2, <1>3, <1>4 DEF DInv

LEMMA FindMissesDInv ==
    ASSUME ~Overlap, DInv, IInv', NEW t \in Threads, FindMisses(t)
    PROVE  DInv'
<1>1. Alone'
  BY NoneIsNoOther DEF FindMisses, NoneEqual, DInv, Alone, IInv, TypeOK, AllOK, ThreadOK, MaybeObject, CallPCs, DestroyPCs
<1>2. ObjectsOK'
  <2>1. /\ \A o \in Objects : New(o)' <=> New(o)
        /\ \A o \in Objects : Uncaching(o)' <=> Uncaching(o)
        /\ \A o \in Objects : Destroying(o)' <=> Destroying(o)
    BY NoneIsNoOther DEF FindMisses, NoneEqual, DInv, New, Uncaching, Destroying, IInv, TypeOK, AllOK, ThreadOK, MaybeObject, CallPCs, DestroyPCs
  <2>2. \A v \in Threads :
          stage'[v] = "free" => stage[v] = "free" /\ dying'[v] = dying[v] /\ dying[v] \in Objects
    BY NoneIsNoOther DEF FindMisses, NoneEqual, DInv, IInv, TypeOK, AllOK, ThreadOK, MaybeObject, CallPCs, DestroyPCs
  <2>3. UNCHANGED <<content, destroyed, marked, cache, listed, moved>>
    BY DEF FindMisses, NoneEqual
  <2>4. QED
    BY <2>1, <2>2, <2>3, ObjectsSame
<1>3. LookupOK'
  BY NoneIsNoOther DEF FindMisses, NoneEqual, DInv, Alone, LookupOK, ObjectsOK, Pending, Known, New, Uncaching, Destroying, Existing, Living, DyingOK, IInv, TypeOK, AllOK, ThreadOK, MaybeObject, CallPCs, DestroyPCs
<1>4. OnePerContent'
  BY NoneIsNoOther DEF FindMisses, NoneEqual, DInv, Alone, LookupOK, ObjectsOK, OnePerContent, Existing, IInv, TypeOK, AllOK, ThreadOK, MaybeObject, CallPCs, DestroyPCs
<1>5. QED
  BY <1>1, <1>2, <1>3, <1>4 DEF DInv

LEMMA InsertDInv ==
    ASSUME ~Overlap, DInv, IInv', NEW t \in Threads, Insert(t)
    PROVE  DInv'
<1>1. Alone'
  BY NoneIsNoOther DEF Insert, Increment, NoneEqual, DInv, Alone, IInv, TypeOK, AllOK, ThreadOK, MaybeObject, CallPCs, DestroyPCs
<1>2. ObjectsOK'
  <2>1. made[t] \in listed /\ made[t] \in Objects
    BY MadeCounts DEF Insert, NoneEqual, DInv, LookupOK
  <2>2. \A o \in Objects :
          /\ (Known(o)' <=> Known(o)) /\ (New(o)' <=> New(o))
          /\ (Uncaching(o)' <=> Uncaching(o)) /\ (Destroying(o)' <=> Destroying(o))
    BY NoneIsNoOther DEF Insert, Increment, NoneEqual, DInv, Known, New, Uncaching, Destroying, IInv, TypeOK, AllOK, ThreadOK, MaybeObject, CallPCs, DestroyPCs
  <2>3. UNCHANGED <<content, destroyed, dying, stage>>
    BY DEF Insert
  <2>4. marked' = cache' /\ cache' = cache \union {made[t]}
    BY DEF Insert, DInv, ObjectsOK
  <2>5. \A o \in Objects : Pending(o)' <=> Pending(o)
    BY <2>2 DEF Pending
  <2>6. \A o \in cache' : Known(o)' \/ Uncaching(o)' \/ Destroying(o)'
    BY <2>1, <2>2, <2>4, CachedExist DEF DInv, ObjectsOK, Known
  <2>7. \A v \in Threads : stage[v] = "free" => dying[v] \in Objects
    BY DEF DInv, IInv, TypeOK, AllOK, ThreadOK, MaybeObject
  <2>8. QED
    BY <2>2, <2>3, <2>4, <2>5, <2>6, <2>7 DEF DInv, ObjectsOK, Existing
<1>3. LookupOK'
  BY NoneIsNoOther DEF Insert, Increment, NoneEqual, DInv, Alone, LookupOK, ObjectsOK, Pending, Known, New, Uncaching, Destroying, Existing, Living, DyingOK, IInv, TypeOK, AllOK, ThreadOK, MaybeObject, CallPCs, DestroyPCs
<1>4. OnePerContent'
  BY NoneIsNoOther DEF Insert, Increment, NoneEqual, DInv, Alone, LookupOK, ObjectsOK, OnePerContent, Existing, IInv, TypeOK, AllOK, ThreadOK, MaybeObject, CallPCs, DestroyPCs
<1>5. QED
  BY <1>1, <1>2, <1>3, <1>4 DEF DInv

LEMMA DropTemporaryDInv ==
    ASSUME ~Overlap, DInv, IInv', NEW t \in Threads, DropTemporary(t)
    PROVE  DInv'
<1>1. Alone'
  BY NoneIsNoOther DEF DropTemporary, Decrement, DInv, Alone, IInv, TypeOK, AllOK, ThreadOK, MaybeObject, CallPCs, DestroyPCs
<1>2. ObjectsOK'
  <2>1. /\ \A o \in Objects : New(o)' <=> New(o)
        /\ \A o \in Objects : Uncaching(o)' <=> Uncaching(o)
        /\ \A o \in Objects : Destroying(o)' <=> Destroying(o)
    BY NoneIsNoOther DEF DropTemporary, Decrement, DInv, New, Uncaching, Destroying, IInv, TypeOK, AllOK, ThreadOK, MaybeObject, CallPCs, DestroyPCs
  <2>2. \A v \in Threads :
          stage'[v] = "free" => stage[v] = "free" /\ dying'[v] = dying[v] /\ dying[v] \in Objects
    BY NoneIsNoOther DEF DropTemporary, Decrement, DInv, IInv, TypeOK, AllOK, ThreadOK, MaybeObject, CallPCs, DestroyPCs
  <2>3. UNCHANGED <<content, destroyed, marked, cache, listed, moved>>
    BY DEF DropTemporary, Decrement
  <2>4. QED
    BY <2>1, <2>2, <2>3, ObjectsSame
<1>3. LookupOK'
  BY NoneIsNoOther DEF DropTemporary, Decrement, DInv, Alone, LookupOK, ObjectsOK, Pending, Known, New, Uncaching, Destroying, Existing, Living, DyingOK, IInv, TypeOK, AllOK, ThreadOK, MaybeObject, CallPCs, DestroyPCs
<1>4. OnePerContent'
  BY NoneIsNoOther DEF DropTemporary, Decrement, DInv, Alone, LookupOK, ObjectsOK, OnePerContent, Existing, IInv, TypeOK, AllOK, ThreadOK, MaybeObject, CallPCs, DestroyPCs
<1>5. QED
  BY <1>1, <1>2, <1>3, <1>4 DEF DInv

LEMMA DropMadeDInv ==
    ASSUME ~Overlap, DInv, IInv', NEW t \in Threads, DropMade(t)
    PROVE  DInv'
<1>1. Alone'
  BY NoneIsNoOther DEF DropMade, Decrement, DInv, Alone, IInv, TypeOK, AllOK, ThreadOK, MaybeObject, CallPCs, DestroyPCs
<1>2. ObjectsOK'
  <2>1. /\ \A o \in Objects : New(o)' <=> New(o)
        /\ \A o \in Objects : Uncaching(o)' <=> Uncaching(o)
        /\ \A o \in Objects : Destroying(o)' <=> Destroying(o)
    BY NoneIsNoOther DEF DropMade, Decrement, DInv, New, Uncaching, Destroying, IInv, TypeOK, AllOK, ThreadOK, MaybeObject, CallPCs, DestroyPCs
  <2>2. \A v \in Threads :
          stage'[v] = "free" => stage[v] = "free" /\ dying'[v] = dying[v] /\ dying[v] \in Objects
    BY NoneIsNoOther DEF DropMade, Decrement, DInv, IInv, TypeOK, AllOK, ThreadOK, MaybeObject, CallPCs, DestroyPCs
  <2>3. UNCHANGED <<content, destroyed, marked, cache, listed, moved>>
    BY DEF DropMade, Decrement
  <2>4. QED
    BY <2>1, <2>2, <2>3, ObjectsSame
<1>3. LookupOK'
  BY NoneIsNoOther DEF DropMade, Decrement, DInv, Alone, LookupOK, ObjectsOK, Pending, Known, New, Uncaching, Destroying, Existing, Living, DyingOK, IInv, TypeOK, AllOK, ThreadOK, MaybeObject, CallPCs, DestroyPCs
<1>4. OnePerContent'
  BY NoneIsNoOther DEF DropMade, Decrement, DInv, Alone, LookupOK, ObjectsOK, OnePerContent, Existing, IInv, TypeOK, AllOK, ThreadOK, MaybeObject, CallPCs, DestroyPCs
<1>5. QED
  BY <1>1, <1>2, <1>3, <1>4 DEF DInv

LEMMA ReturnDInv ==
    ASSUME ~Overlap, DInv, IInv', NEW t \in Threads, Return(t)
    PROVE  DInv'
<1>1. Alone'
  BY NoneIsNoOther DEF Return, DInv, Alone, IInv, TypeOK, AllOK, ThreadOK, MaybeObject, CallPCs, DestroyPCs
<1>2. ObjectsOK'
  <2>1. /\ \A o \in Objects : New(o)' <=> New(o)
        /\ \A o \in Objects : Uncaching(o)' <=> Uncaching(o)
        /\ \A o \in Objects : Destroying(o)' <=> Destroying(o)
    BY NoneIsNoOther DEF Return, DInv, New, Uncaching, Destroying, IInv, TypeOK, AllOK, ThreadOK, MaybeObject, CallPCs, DestroyPCs
  <2>2. \A v \in Threads :
          stage'[v] = "free" => stage[v] = "free" /\ dying'[v] = dying[v] /\ dying[v] \in Objects
    BY NoneIsNoOther DEF Return, DInv, IInv, TypeOK, AllOK, ThreadOK, MaybeObject, CallPCs, DestroyPCs
  <2>3. UNCHANGED <<content, destroyed, marked, cache, listed, moved>>
    BY DEF Return
  <2>4. QED
    BY <2>1, <2>2, <2>3, ObjectsSame
<1>3. LookupOK'
  BY NoneIsNoOther DEF Return, DInv, Alone, LookupOK, ObjectsOK, Pending, Known, New, Uncaching, Destroying, Existing, Living, DyingOK, IInv, TypeOK, AllOK, ThreadOK, MaybeObject, CallPCs, DestroyPCs
<1>4. OnePerContent'
  BY NoneIsNoOther DEF Return, DInv, Alone, LookupOK, ObjectsOK, OnePerContent, Existing, IInv, TypeOK, AllOK, ThreadOK, MaybeObject, CallPCs, DestroyPCs
<1>5. QED
  BY <1>1, <1>2, <1>3, <1>4 DEF DInv

LEMMA GoOnDInv ==
    ASSUME ~Overlap, DInv, IInv', NEW t \in Threads, GoOn(t)
    PROVE  DInv'
<1>1. Alone'
  BY NoneIsNoOther DEF GoOn, DInv, Alone, IInv, TypeOK, AllOK, ThreadOK, MaybeObject, CallPCs, DestroyPCs
<1>2. ObjectsOK'
  <2>1. /\ \A o \in Objects : New(o)' <=> New(o)
        /\ \A o \in Objects : Uncaching(o)' <=> Uncaching(o)
        /\ \A o \in Objects : Destroying(o)' <=> Destroying(o)
    BY NoneIsNoOther DEF GoOn, DInv, New, Uncaching, Destroying, IInv, TypeOK, AllOK, ThreadOK, MaybeObject, CallPCs, DestroyPCs
  <2>2. \A v \in Threads :
          stage'[v] = "free" => stage[v] = "free" /\ dying'[v] = dying[v] /\ dying[v] \in Objects
    BY NoneIsNoOther DEF GoOn, DInv, IInv, TypeOK, AllOK, ThreadOK, MaybeObject, CallPCs, DestroyPCs
  <2>3. UNCHANGED <<content, destroyed, marked, cache, listed, moved>>
    BY DEF GoOn
  <2>4. QED
    BY <2>1, <2>2, <2>3, ObjectsSame
<1>3. LookupOK'
  BY NoneIsNoOther DEF GoOn, DInv, Alone, LookupOK, ObjectsOK, Pending, Known, New, Uncaching, Destroying, Existing, Living, DyingOK, IInv, TypeOK, AllOK, ThreadOK, MaybeObject, CallPCs, DestroyPCs
<1>4. OnePerContent'
  BY NoneIsNoOther DEF GoOn, DInv, Alone, LookupOK, ObjectsOK, OnePerContent, Existing, IInv, TypeOK, AllOK, ThreadOK, MaybeObject, CallPCs, DestroyPCs
<1>5. QED
  BY <1>1, <1>2, <1>3, <1>4 DEF DInv

LEMMA CreateDInv ==
    ASSUME ~Overlap, DInv, IInv', NEW t \in Threads, Create(t)
    PROVE  DInv'
<1>0. PICK o \in Objects :
        /\ ~Existing(o)
        /\ Set(content, o, want[t]) /\ Set(refs, o, 1) /\ Set(destroyed, o, 0)
        /\ Set(made, t, o)
  BY DEF Create
<1>6. At(t, "create") /\ made[t] = NoObject /\ want[t] \in Contents /\ Goto(t, "track")
  BY DEF Create, DInv, IInv, AllOK, ThreadOK, CallPCs
<1>7. UNCHANGED <<marked, cacheVars, deviceVars, lookup, held, got, temps, deletion>>
  BY DEF Create
<1>1. Alone'
  BY NoneIsNoOther DEF Create, DInv, Alone, IInv, TypeOK, AllOK, ThreadOK, MaybeObject, CallPCs, DestroyPCs
<1>2. ObjectsOK'
  <2>1. ~Pending(o) /\ o \notin cache /\ \A v \in Threads : dying[v] # o
    BY <1>0, CachedExist, NoneIsNoOther DEF DInv, ObjectsOK, IInv, DyingOK
  <2>2. \A p \in Objects :
          /\ (Known(p)' <=> Known(p)) /\ (New(p)' <=> New(p) \/ p = o)
          /\ (Uncaching(p)' <=> Uncaching(p)) /\ (Destroying(p)' <=> Destroying(p))
    BY <1>0, <1>6, <1>7, NoneIsNoOther DEF DInv, Known, New, Uncaching, Destroying, IInv, TypeOK
  <2>3. \A p \in Objects : Pending(p)' <=> Pending(p) \/ p = o
    BY <2>2 DEF Pending
  <2>4. \A p \in Objects \ {o} : content'[p] = content[p] /\ destroyed'[p] = destroyed[p]
    BY <1>0 DEF DInv, IInv, TypeOK
  <2>5. Existing(o)' /\ destroyed'[o] = 0
    BY <1>0, <1>6, NoneIsNoOther DEF DInv, IInv, TypeOK, Existing
  <2>6. \A v \in Threads : stage[v] = "free" => dying[v] \in Objects \ {o}
    BY <2>1 DEF DInv, IInv, TypeOK, AllOK, ThreadOK, MaybeObject
  <2>7. \A p \in cache : p \in Objects
    BY CachedExist
  <2>8. ~Known(o) /\ ~Uncaching(o) /\ ~Destroying(o)
    BY <2>1 DEF Pending
  <2>9. QED
    BY <1>7, <2>2, <2>3, <2>4, <2>5, <2>6, <2>7, <2>8 DEF DInv, ObjectsOK, Existing
<1>3. LookupOK'
  BY NoneIsNoOther DEF Create, DInv, Alone, LookupOK, ObjectsOK, Pending, Known, New, Uncaching, Destroying, Existing, Living, DyingOK, IInv, TypeOK, AllOK, ThreadOK, MaybeObject, CallPCs, DestroyPCs
<1>4. OnePerContent'
  <2>1. o \notin cache /\ cache \subseteq Objects
    BY <1>0, CachedExist
  <2>2. QED
    BY <1>0, <1>7, <2>1 DEF DInv, OnePerContent, IInv, TypeOK
<1>5. QED
  BY <1>1, <1>2, <1>3, <1>4 DEF DInv

LEMMA CreateFailsDInv ==
    ASSUME ~Overlap, DInv, IInv', NEW t \in Threads, CreateFails(t)
    PROVE  DInv'
<1>1. Alone'
  BY NoneIsNoOther DEF CreateFails, DInv, Alone, IInv, TypeOK, AllOK, ThreadOK, MaybeObject, CallPCs, DestroyPCs
<1>2. ObjectsOK'
  <2>1. /\ \A o \in Objects : New(o)' <=> New(o)
        /\ \A o \in Objects : Uncaching(o)' <=> Uncaching(o)
        /\ \A o \in Objects : Destroying(o)' <=> Destroying(o)
    BY NoneIsNoOther DEF CreateFails, DInv, New, Uncaching, Destroying, IInv, TypeOK, AllOK, ThreadOK, MaybeObject, CallPCs, DestroyPCs
  <2>2. \A v \in Threads :
          stage'[v] = "free" => stage[v] = "free" /\ dying'[v] = dying[v] /\ dying[v] \in Objects
    BY NoneIsNoOther DEF CreateFails, DInv, IInv, TypeOK, AllOK, ThreadOK, MaybeObject, CallPCs, DestroyPCs
  <2>3. UNCHANGED <<content, destroyed, marked, cache, listed, moved>>
    BY DEF CreateFails
  <2>4. QED
    BY <2>1, <2>2, <2>3, ObjectsSame
<1>3. LookupOK'
  BY NoneIsNoOther DEF CreateFails, DInv, Alone, LookupOK, ObjectsOK, Pending, Known, New, Uncaching, Destroying, Existing, Living, DyingOK, IInv, TypeOK, AllOK, ThreadOK, MaybeObject, CallPCs, DestroyPCs
<1>4. OnePerContent'
  BY NoneIsNoOther DEF CreateFails, DInv, Alone, LookupOK, ObjectsOK, OnePerContent, Existing, IInv, TypeOK, AllOK, ThreadOK, MaybeObject, CallPCs, DestroyPCs
<1>5. QED
  BY <1>1, <1>2, <1>3, <1>4 DEF DInv

LEMMA TrackDInv ==
    ASSUME ~Overlap, DInv, IInv', NEW t \in Threads, Track(t)
    PROVE  DInv'
<1>1. Alone'
  BY NoneIsNoOther DEF Track, DInv, Alone, IInv, TypeOK, AllOK, ThreadOK, MaybeObject, CallPCs, DestroyPCs
<1>2. ObjectsOK'
  BY NoneIsNoOther DEF Track, DInv, Alone, ObjectsOK, Pending, Known, New, Uncaching, Destroying, Existing, Living, DyingOK, IInv, TypeOK, AllOK, ThreadOK, MaybeObject, CallPCs, DestroyPCs
<1>3. LookupOK'
  BY NoneIsNoOther DEF Track, DInv, Alone, LookupOK, ObjectsOK, Pending, Known, New, Uncaching, Destroying, Existing, Living, DyingOK, IInv, TypeOK, AllOK, ThreadOK, MaybeObject, CallPCs, DestroyPCs
<1>4. OnePerContent'
  BY NoneIsNoOther DEF Track, DInv, Alone, LookupOK, ObjectsOK, OnePerContent, Existing, IInv, TypeOK, AllOK, ThreadOK, MaybeObject, CallPCs, DestroyPCs
<1>5. QED
  BY <1>1, <1>2, <1>3, <1>4 DEF DInv

LEMMA PrependDInv ==
    ASSUME ~Overlap, DInv, IInv', NEW t \in Threads, Prepend(t)
    PROVE  DInv'
<1>1. Alone'
  BY NoneIsNoOther DEF Prepend, DInv, Alone, IInv, TypeOK, AllOK, ThreadOK, MaybeObject, CallPCs, DestroyPCs
<1>2. ObjectsOK'
  <2> DEFINE o == made[t]
  <2>1. o \in Objects /\ refs[o] > 0 /\ New(o)
    BY MadeCounts DEF Prepend, DInv, IInv, AllOK, ThreadOK, New
  <2>2. ~Uncaching(o) /\ \A p \in Objects : ~Destroying(p)
    BY <2>1, NoneIsNoOther DEF Prepend, DInv, Alone, IInv, TypeOK, DyingOK, Uncaching, Destroying, DestroyPCs
  <2>3. \A p \in Objects :
          /\ (Known(p)' <=> Known(p) \/ p = o) /\ (p # o => (New(p)' <=> New(p)))
          /\ (Uncaching(p)' <=> Uncaching(p)) /\ (Destroying(p)' <=> Destroying(p))
    BY NoneIsNoOther DEF Prepend, DInv, Known, New, Uncaching, Destroying, IInv, TypeOK
  <2> HIDE DEF o
  <2>4. \A p \in Objects : Pending(p)' <=> Pending(p)
    BY <2>1, <2>3 DEF Pending
  <2>5. UNCHANGED <<content, destroyed, marked, cache, dying, stage>>
    BY DEF Prepend
  <2>6. \A v \in Threads : stage[v] = "free" => dying[v] \in Objects
    BY DEF DInv, IInv, TypeOK, AllOK, ThreadOK, MaybeObject
  <2>7. \A p \in cache : p \in Objects
    BY CachedExist
  <2>8. QED
    BY <2>2, <2>3, <2>4, <2>5, <2>6, <2>7 DEF DInv, ObjectsOK, Existing
<1>3. LookupOK'
  BY NoneIsNoOther DEF Prepend, DInv, Alone, LookupOK, ObjectsOK, Pending, Known, New, Uncaching, Destroying, Existing, Living, DyingOK, IInv, TypeOK, AllOK, ThreadOK, MaybeObject, CallPCs, DestroyPCs
<1>4. OnePerContent'
  BY NoneIsNoOther DEF Prepend, DInv, Alone, LookupOK, ObjectsOK, OnePerContent, Existing, IInv, TypeOK, AllOK, ThreadOK, MaybeObject, CallPCs, DestroyPCs
<1>5. QED
  BY <1>1, <1>2, <1>3, <1>4 DEF DInv

LEMMA InitializeFailsDInv ==
    ASSUME ~Overlap, DInv, IInv', NEW t \in Threads, InitializeFails(t)
    PROVE  DInv'
<1>1. Alone'
  BY NoneIsNoOther DEF InitializeFails, Decrement, DInv, Alone, IInv, TypeOK, AllOK, ThreadOK, MaybeObject, CallPCs, DestroyPCs
<1>2. ObjectsOK'
  <2>1. /\ \A o \in Objects : New(o)' <=> New(o)
        /\ \A o \in Objects : Uncaching(o)' <=> Uncaching(o)
        /\ \A o \in Objects : Destroying(o)' <=> Destroying(o)
    BY NoneIsNoOther DEF InitializeFails, Decrement, DInv, New, Uncaching, Destroying, IInv, TypeOK, AllOK, ThreadOK, MaybeObject, CallPCs, DestroyPCs
  <2>2. \A v \in Threads :
          stage'[v] = "free" => stage[v] = "free" /\ dying'[v] = dying[v] /\ dying[v] \in Objects
    BY NoneIsNoOther DEF InitializeFails, Decrement, DInv, IInv, TypeOK, AllOK, ThreadOK, MaybeObject, CallPCs, DestroyPCs
  <2>3. UNCHANGED <<content, destroyed, marked, cache, listed, moved>>
    BY DEF InitializeFails, Decrement
  <2>4. QED
    BY <2>1, <2>2, <2>3, ObjectsSame
<1>3. LookupOK'
  BY NoneIsNoOther DEF InitializeFails, Decrement, DInv, Alone, LookupOK, ObjectsOK, Pending, Known, New, Uncaching, Destroying, Existing, Living, DyingOK, IInv, TypeOK, AllOK, ThreadOK, MaybeObject, CallPCs, DestroyPCs
<1>4. OnePerContent'
  BY NoneIsNoOther DEF InitializeFails, Decrement, DInv, Alone, LookupOK, ObjectsOK, OnePerContent, Existing, IInv, TypeOK, AllOK, ThreadOK, MaybeObject, CallPCs, DestroyPCs
<1>5. QED
  BY <1>1, <1>2, <1>3, <1>4 DEF DInv

LEMMA UntrackDInv ==
    ASSUME ~Overlap, DInv, IInv', NEW t \in Threads, Untrack(t)
    PROVE  DInv'
<1> DEFINE x == dying[t]
<1>0. /\ x # NoObject /\ x \in Objects /\ Existing(x)
      /\ ~New(x) /\ \A u \in Threads : made[u] # x
      /\ \A o \in Objects : ~Destroying(o)
      /\ \A u \in Threads \ {t} : dying[u] # x
  BY DyingIsNot, NoneIsNoOther DEF Untrack, DInv, IInv, AllOK, ThreadOK
<1>1. Alone'
  BY NoneIsNoOther DEF Untrack, DInv, Alone, IInv, TypeOK, AllOK, ThreadOK, MaybeObject, CallPCs, DestroyPCs
<1>2. ObjectsOK'
  <2>1. ~Uncaching(x)
    BY <1>0 DEF Untrack, Uncaching
  <2>2. \A p \in Objects :
          /\ (Known(p)' <=> Known(p) /\ p # x) /\ (New(p)' <=> New(p))
          /\ (Uncaching(p)' <=> Uncaching(p) \/ (p = x /\ Known(x)))
          /\ (Destroying(p)' <=> Destroying(p))
    BY <1>0, <2>1 DEF Untrack, DInv, Known, New, Uncaching, Destroying, IInv, TypeOK
  <2>3. \A p \in Objects : Pending(p)' <=> Pending(p)
    BY <1>0, <2>1, <2>2 DEF Pending
  <2>4. UNCHANGED <<content, destroyed, marked, cache, dying>>
    BY DEF Untrack
  <2>5. \A v \in Threads : stage'[v] = "free" =>
          dying[v] \in Objects /\ (stage[v] = "free" \/ (v = t /\ ~Known(x)))
    BY <1>0 DEF Untrack, Known, DInv, IInv, TypeOK, AllOK, ThreadOK, MaybeObject
  <2>6. ~Known(x) => ~Pending(x)
    BY <1>0, <2>1 DEF Pending
  <2>7. \A p \in cache : p \in Objects
    BY CachedExist
  <2>8. \A p \in Objects :
          /\ Pending(p)' => Existing(p)'
          /\ Existing(p)' => destroyed'[p] = IF Pending(p)' THEN 0 ELSE 1
          /\ Uncaching(p)' \/ Destroying(p)' => ~Known(p)'
    BY <1>0, <2>2, <2>3, <2>4 DEF DInv, ObjectsOK, Existing
  <2>9. \A p \in cache' : Known(p)' \/ Uncaching(p)' \/ Destroying(p)'
    BY <2>2, <2>4, <2>7 DEF DInv, ObjectsOK
  <2>10. \A v \in Threads : stage'[v] = "free" => ~Pending(dying[v])'
    BY <2>3, <2>4, <2>5, <2>6 DEF DInv, ObjectsOK
  <2>11. QED
    BY <2>4, <2>8, <2>9, <2>10 DEF DInv, ObjectsOK
<1>3. LookupOK'
  BY <1>0, NoneIsNoOther DEF Untrack, DInv, LookupOK, IInv, TypeOK, MaybeObject
<1>4. OnePerContent'
  BY NoneIsNoOther DEF Untrack, DInv, Alone, LookupOK, ObjectsOK, OnePerContent, Existing, IInv, TypeOK, AllOK, ThreadOK, MaybeObject, CallPCs, DestroyPCs
<1>5. QED
  BY <1>1, <1>2, <1>3, <1>4 DEF DInv

LEMMA UncacheDInv ==
    ASSUME ~Overlap, DInv, IInv', NEW t \in Threads, Uncache(t)
    PROVE  DInv'
<1> DEFINE x == dying[t]
<1>0. /\ x # NoObject /\ x \in Objects /\ Existing(x)
      /\ ~New(x) /\ \A u \in Threads : made[u] # x
      /\ \A o \in Objects : ~Destroying(o)
      /\ \A u \in Threads \ {t} : dying[u] # x
  BY DyingIsNot, NoneIsNoOther DEF Uncache, DInv, IInv, AllOK, ThreadOK
<1>1. Alone'
  BY NoneIsNoOther DEF Uncache, DestroyImpl, DInv, Alone, IInv, TypeOK, AllOK, ThreadOK, MaybeObject, CallPCs, DestroyPCs
<1>2. ObjectsOK'
  <2>1. Uncaching(x) /\ ~Known(x)
    BY <1>0 DEF Uncache, Uncaching, DInv, ObjectsOK
  <2>2. \A p \in Objects :
          /\ (Known(p)' <=> Known(p)) /\ (New(p)' <=> New(p))
          /\ (Uncaching(p)' <=> Uncaching(p) /\ p # x)
          /\ (Destroying(p)' <=> Destroying(p))
    BY <1>0 DEF Uncache, DInv, Known, New, Uncaching, Destroying, IInv, TypeOK
  <2>3. \A p \in Objects : Pending(p)' <=> Pending(p) /\ p # x
    BY <1>0, <2>1, <2>2 DEF Pending
  <2>4. /\ UNCHANGED <<content, dying>> /\ destroyed' = [destroyed EXCEPT ![x] = destroyed[x] + 1]
        /\ cache' = cache \ {x} /\ marked' = marked \ {x}
    BY <1>0 DEF Uncache, DestroyImpl, DInv, ObjectsOK
  <2>5. \A v \in Threads : stage'[v] = "free" =>
          dying[v] \in Objects /\ (stage[v] = "free" \/ v = t)
    BY <1>0 DEF Uncache, DInv, IInv, TypeOK, AllOK, ThreadOK, MaybeObject
  <2>6. destroyed[x] = 0 /\ destroyed \in [Objects -> Nat]
    BY <1>0, <2>1 DEF DInv, ObjectsOK, Pending, IInv, TypeOK
  <2>7. \A p \in cache : p \in Objects
    BY CachedExist
  <2>8. \A p \in Objects :
          /\ Pending(p)' => Existing(p)'
          /\ Existing(p)' => destroyed'[p] = IF Pending(p)' THEN 0 ELSE 1
          /\ Uncaching(p)' \/ Destroying(p)' => ~Known(p)'
    BY <1>0, <2>2, <2>3, <2>4, <2>6 DEF DInv, ObjectsOK, Existing
  <2>9. \A p \in cache' : Known(p)' \/ Uncaching(p)' \/ Destroying(p)'
    BY <2>2, <2>4, <2>7 DEF DInv, ObjectsOK
  <2>10. \A v \in Threads : stage'[v] = "free" => ~Pending(dying[v])'
    BY <2>3, <2>4, <2>5 DEF DInv, ObjectsOK
  <2>11. marked' = cache'
    BY <2>4 DEF DInv, ObjectsOK
  <2>12. QED
    BY <2>8, <2>9, <2>10, <2>11 DEF ObjectsOK
<1>3. LookupOK'
  BY NoneIsNoOther DEF Uncache, DestroyImpl, DInv, Alone, LookupOK, ObjectsOK, Pending, Known, New, Uncaching, Destroying, Existing, Living, DyingOK, IInv, TypeOK, AllOK, ThreadOK, MaybeObject, CallPCs, DestroyPCs
<1>4. OnePerContent'
  BY NoneIsNoOther DEF Uncache, DestroyImpl, DInv, Alone, LookupOK, ObjectsOK, OnePerContent, Existing, IInv, TypeOK, AllOK, ThreadOK, MaybeObject, CallPCs, DestroyPCs
<1>5. QED
  BY <1>1, <1>2, <1>3, <1>4 DEF DInv

LEMMA FreeDInv ==
    ASSUME ~Overlap, DInv, IInv', NEW t \in Threads, Free(t)
    PROVE  DInv'
<1>1. Alone'
  BY NoneIsNoOther DEF Free, DInv, Alone, IInv, TypeOK, AllOK, ThreadOK, MaybeObject, CallPCs, DestroyPCs
<1>2. ObjectsOK'
  BY NoneIsNoOther DEF Free, DInv, Alone, ObjectsOK, Pending, Known, New, Uncaching, Destroying, Existing, Living, DyingOK, IInv, TypeOK, AllOK, ThreadOK, MaybeObject, CallPCs, DestroyPCs
<1>3. LookupOK'
  BY NoneIsNoOther DEF Free, DInv, Alone, LookupOK, ObjectsOK, Pending, Known, New, Uncaching, Destroying, Existing, Living, DyingOK, IInv, TypeOK, AllOK, ThreadOK, MaybeObject, CallPCs, DestroyPCs
<1>4. OnePerContent'
  <2>1. dying[t] \notin cache /\ cache \subseteq Objects
    BY CachedExist DEF Free, DInv, ObjectsOK, Pending
  <2>2. QED
    BY <2>1 DEF Free, DInv, OnePerContent, IInv, TypeOK
<1>5. QED
  BY <1>1, <1>2, <1>3, <1>4 DEF DInv

LEMMA MoveListDInv ==
    ASSUME ~Overlap, DInv, IInv', NEW t \in Threads, MoveList(t)
    PROVE  DInv'
<1>1. Alone'
  BY NoneIsNoOther DEF MoveList, DInv, Alone, IInv, TypeOK, AllOK, ThreadOK, MaybeObject, CallPCs, DestroyPCs
<1>2. ObjectsOK'
  BY NoneIsNoOther DEF MoveList, DInv, Alone, ObjectsOK, Pending, Known, New, Uncaching, Destroying, Existing, Living, DyingOK, IInv, TypeOK, AllOK, ThreadOK, MaybeObject, CallPCs, DestroyPCs
<1>3. LookupOK'
  BY NoneIsNoOther DEF MoveList, DInv, Alone, LookupOK, ObjectsOK, Pending, Known, New, Uncaching, Destroying, Existing, Living, DyingOK, IInv, TypeOK, AllOK, ThreadOK, MaybeObject, CallPCs, DestroyPCs
<1>4. OnePerContent'
  BY NoneIsNoOther DEF MoveList, DInv, Alone, LookupOK, ObjectsOK, OnePerContent, Existing, IInv, TypeOK, AllOK, ThreadOK, MaybeObject, CallPCs, DestroyPCs
<1>5. QED
  BY <1>1, <1>2, <1>3, <1>4 DEF DInv

LEMMA TakeHeadDInv ==
    ASSUME ~Overlap, DInv, IInv', NEW t \in Threads, TakeHead(t)
    PROVE  DInv'
<1>1. Alone'
  BY NoneIsNoOther DEF TakeHead, DInv, Alone, IInv, TypeOK, AllOK, ThreadOK, MaybeObject, CallPCs, DestroyPCs
<1>2. ObjectsOK'
  <2>1. /\ \A o \in Objects : New(o)' <=> New(o)
        /\ \A o \in Objects : Uncaching(o)' <=> Uncaching(o)
        /\ \A o \in Objects : Destroying(o)' <=> Destroying(o)
    BY NoneIsNoOther DEF TakeHead, DInv, New, Uncaching, Destroying, IInv, TypeOK, AllOK, ThreadOK, MaybeObject, CallPCs, DestroyPCs
  <2>2. \A v \in Threads :
          stage'[v] = "free" => stage[v] = "free" /\ dying'[v] = dying[v] /\ dying[v] \in Objects
    BY NoneIsNoOther DEF TakeHead, DInv, IInv, TypeOK, AllOK, ThreadOK, MaybeObject, CallPCs, DestroyPCs
  <2>3. UNCHANGED <<content, destroyed, marked, cache, listed, moved>>
    BY DEF TakeHead
  <2>4. QED
    BY <2>1, <2>2, <2>3, ObjectsSame
<1>3. LookupOK'
  BY NoneIsNoOther DEF TakeHead, DInv, Alone, LookupOK, ObjectsOK, Pending, Known, New, Uncaching, Destroying, Existing, Living, DyingOK, IInv, TypeOK, AllOK, ThreadOK, MaybeObject, CallPCs, DestroyPCs
<1>4. OnePerContent'
  BY NoneIsNoOther DEF TakeHead, DInv, Alone, LookupOK, ObjectsOK, OnePerContent, Existing, IInv, TypeOK, AllOK, ThreadOK, MaybeObject, CallPCs, DestroyPCs
<1>5. QED
  BY <1>1, <1>2, <1>3, <1>4 DEF DInv

LEMMA RemoveHeadDInv ==
    ASSUME ~Overlap, DInv, IInv', NEW t \in Threads, RemoveHead(t)
    PROVE  DInv'
<1>1. Alone'
  BY NoneIsNoOther DEF RemoveHead, DInv, Alone, IInv, TypeOK, AllOK, ThreadOK, MaybeObject, CallPCs, DestroyPCs
<1>2. ObjectsOK'
  BY NoneIsNoOther DEF RemoveHead, DInv, Alone, ObjectsOK, Pending, Known, New, Uncaching, Destroying, Existing, Living, DyingOK, IInv, TypeOK, AllOK, ThreadOK, MaybeObject, CallPCs, DestroyPCs
<1>3. LookupOK'
  BY NoneIsNoOther DEF RemoveHead, DInv, Alone, LookupOK, ObjectsOK, Pending, Known, New, Uncaching, Destroying, Existing, Living, DyingOK, IInv, TypeOK, AllOK, ThreadOK, MaybeObject, CallPCs, DestroyPCs
<1>4. OnePerContent'
  BY NoneIsNoOther DEF RemoveHead, DInv, Alone, LookupOK, ObjectsOK, OnePerContent, Existing, IInv, TypeOK, AllOK, ThreadOK, MaybeObject, CallPCs, DestroyPCs
<1>5. QED
  BY <1>1, <1>2, <1>3, <1>4 DEF DInv

LEMMA DestroyObjectDInv ==
    ASSUME ~Overlap, DInv, IInv', NEW t \in Threads, DestroyObject(t)
    PROVE  DInv'
<1>1. Alone'
  BY NoneIsNoOther DEF DestroyObject, DestroyImpl, DInv, Alone, IInv, TypeOK, AllOK, ThreadOK, MaybeObject, CallPCs, DestroyPCs
<1>2. ObjectsOK'
  <2> DEFINE x == target[t]
  <2>0. x \in Objects /\ Destroying(x) /\ At(t, "destroy")
    BY DEF DestroyObject, Destroying, DInv, IInv, TypeOK, AllOK, ThreadOK, MaybeObject
  <2>1. /\ ~Known(x) /\ \A p \in Objects : ~New(p) /\ ~Uncaching(p)
        /\ \A v \in Threads : dying[v] = NoObject /\ stage[v] = "none"
        /\ \A v \in Threads \ {t} : pc[v] = "idle"
    BY <2>0, NoneIsNoOther DEF New, Uncaching, DInv, ObjectsOK, Alone, IInv, AllOK, ThreadOK, DestroyPCs
  <2>2. \A p \in Objects :
          /\ (Known(p)' <=> Known(p)) /\ ~New(p)' /\ ~Uncaching(p)' /\ ~Destroying(p)'
          /\ (Destroying(p) <=> p = x)
    BY <2>0, <2>1 DEF DestroyObject, DInv, Known, New, Uncaching, Destroying, IInv, TypeOK
  <2>3. \A p \in Objects : (Pending(p)' <=> Pending(p) /\ p # x)
    BY <2>0, <2>1, <2>2 DEF Pending
  <2>4. /\ UNCHANGED <<content, dying, stage>>
        /\ destroyed' = [destroyed EXCEPT ![x] = destroyed[x] + 1]
        /\ cache' = cache \ {x} /\ marked' = marked \ {x}
    BY DEF DestroyObject, DestroyImpl, DInv, ObjectsOK
  <2>6. destroyed[x] = 0 /\ destroyed \in [Objects -> Nat]
    BY <2>0 DEF DInv, ObjectsOK, Pending, IInv, TypeOK
  <2>7. \A p \in cache : p \in Objects
    BY CachedExist
  <2> HIDE DEF x
  <2>8. \A p \in Objects :
          /\ Pending(p)' => Existing(p)'
          /\ Existing(p)' => destroyed'[p] = IF Pending(p)' THEN 0 ELSE 1
          /\ Uncaching(p)' \/ Destroying(p)' => ~Known(p)'
    BY <2>0, <2>2, <2>3, <2>4, <2>6 DEF DInv, ObjectsOK, Existing
  <2>9. \A p \in cache' : Known(p)' \/ Uncaching(p)' \/ Destroying(p)'
    BY <2>1, <2>2, <2>4, <2>7 DEF DInv, ObjectsOK
  <2>10. \A v \in Threads : stage'[v] # "free"
    BY <2>1, <2>4
  <2>11. marked' = cache'
    BY <2>4 DEF DInv, ObjectsOK
  <2>12. QED
    BY <2>8, <2>9, <2>10, <2>11 DEF ObjectsOK
<1>3. LookupOK'
  BY NoneIsNoOther DEF DestroyObject, DestroyImpl, DInv, Alone, LookupOK, ObjectsOK, Pending, Known, New, Uncaching, Destroying, Existing, Living, DyingOK, IInv, TypeOK, AllOK, ThreadOK, MaybeObject, CallPCs, DestroyPCs
<1>4. OnePerContent'
  BY NoneIsNoOther DEF DestroyObject, DestroyImpl, DInv, Alone, LookupOK, ObjectsOK, OnePerContent, Existing, IInv, TypeOK, AllOK, ThreadOK, MaybeObject, CallPCs, DestroyPCs
<1>5. QED
  BY <1>1, <1>2, <1>3, <1>4 DEF DInv

LEMMA ListDoneDInv ==
    ASSUME ~Overlap, DInv, IInv', NEW t \in Threads, ListDone(t)
    PROVE  DInv'
<1>1. Alone'
  BY NoneIsNoOther DEF ListDone, DInv, Alone, IInv, TypeOK, AllOK, ThreadOK, MaybeObject, CallPCs, DestroyPCs
<1>2. ObjectsOK'
  <2>1. /\ \A o \in Objects : New(o)' <=> New(o)
        /\ \A o \in Objects : Uncaching(o)' <=> Uncaching(o)
        /\ \A o \in Objects : Destroying(o)' <=> Destroying(o)
    BY NoneIsNoOther DEF ListDone, DInv, New, Uncaching, Destroying, IInv, TypeOK, AllOK, ThreadOK, MaybeObject, CallPCs, DestroyPCs
  <2>2. \A v \in Threads :
          stage'[v] = "free" => stage[v] = "free" /\ dying'[v] = dying[v] /\ dying[v] \in Objects
    BY NoneIsNoOther DEF ListDone, DInv, IInv, TypeOK, AllOK, ThreadOK, MaybeObject, CallPCs, DestroyPCs
  <2>3. UNCHANGED <<content, destroyed, marked, cache, listed, moved>>
    BY DEF ListDone
  <2>4. QED
    BY <2>1, <2>2, <2>3, ObjectsSame
<1>3. LookupOK'
  BY NoneIsNoOther DEF ListDone, DInv, Alone, LookupOK, ObjectsOK, Pending, Known, New, Uncaching, Destroying, Existing, Living, DyingOK, IInv, TypeOK, AllOK, ThreadOK, MaybeObject, CallPCs, DestroyPCs
<1>4. OnePerContent'
  BY NoneIsNoOther DEF ListDone, DInv, Alone, LookupOK, ObjectsOK, OnePerContent, Existing, IInv, TypeOK, AllOK, ThreadOK, MaybeObject, CallPCs, DestroyPCs
<1>5. QED
  BY <1>1, <1>2, <1>3, <1>4 DEF DInv

LEMMA EndDestroyDInv ==
    ASSUME ~Overlap, DInv, IInv', NEW t \in Threads, EndDestroy(t)
    PROVE  DInv'
<1>1. Alone'
  BY NoneIsNoOther DEF EndDestroy, DInv, Alone, IInv, TypeOK, AllOK, ThreadOK, MaybeObject, CallPCs, DestroyPCs
<1>2. ObjectsOK'
  <2>1. /\ \A o \in Objects : New(o)' <=> New(o)
        /\ \A o \in Objects : Uncaching(o)' <=> Uncaching(o)
        /\ \A o \in Objects : Destroying(o)' <=> Destroying(o)
    BY NoneIsNoOther DEF EndDestroy, DInv, New, Uncaching, Destroying, IInv, TypeOK, AllOK, ThreadOK, MaybeObject, CallPCs, DestroyPCs
  <2>2. \A v \in Threads :
          stage'[v] = "free" => stage[v] = "free" /\ dying'[v] = dying[v] /\ dying[v] \in Objects
    BY NoneIsNoOther DEF EndDestroy, DInv, IInv, TypeOK, AllOK, ThreadOK, MaybeObject, CallPCs, DestroyPCs
  <2>3. UNCHANGED <<content, destroyed, marked, cache, listed, moved>>
    BY DEF EndDestroy
  <2>4. QED
    BY <2>1, <2>2, <2>3, ObjectsSame
<1>3. LookupOK'
  BY NoneIsNoOther DEF EndDestroy, DInv, Alone, LookupOK, ObjectsOK, Pending, Known, New, Uncaching, Destroying, Existing, Living, DyingOK, IInv, TypeOK, AllOK, ThreadOK, MaybeObject, CallPCs, DestroyPCs
<1>4. OnePerContent'
  BY NoneIsNoOther DEF EndDestroy, DInv, Alone, LookupOK, ObjectsOK, OnePerContent, Existing, IInv, TypeOK, AllOK, ThreadOK, MaybeObject, CallPCs, DestroyPCs
<1>5. QED
  BY <1>1, <1>2, <1>3, <1>4 DEF DInv

LEMMA InitDInv == Init => DInv
<1> SUFFICES ASSUME Init PROVE DInv
  OBVIOUS
<1>1. Alone
  BY NoneIsNoOther DEF Init, Alone, CallPCs, DestroyPCs
<1>2. ObjectsOK
  BY NoneIsNoOther DEF Init, ObjectsOK, Pending, Known, New, Uncaching, Destroying, Existing
<1>3. LookupOK /\ OnePerContent
  BY DEF Init, LookupOK, OnePerContent
<1>4. QED
  BY <1>1, <1>2, <1>3, InitIInv DEF DInv

LEMMA StepDInv ==
    ASSUME ~Overlap, DInv, [Next]_vars
    PROVE  DInv'
<1>0. IInv'
  BY StepIInv DEF DInv
<1>1. CASE UNCHANGED vars
  <2>1. Alone' /\ LookupOK' /\ OnePerContent'
    BY <1>1 DEF vars, DInv, Alone, LookupOK, OnePerContent
  <2>2. ObjectsOK'
    <3>1. \A o \in Objects :
            /\ New(o)' <=> New(o)
            /\ Uncaching(o)' <=> Uncaching(o)
            /\ Destroying(o)' <=> Destroying(o)
      BY <1>1 DEF vars, New, Uncaching, Destroying
    <3>2. \A t \in Threads :
            stage'[t] = "free" => stage[t] = "free" /\ dying'[t] = dying[t] /\ dying[t] \in Objects
      BY <1>1 DEF vars, DInv, IInv, TypeOK, AllOK, ThreadOK, MaybeObject
    <3>3. QED
      BY <1>1, <3>1, <3>2, ObjectsSame DEF vars
  <2>3. QED
    BY <1>0, <2>1, <2>2 DEF DInv
<1>2. ASSUME NEW t \in Threads, Continue(t) PROVE DInv'
  <2>1. CASE Lookup(t)
    BY <1>0, <1>2, <2>1, LockCacheDInv, ProbeDInv, FoundDInv, FindMissesDInv, InsertDInv DEF Lookup
  <2>2. CASE Settle(t)
    BY <1>0, <1>2, <2>2, DropTemporaryDInv, DropMadeDInv, ReturnDInv, GoOnDInv DEF Settle
  <2>3. CASE Make(t)
    BY <1>0, <1>2, <2>3, CreateDInv, CreateFailsDInv, TrackDInv, PrependDInv, InitializeFailsDInv DEF Make
  <2>4. CASE Delete(t)
    BY <1>0, <1>2, <2>4, UntrackDInv, UncacheDInv, FreeDInv DEF Delete
  <2>5. CASE DestroyDevice(t)
    BY <1>0, <1>2, <2>5, MoveListDInv, TakeHeadDInv, RemoveHeadDInv, DestroyObjectDInv, ListDoneDInv,
       EndDestroyDInv DEF DestroyDevice
  <2>6. QED
    BY <1>2, <2>1, <2>2, <2>3, <2>4, <2>5 DEF Continue
<1>3. QED
  BY <1>0, <1>1, <1>2, GetOrCreateDInv, AddRefDInv, ReleaseDInv, BeginDestroyDInv DEF Next

(* The second inductive invariant: when nothing overlaps the device's      *)
(* destruction, who knows of an object until its DestroyImpl has run.      *)
THEOREM DestroyInvariant == ASSUME ~Overlap PROVE Spec => []DInv
BY InitDInv, StepDInv, PTL DEF Spec

(* ContentLessObjectCache.h:84-89: what the cache refers to still exists.  *)
THEOREM NothingDangles == ASSUME ~Overlap PROVE Spec => []CacheHoldsExisting
<1>1. DInv => CacheHoldsExisting
  BY CachedExist DEF CacheHoldsExisting
<1>2. QED
  BY <1>1, DestroyInvariant, PTL

(* Device.cpp:114-127: the cache never holds two living objects of one     *)
(* content.                                                                *)
THEOREM OneOfEach == ASSUME ~Overlap PROVE Spec => []OnePerContent
<1>1. DInv => OnePerContent
  BY DEF DInv
<1>2. QED
  BY <1>1, DestroyInvariant, PTL

(* ObjectBase.cpp:150-156: DestroyImpl has run once when an object is      *)
(* freed.                                                                  *)
THEOREM DestroyedOnce == ASSUME ~Overlap PROVE Spec => []FreedAfterDestroy
<1>1. ASSUME DInv, NEW t \in Threads, stage[t] = "free"
      PROVE  /\ destroyed[dying[t]] = 1
             /\ dying[t] \notin marked \union cache \union listed \union moved
  <2>1. dying[t] # NoObject
    BY <1>1 DEF DInv, IInv, AllOK, ThreadOK
  <2>2. dying[t] \in Objects /\ Existing(dying[t]) /\ ~Pending(dying[t])
    BY <1>1, <2>1, DyingIsNot DEF DInv, ObjectsOK
  <2>3. QED
    BY <1>1, <2>2 DEF DInv, ObjectsOK, Pending, Known
<1>2. DInv => FreedAfterDestroy
  BY <1>1 DEF FreedAfterDestroy
<1>3. QED
  BY <1>2, DestroyInvariant, PTL

(* ~ContentLessObjectCache: the device's caches are empty when they are    *)
(* deleted, whatever the application still holds.                          *)
THEOREM CachesEmpty == ASSUME ~Overlap PROVE Spec => []CachesEmptied
<1>1. ASSUME DInv, (\E t \in Threads : pc[t] = "caches") \/ ~alive
      PROVE  cache = {}
  <2>1. listed = {} /\ closed
    BY <1>1 DEF DInv, Alone
  <2>2. \A u \in Threads : pc[u] \notin {"head", "take", "destroy"}
    BY <1>1 DEF DInv, Alone, DestroyPCs
  <2>3. moved = {} /\ \A o \in Objects : ~Uncaching(o) /\ ~Destroying(o)
    BY <1>1, <2>1, <2>2 DEF DInv, Alone, Uncaching, Destroying
  <2>4. QED
    BY <1>1, <2>1, <2>3, CachedExist DEF DInv, ObjectsOK, Known
<1>2. DInv => CachesEmptied
  BY <1>1 DEF CachesEmptied
<1>3. QED
  BY <1>2, DestroyInvariant, PTL

(* ObjectBase.cpp:83: the assertion holds when nothing overlaps.           *)
THEOREM HeadStays == ASSUME ~Overlap PROVE Spec => []HeadIsInList
<1>1. DInv => HeadIsInList
  BY DEF DInv, Alone, HeadIsInList
<1>2. QED
  BY <1>1, DestroyInvariant, PTL

-----------------------------------------------------------------------------
(* Refinement: the object that a call has made is its own until it is in   *)
(* the cache, and the object that a lookup has found is in the cache.      *)
OwnOK ==
    \A t \in Threads :
      made[t] # NoObject /\ pc[t] # "settle" =>
        /\ made[t] \notin cache
        /\ \A u \in Threads :
             held[u] # made[t] /\ got[u] # made[t] /\ (u # t => made[u] # made[t])

FoundOK ==
    \A t \in Threads :
      /\ pc[t] = "probe" => unseen[t] \subseteq cache
      /\ pc[t] = "found" => target[t] \in cache /\ content[target[t]] = want[t]

RInv == DInv /\ OwnOK /\ FoundOK

LEMMA InHand ==
    ASSUME IInv, NEW u \in Threads
    PROVE  /\ held[u] # NoObject => held[u] \in Objects /\ refs[held[u]] > 0 /\ Existing(held[u])
           /\ got[u] # NoObject => got[u] \in Objects /\ refs[got[u]] > 0 /\ Existing(got[u])
           /\ made[u] # NoObject => made[u] \in Objects /\ refs[made[u]] > 0 /\ Existing(made[u])
           /\ \A o \in temps[u] : o \in Objects /\ refs[o] > 0 /\ Existing(o)
<1>1. ASSUME NEW o \in Objects, NEW s \in Slots, HeldAt(o, <<u, s>>)
      PROVE  refs[o] > 0 /\ Existing(o)
  <2>1. <<u, s>> \in Threads \X Slots
    OBVIOUS
  <2>2. refs[o] > 0
    BY <1>1, <2>1, HeldCounts DEF IInv
  <2>3. QED
    BY <2>2 DEF IInv, Living
<1>2. /\ held[u] \in MaybeObject /\ got[u] \in MaybeObject /\ made[u] \in MaybeObject
      /\ temps[u] \subseteq Objects
  BY DEF IInv, TypeOK
<1>3. /\ held[u] # NoObject => HeldAt(held[u], <<u, "held">>)
      /\ got[u] # NoObject => HeldAt(got[u], <<u, "got">>)
      /\ made[u] # NoObject => HeldAt(made[u], <<u, "made">>)
      /\ \A o \in temps[u] : HeldAt(o, <<u, "temp">>)
  BY DEF HeldAt
<1>4. "held" \in Slots /\ "got" \in Slots /\ "made" \in Slots /\ "temp" \in Slots
  BY DEF Slots
<1>5. QED
  BY <1>1, <1>2, <1>3, <1>4 DEF MaybeObject

LEMMA GetOrCreateRInv ==
    ASSUME ~Overlap, RInv, DInv', NEW t \in Threads, NEW c \in Contents, GetOrCreate(t, c)
    PROVE  RInv'
<1>1. OwnOK'
  BY InHand, CachedExist, NoneIsNoOther DEF GetOrCreate, MayCall, RInv, DInv, OwnOK, FoundOK, IInv, TypeOK, AllOK, ThreadOK, MaybeObject, CallPCs, DestroyPCs
<1>2. FoundOK'
  BY InHand, CachedExist, NoneIsNoOther DEF GetOrCreate, MayCall, RInv, DInv, FoundOK, ObjectsOK, Existing, IInv, TypeOK, AllOK, ThreadOK, MaybeObject, CallPCs, DestroyPCs
<1>3. QED
  BY <1>1, <1>2 DEF RInv

LEMMA AddRefRInv ==
    ASSUME ~Overlap, RInv, DInv', NEW t \in Threads, NEW u \in Threads, AddRef(t, u)
    PROVE  RInv'
<1>1. OwnOK'
  BY InHand, CachedExist, NoneIsNoOther DEF AddRef, Increment, MayCall, RInv, DInv, OwnOK, FoundOK, IInv, TypeOK, AllOK, ThreadOK, MaybeObject, CallPCs, DestroyPCs
<1>2. FoundOK'
  BY InHand, CachedExist, NoneIsNoOther DEF AddRef, Increment, MayCall, RInv, DInv, FoundOK, ObjectsOK, Existing, IInv, TypeOK, AllOK, ThreadOK, MaybeObject, CallPCs, DestroyPCs
<1>3. QED
  BY <1>1, <1>2 DEF RInv

LEMMA ReleaseRInv ==
    ASSUME ~Overlap, RInv, DInv', NEW t \in Threads, Release(t)
    PROVE  RInv'
<1>1. OwnOK'
  BY InHand, CachedExist, NoneIsNoOther DEF Release, Decrement, MayCall, RInv, DInv, OwnOK, FoundOK, IInv, TypeOK, AllOK, ThreadOK, MaybeObject, CallPCs, DestroyPCs
<1>2. FoundOK'
  BY InHand, CachedExist, NoneIsNoOther DEF Release, Decrement, MayCall, RInv, DInv, FoundOK, ObjectsOK, Existing, IInv, TypeOK, AllOK, ThreadOK, MaybeObject, CallPCs, DestroyPCs
<1>3. QED
  BY <1>1, <1>2 DEF RInv

LEMMA BeginDestroyRInv ==
    ASSUME ~Overlap, RInv, DInv', NEW t \in Threads, BeginDestroy(t)
    PROVE  RInv'
<1>1. OwnOK'
  BY InHand, CachedExist, NoneIsNoOther DEF BeginDestroy, MayCall, RInv, DInv, OwnOK, FoundOK, IInv, TypeOK, AllOK, ThreadOK, MaybeObject, CallPCs, DestroyPCs
<1>2. FoundOK'
  BY InHand, CachedExist, NoneIsNoOther DEF BeginDestroy, MayCall, RInv, DInv, FoundOK, ObjectsOK, Existing, IInv, TypeOK, AllOK, ThreadOK, MaybeObject, CallPCs, DestroyPCs
<1>3. QED
  BY <1>1, <1>2 DEF RInv

LEMMA LockCacheRInv ==
    ASSUME ~Overlap, RInv, DInv', NEW t \in Threads, LockCache(t)
    PROVE  RInv'
<1>1. OwnOK'
  BY InHand, CachedExist, NoneIsNoOther DEF LockCache, RInv, DInv, OwnOK, FoundOK, IInv, TypeOK, AllOK, ThreadOK, MaybeObject, CallPCs, DestroyPCs
<1>2. FoundOK'
  BY InHand, CachedExist, NoneIsNoOther DEF LockCache, RInv, DInv, FoundOK, ObjectsOK, Existing, IInv, TypeOK, AllOK, ThreadOK, MaybeObject, CallPCs, DestroyPCs
<1>3. QED
  BY <1>1, <1>2 DEF RInv

LEMMA ProbeRInv ==
    ASSUME ~Overlap, RInv, DInv', NEW t \in Threads, Probe(t)
    PROVE  RInv'
<1>1. OwnOK'
  BY InHand, CachedExist, NoneIsNoOther DEF Probe, Increment, RInv, DInv, OwnOK, FoundOK, IInv, TypeOK, AllOK, ThreadOK, MaybeObject, CallPCs, DestroyPCs
<1>2. FoundOK'
  BY InHand, CachedExist, NoneIsNoOther DEF Probe, Increment, RInv, DInv, FoundOK, ObjectsOK, Existing, IInv, TypeOK, AllOK, ThreadOK, MaybeObject, CallPCs, DestroyPCs
<1>3. QED
  BY <1>1, <1>2 DEF RInv

LEMMA FoundRInv ==
    ASSUME ~Overlap, RInv, DInv', NEW t \in Threads, Found(t)
    PROVE  RInv'
<1>1. OwnOK'
  BY InHand, CachedExist, NoneIsNoOther DEF Found, Increment, RInv, DInv, OwnOK, FoundOK, IInv, TypeOK, AllOK, ThreadOK, MaybeObject, CallPCs, DestroyPCs
<1>2. FoundOK'
  BY InHand, CachedExist, NoneIsNoOther DEF Found, Increment, RInv, DInv, FoundOK, ObjectsOK, Existing, IInv, TypeOK, AllOK, ThreadOK, MaybeObject, CallPCs, DestroyPCs
<1>3. QED
  BY <1>1, <1>2 DEF RInv

LEMMA FindMissesRInv ==
    ASSUME ~Overlap, RInv, DInv', NEW t \in Threads, FindMisses(t)
    PROVE  RInv'
<1>1. OwnOK'
  BY InHand, CachedExist, NoneIsNoOther DEF FindMisses, NoneEqual, RInv, DInv, OwnOK, FoundOK, IInv, TypeOK, AllOK, ThreadOK, MaybeObject, CallPCs, DestroyPCs
<1>2. FoundOK'
  BY InHand, CachedExist, NoneIsNoOther DEF FindMisses, NoneEqual, RInv, DInv, FoundOK, ObjectsOK, Existing, IInv, TypeOK, AllOK, ThreadOK, MaybeObject, CallPCs, DestroyPCs
<1>3. QED
  BY <1>1, <1>2 DEF RInv

LEMMA InsertRInv ==
    ASSUME ~Overlap, RInv, DInv', NEW t \in Threads, Insert(t)
    PROVE  RInv'
<1>1. OwnOK'
  BY InHand, CachedExist, NoneIsNoOther DEF Insert, Increment, NoneEqual, RInv, DInv, OwnOK, FoundOK, IInv, TypeOK, AllOK, ThreadOK, MaybeObject, CallPCs, DestroyPCs
<1>2. FoundOK'
  BY InHand, CachedExist, NoneIsNoOther DEF Insert, Increment, NoneEqual, RInv, DInv, FoundOK, ObjectsOK, Existing, IInv, TypeOK, AllOK, ThreadOK, MaybeObject, CallPCs, DestroyPCs
<1>3. QED
  BY <1>1, <1>2 DEF RInv

LEMMA DropTemporaryRInv ==
    ASSUME ~Overlap, RInv, DInv', NEW t \in Threads, DropTemporary(t)
    PROVE  RInv'
<1>1. OwnOK'
  BY InHand, CachedExist, NoneIsNoOther DEF DropTemporary, Decrement, RInv, DInv, OwnOK, FoundOK, IInv, TypeOK, AllOK, ThreadOK, MaybeObject, CallPCs, DestroyPCs
<1>2. FoundOK'
  BY InHand, CachedExist, NoneIsNoOther DEF DropTemporary, Decrement, RInv, DInv, FoundOK, ObjectsOK, Existing, IInv, TypeOK, AllOK, ThreadOK, MaybeObject, CallPCs, DestroyPCs
<1>3. QED
  BY <1>1, <1>2 DEF RInv

LEMMA DropMadeRInv ==
    ASSUME ~Overlap, RInv, DInv', NEW t \in Threads, DropMade(t)
    PROVE  RInv'
<1>1. OwnOK'
  BY InHand, CachedExist, NoneIsNoOther DEF DropMade, Decrement, RInv, DInv, OwnOK, FoundOK, IInv, TypeOK, AllOK, ThreadOK, MaybeObject, CallPCs, DestroyPCs
<1>2. FoundOK'
  BY InHand, CachedExist, NoneIsNoOther DEF DropMade, Decrement, RInv, DInv, FoundOK, ObjectsOK, Existing, IInv, TypeOK, AllOK, ThreadOK, MaybeObject, CallPCs, DestroyPCs
<1>3. QED
  BY <1>1, <1>2 DEF RInv

LEMMA ReturnRInv ==
    ASSUME ~Overlap, RInv, DInv', NEW t \in Threads, Return(t)
    PROVE  RInv'
<1>1. OwnOK'
  BY InHand, CachedExist, NoneIsNoOther DEF Return, RInv, DInv, OwnOK, FoundOK, IInv, TypeOK, AllOK, ThreadOK, MaybeObject, CallPCs, DestroyPCs
<1>2. FoundOK'
  BY InHand, CachedExist, NoneIsNoOther DEF Return, RInv, DInv, FoundOK, ObjectsOK, Existing, IInv, TypeOK, AllOK, ThreadOK, MaybeObject, CallPCs, DestroyPCs
<1>3. QED
  BY <1>1, <1>2 DEF RInv

LEMMA GoOnRInv ==
    ASSUME ~Overlap, RInv, DInv', NEW t \in Threads, GoOn(t)
    PROVE  RInv'
<1>1. OwnOK'
  BY InHand, CachedExist, NoneIsNoOther DEF GoOn, RInv, DInv, OwnOK, FoundOK, IInv, TypeOK, AllOK, ThreadOK, MaybeObject, CallPCs, DestroyPCs
<1>2. FoundOK'
  BY InHand, CachedExist, NoneIsNoOther DEF GoOn, RInv, DInv, FoundOK, ObjectsOK, Existing, IInv, TypeOK, AllOK, ThreadOK, MaybeObject, CallPCs, DestroyPCs
<1>3. QED
  BY <1>1, <1>2 DEF RInv

LEMMA CreateRInv ==
    ASSUME ~Overlap, RInv, DInv', NEW t \in Threads, Create(t)
    PROVE  RInv'
<1>1. OwnOK'
  BY InHand, CachedExist, NoneIsNoOther DEF Create, RInv, DInv, OwnOK, FoundOK, IInv, TypeOK, AllOK, ThreadOK, MaybeObject, CallPCs, DestroyPCs
<1>2. FoundOK'
  BY InHand, CachedExist, NoneIsNoOther DEF Create, RInv, DInv, FoundOK, ObjectsOK, Existing, IInv, TypeOK, AllOK, ThreadOK, MaybeObject, CallPCs, DestroyPCs
<1>3. QED
  BY <1>1, <1>2 DEF RInv

LEMMA CreateFailsRInv ==
    ASSUME ~Overlap, RInv, DInv', NEW t \in Threads, CreateFails(t)
    PROVE  RInv'
<1>1. OwnOK'
  BY InHand, CachedExist, NoneIsNoOther DEF CreateFails, RInv, DInv, OwnOK, FoundOK, IInv, TypeOK, AllOK, ThreadOK, MaybeObject, CallPCs, DestroyPCs
<1>2. FoundOK'
  BY InHand, CachedExist, NoneIsNoOther DEF CreateFails, RInv, DInv, FoundOK, ObjectsOK, Existing, IInv, TypeOK, AllOK, ThreadOK, MaybeObject, CallPCs, DestroyPCs
<1>3. QED
  BY <1>1, <1>2 DEF RInv

LEMMA TrackRInv ==
    ASSUME ~Overlap, RInv, DInv', NEW t \in Threads, Track(t)
    PROVE  RInv'
<1>1. OwnOK'
  BY InHand, CachedExist, NoneIsNoOther DEF Track, RInv, DInv, OwnOK, FoundOK, IInv, TypeOK, AllOK, ThreadOK, MaybeObject, CallPCs, DestroyPCs
<1>2. FoundOK'
  BY InHand, CachedExist, NoneIsNoOther DEF Track, RInv, DInv, FoundOK, ObjectsOK, Existing, IInv, TypeOK, AllOK, ThreadOK, MaybeObject, CallPCs, DestroyPCs
<1>3. QED
  BY <1>1, <1>2 DEF RInv

LEMMA PrependRInv ==
    ASSUME ~Overlap, RInv, DInv', NEW t \in Threads, Prepend(t)
    PROVE  RInv'
<1>1. OwnOK'
  BY InHand, CachedExist, NoneIsNoOther DEF Prepend, RInv, DInv, OwnOK, FoundOK, IInv, TypeOK, AllOK, ThreadOK, MaybeObject, CallPCs, DestroyPCs
<1>2. FoundOK'
  BY InHand, CachedExist, NoneIsNoOther DEF Prepend, RInv, DInv, FoundOK, ObjectsOK, Existing, IInv, TypeOK, AllOK, ThreadOK, MaybeObject, CallPCs, DestroyPCs
<1>3. QED
  BY <1>1, <1>2 DEF RInv

LEMMA InitializeFailsRInv ==
    ASSUME ~Overlap, RInv, DInv', NEW t \in Threads, InitializeFails(t)
    PROVE  RInv'
<1>1. OwnOK'
  BY InHand, CachedExist, NoneIsNoOther DEF InitializeFails, Decrement, RInv, DInv, OwnOK, FoundOK, IInv, TypeOK, AllOK, ThreadOK, MaybeObject, CallPCs, DestroyPCs
<1>2. FoundOK'
  BY InHand, CachedExist, NoneIsNoOther DEF InitializeFails, Decrement, RInv, DInv, FoundOK, ObjectsOK, Existing, IInv, TypeOK, AllOK, ThreadOK, MaybeObject, CallPCs, DestroyPCs
<1>3. QED
  BY <1>1, <1>2 DEF RInv

LEMMA UntrackRInv ==
    ASSUME ~Overlap, RInv, DInv', NEW t \in Threads, Untrack(t)
    PROVE  RInv'
<1>1. OwnOK'
  BY InHand, CachedExist, NoneIsNoOther DEF Untrack, RInv, DInv, OwnOK, FoundOK, IInv, TypeOK, AllOK, ThreadOK, MaybeObject, CallPCs, DestroyPCs
<1>2. FoundOK'
  BY InHand, CachedExist, NoneIsNoOther DEF Untrack, RInv, DInv, FoundOK, ObjectsOK, Existing, IInv, TypeOK, AllOK, ThreadOK, MaybeObject, CallPCs, DestroyPCs
<1>3. QED
  BY <1>1, <1>2 DEF RInv

LEMMA UncacheRInv ==
    ASSUME ~Overlap, RInv, DInv', NEW t \in Threads, Uncache(t)
    PROVE  RInv'
<1>1. OwnOK'
  BY InHand, CachedExist, NoneIsNoOther DEF Uncache, DestroyImpl, RInv, DInv, OwnOK, FoundOK, IInv, TypeOK, AllOK, ThreadOK, MaybeObject, CallPCs, DestroyPCs
<1>2. FoundOK'
  BY InHand, CachedExist, NoneIsNoOther DEF Uncache, DestroyImpl, RInv, DInv, FoundOK, ObjectsOK, Existing, IInv, TypeOK, AllOK, ThreadOK, MaybeObject, CallPCs, DestroyPCs
<1>3. QED
  BY <1>1, <1>2 DEF RInv

LEMMA FreeRInv ==
    ASSUME ~Overlap, RInv, DInv', NEW t \in Threads, Free(t)
    PROVE  RInv'
<1>1. OwnOK'
  BY InHand, CachedExist, NoneIsNoOther DEF Free, RInv, DInv, OwnOK, FoundOK, IInv, TypeOK, AllOK, ThreadOK, MaybeObject, CallPCs, DestroyPCs
<1>2. FoundOK'
  <2>1. dying[t] \in Objects /\ refs[dying[t]] = 0
    BY NoneIsNoOther DEF Free, RInv, DInv, IInv, TypeOK, AllOK, ThreadOK, DyingOK, MaybeObject
  <2>2. \A u \in Threads : pc[u] = "found" => target[u] # dying[t]
    BY <2>1, InHand DEF RInv, DInv, IInv, AllOK, ThreadOK
  <2>3. QED
    BY <2>1, <2>2 DEF Free, RInv, DInv, FoundOK, IInv, TypeOK
<1>3. QED
  BY <1>1, <1>2 DEF RInv

LEMMA MoveListRInv ==
    ASSUME ~Overlap, RInv, DInv', NEW t \in Threads, MoveList(t)
    PROVE  RInv'
<1>1. OwnOK'
  BY InHand, CachedExist, NoneIsNoOther DEF MoveList, RInv, DInv, OwnOK, FoundOK, IInv, TypeOK, AllOK, ThreadOK, MaybeObject, CallPCs, DestroyPCs
<1>2. FoundOK'
  BY InHand, CachedExist, NoneIsNoOther DEF MoveList, RInv, DInv, FoundOK, ObjectsOK, Existing, IInv, TypeOK, AllOK, ThreadOK, MaybeObject, CallPCs, DestroyPCs
<1>3. QED
  BY <1>1, <1>2 DEF RInv

LEMMA TakeHeadRInv ==
    ASSUME ~Overlap, RInv, DInv', NEW t \in Threads, TakeHead(t)
    PROVE  RInv'
<1>1. OwnOK'
  BY InHand, CachedExist, NoneIsNoOther DEF TakeHead, RInv, DInv, OwnOK, FoundOK, IInv, TypeOK, AllOK, ThreadOK, MaybeObject, CallPCs, DestroyPCs
<1>2. FoundOK'
  BY InHand, CachedExist, NoneIsNoOther DEF TakeHead, RInv, DInv, FoundOK, ObjectsOK, Existing, IInv, TypeOK, AllOK, ThreadOK, MaybeObject, CallPCs, DestroyPCs
<1>3. QED
  BY <1>1, <1>2 DEF RInv

LEMMA RemoveHeadRInv ==
    ASSUME ~Overlap, RInv, DInv', NEW t \in Threads, RemoveHead(t)
    PROVE  RInv'
<1>1. OwnOK'
  BY InHand, CachedExist, NoneIsNoOther DEF RemoveHead, RInv, DInv, OwnOK, FoundOK, IInv, TypeOK, AllOK, ThreadOK, MaybeObject, CallPCs, DestroyPCs
<1>2. FoundOK'
  BY InHand, CachedExist, NoneIsNoOther DEF RemoveHead, RInv, DInv, FoundOK, ObjectsOK, Existing, IInv, TypeOK, AllOK, ThreadOK, MaybeObject, CallPCs, DestroyPCs
<1>3. QED
  BY <1>1, <1>2 DEF RInv

LEMMA DestroyObjectRInv ==
    ASSUME ~Overlap, RInv, DInv', NEW t \in Threads, DestroyObject(t)
    PROVE  RInv'
<1>1. OwnOK'
  BY InHand, CachedExist, NoneIsNoOther DEF DestroyObject, DestroyImpl, RInv, DInv, OwnOK, FoundOK, IInv, TypeOK, AllOK, ThreadOK, MaybeObject, CallPCs, DestroyPCs
<1>2. FoundOK'
  BY InHand, CachedExist, NoneIsNoOther DEF DestroyObject, DestroyImpl, RInv, DInv, FoundOK, ObjectsOK, Existing, IInv, TypeOK, AllOK, ThreadOK, MaybeObject, CallPCs, DestroyPCs
<1>3. QED
  BY <1>1, <1>2 DEF RInv

LEMMA ListDoneRInv ==
    ASSUME ~Overlap, RInv, DInv', NEW t \in Threads, ListDone(t)
    PROVE  RInv'
<1>1. OwnOK'
  BY InHand, CachedExist, NoneIsNoOther DEF ListDone, RInv, DInv, OwnOK, FoundOK, IInv, TypeOK, AllOK, ThreadOK, MaybeObject, CallPCs, DestroyPCs
<1>2. FoundOK'
  BY InHand, CachedExist, NoneIsNoOther DEF ListDone, RInv, DInv, FoundOK, ObjectsOK, Existing, IInv, TypeOK, AllOK, ThreadOK, MaybeObject, CallPCs, DestroyPCs
<1>3. QED
  BY <1>1, <1>2 DEF RInv

LEMMA EndDestroyRInv ==
    ASSUME ~Overlap, RInv, DInv', NEW t \in Threads, EndDestroy(t)
    PROVE  RInv'
<1>1. OwnOK'
  BY InHand, CachedExist, NoneIsNoOther DEF EndDestroy, RInv, DInv, OwnOK, FoundOK, IInv, TypeOK, AllOK, ThreadOK, MaybeObject, CallPCs, DestroyPCs
<1>2. FoundOK'
  BY InHand, CachedExist, NoneIsNoOther DEF EndDestroy, RInv, DInv, FoundOK, ObjectsOK, Existing, IInv, TypeOK, AllOK, ThreadOK, MaybeObject, CallPCs, DestroyPCs
<1>3. QED
  BY <1>1, <1>2 DEF RInv

LEMMA InitRInv == Init => RInv
BY InitDInv, NoneIsNoOther DEF Init, RInv, OwnOK, FoundOK

LEMMA StepRInv ==
    ASSUME ~Overlap, RInv, [Next]_vars
    PROVE  RInv'
<1>0. DInv'
  BY StepDInv DEF RInv
<1>1. CASE UNCHANGED vars
  BY <1>0, <1>1 DEF vars, RInv, OwnOK, FoundOK
<1>2. ASSUME NEW t \in Threads, Continue(t) PROVE RInv'
  <2>1. CASE Lookup(t)
    BY <1>0, <1>2, <2>1, LockCacheRInv, ProbeRInv, FoundRInv, FindMissesRInv, InsertRInv DEF Lookup
  <2>2. CASE Settle(t)
    BY <1>0, <1>2, <2>2, DropTemporaryRInv, DropMadeRInv, ReturnRInv, GoOnRInv DEF Settle
  <2>3. CASE Make(t)
    BY <1>0, <1>2, <2>3, CreateRInv, CreateFailsRInv, TrackRInv, PrependRInv, InitializeFailsRInv DEF Make
  <2>4. CASE Delete(t)
    BY <1>0, <1>2, <2>4, UntrackRInv, UncacheRInv, FreeRInv DEF Delete
  <2>5. CASE DestroyDevice(t)
    BY <1>0, <1>2, <2>5, MoveListRInv, TakeHeadRInv, RemoveHeadRInv, DestroyObjectRInv, ListDoneRInv,
       EndDestroyRInv DEF DestroyDevice
  <2>6. QED
    BY <1>2, <2>1, <2>2, <2>3, <2>4, <2>5 DEF Continue
<1>3. QED
  BY <1>0, <1>1, <1>2, GetOrCreateRInv, AddRefRInv, ReleaseRInv, BeginDestroyRInv DEF Next

(* The object that Current chooses is the only one there is.               *)
Chosen(ca, re, co, c) ==
    IF \E o \in ca : re[o] > 0 /\ co[o] = c
    THEN CHOOSE o \in ca : re[o] > 0 /\ co[o] = c
    ELSE NoObject

LEMMA ChosenIs ==
    ASSUME NEW ca, NEW re, NEW co, NEW c,
           \A o, p \in ca : re[o] > 0 /\ re[p] > 0 /\ co[o] = co[p] => o = p
    PROVE  /\ (\A o \in ca : ~(re[o] > 0 /\ co[o] = c)) => Chosen(ca, re, co, c) = NoObject
           /\ \A o \in ca : re[o] > 0 /\ co[o] = c => Chosen(ca, re, co, c) = o
<1>1. ASSUME \E o \in ca : re[o] > 0 /\ co[o] = c
      PROVE  /\ Chosen(ca, re, co, c) \in ca
             /\ re[Chosen(ca, re, co, c)] > 0 /\ co[Chosen(ca, re, co, c)] = c
  BY <1>1 DEF Chosen
<1>2. QED
  BY <1>1 DEF Chosen

LEMMA CurrentIs ==
    ASSUME DInv, DInv', NEW c \in Contents
    PROVE  /\ (\A o \in cache : ~(refs[o] > 0 /\ content[o] = c)) => Current[c] = NoObject
           /\ \A o \in cache : refs[o] > 0 /\ content[o] = c => Current[c] = o
           /\ (\A o \in cache' : ~(refs'[o] > 0 /\ content'[o] = c)) => Current'[c] = NoObject
           /\ \A o \in cache' : refs'[o] > 0 /\ content'[o] = c => Current'[c] = o
<1>1. Current[c] = Chosen(cache, refs, content, c) /\ Current'[c] = Chosen(cache', refs', content', c)
  BY DEF Current, Chosen
<1>2. OnePerContent /\ OnePerContent'
  BY DEF DInv
<1>3. /\ (\A o \in cache : ~(refs[o] > 0 /\ content[o] = c)) => Current[c] = NoObject
      /\ \A o \in cache : refs[o] > 0 /\ content[o] = c => Current[c] = o
  BY <1>1, <1>2, ChosenIs DEF OnePerContent
<1>4. /\ (\A o \in cache' : ~(refs'[o] > 0 /\ content'[o] = c)) => Current'[c] = NoObject
      /\ \A o \in cache' : refs'[o] > 0 /\ content'[o] = c => Current'[c] = o
  BY <1>1, <1>2, ChosenIs DEF OnePerContent
<1>5. QED
  BY <1>3, <1>4

InUseInCache(o) == o \in cache /\ refs[o] > 0

LEMMA CurrentFunction ==
    /\ Current = [c \in Contents |-> Current[c]]
    /\ Current' = [c \in Contents |-> Current'[c]]
BY DEF Current

LEMMA SameCurrent ==
    ASSUME DInv, DInv',
           \A o \in Objects : InUseInCache(o)' <=> InUseInCache(o),
           \A o \in Objects : InUseInCache(o) => content'[o] = content[o]
    PROVE  Current' = Current
<1>1. cache \subseteq Objects /\ cache' \subseteq Objects
  BY DEF DInv, IInv, TypeOK
<1>2. ASSUME NEW c \in Contents PROVE Current'[c] = Current[c]
  <2>1. CASE \E o \in cache : refs[o] > 0 /\ content[o] = c
    <3>1. PICK o \in cache : refs[o] > 0 /\ content[o] = c
      BY <2>1
    <3>2. o \in cache' /\ refs'[o] > 0 /\ content'[o] = c
      BY <1>1, <3>1 DEF InUseInCache
    <3>3. QED
      BY <3>1, <3>2, CurrentIs
  <2>2. CASE \A o \in cache : ~(refs[o] > 0 /\ content[o] = c)
    <3>1. \A o \in cache' : ~(refs'[o] > 0 /\ content'[o] = c)
      BY <1>1, <2>2 DEF InUseInCache
    <3>2. QED
      BY <2>2, <3>1, CurrentIs
  <2>3. QED
    BY <2>1, <2>2
<1>3. QED
  BY <1>2, CurrentFunction

(* An object that leaves the cache, or loses its last reference in it.     *)
LEMMA LessCurrent ==
    ASSUME DInv, DInv', NEW x \in Objects, InUseInCache(x),
           \A o \in Objects : InUseInCache(o)' <=> InUseInCache(o) /\ o # x,
           content' = content
    PROVE  /\ content[x] \in Contents /\ Current[content[x]] = x
           /\ Current' = [Current EXCEPT ![content[x]] = NoObject]
<1>1. cache \subseteq Objects /\ cache' \subseteq Objects
  BY DEF DInv, IInv, TypeOK
<1>2. content[x] \in Contents /\ x \in cache /\ refs[x] > 0
  BY CachedExist DEF InUseInCache, DInv, IInv, TypeOK, Existing
<1>3. Current[content[x]] = x
  BY <1>2, CurrentIs
<1>4. \A o \in cache : refs[o] > 0 /\ content[o] = content[x] => o = x
  BY <1>2 DEF DInv, OnePerContent
<1>5. ASSUME NEW c \in Contents
      PROVE  Current'[c] = IF c = content[x] THEN NoObject ELSE Current[c]
  <2>1. CASE c = content[x]
    <3>1. \A o \in cache' : ~(refs'[o] > 0 /\ content'[o] = c)
      BY <1>1, <1>4, <2>1 DEF InUseInCache
    <3>2. QED
      BY <2>1, <3>1, CurrentIs
  <2>2. CASE c # content[x] /\ \E o \in cache : refs[o] > 0 /\ content[o] = c
    <3>1. PICK o \in cache : refs[o] > 0 /\ content[o] = c
      BY <2>2
    <3>2. o \in cache' /\ refs'[o] > 0 /\ content'[o] = c
      BY <1>1, <2>2, <3>1 DEF InUseInCache
    <3>3. QED
      BY <2>2, <3>1, <3>2, CurrentIs
  <2>3. CASE c # content[x] /\ \A o \in cache : ~(refs[o] > 0 /\ content[o] = c)
    <3>1. \A o \in cache' : ~(refs'[o] > 0 /\ content'[o] = c)
      BY <1>1, <2>3 DEF InUseInCache
    <3>2. QED
      BY <2>3, <3>1, CurrentIs
  <2>4. QED
    BY <2>1, <2>2, <2>3
<1>6. QED
  BY <1>2, <1>3, <1>5, CurrentFunction

-----------------------------------------------------------------------------
(* What callers have been given.                                           *)
LEMMA GivenFacts ==
    ASSUME IInv, NEW u \in Threads
    PROVE  /\ Given[u] = IF got[u] # NoObject THEN got[u] ELSE held[u]
           /\ Given = [v \in Threads |-> Given[v]]
           /\ Given[u] # NoObject => Given[u] \in Objects /\ refs[Given[u]] > 0
           /\ got[u] # NoObject => held[u] = NoObject
           /\ pc[u] # "settle" => Given[u] = held[u]
           /\ pc[u] \in CallPCs \ {"settle"} => Given[u] = NoObject
BY InHand DEF Given, IInv, AllOK, ThreadOK, CallPCs

LEMMA NobodyHas ==
    ASSUME NEW o \in Objects, RefsAreCounted', refs'[o] = 0
    PROVE  \A u \in Threads : held'[u] # o /\ got'[u] # o
<1>1. IsFiniteSet(Slots) /\ IsFiniteSet(Threads \X Slots)
  BY SlotsFinite, FS_Product, ObjectBounds
<1>2. IsFiniteSet(Holders(o)')
  BY <1>1, FS_Subset DEF Holders
<1>3. Holders(o)' = {}
  BY <1>2, FS_EmptySet DEF RefsAreCounted
<1>4. ASSUME NEW u \in Threads PROVE held'[u] # o /\ got'[u] # o
  <2>1. <<u, "held">> \in Threads \X Slots /\ <<u, "got">> \in Threads \X Slots
    BY DEF Slots
  <2>2. ~HeldAt(o, <<u, "held">>)' /\ ~HeldAt(o, <<u, "got">>)'
    BY <1>3, <2>1 DEF Holders
  <2>3. QED
    BY <2>2 DEF HeldAt
<1>5. QED
  BY <1>4

LEMMA GivenSame ==
    ASSUME UNCHANGED <<held, got>>
    PROVE  Given' = Given
BY DEF Given

(* A reference that is dropped inside a call may end an object's time in   *)
(* the cache, which nobody has been given.                                 *)
LEMMA DropVanishes ==
    ASSUME DInv, DInv', NEW t \in Threads, NEW o \in Objects, Decrement(t, o), refs[o] > 0,
           UNCHANGED <<content, cache, held, got, closed>>
    PROVE  [Interned!Next]_(Interned!internVars)
<1>1. Given' = Given
  BY GivenSame
<1>2. CASE InUseInCache(o) /\ refs[o] = 1
  <2>1. \A p \in Objects : InUseInCache(p)' <=> InUseInCache(p) /\ p # o
    BY <1>2 DEF InUseInCache, Decrement, DInv, IInv, TypeOK
  <2>2. /\ content[o] \in Contents /\ Current[content[o]] = o
        /\ Current' = [Current EXCEPT ![content[o]] = NoObject]
    BY <1>2, <2>1, LessCurrent
  <2>3. refs'[o] = 0
    BY <1>2 DEF Decrement, DInv, IInv, TypeOK
  <2>4. ASSUME NEW u \in Threads PROVE Given[u] # o
    <3>1. held'[u] # o /\ got'[u] # o
      BY <2>3, NobodyHas DEF DInv, IInv
    <3>2. QED
      BY <3>1 DEF Given
  <2>5. Interned!Vanish(content[o])
    BY <1>1, <2>2, <2>4, NoneIsNoOther DEF Interned!Vanish, Interned!InUse
  <2>6. QED
    BY <2>2, <2>5 DEF Interned!Next
<1>3. CASE ~(InUseInCache(o) /\ refs[o] = 1)
  <2>1. \A p \in Objects : InUseInCache(p)' <=> InUseInCache(p)
    BY <1>3 DEF InUseInCache, Decrement, DInv, IInv, TypeOK
  <2>2. Current' = Current
    BY <2>1, SameCurrent
  <2>3. QED
    BY <1>1, <2>2 DEF Interned!internVars
<1>4. QED
  BY <1>2, <1>3

LEMMA GetOrCreateStutters ==
    ASSUME RInv, RInv', NEW t \in Threads, NEW c \in Contents, GetOrCreate(t, c)
    PROVE  [Interned!Next]_(Interned!internVars)
<1>1. Given' = Given
  BY GivenSame DEF GetOrCreate
<1>2. \A o \in Objects : InUseInCache(o)' <=> InUseInCache(o)
  BY NoneIsNoOther DEF GetOrCreate, MayCall, RInv, DInv, InUseInCache, Existing, DyingOK, IInv, TypeOK, AllOK, ThreadOK, MaybeObject, CallPCs, DestroyPCs
<1>3. \A o \in Objects : InUseInCache(o) => content'[o] = content[o]
  BY NoneIsNoOther DEF GetOrCreate, MayCall, RInv, DInv, InUseInCache, Existing, DyingOK, ObjectsOK, IInv, TypeOK, AllOK, ThreadOK, MaybeObject, CallPCs, DestroyPCs
<1>4. Current' = Current
  BY <1>2, <1>3, SameCurrent DEF RInv
<1>5. closed' = closed
  BY DEF GetOrCreate
<1>6. QED
  BY <1>1, <1>4, <1>5 DEF Interned!internVars

LEMMA BeginDestroyStutters ==
    ASSUME RInv, RInv', NEW t \in Threads, BeginDestroy(t)
    PROVE  [Interned!Next]_(Interned!internVars)
<1>1. Given' = Given
  BY GivenSame DEF BeginDestroy
<1>2. \A o \in Objects : InUseInCache(o)' <=> InUseInCache(o)
  BY NoneIsNoOther DEF BeginDestroy, MayCall, RInv, DInv, InUseInCache, Existing, DyingOK, IInv, TypeOK, AllOK, ThreadOK, MaybeObject, CallPCs, DestroyPCs
<1>3. \A o \in Objects : InUseInCache(o) => content'[o] = content[o]
  BY NoneIsNoOther DEF BeginDestroy, MayCall, RInv, DInv, InUseInCache, Existing, DyingOK, ObjectsOK, IInv, TypeOK, AllOK, ThreadOK, MaybeObject, CallPCs, DestroyPCs
<1>4. Current' = Current
  BY <1>2, <1>3, SameCurrent DEF RInv
<1>5. closed' = closed
  BY DEF BeginDestroy
<1>6. QED
  BY <1>1, <1>4, <1>5 DEF Interned!internVars

LEMMA LockCacheStutters ==
    ASSUME RInv, RInv', NEW t \in Threads, LockCache(t)
    PROVE  [Interned!Next]_(Interned!internVars)
<1>1. Given' = Given
  BY GivenSame DEF LockCache
<1>2. \A o \in Objects : InUseInCache(o)' <=> InUseInCache(o)
  BY NoneIsNoOther DEF LockCache, RInv, DInv, InUseInCache, Existing, DyingOK, IInv, TypeOK, AllOK, ThreadOK, MaybeObject, CallPCs, DestroyPCs
<1>3. \A o \in Objects : InUseInCache(o) => content'[o] = content[o]
  BY NoneIsNoOther DEF LockCache, RInv, DInv, InUseInCache, Existing, DyingOK, ObjectsOK, IInv, TypeOK, AllOK, ThreadOK, MaybeObject, CallPCs, DestroyPCs
<1>4. Current' = Current
  BY <1>2, <1>3, SameCurrent DEF RInv
<1>5. closed' = closed
  BY DEF LockCache
<1>6. QED
  BY <1>1, <1>4, <1>5 DEF Interned!internVars

LEMMA FindMissesStutters ==
    ASSUME RInv, RInv', NEW t \in Threads, FindMisses(t)
    PROVE  [Interned!Next]_(Interned!internVars)
<1>1. Given' = Given
  BY GivenSame DEF FindMisses
<1>2. \A o \in Objects : InUseInCache(o)' <=> InUseInCache(o)
  BY NoneIsNoOther DEF FindMisses, NoneEqual, RInv, DInv, InUseInCache, Existing, DyingOK, IInv, TypeOK, AllOK, ThreadOK, MaybeObject, CallPCs, DestroyPCs
<1>3. \A o \in Objects : InUseInCache(o) => content'[o] = content[o]
  BY NoneIsNoOther DEF FindMisses, NoneEqual, RInv, DInv, InUseInCache, Existing, DyingOK, ObjectsOK, IInv, TypeOK, AllOK, ThreadOK, MaybeObject, CallPCs, DestroyPCs
<1>4. Current' = Current
  BY <1>2, <1>3, SameCurrent DEF RInv
<1>5. closed' = closed
  BY DEF FindMisses
<1>6. QED
  BY <1>1, <1>4, <1>5 DEF Interned!internVars

LEMMA ReturnStutters ==
    ASSUME RInv, RInv', NEW t \in Threads, Return(t)
    PROVE  [Interned!Next]_(Interned!internVars)
<1>1. Given' = Given
  BY NoneIsNoOther DEF Return, Given, RInv, DInv, IInv, TypeOK, AllOK, ThreadOK, CallPCs
<1>2. \A o \in Objects : InUseInCache(o)' <=> InUseInCache(o)
  BY NoneIsNoOther DEF Return, RInv, DInv, InUseInCache, Existing, DyingOK, IInv, TypeOK, AllOK, ThreadOK, MaybeObject, CallPCs, DestroyPCs
<1>3. \A o \in Objects : InUseInCache(o) => content'[o] = content[o]
  BY NoneIsNoOther DEF Return, RInv, DInv, InUseInCache, Existing, DyingOK, ObjectsOK, IInv, TypeOK, AllOK, ThreadOK, MaybeObject, CallPCs, DestroyPCs
<1>4. Current' = Current
  BY <1>2, <1>3, SameCurrent DEF RInv
<1>5. closed' = closed
  BY DEF Return
<1>6. QED
  BY <1>1, <1>4, <1>5 DEF Interned!internVars

LEMMA GoOnStutters ==
    ASSUME RInv, RInv', NEW t \in Threads, GoOn(t)
    PROVE  [Interned!Next]_(Interned!internVars)
<1>1. Given' = Given
  BY GivenSame DEF GoOn
<1>2. \A o \in Objects : InUseInCache(o)' <=> InUseInCache(o)
  BY NoneIsNoOther DEF GoOn, RInv, DInv, InUseInCache, Existing, DyingOK, IInv, TypeOK, AllOK, ThreadOK, MaybeObject, CallPCs, DestroyPCs
<1>3. \A o \in Objects : InUseInCache(o) => content'[o] = content[o]
  BY NoneIsNoOther DEF GoOn, RInv, DInv, InUseInCache, Existing, DyingOK, ObjectsOK, IInv, TypeOK, AllOK, ThreadOK, MaybeObject, CallPCs, DestroyPCs
<1>4. Current' = Current
  BY <1>2, <1>3, SameCurrent DEF RInv
<1>5. closed' = closed
  BY DEF GoOn
<1>6. QED
  BY <1>1, <1>4, <1>5 DEF Interned!internVars

LEMMA CreateStutters ==
    ASSUME RInv, RInv', NEW t \in Threads, Create(t)
    PROVE  [Interned!Next]_(Interned!internVars)
<1>1. Given' = Given
  BY GivenSame DEF Create
<1>2. \A o \in Objects : InUseInCache(o)' <=> InUseInCache(o)
  BY CachedExist, NoneIsNoOther DEF Create, RInv, DInv, InUseInCache, Existing, DyingOK, IInv, TypeOK, AllOK, ThreadOK, MaybeObject, CallPCs, DestroyPCs
<1>3. \A o \in Objects : InUseInCache(o) => content'[o] = content[o]
  BY CachedExist, NoneIsNoOther DEF Create, RInv, DInv, InUseInCache, Existing, DyingOK, ObjectsOK, IInv, TypeOK, AllOK, ThreadOK, MaybeObject, CallPCs, DestroyPCs
<1>4. Current' = Current
  BY <1>2, <1>3, SameCurrent DEF RInv
<1>5. closed' = closed
  BY DEF Create
<1>6. QED
  BY <1>1, <1>4, <1>5 DEF Interned!internVars

LEMMA CreateFailsStutters ==
    ASSUME RInv, RInv', NEW t \in Threads, CreateFails(t)
    PROVE  [Interned!Next]_(Interned!internVars)
<1>1. Given' = Given
  BY GivenSame DEF CreateFails
<1>2. \A o \in Objects : InUseInCache(o)' <=> InUseInCache(o)
  BY NoneIsNoOther DEF CreateFails, RInv, DInv, InUseInCache, Existing, DyingOK, IInv, TypeOK, AllOK, ThreadOK, MaybeObject, CallPCs, DestroyPCs
<1>3. \A o \in Objects : InUseInCache(o) => content'[o] = content[o]
  BY NoneIsNoOther DEF CreateFails, RInv, DInv, InUseInCache, Existing, DyingOK, ObjectsOK, IInv, TypeOK, AllOK, ThreadOK, MaybeObject, CallPCs, DestroyPCs
<1>4. Current' = Current
  BY <1>2, <1>3, SameCurrent DEF RInv
<1>5. closed' = closed
  BY DEF CreateFails
<1>6. QED
  BY <1>1, <1>4, <1>5 DEF Interned!internVars

LEMMA TrackStutters ==
    ASSUME RInv, RInv', NEW t \in Threads, Track(t)
    PROVE  [Interned!Next]_(Interned!internVars)
<1>1. Given' = Given
  BY GivenSame DEF Track
<1>2. \A o \in Objects : InUseInCache(o)' <=> InUseInCache(o)
  BY NoneIsNoOther DEF Track, RInv, DInv, InUseInCache, Existing, DyingOK, IInv, TypeOK, AllOK, ThreadOK, MaybeObject, CallPCs, DestroyPCs
<1>3. \A o \in Objects : InUseInCache(o) => content'[o] = content[o]
  BY NoneIsNoOther DEF Track, RInv, DInv, InUseInCache, Existing, DyingOK, ObjectsOK, IInv, TypeOK, AllOK, ThreadOK, MaybeObject, CallPCs, DestroyPCs
<1>4. Current' = Current
  BY <1>2, <1>3, SameCurrent DEF RInv
<1>5. closed' = closed
  BY DEF Track
<1>6. QED
  BY <1>1, <1>4, <1>5 DEF Interned!internVars

LEMMA PrependStutters ==
    ASSUME RInv, RInv', NEW t \in Threads, Prepend(t)
    PROVE  [Interned!Next]_(Interned!internVars)
<1>1. Given' = Given
  BY GivenSame DEF Prepend
<1>2. \A o \in Objects : InUseInCache(o)' <=> InUseInCache(o)
  BY NoneIsNoOther DEF Prepend, RInv, DInv, InUseInCache, Existing, DyingOK, IInv, TypeOK, AllOK, ThreadOK, MaybeObject, CallPCs, DestroyPCs
<1>3. \A o \in Objects : InUseInCache(o) => content'[o] = content[o]
  BY NoneIsNoOther DEF Prepend, RInv, DInv, InUseInCache, Existing, DyingOK, ObjectsOK, IInv, TypeOK, AllOK, ThreadOK, MaybeObject, CallPCs, DestroyPCs
<1>4. Current' = Current
  BY <1>2, <1>3, SameCurrent DEF RInv
<1>5. closed' = closed
  BY DEF Prepend
<1>6. QED
  BY <1>1, <1>4, <1>5 DEF Interned!internVars

LEMMA UntrackStutters ==
    ASSUME RInv, RInv', NEW t \in Threads, Untrack(t)
    PROVE  [Interned!Next]_(Interned!internVars)
<1>1. Given' = Given
  BY GivenSame DEF Untrack
<1>2. \A o \in Objects : InUseInCache(o)' <=> InUseInCache(o)
  BY NoneIsNoOther DEF Untrack, RInv, DInv, InUseInCache, Existing, DyingOK, IInv, TypeOK, AllOK, ThreadOK, MaybeObject, CallPCs, DestroyPCs
<1>3. \A o \in Objects : InUseInCache(o) => content'[o] = content[o]
  BY NoneIsNoOther DEF Untrack, RInv, DInv, InUseInCache, Existing, DyingOK, ObjectsOK, IInv, TypeOK, AllOK, ThreadOK, MaybeObject, CallPCs, DestroyPCs
<1>4. Current' = Current
  BY <1>2, <1>3, SameCurrent DEF RInv
<1>5. closed' = closed
  BY DEF Untrack
<1>6. QED
  BY <1>1, <1>4, <1>5 DEF Interned!internVars

LEMMA UncacheStutters ==
    ASSUME RInv, RInv', NEW t \in Threads, Uncache(t)
    PROVE  [Interned!Next]_(Interned!internVars)
<1>1. Given' = Given
  BY GivenSame DEF Uncache
<1>2. \A o \in Objects : InUseInCache(o)' <=> InUseInCache(o)
  BY NoneIsNoOther DEF Uncache, DestroyImpl, RInv, DInv, InUseInCache, Existing, DyingOK, IInv, TypeOK, AllOK, ThreadOK, MaybeObject, CallPCs, DestroyPCs
<1>3. \A o \in Objects : InUseInCache(o) => content'[o] = content[o]
  BY NoneIsNoOther DEF Uncache, DestroyImpl, RInv, DInv, InUseInCache, Existing, DyingOK, ObjectsOK, IInv, TypeOK, AllOK, ThreadOK, MaybeObject, CallPCs, DestroyPCs
<1>4. Current' = Current
  BY <1>2, <1>3, SameCurrent DEF RInv
<1>5. closed' = closed
  BY DEF Uncache
<1>6. QED
  BY <1>1, <1>4, <1>5 DEF Interned!internVars

LEMMA FreeStutters ==
    ASSUME RInv, RInv', NEW t \in Threads, Free(t)
    PROVE  [Interned!Next]_(Interned!internVars)
<1>1. Given' = Given
  BY GivenSame DEF Free
<1>2. \A o \in Objects : InUseInCache(o)' <=> InUseInCache(o)
  BY NoneIsNoOther DEF Free, RInv, DInv, InUseInCache, Existing, DyingOK, IInv, TypeOK, AllOK, ThreadOK, MaybeObject, CallPCs, DestroyPCs
<1>3. \A o \in Objects : InUseInCache(o) => content'[o] = content[o]
  BY NoneIsNoOther DEF Free, RInv, DInv, InUseInCache, Existing, DyingOK, ObjectsOK, IInv, TypeOK, AllOK, ThreadOK, MaybeObject, CallPCs, DestroyPCs
<1>4. Current' = Current
  BY <1>2, <1>3, SameCurrent DEF RInv
<1>5. closed' = closed
  BY DEF Free
<1>6. QED
  BY <1>1, <1>4, <1>5 DEF Interned!internVars

LEMMA TakeHeadStutters ==
    ASSUME RInv, RInv', NEW t \in Threads, TakeHead(t)
    PROVE  [Interned!Next]_(Interned!internVars)
<1>1. Given' = Given
  BY GivenSame DEF TakeHead
<1>2. \A o \in Objects : InUseInCache(o)' <=> InUseInCache(o)
  BY NoneIsNoOther DEF TakeHead, RInv, DInv, InUseInCache, Existing, DyingOK, IInv, TypeOK, AllOK, ThreadOK, MaybeObject, CallPCs, DestroyPCs
<1>3. \A o \in Objects : InUseInCache(o) => content'[o] = content[o]
  BY NoneIsNoOther DEF TakeHead, RInv, DInv, InUseInCache, Existing, DyingOK, ObjectsOK, IInv, TypeOK, AllOK, ThreadOK, MaybeObject, CallPCs, DestroyPCs
<1>4. Current' = Current
  BY <1>2, <1>3, SameCurrent DEF RInv
<1>5. closed' = closed
  BY DEF TakeHead
<1>6. QED
  BY <1>1, <1>4, <1>5 DEF Interned!internVars

LEMMA RemoveHeadStutters ==
    ASSUME RInv, RInv', NEW t \in Threads, RemoveHead(t)
    PROVE  [Interned!Next]_(Interned!internVars)
<1>1. Given' = Given
  BY GivenSame DEF RemoveHead
<1>2. \A o \in Objects : InUseInCache(o)' <=> InUseInCache(o)
  BY NoneIsNoOther DEF RemoveHead, RInv, DInv, InUseInCache, Existing, DyingOK, IInv, TypeOK, AllOK, ThreadOK, MaybeObject, CallPCs, DestroyPCs
<1>3. \A o \in Objects : InUseInCache(o) => content'[o] = content[o]
  BY NoneIsNoOther DEF RemoveHead, RInv, DInv, InUseInCache, Existing, DyingOK, ObjectsOK, IInv, TypeOK, AllOK, ThreadOK, MaybeObject, CallPCs, DestroyPCs
<1>4. Current' = Current
  BY <1>2, <1>3, SameCurrent DEF RInv
<1>5. closed' = closed
  BY DEF RemoveHead
<1>6. QED
  BY <1>1, <1>4, <1>5 DEF Interned!internVars

LEMMA ListDoneStutters ==
    ASSUME RInv, RInv', NEW t \in Threads, ListDone(t)
    PROVE  [Interned!Next]_(Interned!internVars)
<1>1. Given' = Given
  BY GivenSame DEF ListDone
<1>2. \A o \in Objects : InUseInCache(o)' <=> InUseInCache(o)
  BY NoneIsNoOther DEF ListDone, RInv, DInv, InUseInCache, Existing, DyingOK, IInv, TypeOK, AllOK, ThreadOK, MaybeObject, CallPCs, DestroyPCs
<1>3. \A o \in Objects : InUseInCache(o) => content'[o] = content[o]
  BY NoneIsNoOther DEF ListDone, RInv, DInv, InUseInCache, Existing, DyingOK, ObjectsOK, IInv, TypeOK, AllOK, ThreadOK, MaybeObject, CallPCs, DestroyPCs
<1>4. Current' = Current
  BY <1>2, <1>3, SameCurrent DEF RInv
<1>5. closed' = closed
  BY DEF ListDone
<1>6. QED
  BY <1>1, <1>4, <1>5 DEF Interned!internVars

LEMMA EndDestroyStutters ==
    ASSUME RInv, RInv', NEW t \in Threads, EndDestroy(t)
    PROVE  [Interned!Next]_(Interned!internVars)
<1>1. Given' = Given
  BY GivenSame DEF EndDestroy
<1>2. \A o \in Objects : InUseInCache(o)' <=> InUseInCache(o)
  BY NoneIsNoOther DEF EndDestroy, RInv, DInv, InUseInCache, Existing, DyingOK, IInv, TypeOK, AllOK, ThreadOK, MaybeObject, CallPCs, DestroyPCs
<1>3. \A o \in Objects : InUseInCache(o) => content'[o] = content[o]
  BY NoneIsNoOther DEF EndDestroy, RInv, DInv, InUseInCache, Existing, DyingOK, ObjectsOK, IInv, TypeOK, AllOK, ThreadOK, MaybeObject, CallPCs, DestroyPCs
<1>4. Current' = Current
  BY <1>2, <1>3, SameCurrent DEF RInv
<1>5. closed' = closed
  BY DEF EndDestroy
<1>6. QED
  BY <1>1, <1>4, <1>5 DEF Interned!internVars

LEMMA DropTemporaryMaps ==
    ASSUME RInv, RInv', NEW t \in Threads, DropTemporary(t)
    PROVE  [Interned!Next]_(Interned!internVars)
<1>1. PICK o \in temps[t] : Decrement(t, o)
  BY DEF DropTemporary
<1>2. o \in Objects /\ refs[o] > 0
  BY <1>1, InHand DEF RInv, DInv
<1>3. QED
  BY <1>1, <1>2, DropVanishes DEF DropTemporary, RInv

LEMMA DropMadeMaps ==
    ASSUME RInv, RInv', NEW t \in Threads, DropMade(t)
    PROVE  [Interned!Next]_(Interned!internVars)
<1>1. made[t] \in Objects /\ refs[made[t]] > 0
  BY InHand DEF DropMade, RInv, DInv
<1>2. QED
  BY <1>1, DropVanishes DEF DropMade, RInv

LEMMA InitializeFailsMaps ==
    ASSUME RInv, RInv', NEW t \in Threads, InitializeFails(t)
    PROVE  [Interned!Next]_(Interned!internVars)
<1>1. made[t] \in Objects /\ refs[made[t]] > 0
  BY InHand DEF InitializeFails, RInv, DInv, IInv, AllOK, ThreadOK
<1>2. QED
  BY <1>1, DropVanishes DEF InitializeFails, RInv

LEMMA ProbeMaps ==
    ASSUME RInv, RInv', NEW t \in Threads, Probe(t)
    PROVE  [Interned!Next]_(Interned!internVars)
<1>1. Given' = Given
  BY GivenSame DEF Probe
<1>2. \A o \in Objects : refs'[o] > 0 <=> refs[o] > 0
  BY DEF Probe, Increment, RInv, DInv, IInv, TypeOK
<1>3. UNCHANGED <<cache, content, closed>>
  BY DEF Probe
<1>4. Current' = Current
  BY <1>2, <1>3, SameCurrent DEF InUseInCache, RInv
<1>5. QED
  BY <1>1, <1>3, <1>4 DEF Interned!internVars

(* Release is Drop.                                                        *)
LEMMA ReleaseMaps ==
    ASSUME RInv, RInv', NEW t \in Threads, Release(t)
    PROVE  [Interned!Next]_(Interned!internVars)
<1> DEFINE o == held[t]
<1>1. o \in Objects /\ refs[o] > 0 /\ o # NoObject /\ got[t] = NoObject /\ Given[t] = o
  BY InHand, GivenFacts, NoneIsNoOther DEF Release, MayCall, RInv, DInv, IInv, AllOK, ThreadOK
<1>2. Given' = [Given EXCEPT ![t] = NoObject]
  BY <1>1 DEF Release, Given, RInv, DInv, IInv, TypeOK
<1>3. Decrement(t, o) /\ UNCHANGED <<content, cache, closed>>
  BY DEF Release
<1> HIDE DEF o
<1>4. CASE InUseInCache(o) /\ refs[o] = 1
  <2>1. \A p \in Objects : InUseInCache(p)' <=> InUseInCache(p) /\ p # o
    BY <1>3, <1>4 DEF InUseInCache, Decrement, RInv, DInv, IInv, TypeOK
  <2>2. /\ content[o] \in Contents /\ Current[content[o]] = o
        /\ Current' = [Current EXCEPT ![content[o]] = NoObject]
    BY <1>1, <1>3, <1>4, <2>1, LessCurrent DEF RInv
  <2>3. refs'[o] = 0
    BY <1>1, <1>3, <1>4 DEF Decrement, RInv, DInv, IInv, TypeOK
  <2>4. ASSUME NEW u \in Threads \ {t} PROVE Given[u] # o
    <3>1. held'[u] # o /\ got'[u] # o
      BY <1>1, <2>3, NobodyHas DEF RInv, DInv, IInv
    <3>2. Given'[u] = Given[u]
      BY <1>2 DEF Given
    <3>3. QED
      BY <3>1, <3>2 DEF Given
  <2>5. Interned!Drop(t)
    BY <1>1, <1>2, <1>3, <2>2, <2>4 DEF Interned!Drop
  <2>6. QED
    BY <2>5 DEF Interned!Next
<1>5. CASE ~(InUseInCache(o) /\ refs[o] = 1)
  <2>1. \A p \in Objects : InUseInCache(p)' <=> InUseInCache(p)
    BY <1>1, <1>3, <1>5 DEF InUseInCache, Decrement, RInv, DInv, IInv, TypeOK
  <2>2. Current' = Current
    BY <1>3, <2>1, SameCurrent DEF RInv
  <2>3. Interned!Drop(t)
    BY <1>1, <1>2, <1>3, <2>2 DEF Interned!Drop
  <2>4. QED
    BY <2>3 DEF Interned!Next
<1>6. QED
  BY <1>4, <1>5

(* Found is Find, Insert is Make, AddRef is Pass.                          *)
LEMMA FoundMaps ==
    ASSUME RInv, RInv', NEW t \in Threads, Found(t)
    PROVE  [Interned!Next]_(Interned!internVars)
<1> DEFINE o == target[t]
<1>1. /\ o \in cache /\ refs[o] > 0 /\ o \in Objects /\ content[o] = want[t] /\ want[t] \in Contents
      /\ ~closed /\ Given[t] = NoObject /\ pc[t] = "found"
  BY CachedExist, GivenFacts DEF Found, RInv, FoundOK, DInv, Alone, IInv, AllOK, ThreadOK, CallPCs
<1>2. Given' = [Given EXCEPT ![t] = o]
  BY <1>1, NoneIsNoOther DEF Found, Given, RInv, DInv, IInv, TypeOK
<1>3. Increment(o) /\ UNCHANGED <<content, cache, closed>>
  BY DEF Found
<1> HIDE DEF o
<1>4. Current' = Current
  <2>1. \A p \in Objects : InUseInCache(p)' <=> InUseInCache(p)
    BY <1>1, <1>3 DEF InUseInCache, Increment, RInv, DInv, IInv, TypeOK
  <2>2. QED
    BY <1>3, <2>1, SameCurrent DEF RInv
<1>5. Current[want[t]] = o
  BY <1>1, CurrentIs DEF RInv
<1>6. Interned!Find(t, want[t])
  BY <1>1, <1>2, <1>3, <1>4, <1>5, NoneIsNoOther DEF Interned!Find, Interned!Give
<1>7. QED
  BY <1>1, <1>6 DEF Interned!Next

LEMMA AddRefMaps ==
    ASSUME RInv, RInv', NEW t \in Threads, NEW u \in Threads, AddRef(t, u)
    PROVE  [Interned!Next]_(Interned!internVars)
<1> DEFINE o == held[u]
<1>1. /\ o \in Objects /\ refs[o] > 0 /\ Given[u] = o /\ o # NoObject
      /\ Given[t] = NoObject /\ got[t] = NoObject
  BY InHand, GivenFacts, NoneIsNoOther DEF AddRef, MayCall, RInv, DInv, IInv, AllOK, ThreadOK
<1>2. Given' = [Given EXCEPT ![t] = o]
  BY <1>1 DEF AddRef, Given, RInv, DInv, IInv, TypeOK
<1>3. Increment(o) /\ UNCHANGED <<content, cache, closed>>
  BY DEF AddRef
<1> HIDE DEF o
<1>4. Current' = Current
  <2>1. \A p \in Objects : InUseInCache(p)' <=> InUseInCache(p)
    BY <1>1, <1>3 DEF InUseInCache, Increment, RInv, DInv, IInv, TypeOK
  <2>2. QED
    BY <1>3, <2>1, SameCurrent DEF RInv
<1>5. Interned!Pass(t, u)
  BY <1>1, <1>2, <1>3, <1>4 DEF Interned!Pass, Interned!Give
<1>6. QED
  BY <1>5 DEF Interned!Next

LEMMA InsertMaps ==
    ASSUME RInv, RInv', NEW t \in Threads, Insert(t)
    PROVE  [Interned!Next]_(Interned!internVars)
<1> DEFINE o == made[t]
<1> DEFINE c == want[t]
<1>1. /\ o \in Objects /\ refs[o] > 0 /\ o # NoObject /\ content[o] = c /\ c \in Contents
      /\ ~closed /\ Given[t] = NoObject /\ pc[t] = "probe"
  BY InHand, GivenFacts DEF Insert, NoneEqual, RInv, DInv, LookupOK, Alone, IInv, AllOK, ThreadOK, CallPCs
<1>2. Given' = [Given EXCEPT ![t] = o]
  BY <1>1 DEF Insert, Given, RInv, DInv, IInv, TypeOK
<1>3. /\ Increment(o) /\ UNCHANGED <<content, closed>> /\ cache' = cache \union {o}
      /\ o \notin cache /\ \A u \in Threads : held[u] # o /\ got[u] # o
  BY <1>1 DEF Insert, RInv, OwnOK
<1>4. \A e \in cache : ~(refs[e] > 0 /\ content[e] = c)
  BY <1>1 DEF Insert, NoneEqual, RInv, DInv, LookupOK
<1> HIDE DEF o, c
<1>5. refs' = [refs EXCEPT ![o] = refs[o] + 1] /\ refs \in [Objects -> Nat] /\ cache \subseteq Objects
  BY <1>3 DEF Increment, RInv, DInv, IInv, TypeOK
<1>6. Current[c] = NoObject /\ Current'[c] = o
  <2>1. o \in cache' /\ refs'[o] > 0 /\ content'[o] = c
    BY <1>1, <1>3, <1>5
  <2>2. QED
    BY <1>1, <1>4, <2>1, CurrentIs DEF RInv
<1>7. ASSUME NEW d \in Contents, d # c PROVE Current'[d] = Current[d]
  <2>1. CASE \E e \in cache : refs[e] > 0 /\ content[e] = d
    <3>1. PICK e \in cache : refs[e] > 0 /\ content[e] = d
      BY <2>1
    <3>2. e \in cache' /\ refs'[e] > 0 /\ content'[e] = d
      BY <1>3, <1>5, <3>1
    <3>3. QED
      BY <3>1, <3>2, CurrentIs DEF RInv
  <2>2. CASE \A e \in cache : ~(refs[e] > 0 /\ content[e] = d)
    <3>1. \A e \in cache' : ~(refs'[e] > 0 /\ content'[e] = d)
      BY <1>1, <1>3, <1>5, <1>7, <2>2
    <3>2. QED
      BY <2>2, <3>1, CurrentIs DEF RInv
  <2>3. QED
    BY <2>1, <2>2
<1>8. Current' = [Current EXCEPT ![c] = o]
  BY <1>1, <1>6, <1>7, CurrentFunction
<1>9. \A d \in Contents : Current[d] # o
  <2>1. ASSUME NEW d \in Contents PROVE Current[d] \in cache \union {NoObject}
    <3>1. CASE \E e \in cache : refs[e] > 0 /\ content[e] = d
      BY <3>1, CurrentIs DEF RInv
    <3>2. CASE \A e \in cache : ~(refs[e] > 0 /\ content[e] = d)
      BY <3>2, CurrentIs DEF RInv
    <3>3. QED
      BY <3>1, <3>2
  <2>2. QED
    BY <1>1, <1>3, <2>1
<1>10. \A u \in Threads : Given[u] # o
  BY <1>3 DEF Given
<1>11. Interned!Make(t, c)
  BY <1>1, <1>2, <1>3, <1>6, <1>8, <1>9, <1>10 DEF Interned!Make, Interned!Give, Interned!InUse
<1>12. QED
  BY <1>1, <1>11 DEF Interned!Next

(* The destruction closes the device and retires what is in use.           *)
LEMMA MoveListMaps ==
    ASSUME RInv, RInv', NEW t \in Threads, MoveList(t)
    PROVE  [Interned!Next]_(Interned!internVars)
<1>1. Given' = Given /\ closed' = TRUE /\ UNCHANGED <<refs, cache, content>>
  BY GivenSame DEF MoveList
<1>2. Current' = Current
  BY <1>1, SameCurrent DEF InUseInCache, RInv
<1>3. QED
  BY <1>1, <1>2 DEF Interned!Next, Interned!Close, Interned!internVars, RInv, DInv, IInv, TypeOK

LEMMA DestroyObjectMaps ==
    ASSUME RInv, RInv', NEW t \in Threads, DestroyObject(t)
    PROVE  [Interned!Next]_(Interned!internVars)
<1> DEFINE o == target[t]
<1>1. o \in Objects /\ closed
  BY DEF DestroyObject, RInv, DInv, Alone, IInv, TypeOK, AllOK, ThreadOK, MaybeObject
<1>2. Given' = Given /\ UNCHANGED <<refs, content, closed>> /\ cache' = cache \ {o}
  BY GivenSame DEF DestroyObject, DestroyImpl, RInv, DInv, ObjectsOK
<1> HIDE DEF o
<1>3. CASE InUseInCache(o)
  <2>1. \A p \in Objects : InUseInCache(p)' <=> InUseInCache(p) /\ p # o
    BY <1>2 DEF InUseInCache
  <2>2. /\ content[o] \in Contents /\ Current[content[o]] = o
        /\ Current' = [Current EXCEPT ![content[o]] = NoObject]
    BY <1>1, <1>2, <1>3, <2>1, LessCurrent DEF RInv
  <2>3. Interned!Retire(content[o])
    BY <1>1, <1>2, <2>2, NoneIsNoOther DEF Interned!Retire
  <2>4. QED
    BY <2>2, <2>3 DEF Interned!Next
<1>4. CASE ~InUseInCache(o)
  <2>1. \A p \in Objects : InUseInCache(p)' <=> InUseInCache(p)
    BY <1>2, <1>4 DEF InUseInCache
  <2>2. Current' = Current
    BY <1>2, <2>1, SameCurrent DEF RInv
  <2>3. QED
    BY <1>2, <2>2 DEF Interned!internVars
<1>5. QED
  BY <1>3, <1>4

LEMMA StepMaps ==
    ASSUME RInv, RInv', [Next]_vars
    PROVE  [Interned!Next]_(Interned!internVars)
<1>1. CASE UNCHANGED vars
  <2>1. Given' = Given /\ Current' = Current /\ closed' = closed
    BY <1>1, GivenSame, SameCurrent DEF vars, InUseInCache, RInv
  <2>2. QED
    BY <2>1 DEF Interned!internVars
<1>2. ASSUME NEW t \in Threads, Continue(t) PROVE [Interned!Next]_(Interned!internVars)
  <2>1. CASE Lookup(t)
    BY <1>2, <2>1, LockCacheStutters, ProbeMaps, FoundMaps, FindMissesStutters, InsertMaps DEF Lookup
  <2>2. CASE Settle(t)
    BY <1>2, <2>2, DropTemporaryMaps, DropMadeMaps, ReturnStutters, GoOnStutters DEF Settle
  <2>3. CASE Make(t)
    BY <1>2, <2>3, CreateStutters, CreateFailsStutters, TrackStutters, PrependStutters,
       InitializeFailsMaps DEF Make
  <2>4. CASE Delete(t)
    BY <1>2, <2>4, UntrackStutters, UncacheStutters, FreeStutters DEF Delete
  <2>5. CASE DestroyDevice(t)
    BY <1>2, <2>5, MoveListMaps, TakeHeadStutters, RemoveHeadStutters, DestroyObjectMaps,
       ListDoneStutters, EndDestroyStutters DEF DestroyDevice
  <2>6. QED
    BY <1>2, <2>1, <2>2, <2>3, <2>4, <2>5 DEF Continue
<1>3. QED
  BY <1>1, <1>2, GetOrCreateStutters, AddRefMaps, ReleaseMaps, BeginDestroyStutters DEF Next

(* GetOrCreate with its races implements Interning: callers who ask for    *)
(* one content share one object, until the last of them has dropped it or  *)
(* the device is destroyed.                                                *)
THEOREM ImplementsInterning == ASSUME ~Overlap PROVE Spec => KeepsInterning
<1>1. Init => Interned!Init
  <2>1. Init => Current = [c \in Contents |-> NoObject] /\ Given = [t \in Threads |-> NoObject]
    BY DEF Init, Current, Given
  <2>2. QED
    BY <2>1 DEF Init, Interned!Init
<1>2. RInv /\ RInv' /\ [Next]_vars => [Interned!Next]_(Interned!internVars)
  BY StepMaps
<1>3. Init /\ [][Next]_vars => []RInv
  BY InitRInv, StepRInv, PTL
<1>4. QED
  BY <1>1, <1>2, <1>3, PTL DEF Spec, KeepsInterning, Interned!Spec
=============================================================================
