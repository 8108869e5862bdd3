--------------------------- MODULE DawnQueue_proofs ----------------------------
(***************************************************************************)
(* Proofs about DawnQueue, for every number of fences, pools, requests and *)
(* waiting threads: who owns the Vulkan objects, how the serials of the    *)
(* CPU and of the GPU compare while a device dies, and that the queue      *)
(* implements WorkDone.                                                    *)
(***************************************************************************)
EXTENDS DawnQueue, FiniteSetTheorems, SequenceTheorems, WellFoundedInduction, TLAPS

-----------------------------------------------------------------------------
(* The order of the steps in what is left of a call.                       *)
Has(c, step) == \E i \in 1 .. Len(c) : c[i] = step
Will(step) == Has(calls, step)
HasTick(c) == Has(c, "CheckPassedSerials") \/ Has(c, "SubmitPending") \/ Has(c, "CheckDebugLayer")
WillTick == Will("CheckPassedSerials") \/ Will("SubmitPending") \/ Will("CheckDebugLayer")
After(c, i, step) == \E j \in i + 1 .. Len(c) : c[j] = step

OrderlyAt(c, i) ==
    /\ c[i] = "Tick" => i = Len(c)
    /\ c[i] \in {"SubmitIgnoring", "BeginDisconnect", "ShutDownCallbacks", "WaitForIdle"} =>
         After(c, i, "Disconnect")
    /\ c[i] = "BeginDisconnect" => After(c, i, "WaitForIdle")
    /\ c[i] = "WaitForIdle" => After(c, i, "Assume")
    /\ c[i] \in {"WaitForIdle", "Assume", "Disconnect", "DestroyQueue"} =>
         ~After(c, i, "WaitForIdle")
    /\ c[i] \in {"TickTasks", "LoseCallbacks"} => ~After(c, i, "LoseCallbacks")
    /\ c[i] \in {"Disconnect", "LoseTasks", "LoseCallbacks", "DestroyQueue"} =>
         ~After(c, i, "Disconnect")

Orderly(c) == \A i \in 1 .. Len(c) : OrderlyAt(c, i)

(* How far a device that is being given up has come.                       *)
CallsOK ==
    /\ Orderly(calls)
    /\ state = "Alive" =>
         /\ context.pool = NoPool => Will("Disconnect")
         /\ callbacks # "Normal" => Will("Disconnect")
         /\ Will("LoseTasks") \/ Will("LoseCallbacks") \/ Will("DestroyQueue") =>
              Will("Disconnect")
    /\ state = "Alive" /\ callbacks = "Normal" =>
         /\ Will("Disconnect") => Will("LoseCallbacks") \/ At("ShutDownCallbacks")
         /\ Will("Assume") => At("Disconnect") \/ At("BeginDisconnect") \/ At("ShutDownCallbacks")
    /\ state # "Alive" /\ callbacks = "Normal" => Will("LoseCallbacks")
    /\ WillTick => state = "Alive" /\ ~Will("Disconnect")

-----------------------------------------------------------------------------
(* Who owns the fences and the pools.                                      *)
FencesOK ==
    /\ unusedFences \subseteq fences
    /\ \A e \in fencesInFlight :
         e.fence \in fences \ unusedFences /\ fenceWork[e.fence] = e.serial
    /\ \A d, e \in fencesInFlight : d.fence = e.fence => d = e
    /\ \A f \in fences \ unusedFences : \E e \in fencesInFlight : e.fence = f

PoolsOK ==
    /\ unusedPools \subseteq pools \ {context.pool}
    /\ context.pool \in pools \union {NoPool}
    /\ \A e \in commandsInFlight :
         /\ e.pool \in pools \ (unusedPools \union {context.pool})
         /\ poolWork[e.pool] = e.serial
    /\ \A d, e \in commandsInFlight : d.pool = e.pool => d = e
    /\ \A p \in pools \ unusedPools : p = context.pool \/ \E e \in commandsInFlight : e.pool = p

ContextOK ==
    /\ context.needsSubmit => context.used
    /\ context.used => context.pool # NoPool

(* The serials.                                                            *)
SerialsOK ==
    /\ completed <= lastSubmitted /\ finished <= lastSubmitted
    /\ \A o \in Objects : poolWork[o] <= lastSubmitted /\ fenceWork[o] <= lastSubmitted
    /\ \A w \in Waiters : waiter[w].at # "idle" =>
         waiter[w].serial <= lastSubmitted /\ waiter[w].serial <= finished
    /\ (state = "Alive" /\ callbacks = "Normal") \/ (Will("WaitForIdle") /\ ~driverLost) =>
         completed <= finished

(* Once a device that is given up has waited for the GPU, nothing runs on  *)
(* it and nothing is recorded.                                             *)
Quiet ==
    /\ ~context.used /\ fencesInFlight = {}
    /\ \A o \in Objects : poolWork[o] <= finished /\ fenceWork[o] <= finished

QuietOK ==
    ~driverLost /\ (state # "Alive" \/ Will("Disconnect")) /\ ~Will("WaitForIdle") => Quiet

-----------------------------------------------------------------------------
(* Each request that is asked has at most one place.                       *)
Gone == state # "Alive" \/ callbacks # "Normal"

RequestsOK ==
    /\ \A t \in tasks \union queued \union running : answer[t.task] = "asked"
    /\ \A t \in tasks, q \in queued \union running : t.task # q.task
    /\ \A q \in queued, x \in running : q.task # x.task
    /\ \A t, u \in tasks : t.task = u.task => t = u
    /\ \A t, u \in queued : t.task = u.task => t = u
    /\ \A t, u \in running : t.task = u.task => t = u

(* What a request waits for, and what its mark says.                       *)
NeedsOK ==
    /\ \A t \in tasks : need[t.task] <= t.serial /\ t.serial <= lastSubmitted + 1
    /\ \A q \in queued \union running :
         IF q.mark = "Normal" THEN need[q.task] <= finished ELSE Gone

QInv == TypeOK /\ CallsOK /\ FencesOK /\ PoolsOK /\ ContextOK /\ SerialsOK /\ QuietOK /\ InUseIsKept
IInv == QInv /\ RequestsOK /\ NeedsOK /\ TasksWillPass

-----------------------------------------------------------------------------
(* The least and the greatest of a set of numbers.                         *)
LEMMA LeastNumber ==
    ASSUME NEW S \in SUBSET Nat, S # {}
    PROVE  Min(S) \in S /\ \A y \in S : Min(S) <= y
<1> DEFINE Less == {ss \in Nat \X Nat : ss[1] < ss[2]}
<1>1. IsWellFoundedOn(Less, Nat)
  BY NatLessThanWellFounded DEF OpToRel
<1> HIDE DEF Less
<1>2. PICK x \in S : \A y \in S : ~(<<y, x>> \in Less)
  BY <1>1, WFMin
<1>3. \A y \in S : x <= y
  <2>1. TAKE y \in S
  <2>2. x \in Nat /\ y \in Nat /\ <<y, x>> \notin Less
    BY <1>2
  <2>3. QED
    BY <2>2 DEF Less
<1>4. QED
  BY <1>3 DEF Min

LEMMA GreatestNumber ==
    ASSUME NEW S \in SUBSET Nat, S # {}, NEW b \in Nat, \A x \in S : x <= b
    PROVE  Max(S) \in S /\ \A y \in S : Max(S) >= y
<1> DEFINE B == {n \in Nat : \A x \in S : x <= n}
<1>1. Min(B) \in B /\ \A n \in B : Min(B) <= n
  <2>1. B # {} /\ B \in SUBSET Nat
    OBVIOUS
  <2>2. QED
    BY <2>1, LeastNumber
<1>2. Min(B) \in S
  <2>1. SUFFICES ASSUME Min(B) \notin S PROVE FALSE
    OBVIOUS
  <2>2. \A x \in S : x < Min(B)
    BY <1>1, <2>1
  <2>3. Min(B) \in Nat \ {0}
    <3>1. PICK x \in S : TRUE
      OBVIOUS
    <3>2. QED
      BY <1>1, <2>2, <3>1
  <2>4. ASSUME NEW x \in S PROVE x <= Min(B) - 1
    <3>1. x \in Nat /\ x < Min(B)
      BY <2>2
    <3>2. QED
      BY <2>3, <3>1
  <2>5. Min(B) - 1 \in B
    BY <2>3, <2>4
  <2>6. QED
    BY <1>1, <2>3, <2>5
<1>3. \A y \in S : Min(B) >= y
  BY <1>1
<1>4. QED
  BY <1>2, <1>3 DEF Max

-----------------------------------------------------------------------------
(* What is left of a call, when a step of it is taken.                     *)
LEMMA TailHas ==
    ASSUME NEW c \in Seq(Steps), c # <<>>
    PROVE  /\ Tail(c) \in Seq(Steps) /\ Head(c) \in Steps
           /\ \A step : Has(Tail(c), step) => Has(c, step)
           /\ \A step : Has(c, step) /\ Head(c) # step => Has(Tail(c), step)
           /\ \A step : Has(Tail(c), step) <=> After(c, 1, step)
<1>1. /\ Tail(c) \in Seq(Steps) /\ Head(c) = c[1] /\ Len(c) \in Nat \ {0}
      /\ Len(Tail(c)) = Len(c) - 1 /\ \A i \in 1 .. Len(Tail(c)) : Tail(c)[i] = c[i + 1]
      /\ Head(c) \in Steps
  OBVIOUS
<1>2. ASSUME NEW step, NEW i \in 1 .. Len(c), c[i] = step
      PROVE  i = 1 \/ (i - 1 \in 1 .. Len(Tail(c)) /\ Tail(c)[i - 1] = step)
  BY <1>1, <1>2
<1>3. \A step : Has(Tail(c), step) <=> After(c, 1, step)
  <2>1. \A j \in 1 .. Len(Tail(c)) : j + 1 \in 1 + 1 .. Len(c) /\ Tail(c)[j] = c[j + 1]
    BY <1>1
  <2>2. \A j \in 1 + 1 .. Len(c) : j - 1 \in 1 .. Len(Tail(c)) /\ Tail(c)[j - 1] = c[j]
    BY <1>1
  <2>3. QED
    BY <2>1, <2>2 DEF Has, After
<1>4. \A step : After(c, 1, step) => Has(c, step)
  BY <1>1 DEF Has, After
<1>5. \A step : Has(c, step) /\ Head(c) # step => Has(Tail(c), step)
  BY <1>1, <1>2 DEF Has
<1>6. QED
  BY <1>1, <1>3, <1>4, <1>5

LEMMA TailOrderly ==
    ASSUME NEW c \in Seq(Steps), c # <<>>, Orderly(c)
    PROVE  Orderly(Tail(c))
<1> DEFINE d == Tail(c)
<1>1. /\ d \in Seq(Steps) /\ Len(c) \in Nat \ {0}
      /\ Len(d) = Len(c) - 1 /\ \A i \in 1 .. Len(d) : d[i] = c[i + 1]
  OBVIOUS
<1> HIDE DEF d
<1>2. ASSUME NEW i \in 1 .. Len(d), NEW step
      PROVE  After(d, i, step) <=> After(c, i + 1, step)
  <2>1. \A j \in i + 1 .. Len(d) : d[j] = c[j + 1] /\ j + 1 \in i + 1 + 1 .. Len(c)
    BY <1>1
  <2>2. \A j \in i + 1 + 1 .. Len(c) : j - 1 \in i + 1 .. Len(d) /\ d[j - 1] = c[j]
    BY <1>1
  <2>3. QED
    BY <2>1, <2>2 DEF After
<1>3. ASSUME NEW i \in 1 .. Len(d)
      PROVE  i + 1 \in 1 .. Len(c) /\ d[i] = c[i + 1] /\ (i + 1 = Len(c) => i = Len(d))
  BY <1>1
<1>4. ASSUME NEW i \in 1 .. Len(d) PROVE OrderlyAt(d, i)
  <2> DEFINE k == i + 1
  <2>1. k \in 1 .. Len(c) /\ d[i] = c[k] /\ (k = Len(c) => i = Len(d))
    BY <1>3
  <2>2. \A step : After(d, i, step) <=> After(c, k, step)
    BY <1>2
  <2> HIDE DEF k
  <2>3. OrderlyAt(c, k)
    BY <2>1 DEF Orderly
  <2>4. QED
    BY <2>1, <2>2, <2>3 DEF OrderlyAt
<1>5. QED
  BY <1>4 DEF Orderly, d

(* The calls that a step may begin.                                        *)
LEMMA ShortCalls ==
    ASSUME NEW c \in {<<>>, <<"Tick">>, <<"SubmitPending", "Tick">>, TickCalls}
    PROVE  /\ c \in Seq(Steps) /\ Orderly(c)
           /\ \A step \in {"Disconnect", "LoseTasks", "LoseCallbacks", "DestroyQueue", "Assume",
                           "WaitForIdle"} : ~Has(c, step)
<1>1. CASE c = <<>>
  BY <1>1 DEF Orderly, Has
<1>2. CASE c = <<"Tick">>
  BY <1>2 DEF Orderly, OrderlyAt, Has, After, Steps
<1>3. CASE c = <<"SubmitPending", "Tick">>
  BY <1>3 DEF Orderly, OrderlyAt, Has, After, Steps
<1>4. CASE c = TickCalls
  BY <1>4 DEF Orderly, OrderlyAt, Has, After, Steps, TickCalls
<1>5. QED
  BY <1>1, <1>2, <1>3, <1>4

LEMMA LossCallsOK ==
    /\ LossCalls \in Seq(Steps) /\ Orderly(LossCalls)
    /\ Head(LossCalls) = "Disconnect" /\ LossCalls # <<>>
    /\ Has(LossCalls, "Disconnect") /\ Has(LossCalls, "LoseCallbacks")
    /\ ~Has(LossCalls, "WaitForIdle") /\ ~HasTick(LossCalls)
  BY DEF Orderly, OrderlyAt, Has, HasTick, After, Steps, LossCalls

LEMMA InternalErrorCallsOK ==
    /\ InternalErrorCalls \in Seq(Steps) /\ Orderly(InternalErrorCalls)
    /\ Head(InternalErrorCalls) = "BeginDisconnect" /\ InternalErrorCalls # <<>>
    /\ Has(InternalErrorCalls, "Disconnect") /\ Has(InternalErrorCalls, "LoseCallbacks")
    /\ Has(InternalErrorCalls, "WaitForIdle") /\ ~HasTick(InternalErrorCalls)
  BY DEF Orderly, OrderlyAt, Has, HasTick, After, Steps, InternalErrorCalls

LEMMA DestroyCallsOK ==
    /\ DestroyCalls \in Seq(Steps) /\ Orderly(DestroyCalls)
    /\ Head(DestroyCalls) = "ShutDownCallbacks" /\ DestroyCalls # <<>>
    /\ Has(DestroyCalls, "Disconnect")
    /\ Has(DestroyCalls, "WaitForIdle") <=> state = "Alive"
    /\ ~Has(DestroyCalls, "LoseCallbacks") /\ ~Has(DestroyCalls, "LoseTasks")
    /\ ~HasTick(DestroyCalls)
<1> DEFINE whole == <<"ShutDownCallbacks", "WaitForIdle", "Assume", "TickTasks", "Recycle",
                      "SubmitIgnoring", "Disconnect", "Assume", "DestroyQueue">>
           short == <<"ShutDownCallbacks", "TickTasks", "Recycle",
                      "SubmitIgnoring", "Disconnect", "Assume", "DestroyQueue">>
<1>1. DestroyCalls = IF state = "Alive" THEN whole ELSE short
  BY DEF DestroyCalls
<1>2. /\ whole \in Seq(Steps) /\ Orderly(whole)
      /\ Head(whole) = "ShutDownCallbacks" /\ whole # <<>>
      /\ Has(whole, "Disconnect") /\ Has(whole, "WaitForIdle")
      /\ ~Has(whole, "LoseCallbacks") /\ ~Has(whole, "LoseTasks") /\ ~HasTick(whole)
  <2>1. whole \in Seq(Steps) /\ whole # <<>> /\ Head(whole) = "ShutDownCallbacks"
    BY DEF Steps
  <2>2. /\ Has(whole, "Disconnect") /\ Has(whole, "WaitForIdle")
        /\ ~Has(whole, "LoseCallbacks") /\ ~Has(whole, "LoseTasks") /\ ~HasTick(whole)
    BY DEF Has, HasTick
  <2>3. \A i \in 1 .. Len(whole) : OrderlyAt(whole, i)
    BY SMTT(60) DEF OrderlyAt, After
  <2>4. QED
    BY <2>1, <2>2, <2>3 DEF Orderly
<1>3. /\ short \in Seq(Steps) /\ Orderly(short)
      /\ Head(short) = "ShutDownCallbacks" /\ short # <<>>
      /\ Has(short, "Disconnect") /\ ~Has(short, "WaitForIdle")
      /\ ~Has(short, "LoseCallbacks") /\ ~Has(short, "LoseTasks") /\ ~HasTick(short)
  BY DEF Orderly, OrderlyAt, Has, HasTick, After, Steps
<1> HIDE DEF whole, short
<1>4. QED
  BY <1>1, <1>2, <1>3

(* A step returns to the call.                                             *)
LEMMA Returns ==
    ASSUME calls \in Seq(Steps), CallsOK, calls # <<>>, Return
    PROVE  /\ calls' \in Seq(Steps) /\ Head(calls) \in Steps /\ Orderly(calls')
           /\ \A step : Will(step)' => Will(step)
           /\ WillTick' => WillTick
           /\ \A step : Will(step) /\ Head(calls) # step => Will(step)'
           /\ Will(Head(calls))
           /\ Head(calls) = "Tick" => calls' = <<>>
           /\ Head(calls) \in {"SubmitIgnoring", "BeginDisconnect", "ShutDownCallbacks", "WaitForIdle"} =>
                Will("Disconnect")'
           /\ Head(calls) = "BeginDisconnect" => Will("WaitForIdle")'
           /\ Head(calls) = "WaitForIdle" => Will("Assume")'
           /\ Head(calls) \in {"WaitForIdle", "Assume", "Disconnect", "DestroyQueue"} =>
                ~Will("WaitForIdle")'
           /\ Head(calls) \in {"TickTasks", "LoseCallbacks"} => ~Will("LoseCallbacks")'
           /\ Head(calls) \in {"Disconnect", "LoseTasks", "LoseCallbacks", "DestroyQueue"} =>
                ~Will("Disconnect")'
<1>1. calls' = Tail(calls) /\ Head(calls) = calls[1] /\ 1 \in 1 .. Len(calls)
  BY DEF Return
<1>2. OrderlyAt(calls, 1) /\ Orderly(calls')
  BY <1>1, TailOrderly DEF CallsOK, Orderly
<1>3. \A step : Will(step)' <=> After(calls, 1, step)
  BY <1>1, TailHas DEF Will
<1>4. Will(Head(calls))
  BY <1>1 DEF Will, Has
<1>5. Head(calls) = "Tick" => calls' = <<>>
  <2>1. Head(calls) = "Tick" => Len(calls) = 1
    BY <1>1, <1>2 DEF OrderlyAt
  <2>2. QED
    BY <1>1, <2>1
<1>6. /\ calls' \in Seq(Steps) /\ Head(calls) \in Steps
      /\ \A step : Will(step)' => Will(step)
      /\ \A step : Will(step) /\ Head(calls) # step => Will(step)'
  BY <1>1, TailHas DEF Will
<1>7. QED
  <2> HIDE DEF Will
  <2>1. QED
    BY <1>1, <1>2, <1>3, <1>4, <1>5, <1>6 DEF OrderlyAt, WillTick

LEMMA ReturnKeepsCalls ==
    ASSUME calls \in Seq(Steps), CallsOK, calls # <<>>, Return, UNCHANGED <<state, callbacks>>,
           Head(calls) \notin {"Disconnect", "BeginDisconnect", "ShutDownCallbacks", "LoseCallbacks"},
           context'.pool = NoPool => context.pool = NoPool \/ Will("Disconnect")'
    PROVE  CallsOK'
<1> HIDE DEF Will
<1>1. QED
  BY Returns DEF CallsOK, At

LEMMA FailKeepsCalls ==
    ASSUME NEW error, Fail(error), UNCHANGED <<state, callbacks>>
    PROVE  CallsOK' /\ calls' \in Seq(Steps)
<1>1. calls' \in {LossCalls, InternalErrorCalls}
  BY DEF Fail, HandleErrorCalls
<1>2. /\ calls' \in Seq(Steps) /\ Orderly(calls') /\ calls' # <<>>
      /\ Head(calls') \in {"Disconnect", "BeginDisconnect"}
      /\ Will("Disconnect")' /\ Will("LoseCallbacks")' /\ ~WillTick'
  BY <1>1, LossCallsOK, InternalErrorCallsOK DEF Will, WillTick, HasTick
<1> HIDE DEF Will
<1>3. QED
  BY <1>2 DEF CallsOK, At

LEMMA ShortKeepsCalls ==
    ASSUME CallsOK, ~Will("Disconnect"), ~Will("LoseCallbacks"), UNCHANGED <<state, callbacks>>,
           calls' \in {<<>>, <<"Tick">>, <<"SubmitPending", "Tick">>, TickCalls},
           state = "Alive" \/ calls' \in {<<>>, <<"Tick">>},
           context'.pool = context.pool
    PROVE  CallsOK' /\ calls' \in Seq(Steps)
<1>1. /\ calls' \in Seq(Steps) /\ Orderly(calls')
      /\ \A step \in {"Disconnect", "LoseTasks", "LoseCallbacks", "DestroyQueue", "Assume"} : ~Will(step)'
      /\ calls' \in {<<>>, <<"Tick">>} => ~WillTick'
  <2>1. calls' \in {<<>>, <<"Tick">>} => ~HasTick(calls')
    BY DEF Has, HasTick
  <2>2. QED
    BY <2>1, ShortCalls DEF Will, WillTick, HasTick
<1> HIDE DEF Will
<1>2. QED
  BY <1>1 DEF CallsOK

LEMMA DestroyKeepsCalls ==
    ASSUME CallsOK, calls = <<>>, calls' = DestroyCalls, UNCHANGED <<state, callbacks>>,
           context'.pool = context.pool
    PROVE  CallsOK' /\ calls' \in Seq(Steps)
<1>1. /\ calls' \in Seq(Steps) /\ Orderly(calls') /\ Head(calls') = "ShutDownCallbacks"
      /\ Will("Disconnect")' /\ calls' # <<>> /\ ~WillTick'
  BY DestroyCallsOK DEF Will, WillTick, HasTick
<1>2. \A step : ~Will(step)
  BY DEF Will, Has
<1> HIDE DEF Will
<1>3. QED
  BY <1>1, <1>2 DEF CallsOK, At
LEMMA NothingLeft == ASSUME calls = <<>> PROVE \A step : ~Will(step)
  BY DEF Will, Has

-----------------------------------------------------------------------------
USE DEF serialVars, fenceVars, poolVars, gpuVars, queueVars, deviceVars, taskVars, vars

(* What the next fence or pool is.                                         *)
LEMMA Obtained ==
    ASSUME NEW unused \in SUBSET Objects, NEW existing, Available(unused, existing) # {}
    PROVE  /\ Obtain(unused, existing) \in Objects
           /\ Obtain(unused, existing) # NoPool
           /\ \/ Obtain(unused, existing) \in unused
              \/ unused = {} /\ Obtain(unused, existing) \notin existing
<1>1. Obtain(unused, existing) \in Available(unused, existing)
  BY DEF Obtain
<1>2. QED
  BY <1>1, QueueBounds DEF Available

(* How the pool of the context may change.                                 *)
LEMMA SamePool ==
    ASSUME TypeOK
    PROVE  /\ \A normal : [context EXCEPT !.used = TRUE, !.needsSubmit = @ \/ normal].pool = context.pool
           /\ Flushed(context).pool = context.pool
  BY DEF TypeOK, QueueTypeOK, Flushed

(* Every step leaves the calls in order.                                   *)
LEMMA CallsStep ==
    ASSUME TypeOK, CallsOK, [Next]_vars
    PROVE  CallsOK' /\ calls' \in Seq(Steps)
<1>0. calls \in Seq(Steps)
  BY DEF TypeOK
<1>1. ASSUME UNCHANGED <<calls, state, callbacks>>, context'.pool = context.pool
      PROVE  CallsOK' /\ calls' \in Seq(Steps)
  BY <1>0, <1>1 DEF CallsOK, Will, WillTick, At
<1>2. CASE \/ RecordWork \/ Flush \/ Execute \/ Gpu \/ UNCHANGED vars
           \/ \E w \in Waiters : WaiterCompares(w) \/ WaiterStores(w)
           \/ \E r \in Requests : OnSubmittedWorkDone(r) \/ OnSubmittedWorkDoneLost(r) \/ TrackLastUse(r)
  <2>1. /\ UNCHANGED <<calls, state, callbacks>>
        /\ UNCHANGED context \/ context' = Flushed(context) \/ RecordWork
    BY <1>2
       DEF RecordWork, Flush, Execute, Gpu, GpuFinish, DriverLoss, WaiterCompares,
           WaiterStores, OnSubmittedWorkDone, OnSubmittedWorkDoneLost, TrackLastUse
  <2>2. RecordWork => context'.pool = context.pool
    BY SamePool DEF RecordWork, Record
  <2>3. context'.pool = context.pool
    BY <2>1, <2>2, SamePool
  <2>4. QED
    BY <1>1, <2>1, <2>3
<1>3. CASE Submit \/ APITick \/ FlushForWait \/ (DropLastRef /\ calls' = DoneCalls)
  <2>1. /\ calls = <<>> /\ UNCHANGED <<state, callbacks>> /\ context'.pool = context.pool
        /\ calls' \in {<<>>, <<"Tick">>, <<"SubmitPending", "Tick">>, TickCalls}
        /\ state = "Alive" \/ calls' \in {<<>>, <<"Tick">>}
    BY <1>3, SamePool DEF Submit, Record, APITick, FlushForWait, DropLastRef, CanCall, DoneCalls
  <2>2. QED
    BY <2>1, NothingLeft, ShortKeepsCalls
<1>4. CASE APIDestroy \/ (DropLastRef /\ calls' = DestroyCalls)
  <2>1. /\ calls = <<>> /\ UNCHANGED <<state, callbacks>> /\ context'.pool = context.pool
        /\ calls' = DestroyCalls
    BY <1>4 DEF APIDestroy, DropLastRef, CanCall
  <2>2. QED
    BY <2>1, DestroyKeepsCalls
<1>5. CASE Tick
  <2>1. /\ calls # <<>> /\ Head(calls) = "Tick" /\ UNCHANGED <<state, callbacks, context>>
        /\ calls' = (IF state = "Alive" /\ HasScheduledCommands THEN TickCalls ELSE <<>>) \o Tail(calls)
    BY <1>5 DEF Tick, At
  <2>2. Orderly(calls) /\ 1 \in 1 .. Len(calls) /\ Head(calls) = calls[1]
    BY <1>0, <2>1 DEF CallsOK
  <2>3. Len(calls) = 1
    BY <2>1, <2>2 DEF Orderly, OrderlyAt
  <2>4. Tail(calls) = <<>> /\ \A i \in 1 .. Len(calls) : calls[i] = "Tick"
    <3>1. Tail(calls) = <<>>
      <4>1. Tail(calls) \in Seq(Steps) /\ Len(Tail(calls)) = 0
        BY <1>0, <2>1, <2>3
      <4>2. QED
        BY <4>1, EmptySeq
    <3>2. QED
      BY <2>1, <2>2, <2>3, <3>1
  <2>5. ~Will("Disconnect") /\ ~Will("LoseCallbacks")
    BY <2>4 DEF Will, Has
  <2>6. calls' \in {<<>>, TickCalls} /\ (state = "Alive" \/ calls' = <<>>)
    <3>1. TickCalls \o <<>> = TickCalls /\ <<>> \o <<>> = <<>>
      <4>1. TickCalls \in Seq(Steps)
        BY ShortCalls
      <4>2. <<>> \in Seq(Steps)
        OBVIOUS
      <4>3. QED
        BY <4>1, <4>2, ConcatEmptySeq, Zenon
    <3>2. QED
      BY <2>1, <2>4, <3>1
  <2>7. QED
    BY <2>1, <2>5, <2>6, ShortKeepsCalls
<1>6. CASE /\ Recycle \/ TickTasks \/ Assume \/ LoseTasks \/ IdleWait
           /\ TRUE
  <2>1. /\ calls # <<>> /\ Return /\ UNCHANGED <<state, callbacks>>
        /\ Head(calls) \in {"Recycle", "TickTasks", "Assume", "LoseTasks", "WaitForIdle"}
        /\ Head(calls) = "WaitForIdle" \/ context' = context
    BY <1>6 DEF Recycle, TickTasks, Assume, LoseTasks, IdleWait, At
  <2>2. calls' \in Seq(Steps) /\ (Head(calls) = "WaitForIdle" => Will("Disconnect")')
    BY <1>0, <2>1, Returns
  <2>3. QED
    BY <1>0, <2>1, <2>2, ReturnKeepsCalls
<1>7. CASE CheckPassedSerials
  <2>1. calls # <<>> /\ Head(calls) = "CheckPassedSerials" /\ UNCHANGED <<state, callbacks, context>>
    BY <1>7 DEF CheckPassedSerials, At
  <2>2. CASE Return
    BY <1>0, <2>1, <2>2, Returns, ReturnKeepsCalls
  <2>3. CASE \E error \in Errors : Fail(error)
    BY <2>1, <2>3, FailKeepsCalls
  <2>4. QED
    BY <1>7, <2>2, <2>3 DEF CheckPassedSerials
<1>8. CASE SubmitPendingCommands
  <2>1. /\ calls # <<>> /\ Head(calls) \in {"SubmitPending", "SubmitIgnoring"}
        /\ UNCHANGED <<state, callbacks>>
    BY <1>8 DEF SubmitPendingCommands, At
  <2>2. CASE \E error \in Errors : Fail(error)
    BY <2>1, <2>2, FailKeepsCalls
  <2>3. CASE Return /\ Head(calls) = "SubmitIgnoring"
    <3>1. calls' \in Seq(Steps) /\ Will("Disconnect")'
      BY <1>0, <2>1, <2>3, Returns
    <3>2. QED
      BY <1>0, <2>1, <2>3, <3>1, ReturnKeepsCalls
  <2>4. CASE Return /\ (context'.pool = NoPool => context.pool = NoPool)
    BY <1>0, <2>1, <2>4, Returns, ReturnKeepsCalls
  <2>5. CASE NothingToSubmit
    BY <2>4, <2>5 DEF NothingToSubmit
  <2>6. CASE NotSubmitted
    BY <2>1, <2>2, <2>3, <2>6 DEF NotSubmitted, SubmitError, At
  <2>7. CASE IsSubmitted
    <3>1. CASE /\ Available(unusedPools, pools) # {}
               /\ NextPool(Obtain(unusedPools, pools))
               /\ Return
      <4>1. Obtain(unusedPools, pools) # NoPool
        BY <3>1, Obtained DEF TypeOK, QueueTypeOK
      <4>2. context'.pool # NoPool
        BY <3>1, <4>1 DEF NextPool, Fresh
      <4>3. QED
        BY <2>4, <3>1, <4>2
    <3>2. CASE SubmitError
      BY <2>1, <2>2, <2>3, <3>2 DEF SubmitError, At
    <3>3. QED
      BY <2>7, <3>1, <3>2 DEF IsSubmitted
  <2>8. QED
    BY <1>8, <2>5, <2>6, <2>7 DEF SubmitPendingCommands
<1>9. CASE Disconnect \/ Destroyed
  <2>1. /\ calls # <<>> /\ Return /\ UNCHANGED callbacks /\ state' # "Alive"
        /\ Head(calls) \in {"BeginDisconnect", "Disconnect", "DestroyQueue"}
        /\ state = "Alive" \/ state # "Alive"
    BY <1>9 DEF Disconnect, Destroyed, At
  <2>2. /\ calls' \in Seq(Steps) /\ Orderly(calls')
        /\ \A step : Will(step) /\ Head(calls) # step => Will(step)'
        /\ Head(calls) = "BeginDisconnect" => Will("Disconnect")'
        /\ Head(calls) = "DestroyQueue" => ~Will("Disconnect")'
        /\ \A step : Will(step)' => Will(step)
        /\ WillTick' => WillTick
        /\ Will(Head(calls))
    BY <1>0, <2>1, Returns
  <2>3. Will("LoseCallbacks") /\ callbacks = "Normal" => Will("LoseCallbacks")'
    BY <2>1, <2>2
  <2>4. callbacks = "Normal" => Will("LoseCallbacks")
    <3>1. CASE state # "Alive"
      BY <3>1 DEF CallsOK
    <3>2. CASE state = "Alive" /\ callbacks = "Normal"
      <4>1. Will("Disconnect") /\ ~At("ShutDownCallbacks")
        BY <2>1, <2>2, <3>2 DEF CallsOK, At
      <4>2. QED
        BY <3>2, <4>1 DEF CallsOK
    <3>3. QED
      BY <3>1, <3>2
  <2>5. QED
    BY <2>1, <2>2, <2>3, <2>4 DEF CallsOK
<1>10. CASE MarkCallbacks
  <2>1. /\ calls # <<>> /\ Return /\ UNCHANGED <<state, context>> /\ callbacks' # "Normal"
        /\ Head(calls) \in {"LoseCallbacks", "ShutDownCallbacks"}
    BY <1>10 DEF MarkCallbacks, MarkQueued, At
  <2>2. /\ calls' \in Seq(Steps) /\ Orderly(calls')
        /\ \A step : Will(step) /\ Head(calls) # step => Will(step)'
        /\ Head(calls) = "ShutDownCallbacks" => Will("Disconnect")'
        /\ \A step : Will(step)' => Will(step)
        /\ WillTick' => WillTick
        /\ Will(Head(calls))
    BY <1>0, <2>1, Returns
  <2>3. state = "Alive" => Will("Disconnect")'
    BY <2>1, <2>2 DEF CallsOK
  <2>4. QED
    BY <2>1, <2>2, <2>3 DEF CallsOK
<1>11. ASSUME NEW w \in Waiters, WaiterTakes(w)
       PROVE  CallsOK' /\ calls' \in Seq(Steps)
  <2>1. CASE UNCHANGED calls
    BY <1>1, <1>11, <2>1 DEF WaiterTakes
  <2>2. CASE \E error \in Errors : Fail(error)
    BY <1>11, <2>2, FailKeepsCalls DEF WaiterTakes
  <2>3. QED
    BY <1>11, <2>1, <2>2 DEF WaiterTakes
<1>12. CASE CheckDebugLayer
  <2>1. calls # <<>> /\ Head(calls) = "CheckDebugLayer" /\ UNCHANGED <<state, callbacks, context>>
    BY <1>12 DEF CheckDebugLayer, At
  <2>2. CASE Return
    BY <1>0, <2>1, <2>2, Returns, ReturnKeepsCalls
  <2>3. CASE Fail("internal")
    BY <2>1, <2>3, FailKeepsCalls
  <2>4. QED
    BY <1>12, <2>2, <2>3 DEF CheckDebugLayer
<1>13. QED
  BY <1>2, <1>3, <1>4, <1>5, <1>6, <1>7, <1>8, <1>9, <1>10, <1>11, <1>12
     DEF Next, Call, CallStep, Wait, DropLastRef
-----------------------------------------------------------------------------
(* What a step may do to the fences, and to the pools.                     *)
LEMMA FenceSteps ==
    ASSUME [Next]_vars
    PROVE  \/ UNCHANGED fenceVars
           \/ \E taken \in SUBSET PassedFences : TakeFences(taken)
           \/ /\ Available(unusedFences, fences) # {}
              /\ \/ ReturnFence(Obtain(unusedFences, fences))
                 \/ /\ SubmitFence(Obtain(unusedFences, fences), lastSubmitted + 1)
                    /\ lastSubmitted' = lastSubmitted + 1 /\ context.needsSubmit
           \/ IdleWait \/ Destroyed
<1>1. CASE CheckPassedSerials \/ \E w \in Waiters : WaiterTakes(w)
  <2>1. \A taken : FencesBeforeError(taken) => taken \in SUBSET PassedFences
    BY DEF FencesBeforeError
  <2>2. QED
    BY <1>1, <2>1 DEF CheckPassedSerials, WaiterTakes
<1>2. CASE SubmitPendingCommands
  BY <1>2 DEF SubmitPendingCommands, NothingToSubmit, NotSubmitted, IsSubmitted, Submitted
<1>3. CASE IdleWait \/ Destroyed
  BY <1>3 DEF IdleWait, Destroyed
<1>4. CASE \/ Call \/ Flush \/ Execute \/ Gpu \/ UNCHANGED vars
           \/ \E w \in Waiters : WaiterCompares(w) \/ WaiterStores(w)
  BY <1>4
     DEF Call, RecordWork, Submit, APITick, FlushForWait, APIDestroy, DropLastRef,
         OnSubmittedWorkDone, OnSubmittedWorkDoneLost, TrackLastUse, Flush, Execute, Gpu,
         GpuFinish, DriverLoss, WaiterCompares, WaiterStores
<1>5. CASE Tick \/ CheckDebugLayer \/ Recycle \/ TickTasks \/ Disconnect \/ Assume \/ LoseTasks \/ MarkCallbacks
  BY <1>5 DEF Tick, CheckDebugLayer, Recycle, TickTasks, Disconnect, Assume, LoseTasks, MarkCallbacks
<1>6. QED
  BY <1>1, <1>2, <1>3, <1>4, <1>5 DEF Next, CallStep, Wait

SubmitsPool ==
    /\ context.needsSubmit
    /\ SubmitPool(lastSubmitted + 1)
    /\ \/ /\ Available(unusedPools, pools) # {}
          /\ NextPool(Obtain(unusedPools, pools))
       \/ NextPoolFails

LEMMA PoolSteps ==
    ASSUME TypeOK, [Next]_vars
    PROVE  \/ UNCHANGED poolVars
           \/ /\ UNCHANGED <<commandsInFlight, unusedPools, pools, poolWork>>
              /\ \/ \E normal \in BOOLEAN : CanCall /\ state = "Alive" /\ Record(normal)
                 \/ context' = Flushed(context)
           \/ RecycleCompletedCommands /\ UNCHANGED <<context, pools, poolWork>>
           \/ SubmitsPool /\ lastSubmitted' = lastSubmitted + 1
           \/ IdleWait \/ Destroyed
<1>1. CASE RecordWork \/ Submit \/ FlushForWait
  BY <1>1 DEF RecordWork, Submit, FlushForWait
<1>2. CASE \E r \in Requests : OnSubmittedWorkDone(r) \/ OnSubmittedWorkDoneLost(r) \/ TrackLastUse(r)
  BY <1>2 DEF OnSubmittedWorkDone, OnSubmittedWorkDoneLost, TrackLastUse
<1>3. CASE SubmitPendingCommands
  BY <1>3 DEF SubmitPendingCommands, NothingToSubmit, NotSubmitted, IsSubmitted, Submitted, SubmitsPool
<1>4. CASE IdleWait \/ Destroyed \/ Recycle
  BY <1>4 DEF IdleWait, Destroyed, Recycle
<1>5. CASE \/ APITick \/ APIDestroy \/ DropLastRef \/ Flush \/ Execute \/ Gpu \/ UNCHANGED vars
           \/ Wait
  BY <1>5
     DEF APITick, APIDestroy, DropLastRef, Flush, Execute, Gpu, GpuFinish, DriverLoss, Wait,
         WaiterTakes, WaiterCompares, WaiterStores
<1>6. CASE Tick \/ CheckDebugLayer \/ CheckPassedSerials \/ TickTasks \/ Disconnect \/ Assume \/ LoseTasks \/ MarkCallbacks
  BY <1>6 DEF Tick, CheckDebugLayer, CheckPassedSerials, TickTasks, Disconnect, Assume, LoseTasks, MarkCallbacks
<1>7. QED
  BY <1>1, <1>2, <1>3, <1>4, <1>5, <1>6 DEF Next, Call, CallStep

(* What a step may do to the serials.                                      *)
LEMMA SerialSteps ==
    ASSUME [Next]_vars
    PROVE  /\ \/ UNCHANGED serialVars
              \/ CheckPassedSerials \/ AssumeCommandsComplete
              \/ lastSubmitted' = lastSubmitted + 1 /\ UNCHANGED completed
              \/ \E w \in Waiters : WaiterStores(w)
           /\ \/ UNCHANGED gpuVars
              \/ WaitForIdle \/ GpuFinish \/ DriverLoss
<1>1. CASE IdleWait \/ Destroyed \/ Gpu \/ Recycle \/ CheckPassedSerials
  BY <1>1 DEF IdleWait, WaitForIdle, Destroyed, DestroyQueue, Gpu, GpuFinish, DriverLoss, Recycle,
              CheckPassedSerials
<1>2. CASE SubmitPendingCommands
  BY <1>2 DEF SubmitPendingCommands, NothingToSubmit, NotSubmitted, IsSubmitted, Submitted
<1>3. CASE Call \/ Flush \/ Execute \/ UNCHANGED vars
  BY <1>3
     DEF Call, RecordWork, Submit, APITick, FlushForWait, APIDestroy, DropLastRef,
         OnSubmittedWorkDone, OnSubmittedWorkDoneLost, TrackLastUse, Flush, Execute
<1>4. CASE Wait
  BY <1>4 DEF Wait, WaiterTakes, WaiterCompares, WaiterStores
<1>5. CASE Tick \/ CheckDebugLayer \/ TickTasks \/ Disconnect \/ Assume \/ LoseTasks \/ MarkCallbacks
  BY <1>5 DEF Tick, CheckDebugLayer, TickTasks, Disconnect, Assume, LoseTasks, MarkCallbacks
<1>6. QED
  BY <1>1, <1>2, <1>3, <1>4, <1>5 DEF Next, CallStep

-----------------------------------------------------------------------------
FenceTypeOK ==
    /\ fencesInFlight \subseteq FenceEntry
    /\ unusedFences \subseteq Objects /\ fences \subseteq Objects
    /\ fenceWork \in [Objects -> Serials]

PoolTypeOK ==
    /\ context \in [used: BOOLEAN, needsSubmit: BOOLEAN, pool: Objects \union {NoPool}]
    /\ commandsInFlight \subseteq PoolEntry
    /\ unusedPools \subseteq Objects /\ pools \subseteq Objects
    /\ poolWork \in [Objects -> Serials]

(* Every fence has one owner.                                              *)
LEMMA FencesStep ==
    ASSUME TypeOK, FencesOK, [Next]_vars
    PROVE  FencesOK' /\ FenceTypeOK'
<1> USE DEF FencesOK, FenceTypeOK, FenceEntry, Serials
<1>0. FenceTypeOK /\ lastSubmitted \in Nat
  BY DEF TypeOK, QueueTypeOK
<1>1. CASE UNCHANGED fenceVars
  BY <1>0, <1>1
<1>2. ASSUME NEW taken \in SUBSET PassedFences, TakeFences(taken)
      PROVE  FencesOK' /\ FenceTypeOK'
  <2>1. taken \subseteq fencesInFlight
    BY DEF PassedFences
  <2>2. /\ fencesInFlight' = fencesInFlight \ taken
        /\ unusedFences' = unusedFences \union {e.fence : e \in taken}
        /\ UNCHANGED <<fences, fenceWork>>
    BY <1>2 DEF TakeFences
  <2>3. QED
    BY <1>0, <2>1, <2>2
<1>3. CASE WaitForIdle
  BY <1>0, <1>3 DEF WaitForIdle
<1>4. CASE DestroyQueue
  BY <1>0, <1>4 DEF DestroyQueue
<1>5. ASSUME NEW f \in Objects, f \in unusedFences \/ f \notin fences, ReturnFence(f)
      PROVE  FencesOK' /\ FenceTypeOK'
  BY <1>0, <1>5 DEF ReturnFence
<1>6. ASSUME NEW f \in Objects, f \in unusedFences \/ f \notin fences,
             SubmitFence(f, lastSubmitted + 1)
      PROVE  FencesOK' /\ FenceTypeOK'
  <2> DEFINE new == [fence |-> f, serial |-> lastSubmitted + 1]
  <2>1. /\ fencesInFlight' = fencesInFlight \union {new}
        /\ unusedFences' = unusedFences \ {f}
        /\ fences' = fences \union {f}
        /\ fenceWork' = [fenceWork EXCEPT ![f] = lastSubmitted + 1]
        /\ new.fence = f /\ new.serial = lastSubmitted + 1 /\ new \in FenceEntry
    BY <1>0, <1>6 DEF SubmitFence
  <2> HIDE DEF new
  <2>2. \A e \in fencesInFlight : e.fence # f
    BY <1>6
  <2>3. FenceTypeOK'
    BY <1>0, <2>1
  <2>4. \A d, e \in fencesInFlight' : d.fence = e.fence => d = e
    BY <2>1, <2>2
  <2>5. \A e \in fencesInFlight' : e.fence \in fences' \ unusedFences' /\ fenceWork'[e.fence] = e.serial
    BY <1>0, <2>1, <2>2
  <2>6. \A g \in fences' \ unusedFences' : \E e \in fencesInFlight' : e.fence = g
    BY <1>0, <2>1
  <2>7. QED
    BY <2>1, <2>3, <2>4, <2>5, <2>6
<1>7. CASE /\ Available(unusedFences, fences) # {}
           /\ \/ ReturnFence(Obtain(unusedFences, fences))
              \/ SubmitFence(Obtain(unusedFences, fences), lastSubmitted + 1)
  BY <1>0, <1>5, <1>6, <1>7, Obtained
<1>8. QED
  BY <1>1, <1>2, <1>3, <1>4, <1>7, FenceSteps DEF IdleWait, Destroyed

(* Every pool has one owner.                                               *)
LEMMA PoolsStep ==
    ASSUME TypeOK, PoolsOK, ContextOK, CallsOK, [Next]_vars
    PROVE  PoolsOK' /\ PoolTypeOK' /\ ContextOK'
<1> USE DEF PoolsOK, ContextOK, PoolTypeOK, PoolEntry, Serials
<1>0. PoolTypeOK /\ lastSubmitted \in Nat /\ NoPool \notin Objects
  BY QueueBounds DEF TypeOK, QueueTypeOK
<1>1. CASE UNCHANGED poolVars
  BY <1>0, <1>1
<1>2. CASE /\ UNCHANGED <<commandsInFlight, unusedPools, pools, poolWork>>
           /\ \/ \E normal \in BOOLEAN : CanCall /\ state = "Alive" /\ Record(normal)
              \/ context' = Flushed(context)
  <2>1. ASSUME NEW normal \in BOOLEAN, CanCall, state = "Alive", Record(normal)
        PROVE  context'.pool = context.pool /\ ContextOK' /\ PoolTypeOK'
    <3>1. context.pool # NoPool
      BY <2>1, NothingLeft DEF CanCall, CallsOK
    <3>2. context' = [context EXCEPT !.used = TRUE, !.needsSubmit = context.needsSubmit \/ normal]
      BY <2>1 DEF Record
    <3>3. context'.pool = context.pool /\ context'.used = TRUE
      BY <1>0, <3>2
    <3>4. context' \in [used: BOOLEAN, needsSubmit: BOOLEAN, pool: Objects \union {NoPool}]
      <4>1. (context.needsSubmit \/ normal) \in BOOLEAN
        OBVIOUS
      <4>2. QED
        BY <1>0, <3>2, <4>1
    <3>5. PoolTypeOK'
      BY <1>0, <1>2, <3>4
    <3>6. QED
      BY <3>1, <3>3, <3>5
  <2>2. CASE context' = Flushed(context)
    BY <1>0, <1>2, <2>2 DEF Flushed
  <2>3. context'.pool = context.pool /\ ContextOK' /\ PoolTypeOK'
    <3>1. context' = Flushed(context) => context'.pool = context.pool
      BY SamePool
    <3>2. QED
      BY <1>2, <2>1, <2>2, <3>1
  <2>4. QED
    BY <1>2, <2>3
<1>3. CASE RecycleCompletedCommands /\ UNCHANGED <<context, pools, poolWork>>
  <2>1. PICK done \in SUBSET commandsInFlight :
          /\ commandsInFlight' = commandsInFlight \ done
          /\ unusedPools' = unusedPools \union {e.pool : e \in done}
    BY <1>3 DEF RecycleCompletedCommands
  <2>2. QED
    BY <1>0, <1>3, <2>1
<1>4. CASE WaitForIdle
  <2>1. UNCHANGED <<commandsInFlight, pools, poolWork>>
    BY <1>4 DEF WaitForIdle
  <2>2. CASE ~context.used
    BY <1>0, <1>4, <2>1, <2>2 DEF WaitForIdle
  <2>3. CASE context.used
    <3>0. context' = Fresh(NoPool) /\ unusedPools' = unusedPools \union {context.pool}
      BY <1>4, <2>3 DEF WaitForIdle
    <3>1. /\ context'.pool = NoPool /\ ~context'.used /\ ~context'.needsSubmit
          /\ context' \in [used: BOOLEAN, needsSubmit: BOOLEAN, pool: Objects \union {NoPool}]
          /\ unusedPools' = unusedPools \union {context.pool}
      BY <3>0 DEF Fresh
    <3>2. context.pool \in pools /\ context.pool # NoPool /\ context.pool \in Objects
      BY <1>0, <2>3
    <3>3. PoolTypeOK' /\ ContextOK'
      BY <1>0, <2>1, <3>1, <3>2
    <3>4. NoPool \notin unusedPools' /\ unusedPools' \subseteq pools'
      BY <1>0, <2>1, <3>1, <3>2
    <3>5. ASSUME NEW e \in commandsInFlight'
          PROVE  e.pool \in pools' \ (unusedPools' \union {context'.pool}) /\ poolWork'[e.pool] = e.serial
      BY <1>0, <2>1, <3>1, <3>2
    <3>6. \A d, e \in commandsInFlight' : d.pool = e.pool => d = e
      BY <2>1
    <3>7. ASSUME NEW p \in pools' \ unusedPools'
          PROVE  \E e \in commandsInFlight' : e.pool = p
      BY <2>1, <3>1
    <3>8. QED
      BY <3>1, <3>3, <3>4, <3>5, <3>6, <3>7
  <2>4. QED
    BY <2>2, <2>3
<1>5. CASE DestroyQueue
  BY <1>0, <1>5 DEF DestroyQueue, Fresh
<1>6. CASE SubmitsPool
  <2> DEFINE s == lastSubmitted + 1
             new == [pool |-> context.pool, serial |-> s]
  <2>1. context.pool \in pools /\ context.pool # NoPool /\ context.pool \in Objects /\ s \in Nat
    BY <1>0, <1>6 DEF SubmitsPool
  <2>2. /\ commandsInFlight' = commandsInFlight \union {new}
        /\ poolWork' = [poolWork EXCEPT ![context.pool] = s]
        /\ new.pool = context.pool /\ new.serial = s /\ new \in PoolEntry
    BY <1>6, <2>1 DEF SubmitsPool, SubmitPool
  <2> HIDE DEF new, s
  <2>3. \A e \in commandsInFlight : e.pool # context.pool
    OBVIOUS
  <2>4. /\ \A d, e \in commandsInFlight' : d.pool = e.pool => d = e
        /\ \A e \in commandsInFlight' : poolWork'[e.pool] = e.serial
        /\ commandsInFlight' \subseteq PoolEntry /\ poolWork' \in [Objects -> Nat]
        /\ \A e \in commandsInFlight' : e.pool \in pools \ unusedPools
    BY <1>0, <2>1, <2>2, <2>3
  <2>5. \A p \in pools \ unusedPools : \E e \in commandsInFlight' : e.pool = p
    BY <2>2
  <2>6. ASSUME NEW p \in Objects, p \in unusedPools \/ p \notin pools, NextPool(p)
        PROVE  PoolsOK' /\ PoolTypeOK' /\ ContextOK'
    <3>1. /\ context' = Fresh(p) /\ context'.pool = p
          /\ unusedPools' = unusedPools \ {p} /\ pools' = pools \union {p}
          /\ ContextOK'
      BY <2>6 DEF NextPool, Fresh
    <3>2. PoolTypeOK'
      BY <1>0, <2>4, <3>1 DEF Fresh
    <3>3. \A e \in commandsInFlight' : e.pool # p
      BY <2>4, <2>6
    <3>4. QED
      BY <1>0, <2>4, <2>5, <3>1, <3>2, <3>3
  <2>7. CASE NextPoolFails
    <3>1. PICK destroyed \in SUBSET unusedPools :
            /\ context' = Fresh(NoPool)
            /\ unusedPools' = unusedPools \ destroyed
            /\ pools' = pools \ destroyed
      <4>1. unusedPools # {} => Obtain(unusedPools, pools) \in unusedPools
        BY <1>0, Obtained DEF Available
      <4>2. QED
        BY <2>7, <4>1 DEF NextPoolFails
    <3>2. context'.pool = NoPool /\ ContextOK' /\ PoolTypeOK'
      BY <1>0, <2>4, <3>1 DEF Fresh
    <3>3. QED
      BY <1>0, <2>4, <2>5, <3>1, <3>2
  <2>8. QED
    BY <1>0, <1>6, <2>6, <2>7, Obtained DEF SubmitsPool
<1>7. QED
  BY <1>1, <1>2, <1>3, <1>4, <1>5, <1>6, PoolSteps DEF IdleWait, Destroyed

-----------------------------------------------------------------------------
(* A serial that passed fences report is one that the GPU has finished.    *)
LEMMA SerialReported ==
    ASSUME TypeOK, FencesOK, SerialsOK, NEW taken \in SUBSET PassedFences
    PROVE  /\ SerialOf(taken) \in Nat
           /\ SerialOf(taken) <= finished /\ SerialOf(taken) <= lastSubmitted
<1> DEFINE S == {e.serial : e \in taken} \union {0}
<1>1. finished \in Nat /\ lastSubmitted \in Nat /\ finished <= lastSubmitted
  BY DEF TypeOK, QueueTypeOK, Serials, SerialsOK
<1>2. ASSUME NEW e \in taken PROVE e.serial \in Nat /\ e.serial <= finished
  <2>1. e \in fencesInFlight /\ Signalled(e.fence)
    <3>1. e \in PassedFences
      OBVIOUS
    <3>2. e.serial \in Nat /\ e \in fencesInFlight
      BY <3>1 DEF PassedFences, TypeOK, QueueTypeOK, FenceEntry, Serials
    <3>3. QED
      BY <3>1, <3>2 DEF PassedFences
  <2>2. e.serial = fenceWork[e.fence]
    BY <2>1 DEF FencesOK
  <2>3. QED
    BY <1>1, <2>1, <2>2 DEF Signalled
<1>3. S \in SUBSET Nat /\ S # {} /\ \A x \in S : x <= finished
  BY <1>1, <1>2
<1>4. Max(S) \in S
  BY <1>1, <1>3, GreatestNumber
<1>5. QED
  BY <1>1, <1>3, <1>4 DEF SerialOf

LEMMA GreaterOfTwo ==
    ASSUME NEW m \in Nat, NEW n \in Nat
    PROVE  Max({m, n}) \in {m, n} /\ Max({m, n}) >= m /\ Max({m, n}) >= n
<1>1. {m, n} \in SUBSET Nat /\ {m, n} # {} /\ m + n \in Nat /\ \A x \in {m, n} : x <= m + n
  OBVIOUS
<1>2. QED
  BY <1>1, GreatestNumber

(* A check under the lock takes the completed serial no further than the   *)
(* GPU.                                                                    *)
LEMMA SerialChecked ==
    ASSUME TypeOK, FencesOK, SerialsOK, CheckPassedSerials
    PROVE  /\ completed' \in Nat /\ completed' <= lastSubmitted
           /\ completed <= finished => completed' <= finished
<1>1. completed \in Nat /\ completed <= lastSubmitted /\ finished \in Nat /\ lastSubmitted \in Nat
  BY DEF TypeOK, QueueTypeOK, Serials, SerialsOK
<1>2. completed' = completed \/ completed' = Max({completed, SerialOf(PassedFences)})
  BY DEF CheckPassedSerials
<1>3. /\ SerialOf(PassedFences) \in Nat
      /\ SerialOf(PassedFences) <= finished /\ SerialOf(PassedFences) <= lastSubmitted
  BY SerialReported
<1>4. Max({completed, SerialOf(PassedFences)}) \in {completed, SerialOf(PassedFences)}
  BY <1>1, <1>3, GreaterOfTwo
<1>5. QED
  BY <1>1, <1>2, <1>3, <1>4

(* The submitted serial and the GPU only go on, the GPU behind.            *)
LEMMA SerialsGrow ==
    ASSUME TypeOK, SerialsOK, [Next]_vars
    PROVE  /\ lastSubmitted' \in Nat /\ lastSubmitted <= lastSubmitted'
           /\ finished' \in Nat /\ finished <= finished' /\ finished' <= lastSubmitted'
           /\ driverLost' \in BOOLEAN /\ (driverLost => driverLost')
<1>1. /\ lastSubmitted \in Nat /\ finished \in Nat /\ finished <= lastSubmitted
      /\ driverLost \in BOOLEAN
      /\ \A o \in Objects : poolWork[o] \in Nat /\ poolWork[o] <= lastSubmitted
  BY DEF TypeOK, QueueTypeOK, Serials, SerialsOK
<1>2. lastSubmitted' \in Nat /\ lastSubmitted <= lastSubmitted'
  BY <1>1, SerialSteps DEF CheckPassedSerials, AssumeCommandsComplete, WaiterStores
<1> DEFINE Lost == driverLost' \in BOOLEAN /\ (driverLost => driverLost')
<1>3. CASE UNCHANGED gpuVars \/ DriverLoss
  <2>1. finished' = finished /\ Lost
    BY <1>1, <1>3, Zenon DEF DriverLoss
  <2>2. QED
    BY <1>1, <1>2, <2>1
<1>4. CASE WaitForIdle
  <2>1. finished' = (IF driverLost THEN finished ELSE lastSubmitted) /\ Lost
    BY <1>1, <1>4, Zenon DEF WaitForIdle
  <2>2. QED
    BY <1>1, <1>2, <2>1
<1>5. CASE GpuFinish
  <2>1. Executing \in SUBSET Nat /\ \A s \in Executing : finished < s /\ s <= lastSubmitted
    BY <1>1 DEF Executing
  <2>2. Min(Executing) \in Executing
    BY <1>5, <2>1, LeastNumber DEF GpuFinish
  <2>3. finished' = Min(Executing) /\ Lost
    BY <1>1, <1>5, Zenon DEF GpuFinish
  <2>4. finished < finished' /\ finished' \in Nat /\ finished' <= lastSubmitted
    BY <2>1, <2>2, <2>3
  <2>5. QED
    BY <1>1, <1>2, <2>3, <2>4
<1>6. QED
  BY <1>3, <1>4, <1>5, SerialSteps

-----------------------------------------------------------------------------
(* What a step may do to the calls, and to the state of the device.        *)
LEMMA CallSteps ==
    ASSUME TypeOK, CallsOK, [Next]_vars
    PROVE  \/ UNCHANGED calls
           \/ calls # <<>> /\ Return /\ (At("WaitForIdle") => IdleWait)
           \/ \A step \in {"Disconnect", "WaitForIdle", "LoseCallbacks"} : ~Will(step) /\ ~Will(step)'
           \/ Fail("loss") /\ driverLost
           \/ Fail("internal") /\ (WillTick \/ (calls = <<>> /\ fencesInFlight # {}))
           \/ calls = <<>> /\ calls' = DestroyCalls
<1> DEFINE Safe == {"Disconnect", "WaitForIdle", "LoseCallbacks"}
<1>0. calls \in Seq(Steps)
  BY DEF TypeOK
<1>1. CASE \/ RecordWork \/ Flush \/ Execute \/ Gpu \/ UNCHANGED vars
           \/ \E w \in Waiters : WaiterCompares(w) \/ WaiterStores(w)
           \/ \E r \in Requests : OnSubmittedWorkDone(r) \/ OnSubmittedWorkDoneLost(r) \/ TrackLastUse(r)
  BY <1>1
     DEF RecordWork, Flush, Execute, Gpu, WaiterCompares, WaiterStores, OnSubmittedWorkDone,
         OnSubmittedWorkDoneLost, TrackLastUse
<1>2. CASE Submit \/ APITick \/ FlushForWait \/ (DropLastRef /\ calls' = DoneCalls)
  <2>1. calls = <<>> /\ calls' \in {<<>>, <<"Tick">>, <<"SubmitPending", "Tick">>, TickCalls}
    BY <1>2 DEF Submit, APITick, FlushForWait, DropLastRef, DoneCalls, CanCall
  <2>2. \A step \in Safe : ~Will(step)'
    BY <2>1, ShortCalls DEF Will
  <2>3. QED
    BY <2>1, <2>2, NothingLeft
<1>3. CASE APIDestroy \/ (DropLastRef /\ calls' = DestroyCalls)
  BY <1>3 DEF APIDestroy, DropLastRef, CanCall
<1>4. CASE Tick
  <2>1. calls # <<>> /\ Head(calls) = "Tick" /\ 1 \in 1 .. Len(calls) /\ calls[1] = "Tick"
    BY <1>0, <1>4 DEF Tick, At
  <2>2. Len(calls) = 1
    BY <2>1 DEF CallsOK, Orderly, OrderlyAt
  <2>3. Tail(calls) = <<>>
    <3>1. Tail(calls) \in Seq(Steps) /\ Len(Tail(calls)) = 0
      BY <1>0, <2>1, <2>2
    <3>2. QED
      BY <3>1, EmptySeq
  <2>4. calls' \in {<<>>, TickCalls}
    <3>1. TickCalls \o <<>> = TickCalls /\ <<>> \o <<>> = <<>>
      <4>1. TickCalls \in Seq(Steps)
        BY ShortCalls
      <4>2. <<>> \in Seq(Steps)
        OBVIOUS
      <4>3. QED
        BY <4>1, <4>2, ConcatEmptySeq, Zenon
    <3>2. QED
      BY <1>4, <2>3, <3>1 DEF Tick
  <2>5. \A step \in Safe : ~Will(step)'
    BY <2>4, ShortCalls DEF Will
  <2>6. \A step \in Safe : ~Will(step)
    BY <2>1, <2>2 DEF Will, Has
  <2>7. QED
    BY <2>5, <2>6
<1>5. CASE \/ Recycle \/ TickTasks \/ Disconnect \/ IdleWait \/ Assume \/ LoseTasks
           \/ MarkCallbacks \/ Destroyed
  BY <1>5 DEF Recycle, TickTasks, Disconnect, IdleWait, Assume, LoseTasks, MarkCallbacks, Destroyed, At
<1>6. CASE CheckPassedSerials \/ (\E w \in Waiters : WaiterTakes(w)) \/ CheckDebugLayer
  <2>1. \A taken : FencesBeforeError(taken) => fencesInFlight # {}
    BY DEF FencesBeforeError
  <2>2. At("CheckPassedSerials") \/ At("CheckDebugLayer") => WillTick
    BY <1>0 DEF At, Will, WillTick, Has
  <2>3. CASE Return /\ (At("CheckPassedSerials") \/ At("CheckDebugLayer"))
    <3>1. calls # <<>> /\ ~At("WaitForIdle")
      BY <2>3 DEF At
    <3>2. QED
      BY <2>3, <3>1
  <2>4. CASE UNCHANGED calls
    BY <2>4
  <2>5. CASE (WillTick \/ (calls = <<>> /\ fencesInFlight # {})) /\ \E error \in Errors : Fail(error)
    BY <2>5 DEF Errors
  <2>6. CASE Fail("internal") /\ WillTick
    BY <2>6
  <2>7. QED
    BY <1>6, <2>1, <2>2, <2>3, <2>4, <2>5, <2>6 DEF CheckPassedSerials, WaiterTakes, CheckDebugLayer
<1>7. CASE SubmitPendingCommands
  <2>1. /\ calls # <<>> /\ ~At("WaitForIdle")
        /\ Return \/ (At("SubmitPending") /\ \E error \in Errors : Fail(error))
    BY <1>7
       DEF SubmitPendingCommands, NothingToSubmit, NotSubmitted, IsSubmitted, SubmitError, At
  <2>2. At("SubmitPending") => WillTick
    BY <1>0 DEF At, Will, WillTick, Has
  <2>3. QED
    BY <2>1, <2>2 DEF Errors
<1>8. QED
  BY <1>1, <1>2, <1>3, <1>4, <1>5, <1>6, <1>7
     DEF Next, Call, CallStep, Wait, DropLastRef

(* A device that is given up stays so.                                     *)
LEMMA GoneStays ==
    ASSUME [Next]_vars
    PROVE  /\ UNCHANGED state \/ Disconnect \/ Destroyed
           /\ UNCHANGED callbacks \/ MarkCallbacks
           /\ state' = "Alive" => state = "Alive"
           /\ callbacks' = "Normal" => callbacks = "Normal"
<1>1. UNCHANGED state \/ Disconnect \/ Destroyed
  <2>1. CASE Call \/ Flush \/ Execute \/ Wait \/ Gpu \/ UNCHANGED vars
    BY <2>1
       DEF Call, RecordWork, Submit, APITick, FlushForWait, APIDestroy, DropLastRef,
           OnSubmittedWorkDone, OnSubmittedWorkDoneLost, TrackLastUse, Flush, Execute, Gpu, Wait,
           WaiterTakes, WaiterCompares, WaiterStores
  <2>2. CASE CallStep
    BY <2>2
       DEF CallStep, Tick, CheckDebugLayer, CheckPassedSerials, Recycle, SubmitPendingCommands, TickTasks, IdleWait,
           Assume, LoseTasks, MarkCallbacks
  <2>3. QED
    BY <2>1, <2>2 DEF Next
<1>2. UNCHANGED callbacks \/ MarkCallbacks
  <2>1. CASE Call \/ Flush \/ Execute \/ Wait \/ Gpu \/ UNCHANGED vars
    BY <2>1
       DEF Call, RecordWork, Submit, APITick, FlushForWait, APIDestroy, DropLastRef,
           OnSubmittedWorkDone, OnSubmittedWorkDoneLost, TrackLastUse, Flush, Execute, Gpu, Wait,
           WaiterTakes, WaiterCompares, WaiterStores
  <2>2. CASE CallStep
    BY <2>2
       DEF CallStep, Tick, CheckDebugLayer, CheckPassedSerials, Recycle, SubmitPendingCommands, TickTasks, IdleWait,
           Assume, LoseTasks, Disconnect, Destroyed
  <2>3. QED
    BY <2>1, <2>2 DEF Next
<1>3. state' = "Alive" => state = "Alive"
  BY <1>1 DEF Disconnect, Destroyed
<1>4. callbacks' = "Normal" => callbacks = "Normal"
  BY <1>2 DEF MarkCallbacks, MarkQueued
<1>5. QED
  BY <1>1, <1>2, <1>3, <1>4

(* Only a device that is alive, or one that the driver has lost, is told   *)
(* to wait for the GPU.                                                    *)
LEMMA WaitBegins ==
    ASSUME TypeOK, CallsOK, QuietOK, ~driverLost, [Next]_vars, Will("WaitForIdle")'
    PROVE  Will("WaitForIdle") \/ (state = "Alive" /\ callbacks = "Normal")
<1>0. calls \in Seq(Steps)
  BY DEF TypeOK
<1>1. CASE UNCHANGED calls
  BY <1>1 DEF Will
<1>2. CASE calls # <<>> /\ Return
  BY <1>0, <1>2, Returns
<1>3. CASE WillTick
  BY <1>3 DEF CallsOK
<1>4. CASE calls = <<>> /\ fencesInFlight # {}
  <2>1. ~Will("WaitForIdle") /\ ~Will("Disconnect")
    BY <1>4, NothingLeft
  <2>2. state = "Alive"
    BY <1>4, <2>1 DEF QuietOK, Quiet
  <2>3. QED
    BY <2>1, <2>2 DEF CallsOK
<1>5. CASE calls = <<>> /\ calls' = DestroyCalls
  <2>1. state = "Alive"
    BY <1>5, DestroyCallsOK DEF Will
  <2>2. ~Will("Disconnect")
    BY <1>5, NothingLeft
  <2>3. QED
    BY <2>1, <2>2 DEF CallsOK
<1>6. QED
  BY <1>1, <1>2, <1>3, <1>4, <1>5, CallSteps

-----------------------------------------------------------------------------
(* No work is beyond the submitted serial.                                 *)
LEMMA WorkStep ==
    ASSUME TypeOK, PoolsOK, ContextOK, SerialsOK, [Next]_vars
    PROVE  \A o \in Objects : poolWork'[o] <= lastSubmitted' /\ fenceWork'[o] <= lastSubmitted'
<1>1. /\ lastSubmitted \in Nat /\ lastSubmitted' \in Nat /\ lastSubmitted <= lastSubmitted'
      /\ poolWork \in [Objects -> Nat] /\ fenceWork \in [Objects -> Nat]
      /\ \A o \in Objects : poolWork[o] <= lastSubmitted /\ fenceWork[o] <= lastSubmitted
  BY SerialsGrow DEF TypeOK, QueueTypeOK, Serials, SerialsOK
<1>2. \A o \in Objects : poolWork'[o] <= lastSubmitted'
  <2>1. CASE UNCHANGED poolWork
    BY <1>1, <2>1
  <2>2. CASE SubmitsPool /\ lastSubmitted' = lastSubmitted + 1
    <3>1. /\ poolWork' = [poolWork EXCEPT ![context.pool] = lastSubmitted + 1]
          /\ context.pool \in Objects
      BY <2>2 DEF SubmitsPool, SubmitPool, ContextOK, TypeOK, QueueTypeOK
    <3>2. QED
      BY <1>1, <2>2, <3>1
  <2>3. QED
    BY <2>1, <2>2, PoolSteps DEF IdleWait, WaitForIdle, Destroyed, DestroyQueue
<1>3. \A o \in Objects : fenceWork'[o] <= lastSubmitted'
  <2>1. CASE UNCHANGED fenceWork
    BY <1>1, <2>1
  <2>2. ASSUME NEW f \in Objects, NEW s \in Nat, s <= lastSubmitted',
               fenceWork' = [fenceWork EXCEPT ![f] = s]
        PROVE  \A o \in Objects : fenceWork'[o] <= lastSubmitted'
    BY <1>1, <2>2
  <2>3. CASE /\ Available(unusedFences, fences) # {}
             /\ \/ ReturnFence(Obtain(unusedFences, fences))
                \/ /\ SubmitFence(Obtain(unusedFences, fences), lastSubmitted + 1)
                   /\ lastSubmitted' = lastSubmitted + 1
    <3>1. Obtain(unusedFences, fences) \in Objects
      BY <2>3, Obtained DEF TypeOK, QueueTypeOK
    <3>2. PICK f \in Objects, s \in Nat :
            s <= lastSubmitted' /\ fenceWork' = [fenceWork EXCEPT ![f] = s]
      BY <1>1, <2>3, <3>1 DEF ReturnFence, SubmitFence
    <3>3. QED
      BY <2>2, <3>2
  <2>4. QED
    BY <2>1, <2>3, FenceSteps DEF TakeFences, IdleWait, WaitForIdle, Destroyed, DestroyQueue
<1>4. QED
  BY <1>2, <1>3

(* What a waiter has found stays finished.                                 *)
LEMMA WaitersStep ==
    ASSUME TypeOK, FencesOK, SerialsOK, [Next]_vars
    PROVE  /\ waiter' \in [Waiters -> WaiterStates]
           /\ \A w \in Waiters : waiter'[w].at # "idle" =>
                waiter'[w].serial <= lastSubmitted' /\ waiter'[w].serial <= finished'
<1>1. /\ waiter \in [Waiters -> WaiterStates]
      /\ lastSubmitted \in Nat /\ finished \in Nat
      /\ \A w \in Waiters : waiter[w].at # "idle" =>
           waiter[w].serial <= lastSubmitted /\ waiter[w].serial <= finished
  BY DEF TypeOK, QueueTypeOK, Serials, SerialsOK
<1>2. /\ lastSubmitted' \in Nat /\ lastSubmitted <= lastSubmitted'
      /\ finished' \in Nat /\ finished <= finished'
  BY SerialsGrow
<1>3. ASSUME NEW w \in Waiters, NEW new \in WaiterStates,
             waiter' = [waiter EXCEPT ![w] = new],
             new.at # "idle" => new.serial <= lastSubmitted /\ new.serial <= finished
      PROVE  /\ waiter' \in [Waiters -> WaiterStates]
             /\ \A u \in Waiters : waiter'[u].at # "idle" =>
                  waiter'[u].serial <= lastSubmitted' /\ waiter'[u].serial <= finished'
  <2>1. waiter' \in [Waiters -> WaiterStates]
    BY <1>1, <1>3
  <2>2. ASSUME NEW u \in Waiters, waiter'[u].at # "idle"
        PROVE  /\ waiter'[u].serial \in Nat
               /\ waiter'[u].serial <= lastSubmitted /\ waiter'[u].serial <= finished
    <3>1. waiter'[u].serial \in Nat
      BY <2>1 DEF WaiterStates, Serials
    <3>2. QED
      BY <1>1, <1>3, <2>2, <3>1
  <2>3. QED
    BY <1>1, <1>2, <2>1, <2>2
<1>4. CASE UNCHANGED waiter
  <2>1. ASSUME NEW w \in Waiters, waiter'[w].at # "idle"
        PROVE  waiter'[w].serial <= lastSubmitted' /\ waiter'[w].serial <= finished'
    <3>1. waiter[w].serial \in Nat
      BY <1>1 DEF WaiterStates, Serials
    <3>2. QED
      BY <1>1, <1>2, <1>4, <2>1, <3>1
  <2>2. QED
    BY <1>1, <1>4, <2>1
<1>5. ASSUME NEW w \in Waiters, WaiterTakes(w) \/ WaiterCompares(w) \/ WaiterStores(w)
      PROVE  /\ waiter' \in [Waiters -> WaiterStates]
             /\ \A u \in Waiters : waiter'[u].at # "idle" =>
                  waiter'[u].serial <= lastSubmitted' /\ waiter'[u].serial <= finished'
  <2>1. CASE WaiterTakes(w)
    <3>1. /\ SerialOf(PassedFences) \in Nat
          /\ SerialOf(PassedFences) <= finished /\ SerialOf(PassedFences) <= lastSubmitted
      BY SerialReported
    <3> DEFINE new == [at |-> "compare", serial |-> SerialOf(PassedFences)]
    <3>2. new \in WaiterStates /\ new.serial = SerialOf(PassedFences)
      BY <3>1 DEF WaiterStates, Serials
    <3>3. UNCHANGED waiter \/ waiter' = [waiter EXCEPT ![w] = new]
      BY <2>1 DEF WaiterTakes
    <3>4. new.at # "idle" => new.serial <= lastSubmitted /\ new.serial <= finished
      BY <3>1, <3>2
    <3> HIDE DEF new
    <3>5. CASE waiter' = [waiter EXCEPT ![w] = new]
      BY <1>3, <3>2, <3>4, <3>5
    <3>6. QED
      BY <1>4, <3>3, <3>5
  <2>2. CASE WaiterCompares(w) \/ WaiterStores(w)
    <3>1. waiter[w] \in WaiterStates /\ waiter[w].at # "idle"
      BY <1>1, <2>2 DEF WaiterCompares, WaiterStores
    <3>2. PICK at \in {"idle", "store"} : waiter' = [waiter EXCEPT ![w].at = at]
      BY <2>2 DEF WaiterCompares, WaiterStores
    <3> DEFINE new == [at |-> at, serial |-> waiter[w].serial]
    <3>3. new \in WaiterStates /\ new.serial = waiter[w].serial
      BY <3>1 DEF WaiterStates
    <3>4. waiter' = [waiter EXCEPT ![w] = new]
      <4>1. waiter' = [waiter EXCEPT ![w] = [waiter[w] EXCEPT !.at = at]]
        BY <1>1, <3>2
      <4>2. [waiter[w] EXCEPT !.at = at] = new
        BY <3>1 DEF WaiterStates
      <4>3. QED
        BY <4>1, <4>2
    <3> HIDE DEF new
    <3>5. new.serial <= lastSubmitted /\ new.serial <= finished
      BY <1>1, <3>1, <3>3
    <3>6. QED
      BY <1>3, <3>3, <3>4, <3>5
  <2>3. QED
    BY <1>5, <2>1, <2>2
<1>6. UNCHANGED waiter \/ Wait
  <2>1. CASE Call \/ Flush \/ Execute \/ Gpu \/ UNCHANGED vars
    BY <2>1
       DEF Call, RecordWork, Submit, APITick, FlushForWait, APIDestroy, DropLastRef,
           OnSubmittedWorkDone, OnSubmittedWorkDoneLost, TrackLastUse, Flush, Execute, Gpu
  <2>2. CASE CallStep
    BY <2>2
       DEF CallStep, Tick, CheckDebugLayer, CheckPassedSerials, Recycle, SubmitPendingCommands, TickTasks, IdleWait,
           Assume, LoseTasks, MarkCallbacks, Disconnect, Destroyed
  <2>3. QED
    BY <2>1, <2>2 DEF Next
<1>7. QED
  BY <1>4, <1>5, <1>6 DEF Wait

(* The completed serial follows the GPU until the device is given up, and  *)
(* on a device that will wait for the GPU.                                 *)
LEMMA SerialsStep ==
    ASSUME TypeOK, CallsOK, FencesOK, PoolsOK, ContextOK, SerialsOK, QuietOK, [Next]_vars
    PROVE  SerialsOK' /\ completed' \in Nat /\ lastSubmitted' \in Nat /\ finished' \in Nat
<1> DEFINE Follows == (state = "Alive" /\ callbacks = "Normal") \/ (Will("WaitForIdle") /\ ~driverLost)
<1>0. /\ calls \in Seq(Steps) /\ completed \in Nat /\ completed <= lastSubmitted
      /\ lastSubmitted \in Nat /\ finished \in Nat /\ waiter \in [Waiters -> WaiterStates]
      /\ Follows => completed <= finished
  BY DEF TypeOK, QueueTypeOK, Serials, SerialsOK
<1>1. /\ lastSubmitted' \in Nat /\ lastSubmitted <= lastSubmitted'
      /\ finished' \in Nat /\ finished <= finished' /\ finished' <= lastSubmitted'
  BY SerialsGrow
<1>2. Follows' => Follows
  BY WaitBegins, GoneStays, SerialsGrow
<1>3. ASSUME NEW w \in Waiters, WaiterStores(w)
      PROVE  completed' \in Nat /\ completed' <= lastSubmitted /\ completed' <= finished
  <2>1. /\ waiter[w].serial \in Nat
        /\ waiter[w].serial <= lastSubmitted /\ waiter[w].serial <= finished
    BY <1>0, <1>3 DEF WaiterStates, Serials, WaiterStores, SerialsOK
  <2>2. QED
    BY <1>3, <2>1 DEF WaiterStores
<1>4. CASE AssumeCommandsComplete
  <2>1. completed' = lastSubmitted' /\ completed' \in Nat
    BY <1>1, <1>4, <1>0 DEF AssumeCommandsComplete
  <2>2. Assume
    <3> USE <1>4 DEF AssumeCommandsComplete
    <3>1. completed' # completed
      BY <1>0
    <3>2. CASE Call \/ Flush \/ Execute \/ Gpu \/ UNCHANGED vars
      BY <3>1, <3>2
         DEF Call, RecordWork, Submit, APITick, FlushForWait, APIDestroy, DropLastRef,
             OnSubmittedWorkDone, OnSubmittedWorkDoneLost, TrackLastUse, Flush, Execute, Gpu,
             GpuFinish, DriverLoss
    <3>3. CASE Wait
      BY <1>0, <3>3 DEF Wait, WaiterTakes, WaiterCompares, WaiterStores
    <3>4. CASE Tick \/ CheckDebugLayer \/ Recycle \/ TickTasks \/ LoseTasks \/ MarkCallbacks \/ Disconnect
      BY <3>1, <3>4 DEF Tick, CheckDebugLayer, Recycle, TickTasks, LoseTasks, MarkCallbacks, Disconnect
    <3>5. CASE CheckPassedSerials \/ SubmitPendingCommands \/ IdleWait \/ Destroyed
      BY <1>0, <3>1, <3>5
         DEF CheckPassedSerials, SubmitPendingCommands, NothingToSubmit, NotSubmitted, IsSubmitted,
             Submitted, IdleWait, WaitForIdle, Destroyed, DestroyQueue
    <3>6. QED
      BY <3>2, <3>3, <3>4, <3>5 DEF Next, CallStep
  <2>3. ~Follows'
    <3>1. /\ calls # <<>> /\ Return /\ Head(calls) = "Assume" /\ UNCHANGED <<state, callbacks>>
      BY <2>2 DEF Assume, At
    <3>2. Will("Assume") /\ ~Will("WaitForIdle")'
      BY <1>0, <3>1, Returns
    <3>3. ~(state = "Alive" /\ callbacks = "Normal")
      BY <3>1, <3>2 DEF CallsOK, At
    <3>4. QED
      BY <3>1, <3>2, <3>3
  <2>4. QED
    BY <1>1, <2>1, <2>3, WorkStep, WaitersStep DEF SerialsOK
<1>5. CASE ~AssumeCommandsComplete
  <2>1. /\ completed' \in Nat /\ completed' <= lastSubmitted
        /\ completed <= finished => completed' <= finished
    BY <1>0, <1>3, <1>5, SerialSteps, SerialChecked
  <2>2. completed' <= lastSubmitted' /\ (Follows' => completed' <= finished')
    BY <1>0, <1>1, <1>2, <2>1
  <2>3. QED
    BY <1>1, <2>1, <2>2, WorkStep, WaitersStep DEF SerialsOK
<1>6. QED
  BY <1>4, <1>5

-----------------------------------------------------------------------------
(* A device that is given up becomes quiet by waiting for the GPU, and     *)
(* stays so.                                                               *)
LEMMA QuietByWaiting ==
    ASSUME TypeOK, SerialsOK, WaitForIdle, ~driverLost
    PROVE  Quiet'
<1>1. context'.used = FALSE
  <2>1. CASE context.used
    BY <2>1 DEF WaitForIdle, Fresh
  <2>2. CASE ~context.used
    <3>1. context' = context /\ context.used \in BOOLEAN
      BY <2>2 DEF WaitForIdle, TypeOK, QueueTypeOK
    <3>2. QED
      BY <2>2, <3>1
  <2>3. QED
    BY <2>1, <2>2
<1>2. finished' = lastSubmitted /\ fencesInFlight' = {} /\ UNCHANGED <<poolWork, fenceWork>>
  BY DEF WaitForIdle
<1>3. QED
  BY <1>1, <1>2 DEF Quiet, SerialsOK

LEMMA QuietStays ==
    ASSUME TypeOK, ContextOK, SerialsOK, Quiet, ~driverLost, [Next]_vars,
           state # "Alive" \/ Will("Disconnect")
    PROVE  Quiet'
<1>0. /\ lastSubmitted \in Nat /\ finished \in Nat /\ finished' \in Nat /\ finished <= finished'
      /\ poolWork \in [Objects -> Nat] /\ fenceWork \in [Objects -> Nat]
      /\ context.used \in BOOLEAN /\ ~context.needsSubmit
      /\ \A o \in Objects : poolWork[o] <= finished /\ fenceWork[o] <= finished
  BY SerialsGrow DEF TypeOK, QueueTypeOK, Serials, Quiet, ContextOK
<1>1. CASE WaitForIdle
  BY <1>1, QuietByWaiting
<1>2. CASE ~WaitForIdle
  <2>1. UNCHANGED poolWork /\ ~context'.used
    <3>1. ~(CanCall /\ state = "Alive")
      BY NothingLeft DEF CanCall
    <3>2. ~Flushed(context).used
      BY <1>0 DEF Flushed, Quiet, TypeOK, QueueTypeOK
    <3>3. UNCHANGED poolVars \/ context' = Flushed(context) \/ UNCHANGED context => ~context'.used
      BY <1>0, <3>2 DEF Quiet
    <3>4. DestroyQueue => ~context'.used /\ UNCHANGED poolWork
      BY DEF DestroyQueue, Fresh
    <3>5. \/ UNCHANGED poolVars
          \/ UNCHANGED poolWork /\ context' = Flushed(context)
          \/ UNCHANGED poolWork /\ UNCHANGED context
          \/ DestroyQueue
      BY <1>0, <1>2, <3>1, PoolSteps DEF SubmitsPool, IdleWait, Destroyed
    <3>6. QED
      BY <3>3, <3>4, <3>5
  <2>2. \A o \in Objects : fenceWork'[o] <= finished'
    <3>1. CASE UNCHANGED fenceWork
      BY <1>0, <3>1
    <3>2. CASE /\ Available(unusedFences, fences) # {}
               /\ ReturnFence(Obtain(unusedFences, fences))
      <4>1. fenceWork' = [fenceWork EXCEPT ![Obtain(unusedFences, fences)] = 0]
        BY <3>2 DEF ReturnFence
      <4>2. QED
        BY <1>0, <4>1
    <3>3. QED
      BY <1>0, <1>2, <3>1, <3>2, FenceSteps DEF TakeFences, IdleWait, Destroyed, DestroyQueue
  <2>3. fencesInFlight' = {}
    <3>1. fencesInFlight = {}
      BY DEF Quiet
    <3>2. QED
      BY <1>0, <1>2, <3>1, FenceSteps
         DEF TakeFences, ReturnFence, IdleWait, Destroyed, DestroyQueue
  <2>4. QED
    BY <1>0, <2>1, <2>2, <2>3 DEF Quiet
<1>3. QED
  BY <1>1, <1>2

LEMMA QuietStep ==
    ASSUME TypeOK, CallsOK, ContextOK, SerialsOK, QuietOK, [Next]_vars
    PROVE  QuietOK'
<1> SUFFICES ASSUME ~driverLost', state' # "Alive" \/ Will("Disconnect")', ~Will("WaitForIdle")'
             PROVE  Quiet'
  BY DEF QuietOK
<1>0. calls \in Seq(Steps) /\ ~driverLost
  BY SerialsGrow DEF TypeOK
<1>1. CASE WaitForIdle
  BY <1>0, <1>1, QuietByWaiting
<1>2. CASE ~WaitForIdle
  <2>1. CASE UNCHANGED calls
    <3>1. ~Will("WaitForIdle") /\ (Will("Disconnect")' => Will("Disconnect"))
      BY <2>1 DEF Will
    <3>2. UNCHANGED state
      <4>1. Disconnect \/ Destroyed => Return /\ calls # <<>>
        BY DEF Disconnect, Destroyed, At
      <4>2. Return /\ calls # <<>> => Len(calls') = Len(calls) - 1 /\ Len(calls) \in Nat
        BY <1>0 DEF Return
      <4>3. QED
        BY <2>1, <4>1, <4>2, GoneStays
    <3>3. QED
      BY <1>0, <3>1, <3>2, QuietStays DEF QuietOK
  <2>2. CASE calls # <<>> /\ Return /\ (At("WaitForIdle") => IdleWait)
    <3>1. ~Will("WaitForIdle") /\ (Will("Disconnect")' => Will("Disconnect"))
      <4>1. Head(calls) # "WaitForIdle"
        BY <1>2, <2>2 DEF At, IdleWait
      <4>2. QED
        BY <1>0, <2>2, <4>1, Returns
    <3>2. state # "Alive" \/ Will("Disconnect")
      <4>1. CASE Disconnect
        BY <1>0, <2>2, <4>1, Returns DEF Disconnect, At
      <4>2. CASE Destroyed
        BY <1>0, <2>2, <4>2, Returns DEF Destroyed, At, CallsOK
      <4>3. QED
        BY <3>1, <4>1, <4>2, GoneStays
    <3>3. QED
      BY <1>0, <3>1, <3>2, QuietStays DEF QuietOK
  <2>3. CASE \A step \in {"Disconnect", "WaitForIdle", "LoseCallbacks"} : ~Will(step) /\ ~Will(step)'
    <3>1. state # "Alive"
      <4>1. state' # "Alive"
        BY <2>3
      <4>2. CASE Disconnect
        BY <1>0, <2>3, <4>2, Returns DEF Disconnect, At
      <4>3. CASE Destroyed
        BY <1>0, <2>3, <4>3, Returns DEF Destroyed, At, CallsOK
      <4>4. QED
        BY <4>1, <4>2, <4>3, GoneStays
    <3>2. QED
      BY <1>0, <2>3, <3>1, QuietStays DEF QuietOK
  <2>4. CASE Fail("internal")
    BY <2>4, InternalErrorCallsOK DEF Fail, HandleErrorCalls, Will
  <2>5. CASE calls = <<>> /\ calls' = DestroyCalls
    <3>1. state # "Alive"
      BY <2>5, DestroyCallsOK DEF Will
    <3>2. QED
      BY <1>0, <2>5, <3>1, NothingLeft, QuietStays DEF QuietOK
  <2>6. QED
    BY <1>0, <2>1, <2>2, <2>3, <2>4, <2>5, CallSteps
<1>3. QED
  BY <1>1, <1>2

-----------------------------------------------------------------------------
(* What is in use stays in flight.                                         *)
LEMMA BehindOrQuiet ==
    ASSUME CallsOK, SerialsOK, QuietOK, ~driverLost
    PROVE  completed <= finished \/ Quiet
  BY DEF CallsOK, SerialsOK, QuietOK

LEMMA InUseStep ==
    ASSUME TypeOK, CallsOK, FencesOK, PoolsOK, ContextOK, SerialsOK, QuietOK, InUseIsKept,
           [Next]_vars
    PROVE  InUseIsKept'
<1> SUFFICES ASSUME ~driverLost'
             PROVE  /\ \A p \in Objects :
                         poolWork'[p] > finished' => \E e \in commandsInFlight' : p = e.pool
                    /\ \A f \in Objects :
                         fenceWork'[f] > finished' => \E e \in fencesInFlight' : f = e.fence
  BY DEF InUseIsKept
<1>0. /\ lastSubmitted \in Nat /\ completed \in Nat
      /\ finished \in Nat /\ finished' \in Nat /\ finished <= finished'
      /\ ~driverLost /\ calls \in Seq(Steps)
      /\ poolWork \in [Objects -> Nat] /\ fenceWork \in [Objects -> Nat]
      /\ \A o \in Objects : poolWork[o] <= lastSubmitted /\ fenceWork[o] <= lastSubmitted
  BY SerialsGrow DEF TypeOK, QueueTypeOK, Serials, SerialsOK
<1>1. /\ \A p \in Objects : poolWork[p] > finished => \E e \in commandsInFlight : p = e.pool
      /\ \A f \in Objects : fenceWork[f] > finished => \E e \in fencesInFlight : f = e.fence
  BY <1>0 DEF InUseIsKept
<1>2. CASE WaitForIdle
  <2>1. finished' = lastSubmitted /\ UNCHANGED <<poolWork, fenceWork>>
    BY <1>0, <1>2 DEF WaitForIdle
  <2>2. QED
    BY <1>0, <2>1
<1>3. CASE Destroyed
  <2>1. /\ Head(calls) = "DestroyQueue" /\ calls # <<>> /\ Return
        /\ UNCHANGED <<finished, poolWork, fenceWork>>
    BY <1>3 DEF Destroyed, DestroyQueue, At
  <2>2. /\ ~Will("WaitForIdle")
        /\ state # "Alive" \/ Will("Disconnect")
    <3>1. Will("DestroyQueue") /\ ~Will("WaitForIdle")
      BY <1>0, <2>1, Returns
    <3>2. QED
      BY <3>1 DEF CallsOK
  <2>3. \A o \in Objects : poolWork[o] <= finished /\ fenceWork[o] <= finished
    BY <1>0, <2>2 DEF QuietOK, Quiet
  <2>4. QED
    BY <1>0, <2>1, <2>3
<1>4. CASE ~WaitForIdle /\ ~Destroyed
  <2>1. ASSUME NEW p \in Objects, poolWork'[p] > finished'
        PROVE  \E e \in commandsInFlight' : p = e.pool
    <3>1. CASE UNCHANGED <<commandsInFlight, poolWork>>
      BY <1>0, <1>1, <2>1, <3>1
    <3>2. CASE RecycleCompletedCommands /\ UNCHANGED poolWork
      <4>1. poolWork[p] > finished
        BY <1>0, <2>1, <3>2
      <4>2. PICK e \in commandsInFlight : p = e.pool
        BY <1>1, <4>1
      <4>3. poolWork[p] = e.serial
        BY <4>2 DEF PoolsOK
      <4>4. completed <= finished
        <5>1. ~Quiet
          BY <1>0, <4>1 DEF Quiet
        <5>2. QED
          BY <1>0, <5>1, BehindOrQuiet
      <4>5. e \in commandsInFlight'
        BY <1>0, <3>2, <4>1, <4>3, <4>4 DEF RecycleCompletedCommands
      <4>6. QED
        BY <4>2, <4>5
    <3>3. CASE SubmitsPool
      <4>1. /\ commandsInFlight' =
                 commandsInFlight \union {[pool |-> context.pool, serial |-> lastSubmitted + 1]}
            /\ poolWork' = [poolWork EXCEPT ![context.pool] = lastSubmitted + 1]
        BY <3>3 DEF SubmitsPool, SubmitPool
      <4>2. CASE p = context.pool
        <5>1. [pool |-> context.pool, serial |-> lastSubmitted + 1].pool = p
          BY <4>2
        <5>2. QED
          BY <4>1, <5>1
      <4>3. CASE p # context.pool
        <5>1. poolWork[p] > finished
          BY <1>0, <2>1, <4>1, <4>3
        <5>2. QED
          BY <1>1, <4>1, <5>1
      <4>4. QED
        BY <4>2, <4>3
    <3>4. QED
      BY <1>4, <3>1, <3>2, <3>3, PoolSteps DEF IdleWait
  <2>2. ASSUME NEW f \in Objects, fenceWork'[f] > finished'
        PROVE  \E e \in fencesInFlight' : f = e.fence
    <3>1. CASE UNCHANGED fenceVars
      BY <1>0, <1>1, <2>2, <3>1
    <3>2. ASSUME NEW taken \in SUBSET PassedFences, TakeFences(taken)
          PROVE  \E e \in fencesInFlight' : f = e.fence
      <4>1. fenceWork[f] > finished
        BY <1>0, <2>2, <3>2 DEF TakeFences
      <4>2. PICK e \in fencesInFlight : f = e.fence
        BY <1>1, <4>1
      <4>3. e \notin PassedFences
        <5>1. e.serial \in Nat /\ ~Signalled(e.fence)
          BY <1>0, <4>1, <4>2 DEF Signalled, TypeOK, QueueTypeOK, FenceEntry, Serials
        <5>2. QED
          BY <5>1 DEF PassedFences
      <4>4. QED
        BY <3>2, <4>2, <4>3 DEF TakeFences
    <3>3. CASE /\ Available(unusedFences, fences) # {}
               /\ ReturnFence(Obtain(unusedFences, fences))
      <4>1. /\ fenceWork' = [fenceWork EXCEPT ![Obtain(unusedFences, fences)] = 0]
            /\ UNCHANGED fencesInFlight
        BY <3>3 DEF ReturnFence
      <4>2. fenceWork[f] > finished
        BY <1>0, <2>2, <4>1
      <4>3. QED
        BY <1>1, <4>1, <4>2
    <3>4. ASSUME NEW g \in Objects, SubmitFence(g, lastSubmitted + 1)
          PROVE  \E e \in fencesInFlight' : f = e.fence
      <4>1. /\ fencesInFlight' = fencesInFlight \union {[fence |-> g, serial |-> lastSubmitted + 1]}
            /\ fenceWork' = [fenceWork EXCEPT ![g] = lastSubmitted + 1]
        BY <3>4 DEF SubmitFence
      <4>2. CASE f = g
        <5>1. [fence |-> g, serial |-> lastSubmitted + 1].fence = f
          BY <4>2
        <5>2. QED
          BY <4>1, <5>1
      <4>3. CASE f # g
        <5>1. fenceWork[f] > finished
          BY <1>0, <2>2, <4>1, <4>3
        <5>2. QED
          BY <1>1, <4>1, <5>1
      <4>4. QED
        BY <4>2, <4>3
    <3>5. QED
      BY <1>4, <3>1, <3>2, <3>3, <3>4, FenceSteps, Obtained DEF TypeOK, QueueTypeOK, IdleWait
  <2>3. QED
    BY <2>1, <2>2
<1>5. QED
  BY <1>2, <1>3, <1>4

-----------------------------------------------------------------------------
(* What a step may do to the tasks: a request s, or the loss of it, is     *)
(* added, or tasks are handed on.                                          *)
Tracks(r, s, n) ==
    /\ CanCall /\ state = "Alive"
    /\ Asked(r, s) /\ TrackTask(r, n)
    /\ s \in Nat /\ n \in Nat /\ s <= n /\ n <= lastSubmitted + 1
    /\ n <= lastSubmitted \/ context'.needsSubmit
    /\ UNCHANGED <<calls, state, lastSubmitted, completed, finished, callbacks, running>>

LEMMA TaskSteps ==
    ASSUME TypeOK, ContextOK, [Next]_vars
    PROVE  \/ UNCHANGED taskVars
           \/ \E r \in Requests :
                 OnSubmittedWorkDoneLost(r) \/ \E s, n \in Nat : Tracks(r, s, n)
           \/ TickTasks \/ LoseTasks \/ MarkCallbacks \/ Flush \/ Execute
<1>0. /\ lastSubmitted \in Nat /\ context.used \in BOOLEAN /\ context.needsSubmit \in BOOLEAN
      /\ context.needsSubmit => context.used
      /\ Flushed(context).needsSubmit = (context.needsSubmit \/ context.used)
  BY DEF TypeOK, QueueTypeOK, Serials, ContextOK, Flushed
<1>1. ASSUME NEW r \in Requests, OnSubmittedWorkDone(r)
      PROVE  \E s, n \in Nat : Tracks(r, s, n)
  <2> DEFINE s == RecordedSerial
             n == ScheduledWorkDoneSerial(Flushed(context))
  <2>1. /\ CanCall /\ state = "Alive" /\ Asked(r, s) /\ TrackTask(r, n)
        /\ context' = Flushed(context)
        /\ UNCHANGED <<calls, state, lastSubmitted, completed, finished, callbacks, running>>
    BY <1>1 DEF OnSubmittedWorkDone
  <2>2. /\ s \in Nat /\ n \in Nat /\ s <= n /\ n <= lastSubmitted + 1
        /\ n <= lastSubmitted \/ Flushed(context).needsSubmit
    BY <1>0 DEF RecordedSerial, ScheduledWorkDoneSerial, PendingSerial
  <2> HIDE DEF s, n
  <2>3. Tracks(r, s, n)
    BY <2>1, <2>2 DEF Tracks
  <2>4. QED
    BY <2>2, <2>3
<1>2. ASSUME NEW r \in Requests, TrackLastUse(r)
      PROVE  \E s, n \in Nat : Tracks(r, s, n)
  <2>1. PICK s \in 0 .. RecordedSerial :
          /\ Asked(r, s)
          /\ context' = IF s > lastSubmitted THEN Flushed(context) ELSE context
          /\ TrackTask(r, s)
    BY <1>2 DEF TrackLastUse
  <2>2. /\ CanCall /\ state = "Alive"
        /\ UNCHANGED <<calls, state, lastSubmitted, completed, finished, callbacks, running>>
    BY <1>2 DEF TrackLastUse
  <2>3. /\ s \in Nat /\ s <= lastSubmitted + 1 /\ s <= s
        /\ s <= lastSubmitted \/ Flushed(context).needsSubmit
    BY <1>0 DEF RecordedSerial, PendingSerial
  <2>4. s <= lastSubmitted \/ context'.needsSubmit
    <3>1. CASE s <= lastSubmitted
      BY <3>1
    <3>2. CASE s > lastSubmitted
      BY <1>0, <2>1, <2>3, <3>2
    <3>3. QED
      BY <1>0, <2>3, <3>1, <3>2
  <2>5. Tracks(r, s, s)
    BY <2>1, <2>2, <2>3, <2>4 DEF Tracks
  <2>6. QED
    BY <2>3, <2>5
<1>3. CASE RecordWork \/ Submit \/ APITick \/ FlushForWait \/ APIDestroy \/ DropLastRef
  BY <1>3 DEF RecordWork, Submit, APITick, FlushForWait, APIDestroy, DropLastRef
<1>4. CASE Wait \/ Gpu \/ UNCHANGED vars
  BY <1>4 DEF Wait, WaiterTakes, WaiterCompares, WaiterStores, Gpu
<1>5. CASE \/ Tick \/ CheckDebugLayer \/ CheckPassedSerials \/ Recycle \/ SubmitPendingCommands
           \/ Disconnect \/ IdleWait \/ Assume \/ Destroyed
  BY <1>5
     DEF Tick, CheckDebugLayer, CheckPassedSerials, Recycle, SubmitPendingCommands, Disconnect, IdleWait, Assume,
         Destroyed
<1>6. QED
  BY <1>1, <1>2, <1>3, <1>4, <1>5 DEF Next, Call, CallStep

TaskTypeOK ==
    /\ tasks \subseteq Task /\ callbacks \in Marks
    /\ queued \subseteq Marked /\ running \subseteq Marked
    /\ answer \in [Requests -> Answers] /\ need \in [Requests -> Nat]

(* A request that is asked is put in one place, and leaves it for one.     *)
LEMMA RequestsStep ==
    ASSUME TypeOK, ContextOK, RequestsOK, [Next]_vars
    PROVE  RequestsOK' /\ TaskTypeOK'
<1> USE DEF RequestsOK, TaskTypeOK, Task, Marked, Serials
<1>0. TaskTypeOK
  BY DEF TypeOK
<1>1. CASE UNCHANGED taskVars
  BY <1>0, <1>1
<1>2. ASSUME NEW r \in Requests, NEW s \in Nat, Asked(r, s)
      PROVE  /\ \A x \in tasks \union queued \union running :
                  x.task # r /\ x.task \in Requests /\ answer'[x.task] = "asked"
             /\ answer'[r] = "asked"
             /\ answer' \in [Requests -> Answers] /\ need' \in [Requests -> Nat]
  BY <1>0, <1>2 DEF Asked, Answers
<1>3. ASSUME NEW r \in Requests, NEW s \in Nat, Asked(r, s), UNCHANGED <<tasks, callbacks, running>>,
             NEW new \in Marked, new.task = r, queued' = queued \union {new}
      PROVE  RequestsOK' /\ TaskTypeOK'
  <2>1. TaskTypeOK'
    BY <1>0, <1>2, <1>3
  <2>2. \A x \in tasks' \union queued' \union running' : answer'[x.task] = "asked"
    BY <1>2, <1>3
  <2>3. \A x \in tasks \union queued \union running : x.task # new.task
    BY <1>2, <1>3
  <2>4. QED
    BY <1>3, <2>1, <2>2, <2>3
<1>4. ASSUME NEW r \in Requests, NEW s \in Nat, Asked(r, s), UNCHANGED <<queued, callbacks, running>>,
             NEW new \in Task, new.task = r, tasks' = tasks \union {new}
      PROVE  RequestsOK' /\ TaskTypeOK'
  <2>1. TaskTypeOK'
    BY <1>0, <1>2, <1>4
  <2>2. \A x \in tasks' \union queued' \union running' : answer'[x.task] = "asked"
    BY <1>2, <1>4
  <2>3. \A x \in tasks \union queued \union running : x.task # new.task
    BY <1>2, <1>4
  <2>4. QED
    BY <1>4, <2>1, <2>2, <2>3
<1>5. ASSUME NEW r \in Requests, OnSubmittedWorkDoneLost(r)
      PROVE  RequestsOK' /\ TaskTypeOK'
  <2> DEFINE new == [task |-> r, mark |-> "DeviceLoss"]
  <2>1. /\ Asked(r, 0) /\ UNCHANGED <<tasks, callbacks, running>>
        /\ queued' = queued \union {new}
        /\ new \in Marked /\ new.task = r
    BY <1>5 DEF OnSubmittedWorkDoneLost, Marks
  <2> HIDE DEF new
  <2>2. QED
    BY <1>3, <2>1
<1>6. ASSUME NEW r \in Requests, NEW s \in Nat, NEW n \in Nat, Tracks(r, s, n)
      PROVE  RequestsOK' /\ TaskTypeOK'
  <2>1. CASE n <= completed
    <3> DEFINE new == [task |-> r, mark |-> callbacks]
    <3>1. queued' = queued \union {[task |-> x, mark |-> callbacks] : x \in {r}} /\ UNCHANGED tasks
      BY <1>6, <2>1 DEF Tracks, TrackTask, AddCallbackTasks
    <3>2. /\ Asked(r, s) /\ UNCHANGED <<callbacks, running>>
          /\ new \in Marked /\ new.task = r
      BY <1>0, <1>6 DEF Tracks
    <3>3. queued' = queued \union {new}
      BY <3>1
    <3> HIDE DEF new
    <3>4. QED
      BY <1>3, <3>1, <3>2, <3>3
  <2>2. CASE ~(n <= completed)
    <3> DEFINE new == [task |-> r, serial |-> n]
    <3>1. tasks' = tasks \union {new} /\ UNCHANGED queued
      BY <1>6, <2>2 DEF Tracks, TrackTask
    <3>2. Asked(r, s) /\ UNCHANGED <<callbacks, running>> /\ new \in Task /\ new.task = r
      BY <1>6 DEF Tracks
    <3> HIDE DEF new
    <3>3. QED
      BY <1>4, <3>1, <3>2
  <2>3. QED
    BY <2>1, <2>2
<1>7. ASSUME NEW done \in SUBSET tasks, NEW mark \in Marks, tasks' = tasks \ done,
             \A q \in queued' : q \in queued \/ \E x \in done : q = [task |-> x.task, mark |-> mark],
             UNCHANGED <<callbacks, running, answer, need>>
      PROVE  RequestsOK' /\ TaskTypeOK'
  <2>1. \A q \in queued' : q \in queued \/ \E x \in done : q = [task |-> x.task, mark |-> mark]
    BY <1>7
  <2>2. \A q \in queued' : q \in queued \/ \E x \in done : q.task = x.task /\ q.mark = mark
    BY <2>1
  <2>3. TaskTypeOK'
    <3>1. \A x \in done : [task |-> x.task, mark |-> mark] \in Marked
      BY <1>0
    <3>2. queued' \subseteq Marked
      BY <1>0, <2>1, <3>1
    <3>3. QED
      BY <1>0, <1>7, <3>2
  <2>4. \A x \in tasks' \union queued' \union running' : answer'[x.task] = "asked"
    BY <1>7, <2>2
  <2>5. /\ \A x \in tasks', q \in queued' \union running' : x.task # q.task
        /\ \A q \in queued', x \in running' : q.task # x.task
    BY <1>7, <2>2
  <2>6. \A x, y \in queued' : x.task = y.task => x = y
    BY <2>1, <2>2
  <2>7. QED
    BY <1>7, <2>3, <2>4, <2>5, <2>6
<1>8. CASE TickTasks
  <2> DEFINE done == {x \in tasks : x.serial <= completed}
  <2>1. /\ tasks' = tasks \ done
        /\ queued' = queued \union {[task |-> r, mark |-> callbacks] : r \in {x.task : x \in done}}
        /\ UNCHANGED <<callbacks, running, answer, need>>
    BY <1>8 DEF TickTasks, AddCallbackTasks
  <2>2. done \in SUBSET tasks
    OBVIOUS
  <2> HIDE DEF done
  <2>3. \A q \in queued' : q \in queued \/ \E x \in done : q = [task |-> x.task, mark |-> callbacks]
    BY <2>1
  <2>4. callbacks \in Marks
    BY <1>0
  <2>5. QED
    BY <1>7, <2>1, <2>2, <2>3, <2>4
<1>9. CASE LoseTasks
  <2>1. /\ tasks' = tasks \ tasks /\ "DeviceLoss" \in Marks
        /\ \A q \in queued' :
             q \in queued \/ \E x \in tasks : q = [task |-> x.task, mark |-> "DeviceLoss"]
        /\ UNCHANGED <<callbacks, running, answer, need>>
    BY <1>9 DEF LoseTasks, Marks
  <2>2. QED
    BY <1>7, <2>1
<1>10. CASE MarkCallbacks
  <2>1. /\ UNCHANGED <<tasks, running, answer, need>>
        /\ \/ UNCHANGED <<callbacks, queued>>
           \/ \E mark \in Marks :
                 /\ callbacks' = mark
                 /\ queued' = {[q EXCEPT !.mark = IF @ = "Normal" THEN mark ELSE @] : q \in queued}
    <3>1. UNCHANGED <<tasks, running, answer, need>>
      BY <1>10 DEF MarkCallbacks
    <3>2. PICK mark \in {"DeviceLoss", "ShutDown"} : MarkQueued(mark)
      BY <1>10 DEF MarkCallbacks
    <3>3. QED
      BY <3>1, <3>2 DEF MarkQueued, Marks
  <2>2. CASE UNCHANGED <<callbacks, queued>>
    BY <1>0, <1>1, <2>1, <2>2
  <2>3. ASSUME NEW mark \in Marks, callbacks' = mark,
               queued' = {[q EXCEPT !.mark = IF @ = "Normal" THEN mark ELSE @] : q \in queued}
        PROVE  RequestsOK' /\ TaskTypeOK'
    <3> DEFINE New(q) == [q EXCEPT !.mark = IF @ = "Normal" THEN mark ELSE @]
    <3>1. \A q \in queued : New(q) \in Marked /\ New(q).task = q.task
      BY <1>0
    <3>2. queued' = {New(q) : q \in queued}
      BY <2>3
    <3> HIDE DEF New
    <3>3. TaskTypeOK'
      BY <1>0, <2>1, <2>3, <3>1, <3>2
    <3>4. \A x \in queued' : \E q \in queued : x = New(q) /\ x.task = q.task
      BY <3>1, <3>2
    <3>5. \A x, y \in queued' : x.task = y.task => x = y
      BY <3>4
    <3>6. QED
      BY <2>1, <3>3, <3>4, <3>5
  <2>4. QED
    BY <2>1, <2>2, <2>3
<1>11. CASE Flush
  BY <1>0, <1>11 DEF Flush
<1>12. CASE Execute
  <2>1. PICK x \in running :
          /\ running' = running \ {x}
          /\ answer' = [answer EXCEPT ![x.task] = IF @ = "asked" THEN Told(x.mark) ELSE "again"]
          /\ UNCHANGED <<tasks, callbacks, queued, need>>
    BY <1>12 DEF Execute
  <2>2. answer' = [answer EXCEPT ![x.task] = Told(x.mark)] /\ Told(x.mark) \in Answers
    BY <1>0, <2>1 DEF Told, Answers
  <2>3. \A y \in tasks' \union queued' \union running' : y.task # x.task
    BY <2>1
  <2>4. \A y \in tasks' \union queued' \union running' : answer'[y.task] = "asked"
    BY <1>0, <2>1, <2>2, <2>3
  <2>5. TaskTypeOK'
    BY <1>0, <2>1, <2>2
  <2>6. QED
    BY <2>1, <2>4, <2>5
<1>13. QED
  BY <1>1, <1>5, <1>6, <1>8, <1>9, <1>10, <1>11, <1>12, TaskSteps

(* A task is handed on when what its request needs is finished, or with    *)
(* the mark of a device that is gone.                                      *)
LEMMA NeedsStep ==
    ASSUME TypeOK, CallsOK, ContextOK, SerialsOK, RequestsOK, NeedsOK, [Next]_vars
    PROVE  NeedsOK'
<1>0. /\ lastSubmitted \in Nat /\ lastSubmitted' \in Nat /\ lastSubmitted <= lastSubmitted'
      /\ finished \in Nat /\ finished' \in Nat /\ finished <= finished'
      /\ completed \in Nat /\ calls \in Seq(Steps)
      /\ (state = "Alive" /\ callbacks = "Normal") => completed <= finished
  BY SerialsGrow DEF TypeOK, QueueTypeOK, Serials, SerialsOK
<1>1. Gone => Gone'
  BY GoneStays DEF Gone
<1>2. /\ \A x \in tasks : x.task \in Requests /\ x.serial \in Nat /\ need[x.task] \in Nat
      /\ \A x \in queued \union running : x.task \in Requests /\ need[x.task] \in Nat
  BY DEF TypeOK, Task, Marked, Serials
<1>3. \A x \in tasks : need[x.task] <= x.serial /\ x.serial <= lastSubmitted' + 1
  BY <1>0, <1>2 DEF NeedsOK
<1>4. \A q \in queued \union running : IF q.mark = "Normal" THEN need[q.task] <= finished' ELSE Gone'
  BY <1>0, <1>1, <1>2 DEF NeedsOK
<1>5. CASE UNCHANGED taskVars
  BY <1>3, <1>4, <1>5 DEF NeedsOK
<1>6. ASSUME NEW r \in Requests, NEW s \in Nat, Asked(r, s)
      PROVE  /\ need'[r] = s
             /\ \A x \in tasks \union queued \union running : need'[x.task] = need[x.task]
  <2>1. \A x \in tasks \union queued \union running : x.task # r
    BY <1>6 DEF RequestsOK, Asked
  <2>2. need \in [Requests -> Nat]
    BY DEF TypeOK, Serials
  <2>3. QED
    BY <1>2, <1>6, <2>1, <2>2 DEF Asked
<1>7. ASSUME NEW r \in Requests, OnSubmittedWorkDoneLost(r) PROVE NeedsOK'
  <2> DEFINE new == [task |-> r, mark |-> "DeviceLoss"]
  <2>1. /\ Asked(r, 0) /\ UNCHANGED <<tasks, running>> /\ queued' = queued \union {new}
        /\ new.mark # "Normal" /\ Gone
    BY <1>7 DEF OnSubmittedWorkDoneLost, Gone
  <2> HIDE DEF new
  <2>2. QED
    BY <1>1, <1>3, <1>4, <1>6, <2>1 DEF NeedsOK
<1>8. ASSUME NEW r \in Requests, NEW s \in Nat, NEW n \in Nat, Tracks(r, s, n)
      PROVE  NeedsOK'
  <2>1. /\ Asked(r, s) /\ state = "Alive" /\ s <= n /\ n <= lastSubmitted' + 1 /\ UNCHANGED running
    BY <1>0, <1>8 DEF Tracks
  <2>2. /\ need'[r] = s
        /\ \A x \in tasks \union queued \union running : need'[x.task] = need[x.task]
    BY <1>6, <2>1
  <2>3. CASE n <= completed
    <3> DEFINE new == [task |-> r, mark |-> callbacks]
    <3>1. queued' = queued \union {[task |-> x, mark |-> callbacks] : x \in {r}} /\ UNCHANGED tasks
      BY <1>8, <2>3 DEF Tracks, TrackTask, AddCallbackTasks
    <3>2. queued' = queued \union {new} /\ new.task = r /\ new.mark = callbacks
      BY <3>1
    <3>3. IF new.mark = "Normal" THEN need'[new.task] <= finished' ELSE Gone'
      <4>1. CASE callbacks = "Normal"
        BY <1>0, <2>1, <2>2, <2>3, <3>2, <4>1
      <4>2. CASE callbacks # "Normal"
        BY <1>1, <3>2, <4>2 DEF Gone
      <4>3. QED
        BY <4>1, <4>2
    <3> HIDE DEF new
    <3>4. QED
      BY <1>3, <1>4, <2>1, <2>2, <3>1, <3>2, <3>3 DEF NeedsOK
  <2>4. CASE ~(n <= completed)
    <3> DEFINE new == [task |-> r, serial |-> n]
    <3>1. tasks' = tasks \union {new} /\ UNCHANGED queued /\ new.task = r /\ new.serial = n
      BY <1>8, <2>4 DEF Tracks, TrackTask
    <3> HIDE DEF new
    <3>2. QED
      BY <1>3, <1>4, <2>1, <2>2, <3>1 DEF NeedsOK
  <2>5. QED
    BY <2>3, <2>4
<1>9. ASSUME NEW done \in SUBSET tasks, NEW mark, tasks' = tasks \ done,
             \A q \in queued' : q \in queued \/ \E x \in done : q = [task |-> x.task, mark |-> mark],
             IF mark = "Normal" THEN \A x \in done : need[x.task] <= finished' ELSE Gone',
             UNCHANGED <<running, need>>
      PROVE  NeedsOK'
  <2>1. \A q \in queued' : q \in queued \/ \E x \in done : q.task = x.task /\ q.mark = mark
    BY <1>9
  <2>2. QED
    BY <1>3, <1>4, <1>9, <2>1 DEF NeedsOK
<1>10. CASE TickTasks
  <2> DEFINE done == {x \in tasks : x.serial <= completed}
  <2>1. /\ tasks' = tasks \ done
        /\ queued' = queued \union {[task |-> r, mark |-> callbacks] : r \in {x.task : x \in done}}
        /\ UNCHANGED <<state, callbacks, running, need>>
        /\ calls # <<>> /\ Head(calls) = "TickTasks" /\ Return
    BY <1>10 DEF TickTasks, AddCallbackTasks, At
  <2>2. callbacks = "Normal" => state = "Alive"
    BY <1>0, <2>1, Returns DEF CallsOK
  <2>3. done \in SUBSET tasks /\ \A x \in done : x.serial <= completed
    OBVIOUS
  <2> HIDE DEF done
  <2>4. \A q \in queued' : q \in queued \/ \E x \in done : q = [task |-> x.task, mark |-> callbacks]
    BY <2>1
  <2>5. callbacks = "Normal" => \A x \in done : need[x.task] <= finished'
    BY <1>0, <1>2, <1>3, <2>2, <2>3
  <2>6. callbacks # "Normal" => Gone'
    BY <1>1 DEF Gone
  <2>7. IF callbacks = "Normal" THEN \A x \in done : need[x.task] <= finished' ELSE Gone'
    BY <2>5, <2>6
  <2>8. tasks' = tasks \ done /\ UNCHANGED <<running, need>>
    BY <2>1
  <2>9. QED
    BY <1>9, <2>3, <2>4, <2>7, <2>8
<1>11. CASE LoseTasks
  <2>1. /\ tasks' = tasks \ tasks
        /\ \A q \in queued' :
             q \in queued \/ \E x \in tasks : q = [task |-> x.task, mark |-> "DeviceLoss"]
        /\ UNCHANGED <<running, need>>
        /\ calls # <<>> /\ Head(calls) = "LoseTasks" /\ Return
    BY <1>11 DEF LoseTasks, At
  <2>2. Gone'
    <3>1. Will("LoseTasks") /\ ~Will("Disconnect")
      BY <1>0, <2>1, Returns
    <3>2. QED
      BY <1>1, <3>1 DEF CallsOK, Gone
  <2>3. QED
    BY <1>9, <2>1, <2>2
<1>12. CASE MarkCallbacks
  <2>1. UNCHANGED <<tasks, running, need>>
    BY <1>12 DEF MarkCallbacks
  <2>2. PICK mark \in {"DeviceLoss", "ShutDown"} : MarkQueued(mark)
    BY <1>12 DEF MarkCallbacks
  <2>3. CASE callbacks # "Normal"
    BY <1>3, <1>4, <2>1, <2>2, <2>3 DEF MarkQueued, NeedsOK
  <2>4. CASE callbacks = "Normal"
    <3> DEFINE New(q) == [q EXCEPT !.mark = IF @ = "Normal" THEN mark ELSE @]
    <3>1. \A q \in queued : New(q).task = q.task /\ New(q).mark # "Normal"
      BY DEF TypeOK, Marked
    <3>2. queued' = {New(q) : q \in queued} /\ callbacks' = mark
      BY <2>2, <2>4 DEF MarkQueued
    <3> HIDE DEF New
    <3>3. Gone'
      BY <3>2 DEF Gone
    <3>4. QED
      BY <1>3, <1>4, <2>1, <3>1, <3>2, <3>3 DEF NeedsOK
  <2>5. QED
    BY <2>3, <2>4
<1>13. CASE Flush
  BY <1>3, <1>4, <1>13 DEF Flush, NeedsOK
<1>14. CASE Execute
  BY <1>3, <1>4, <1>14 DEF Execute, NeedsOK
<1>15. QED
  BY <1>5, <1>7, <1>8, <1>10, <1>11, <1>12, <1>13, <1>14, TaskSteps

(* A task waits for what is submitted or is marked to be.                  *)
LEMMA TasksStep ==
    ASSUME TypeOK, CallsOK, ContextOK, NeedsOK, SerialsOK, TasksWillPass, [Next]_vars
    PROVE  TasksWillPass'
<1> SUFFICES ASSUME state' = "Alive", callbacks' = "Normal"
             PROVE  \A x \in tasks' : x.serial <= lastSubmitted' \/ context'.needsSubmit
  BY DEF TasksWillPass
<1>0. /\ lastSubmitted \in Nat /\ lastSubmitted' \in Nat /\ lastSubmitted <= lastSubmitted'
      /\ \A x \in tasks : x.serial \in Nat /\ x.serial <= lastSubmitted + 1
      /\ calls \in Seq(Steps)
  BY SerialsGrow DEF TypeOK, QueueTypeOK, Serials, Task, NeedsOK
<1>1. /\ state = "Alive" /\ callbacks = "Normal"
      /\ \A x \in tasks : x.serial <= lastSubmitted \/ context.needsSubmit
  BY GoneStays DEF TasksWillPass
<1>2. ~IdleWait
  <2>1. SUFFICES ASSUME IdleWait PROVE FALSE
    OBVIOUS
  <2>2. calls # <<>> /\ Return /\ Head(calls) = "WaitForIdle"
    BY <2>1 DEF IdleWait, At
  <2>3. Will("Assume")
    BY <1>0, <2>2, Returns
  <2>4. QED
    BY <1>1, <2>2, <2>3 DEF CallsOK, At
<1>3. ~Destroyed
  BY DEF Destroyed
<1>4. \A x \in tasks : x.serial <= lastSubmitted' \/ context'.needsSubmit
  <2>1. CASE SubmitsPool /\ lastSubmitted' = lastSubmitted + 1
    BY <1>0, <2>1
  <2>2. CASE context.needsSubmit => context'.needsSubmit
    BY <1>0, <1>1, <2>2
  <2>3. \A normal \in BOOLEAN : Record(normal) => (context.needsSubmit => context'.needsSubmit)
    BY DEF Record, TypeOK, QueueTypeOK
  <2>4. context' = Flushed(context) => (context.needsSubmit => context'.needsSubmit)
    BY DEF Flushed, TypeOK, QueueTypeOK
  <2>5. QED
    BY <1>2, <1>3, <2>1, <2>2, <2>3, <2>4, PoolSteps
<1>5. ASSUME NEW x \in tasks'
      PROVE  x \in tasks \/ x.serial <= lastSubmitted' \/ context'.needsSubmit
  <2>1. CASE \E r \in Requests : \E s, n \in Nat : Tracks(r, s, n)
    <3>1. PICK r \in Requests, s \in Nat, n \in Nat : Tracks(r, s, n)
      BY <2>1
    <3>2. /\ n <= lastSubmitted \/ context'.needsSubmit
          /\ tasks' = tasks \/ tasks' = tasks \union {[task |-> r, serial |-> n]}
      BY <3>1 DEF Tracks, TrackTask
    <3>3. x \in tasks \/ x.serial = n
      BY <3>2
    <3>4. QED
      BY <1>0, <3>2, <3>3
  <2>2. CASE tasks' \subseteq tasks
    BY <2>2
  <2>3. QED
    BY <2>1, <2>2, TaskSteps
       DEF OnSubmittedWorkDoneLost, TickTasks, LoseTasks, MarkCallbacks, Flush, Execute
<1>6. QED
  BY <1>4, <1>5

-----------------------------------------------------------------------------
LEMMA TypeStep ==
    ASSUME IInv, [Next]_vars
    PROVE  TypeOK'
<1> USE DEF IInv, QInv
<1>1. QueueTypeOK'
  <2>1. /\ lastSubmitted' \in Nat /\ completed' \in Nat /\ finished' \in Nat
        /\ driverLost' \in BOOLEAN
    BY SerialsStep, SerialsGrow
  <2>2. FenceTypeOK' /\ PoolTypeOK'
    BY FencesStep, PoolsStep
  <2>3. QED
    BY <2>1, <2>2 DEF QueueTypeOK, FenceTypeOK, PoolTypeOK, Serials
<1>2. state' \in {"Alive", "BeingDisconnected", "Disconnected", "Destroyed"}
  BY GoneStays DEF Disconnect, Destroyed, TypeOK
<1>3. released' \in BOOLEAN
  <2>1. UNCHANGED released \/ DropLastRef
    <3>1. CASE Call \/ Flush \/ Execute \/ Wait \/ Gpu \/ UNCHANGED vars
      BY <3>1
         DEF Call, RecordWork, Submit, APITick, FlushForWait, APIDestroy,
             OnSubmittedWorkDone, OnSubmittedWorkDoneLost, TrackLastUse, Flush, Execute, Gpu, Wait,
             WaiterTakes, WaiterCompares, WaiterStores
    <3>2. CASE CallStep
      BY <3>2
         DEF CallStep, Tick, CheckDebugLayer, CheckPassedSerials, Recycle, SubmitPendingCommands, TickTasks, IdleWait,
             Assume, LoseTasks, MarkCallbacks, Disconnect, Destroyed
    <3>3. QED
      BY <3>1, <3>2 DEF Next
  <2>2. QED
    BY <2>1 DEF DropLastRef, TypeOK
<1>4. calls' \in Seq(Steps)
  BY CallsStep
<1>5. TaskTypeOK'
  BY RequestsStep
<1>6. waiter' \in [Waiters -> WaiterStates]
  BY WaitersStep
<1>7. QED
  BY <1>1, <1>2, <1>3, <1>4, <1>5, <1>6 DEF TypeOK, TaskTypeOK, Serials

LEMMA InitOK == Init => IInv
<1> SUFFICES ASSUME Init PROVE IInv
  OBVIOUS
<1> USE DEF Init, QueueInit
<1>1. /\ Obtain({}, {}) \in Objects /\ context = Fresh(Obtain({}, {})) /\ pools = {Obtain({}, {})}
      /\ NoPool \notin Objects
  BY Obtained, QueueBounds DEF Available
<1>2. /\ context.pool = Obtain({}, {}) /\ ~context.used /\ ~context.needsSubmit
      /\ context \in [used: BOOLEAN, needsSubmit: BOOLEAN, pool: Objects \union {NoPool}]
  BY <1>1 DEF Fresh
<1>3. calls = <<>> /\ \A step : ~Will(step)
  BY NothingLeft
<1>4. TypeOK
  <2>1. QueueTypeOK
    BY <1>1, <1>2 DEF QueueTypeOK, Serials
  <2>2. waiter \in [Waiters -> WaiterStates]
    BY DEF WaiterStates, Serials
  <2>3. calls \in Seq(Steps)
    BY <1>3
  <2>4. QED
    BY <2>1, <2>2, <2>3 DEF TypeOK, Answers, Serials, Marks
<1>5. CallsOK
  <2>1. Orderly(calls)
    BY <1>3 DEF Orderly
  <2>2. QED
    BY <1>1, <1>2, <1>3, <2>1 DEF CallsOK
<1>6. FencesOK /\ PoolsOK /\ ContextOK
  BY <1>1, <1>2 DEF FencesOK, PoolsOK, ContextOK
<1>7. SerialsOK /\ QuietOK
  BY <1>2, <1>3 DEF SerialsOK, QuietOK
<1>8. InUseIsKept
  BY DEF InUseIsKept
<1>9. RequestsOK /\ NeedsOK /\ TasksWillPass
  BY DEF RequestsOK, NeedsOK, TasksWillPass
<1>10. QED
  BY <1>4, <1>5, <1>6, <1>7, <1>8, <1>9 DEF IInv, QInv

LEMMA NextOK == IInv /\ [Next]_vars => IInv'
<1> SUFFICES ASSUME IInv, [Next]_vars PROVE IInv'
  OBVIOUS
<1>1. TypeOK'
  BY TypeStep
<1>2. CallsOK'
  BY CallsStep DEF IInv, QInv
<1>3. FencesOK' /\ PoolsOK' /\ ContextOK'
  BY FencesStep, PoolsStep DEF IInv, QInv
<1>4. SerialsOK' /\ QuietOK' /\ InUseIsKept'
  BY SerialsStep, QuietStep, InUseStep DEF IInv, QInv
<1>5. RequestsOK' /\ NeedsOK' /\ TasksWillPass'
  BY RequestsStep, NeedsStep, TasksStep DEF IInv, QInv
<1>6. QED
  BY <1>1, <1>2, <1>3, <1>4, <1>5 DEF IInv, QInv

(* The inductive invariant holds.                                          *)
THEOREM InductiveInvariant == Spec => []IInv
<1>1. Init /\ [][Next]_vars => []IInv
  BY InitOK, NextOK, PTL
<1>2. QED
  BY <1>1, PTL DEF Spec

-----------------------------------------------------------------------------
(* Every variable of the queue and of the device keeps its type, and no    *)
(* request is answered twice.                                              *)
THEOREM TypeCorrect == Spec => []TypeOK
<1>1. IInv => TypeOK
  BY DEF IInv, QInv
<1>2. QED
  BY <1>1, InductiveInvariant, PTL

(* A fence and a pool have one owner each.                                 *)
LEMMA CountOwners ==
    ASSUME NEW S, NEW P \in BOOLEAN, NEW Q \in BOOLEAN,
           \A d, e \in S : d = e, P => S = {}, Q <=> (P \/ S # {})
    PROVE  Cardinality(S) + Count(P) = Count(Q) /\ Cardinality(S) \in Nat
<1>1. CASE S = {}
  <2>1. Cardinality(S) = 0
    BY <1>1, FS_EmptySet
  <2>2. QED
    BY <1>1, <2>1 DEF Count
<1>2. CASE S # {}
  <2>1. PICK e \in S : S = {e}
    BY <1>2
  <2>2. Cardinality(S) = 1
    BY <2>1, FS_Singleton
  <2>3. P = FALSE /\ Q = TRUE
    BY <1>2
  <2>4. Count(P) = 0 /\ Count(Q) = 1
    BY <2>3 DEF Count
  <2>5. QED
    BY <2>2, <2>4
<1>3. QED
  BY <1>1, <1>2

LEMMA OwnersCounted == FencesOK /\ PoolsOK /\ TypeOK => OwnedOnce
<1> SUFFICES ASSUME FencesOK, PoolsOK, TypeOK PROVE OwnedOnce
  OBVIOUS
<1>1. ASSUME NEW f \in Objects
      PROVE  Cardinality({e \in fencesInFlight : e.fence = f}) + Count(f \in unusedFences)
               = Count(f \in fences)
  <2> DEFINE S == {e \in fencesInFlight : e.fence = f}
  <2>1. /\ \A d, e \in S : d = e
        /\ f \in unusedFences => S = {}
        /\ f \in fences <=> (f \in unusedFences \/ S # {})
    BY DEF FencesOK
  <2> DEFINE P == f \in unusedFences
             Q == f \in fences
  <2>2. P \in BOOLEAN /\ Q \in BOOLEAN /\ (P => S = {}) /\ (Q <=> (P \/ S # {}))
    BY <2>1
  <2> HIDE DEF S, P, Q
  <2>3. Cardinality(S) + Count(P) = Count(Q)
    BY <2>1, <2>2, CountOwners
  <2>4. QED
    BY <2>3 DEF S, P, Q
<1>2. ASSUME NEW p \in Objects
      PROVE  Cardinality({e \in commandsInFlight : e.pool = p}) + Count(p \in unusedPools)
                 + Count(p = context.pool)
               = Count(p \in pools)
  <2> DEFINE S == {e \in commandsInFlight : e.pool = p}
             P == p \in unusedPools
             R == p = context.pool
             Q == p \in pools
  <2>1. /\ \A d, e \in S : d = e
        /\ P \/ R => S = {}
        /\ Q <=> (P \/ R \/ S # {})
        /\ ~(P /\ R)
    BY QueueBounds DEF PoolsOK
  <2>2. P \in BOOLEAN /\ R \in BOOLEAN /\ Q \in BOOLEAN
    OBVIOUS
  <2> HIDE DEF S, P, Q, R
  <2>3. Cardinality(S) + Count(P \/ R) = Count(Q) /\ Cardinality(S) \in Nat
    <3> DEFINE O == P \/ R
    <3>1. O \in BOOLEAN /\ (O => S = {}) /\ (Q <=> (O \/ S # {}))
      BY <2>1
    <3> HIDE DEF O
    <3>2. Cardinality(S) + Count(O) = Count(Q) /\ Cardinality(S) \in Nat
      BY <2>1, <2>2, <3>1, CountOwners
    <3>3. QED
      BY <3>2 DEF O
  <2>4. Count(P \/ R) = Count(P) + Count(R) /\ Count(P) \in Nat /\ Count(R) \in Nat
    BY <2>1, <2>2 DEF Count
  <2>5. Cardinality(S) + Count(P) + Count(R) = Count(Q)
    BY <2>3, <2>4
  <2>6. QED
    BY <2>5 DEF S, P, Q, R
<1>3. QED
  BY <1>1, <1>2 DEF OwnedOnce

(* No Vulkan fence and no command pool is leaked or freed twice, whichever *)
(* of the calls in the middle of a submission that are modelled fails: all *)
(* but the export of semaphores (QueueVk.cpp:444).                         *)
THEOREM OwnedOnceAlways == Spec => []OwnedOnce
<1>1. IInv => OwnedOnce
  BY OwnersCounted DEF IInv, QInv
<1>2. QED
  BY <1>1, InductiveInvariant, PTL

(* What the GPU executes from or will signal is not reused or destroyed.   *)
THEOREM InUseIsKeptAlways == Spec => []InUseIsKept
<1>1. IInv => InUseIsKept
  BY DEF IInv, QInv
<1>2. QED
  BY <1>1, InductiveInvariant, PTL

(* The completed serial, checked by threads without the device's lock,     *)
(* runs ahead neither of the submissions nor, while the device lives, of   *)
(* the GPU.                                                                *)
THEOREM CompletedIsFinishedAlways == Spec => []CompletedIsFinished
<1>1. IInv => CompletedIsFinished
  BY DEF IInv, QInv, SerialsOK, CompletedIsFinished
<1>2. QED
  BY <1>1, InductiveInvariant, PTL

(* No task waits for a serial that nobody will submit.                     *)
THEOREM TasksWillPassAlways == Spec => []TasksWillPass
<1>1. IInv => TasksWillPass
  BY DEF IInv
<1>2. QED
  BY <1>1, InductiveInvariant, PTL

-----------------------------------------------------------------------------
(* The queue implements WorkDone.                                          *)
LEMMA AskMaps ==
    ASSUME IInv, NEW r \in Requests, NEW s \in Nat, Asked(r, s),
           UNCHANGED <<finished, state, callbacks>>
    PROVE  Promise!Ask(r)
<1>1. need' = [need EXCEPT ![r] = s] /\ need \in [Requests -> Nat]
  BY DEF Asked, IInv, QInv, TypeOK, Serials
<1>2. need'[r] = s
  BY <1>1
<1>3. QED
  BY <1>1, <1>2 DEF Asked, Promise!Ask

LEMMA ExecuteMaps ==
    ASSUME IInv, Execute
    PROVE  \E r \in Requests : Promise!Succeed(r) \/ Promise!Refuse(r)
<1>1. PICK x \in running :
        /\ answer' = [answer EXCEPT ![x.task] = IF @ = "asked" THEN Told(x.mark) ELSE "again"]
        /\ UNCHANGED <<need, finished, state, callbacks>>
  BY DEF Execute
<1>2. x.task \in Requests /\ answer[x.task] = "asked" /\ answer \in [Requests -> Answers]
  BY DEF IInv, QInv, TypeOK, RequestsOK, Marked
<1>3. IF x.mark = "Normal" THEN need[x.task] <= finished ELSE Gone
  BY DEF IInv, NeedsOK
<1>4. answer' = [answer EXCEPT ![x.task] = Told(x.mark)]
  BY <1>1, <1>2
<1>5. CASE x.mark = "Normal"
  BY <1>1, <1>2, <1>3, <1>4, <1>5 DEF Told, Promise!Succeed
<1>6. CASE x.mark # "Normal"
  BY <1>1, <1>2, <1>3, <1>4, <1>6 DEF Told, Promise!Refuse, Gone
<1>7. QED
  BY <1>5, <1>6

LEMMA StepMaps ==
    ASSUME IInv, [Next]_vars
    PROVE  [Promise!Next]_(Promise!workDoneVars)
<1>1. CASE UNCHANGED <<answer, need>>
  <2>1. CASE UNCHANGED <<state, callbacks>>
    <3>1. finished' >= finished
      BY SerialsGrow DEF IInv, QInv, TypeOK, QueueTypeOK, Serials
    <3>2. QED
      BY <1>1, <2>1, <3>1 DEF Promise!Next, Promise!Finish
  <2>2. CASE UNCHANGED finished
    <3>1. Gone' \/ ~Gone
      BY GoneStays DEF Gone
    <3>2. QED
      BY <1>1, <2>2, <3>1 DEF Gone, Promise!Next, Promise!Go, Promise!workDoneVars
  <2>3. QED
    BY <2>1, <2>2, GoneStays DEF Disconnect, Destroyed, DestroyQueue, MarkCallbacks
<1>2. ASSUME NEW r \in Requests, OnSubmittedWorkDoneLost(r)
      PROVE  [Promise!Next]_(Promise!workDoneVars)
  BY <1>2, AskMaps DEF OnSubmittedWorkDoneLost, Promise!Next
<1>3. ASSUME NEW r \in Requests, NEW s \in Nat, NEW n \in Nat, Tracks(r, s, n)
      PROVE  [Promise!Next]_(Promise!workDoneVars)
  BY <1>3, AskMaps DEF Tracks, Promise!Next
<1>4. CASE Execute
  BY <1>4, ExecuteMaps DEF Promise!Next
<1>5. QED
  BY <1>1, <1>2, <1>3, <1>4, TaskSteps
     DEF IInv, QInv, TickTasks, LoseTasks, MarkCallbacks, Flush

(* A request is answered once; success means that the GPU has finished     *)
(* what was recorded before it, a loss is told only when the device is     *)
(* gone, wherever an error, a device loss or a destruction comes in.       *)
THEOREM ImplementsWorkDone == Spec => KeepsWorkDone
<1>1. Init => Promise!Init
  BY DEF Init, QueueInit, Promise!Init
<1>2. IInv /\ [Next]_vars => [Promise!Next]_(Promise!workDoneVars)
  BY StepMaps
<1>3. QED
  BY <1>1, <1>2, InductiveInvariant, PTL DEF Spec, KeepsWorkDone, Promise!Spec

=============================================================================
