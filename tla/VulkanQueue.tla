----------------------------- MODULE VulkanQueue -----------------------------
(***************************************************************************)
(* Dawn's command serials (native/ExecutionQueue.cpp) and the Vulkan queue *)
(* below them (native/vulkan/QueueVk.cpp): the recording context, the      *)
(* fences that report finished submissions, and the command pools that are *)
(* recycled when a serial has passed.  Each operator is a piece of a call; *)
(* DawnQueue puts the pieces in the order in which Dawn makes them.        *)
(* External textures and their semaphores are left out.  Which of several  *)
(* unused fences or pools is taken next does not matter here, so they are  *)
(* sets; the GPU executes submissions in order.                            *)
(***************************************************************************)
EXTENDS Naturals, FiniteSetsExt

CONSTANTS
    Objects,   \* names of fences and of command pools; bound: when all of
               \* them exist another one cannot be made
    MaxSerial  \* bound: no work is recorded beyond this serial

NoPool == "none"

ASSUME QueueBounds == MaxSerial \in Nat /\ Objects # {} /\ NoPool \notin Objects

VARIABLES
    lastSubmitted,    \* mLastSubmittedSerial
    completed,        \* mCompletedSerial
    context,          \* mRecordingContext
    fencesInFlight,   \* mFencesInFlight, each with its serial
    unusedFences,     \* mUnusedFences
    commandsInFlight, \* mCommandsInFlight: pools, each with its serial
    unusedPools,      \* mUnusedCommands
    fences, pools,    \* the Vulkan objects that exist
    finished,         \* the GPU has executed submissions up to this serial
    fenceWork,        \* the submission that signals a fence, 0: reset
    poolWork,         \* the last submission that executes from a pool
    driverLost        \* the Vulkan device is lost

serialVars == <<lastSubmitted, completed>>
fenceVars == <<fencesInFlight, unusedFences, fences, fenceWork>>
poolVars == <<context, commandsInFlight, unusedPools, pools, poolWork>>
gpuVars == <<finished, driverLost>>
queueVars == <<serialVars, fenceVars, poolVars, gpuVars>>

Serials == Nat
FenceEntry == [fence: Objects, serial: Serials]
PoolEntry == [pool: Objects, serial: Serials]
Fresh(pool) == [used |-> FALSE, needsSubmit |-> FALSE, pool |-> pool]
Errors == IF driverLost THEN {"loss", "internal"} ELSE {"internal"}

QueueTypeOK ==
    /\ lastSubmitted \in Serials /\ completed \in Serials
    /\ context \in [used: BOOLEAN, needsSubmit: BOOLEAN, pool: Objects \union {NoPool}]
    /\ fencesInFlight \subseteq FenceEntry /\ commandsInFlight \subseteq PoolEntry
    /\ unusedFences \subseteq Objects /\ unusedPools \subseteq Objects
    /\ fences \subseteq Objects /\ pools \subseteq Objects
    /\ finished \in Serials /\ driverLost \in BOOLEAN
    /\ fenceWork \in [Objects -> Serials] /\ poolWork \in [Objects -> Serials]

(* GetUnusedFence and BeginVkCommandBuffer reuse an object or create one.  *)
Available(unused, existing) == IF unused # {} THEN unused ELSE Objects \ existing
Obtain(unused, existing) == CHOOSE o \in Available(unused, existing) : TRUE

(* Queue::Initialize prepares the first recording context.                 *)
QueueInit ==
    /\ lastSubmitted = 0 /\ completed = 0 /\ finished = 0
    /\ LET p == Obtain({}, {}) IN context = Fresh(p) /\ pools = {p}
    /\ fencesInFlight = {} /\ unusedFences = {} /\ fences = {}
    /\ commandsInFlight = {} /\ unusedPools = {}
    /\ fenceWork = [f \in Objects |-> 0] /\ poolWork = [p \in Objects |-> 0]
    /\ driverLost = FALSE

-----------------------------------------------------------------------------
(* The serials a caller sees.                                              *)
PendingSerial == lastSubmitted + 1
HasScheduledCommands == lastSubmitted > completed \/ context.needsSubmit

(* A mutant: the pending serial, whether or not it will be submitted.      *)
AlwaysPendingSerial(c) == PendingSerial

(* GetScheduledWorkDoneSerial, with the recording context c.               *)
ScheduledWorkDoneSerial(c) == IF c.needsSubmit THEN PendingSerial ELSE lastSubmitted

(* The serial of the latest work recorded so far, passive work included.   *)
RecordedSerial == IF context.used THEN PendingSerial ELSE lastSubmitted

(* GetPendingRecordingContext.                                             *)
Record(normal) ==
    context' = [context EXCEPT !.used = TRUE, !.needsSubmit = @ \/ normal]

(* ForceEventualFlushOfCommands.                                           *)
Flushed(c) == [c EXCEPT !.needsSubmit = @ \/ c.used]

-----------------------------------------------------------------------------
(* CheckAndUpdateCompletedSerials: fences are taken from the front of the  *)
(* queue while they are signalled.                                         *)
Signalled(f) == fenceWork[f] \in 1 .. finished

PassedFences ==
    {e \in fencesInFlight :
        \A d \in fencesInFlight : d.serial <= e.serial => Signalled(d.fence)}

(* A mutant: any signalled fence counts, whether or not it is the oldest.  *)
NewestSignalled(taken) == lastSubmitted

(* The serial that the fences taken report, 0 when there are none.         *)
SerialOf(taken) == Max({e.serial : e \in taken} \union {0})

TakeFences(taken) ==
    /\ fencesInFlight' = fencesInFlight \ taken
    /\ unusedFences' = unusedFences \union {e.fence : e \in taken}
    /\ UNCHANGED <<fences, fenceWork>>

(* The query of one of the fences may fail; the fences before it are taken *)
(* all the same.                                                           *)
FencesBeforeError(taken) ==
    /\ taken \in {{e \in PassedFences : e.serial <= s} :
                     s \in {0} \union {e.serial : e \in fencesInFlight}}
    /\ fencesInFlight \ taken # {}

-----------------------------------------------------------------------------
SubmitFence(f, s) ==
    /\ fencesInFlight' = fencesInFlight \union {[fence |-> f, serial |-> s]}
    /\ unusedFences' = unusedFences \ {f}
    /\ fences' = fences \union {f}
    /\ fenceWork' = [fenceWork EXCEPT ![f] = s]

(* A mutant: the fence of a failed submission is forgotten.                *)
ForgetFence(f) ==
    /\ unusedFences' = unusedFences \ {f}
    /\ fences' = fences \union {f}
    /\ fenceWork' = [fenceWork EXCEPT ![f] = 0]
    /\ UNCHANGED fencesInFlight

(* A failed submission puts the fence, which was reset, back.              *)
ReturnFence(f) ==
    /\ unusedFences' = unusedFences \union {f}
    /\ fences' = fences \union {f}
    /\ fenceWork' = [fenceWork EXCEPT ![f] = 0]
    /\ UNCHANGED fencesInFlight

(* The pool of the context goes in flight and BeginVkCommandBuffer gives   *)
(* the next context its pool; when that fails the pool is destroyed.       *)
SubmitPool(s) ==
    /\ commandsInFlight' = commandsInFlight \union {[pool |-> context.pool, serial |-> s]}
    /\ poolWork' = [poolWork EXCEPT ![context.pool] = s]

NextPool(p) ==
    /\ context' = Fresh(p)
    /\ unusedPools' = unusedPools \ {p}
    /\ pools' = pools \union {p}

NextPoolFails ==
    LET destroyed == IF unusedPools = {} THEN {} ELSE {Obtain(unusedPools, pools)}
    IN  /\ context' = Fresh(NoPool)
        /\ unusedPools' = unusedPools \ destroyed
        /\ pools' = pools \ destroyed

(* QueueSubmit has succeeded.                                              *)
Submitted(f) ==
    /\ lastSubmitted' = lastSubmitted + 1
    /\ SubmitFence(f, lastSubmitted + 1)
    /\ SubmitPool(lastSubmitted + 1)
    /\ UNCHANGED completed

-----------------------------------------------------------------------------
(* A mutant: pools are recycled up to the submitted serial.                *)
RecycleSubmitted ==
    LET done == {e \in commandsInFlight : e.serial <= lastSubmitted}
    IN  /\ commandsInFlight' = commandsInFlight \ done
        /\ unusedPools' = unusedPools \union {e.pool : e \in done}

RecycleCompletedCommands ==
    LET done == {e \in commandsInFlight : e.serial <= completed}
    IN  /\ commandsInFlight' = commandsInFlight \ done
        /\ unusedPools' = unusedPools \union {e.pool : e \in done}

(* WaitForIdleForDestruction: the context is given up, the GPU drained,    *)
(* the fences in flight destroyed.                                         *)
WaitForIdle ==
    /\ IF context.used
       THEN /\ context' = Fresh(NoPool)
            /\ unusedPools' = unusedPools \union {context.pool}
       ELSE UNCHANGED <<context, unusedPools>>
    /\ finished' = IF driverLost THEN finished ELSE lastSubmitted
    /\ fences' = fences \ {e.fence : e \in fencesInFlight}
    /\ fencesInFlight' = {}
    /\ UNCHANGED <<serialVars, unusedFences, fenceWork, commandsInFlight, pools,
                   poolWork, driverLost>>

AssumeCommandsComplete ==
    /\ lastSubmitted' = lastSubmitted + 1
    /\ completed' = lastSubmitted + 1

(* Queue::DestroyImpl destroys the pool of the context, the pools and the  *)
(* fences, in flight or not.                                               *)
DestroyQueue ==
    /\ context' = Fresh(NoPool)
    /\ pools' = pools \ ({context.pool} \union unusedPools \union {e.pool : e \in commandsInFlight})
    /\ fences' = fences \ (unusedFences \union {e.fence : e \in fencesInFlight})
    /\ commandsInFlight' = {} /\ unusedPools' = {}
    /\ fencesInFlight' = {} /\ unusedFences' = {}
    /\ UNCHANGED <<serialVars, gpuVars, fenceWork, poolWork>>

-----------------------------------------------------------------------------
(* The driver and the GPU, which are external.                             *)
Executing == {s \in {poolWork[p] : p \in Objects} : s > finished}

GpuFinish ==
    /\ ~driverLost
    /\ Executing # {}
    /\ finished' = Min(Executing)
    /\ UNCHANGED <<serialVars, fenceVars, poolVars, driverLost>>

DriverLoss ==
    /\ ~driverLost
    /\ driverLost' = TRUE
    /\ UNCHANGED <<serialVars, fenceVars, poolVars, finished>>

-----------------------------------------------------------------------------
Count(P) == IF P THEN 1 ELSE 0

(* Every fence and every pool that exists has exactly one owner: a list of *)
(* unused ones, one submission in flight or, for a pool, the recording     *)
(* context.  So nothing is leaked and nothing destroyed twice, whichever   *)
(* of the calls in the middle of a submission fails (QueueVk.cpp:338-432;  *)
(* the export of semaphores at 444, after which a failure would leave the  *)
(* context as it is, belongs to external textures and is not modelled).    *)
OwnedOnce ==
    /\ \A f \in Objects :
         Cardinality({e \in fencesInFlight : e.fence = f}) + Count(f \in unusedFences)
           = Count(f \in fences)
    /\ \A p \in Objects :
         Cardinality({e \in commandsInFlight : e.pool = p}) + Count(p \in unusedPools)
             + Count(p = context.pool)
           = Count(p \in pools)

(* What the GPU still executes from, or will still signal, is neither      *)
(* free for reuse, nor being recorded into, nor destroyed: recycling goes  *)
(* by the serials that fences report (QueueVk.cpp:143-171, 331-336), and   *)
(* not even a device loss recycles early.                                  *)
InUseIsKept ==
    ~driverLost =>
        /\ \A p \in Objects : poolWork[p] > finished => p \in {e.pool : e \in commandsInFlight}
        /\ \A f \in Objects : fenceWork[f] > finished => f \in {e.fence : e \in fencesInFlight}
=============================================================================
