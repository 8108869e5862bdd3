--------------------------- MODULE DynamicUploader ---------------------------
(***************************************************************************)
(* Dawn's DynamicUploader (native/DynamicUploader.cpp): staging memory for *)
(* uploads, taken from ring buffers and given back when the serial of the  *)
(* commands that read it has passed.  Of the queue only the serials are    *)
(* kept.  Staging buffers are numbered as they are made.                   *)
(***************************************************************************)
EXTENDS RingAllocator, SequencesExt

CONSTANTS
    Sizes, Alignments, \* what the application uploads
    MaxSerial, \* bound: no upload is made once this serial is submitted
    MaxBuffers, \* bound: no more staging buffers are made
    MaxRings \* bound: no more rings at a time

ASSUME UploaderBounds ==
    /\ Sizes \subseteq Nat \ {0} /\ Alignments \subseteq Nat \ {0}
    /\ MaxSerial \in Nat /\ MaxBuffers \in Nat /\ MaxRings \in Nat

VARIABLES
    rings,     \* mRingBuffers: the allocators
    buffers,   \* their staging buffers, 0 for one that is not made yet
    released,  \* mReleasedStagingBuffers
    made,      \* staging buffers made so far
    uploads,   \* what the GPU has still to read from staging buffers
    lastSubmitted, \* the queue's serial
    finished,  \* the GPU has executed submissions up to this serial
    upTo,      \* the argument of the last call of Deallocate
    at         \* the ring at which its loop is, 0 when it has returned

serials == <<lastSubmitted, finished>>
loop == <<upTo, at>>
vars == <<rings, buffers, released, made, uploads, serials, loop>>

NoBuffer == 0
Released == [buffer: Nat, serial: Nat]
Upload == [buffer: Nat, from: Nat, to: Nat, serial: Nat]

(* Every variable has its type; every ring has its place for a buffer.     *)
TypeOK ==
    /\ rings \in Seq(Ring) /\ rings # <<>>
    /\ buffers \in Seq(Nat) /\ Len(buffers) = Len(rings)
    /\ released \subseteq Released
    /\ made \in Nat
    /\ uploads \subseteq Upload
    /\ lastSubmitted \in Nat /\ finished \in Nat
    /\ upTo \in Nat /\ at \in 0 .. Len(rings)

Init ==
    /\ rings = <<EmptyRing>> /\ buffers = <<NoBuffer>>
    /\ released = {} /\ made = 0 /\ uploads = {}
    /\ lastSubmitted = 0 /\ finished = 0
    /\ upTo = 0 /\ at = 0

-----------------------------------------------------------------------------
PendingSerial == lastSubmitted + 1
CanUpload == at = 0 /\ lastSubmitted < MaxSerial

ToRead(buffer, from, size) ==
    [buffer |-> buffer, from |-> from, to |-> from + size, serial |-> PendingSerial]

(* A staging buffer is made, for this upload only: for one larger than a   *)
(* ring, or by a buffer that is mapped at creation.  It is released with   *)
(* the pending serial.                                                     *)
UploadAlone ==
    /\ CanUpload /\ made < MaxBuffers
    /\ \E size \in Sizes : uploads' = uploads \union {ToRead(made + 1, 0, size)}
    /\ made' = made + 1
    /\ released' = released \union {[buffer |-> made + 1, serial |-> PendingSerial]}
    /\ UNCHANGED <<rings, buffers, serials, loop>>

(* The first ring that has room, or one more.  Its staging buffer is made  *)
(* when it is first needed; if that fails, the request stays in the ring.  *)
UploadFrom(tried, places, i, size, alignment) ==
    LET ring == Allocate(tried[i], size, alignment, PendingSerial)
        buffer == IF places[i] = NoBuffer THEN made + 1 ELSE places[i]
    IN  /\ rings' = [tried EXCEPT ![i] = ring]
        /\ \/ /\ buffer <= MaxBuffers
              /\ buffers' = [places EXCEPT ![i] = buffer]
              /\ made' = IF places[i] = NoBuffer THEN made + 1 ELSE made
              /\ uploads' = uploads \union {ToRead(buffer, ring.end - size, size)}
           \/ /\ places[i] = NoBuffer
              /\ buffers' = places
              /\ UNCHANGED <<made, uploads>>

WithRoom(size, alignment) == {i \in DOMAIN rings : CanAllocate(rings[i], size, alignment)}

UploadFromRing ==
    /\ CanUpload
    /\ \E size \in Sizes, alignment \in Alignments, i \in DOMAIN rings :
         /\ size <= RingSize
         /\ i \in WithRoom(size, alignment)
         /\ \A j \in WithRoom(size, alignment) : i <= j
         /\ UploadFrom(rings, buffers, i, size, alignment)
    /\ UNCHANGED <<released, serials, loop>>

UploadFromNewRing ==
    /\ CanUpload /\ Len(rings) < MaxRings
    /\ \E size \in Sizes, alignment \in Alignments :
         /\ size <= RingSize
         /\ WithRoom(size, alignment) = {}
         /\ UploadFrom(Append(rings, EmptyRing), Append(buffers, NoBuffer), Len(rings) + 1, size, 1)
    /\ UNCHANGED <<released, serials, loop>>

-----------------------------------------------------------------------------
(* The queue submits and is ticked, or only ticked, which asks for the     *)
(* serial the GPU has reached; then Deallocate is called with it.          *)
Tick ==
    /\ at = 0
    /\ \/ lastSubmitted' = lastSubmitted
       \/ lastSubmitted < MaxSerial /\ lastSubmitted' = PendingSerial
    /\ upTo' = finished /\ at' = 1
    /\ UNCHANGED <<rings, buffers, released, made, uploads, finished>>

Gpu ==
    /\ finished < lastSubmitted
    /\ finished' = finished + 1
    /\ uploads' = {u \in uploads : u.serial > finished'}
    /\ UNCHANGED <<rings, buffers, released, made, lastSubmitted, loop>>

-----------------------------------------------------------------------------
(* The loop of Deallocate: requests whose serial has passed are reclaimed; *)
(* a ring with none left is erased, but for the last one.                  *)
CanReclaim == HasPassed(rings[at], upTo)
CanErase == IsEmpty(rings[at]) /\ at < Len(rings)

ReclaimOne ==
    /\ at # 0 /\ CanReclaim
    /\ rings' = [rings EXCEPT ![at] = Reclaim(@)]
    /\ UNCHANGED <<buffers, released, made, uploads, serials, loop>>

(* A mutant: the ring after an erased one is skipped.                      *)
EraseRingAndSkip ==
    /\ at # 0 /\ ~CanReclaim /\ CanErase
    /\ rings' = RemoveAt(rings, at) /\ buffers' = RemoveAt(buffers, at)
    /\ at' = IF at = Len(rings) - 1 THEN 0 ELSE at + 1
    /\ UNCHANGED <<released, made, uploads, serials, upTo>>

EraseRing ==
    /\ at # 0 /\ ~CanReclaim /\ CanErase
    /\ rings' = RemoveAt(rings, at) /\ buffers' = RemoveAt(buffers, at)
    /\ UNCHANGED <<released, made, uploads, serials, loop>>

NextRing ==
    /\ at # 0 /\ ~CanReclaim /\ ~CanErase /\ at < Len(rings)
    /\ at' = at + 1
    /\ UNCHANGED <<rings, buffers, released, made, uploads, serials, upTo>>

EndDeallocate ==
    /\ at = Len(rings) /\ ~CanReclaim
    /\ at' = 0
    /\ released' = {r \in released : r.serial > upTo}
    /\ UNCHANGED <<rings, buffers, made, uploads, serials, upTo>>

Next ==
    \/ UploadAlone \/ UploadFromRing \/ UploadFromNewRing
    \/ Tick \/ Gpu
    \/ ReclaimOne \/ EraseRing \/ NextRing \/ EndDeallocate

Spec == Init /\ [][Next]_vars

-----------------------------------------------------------------------------
(* What the GPU has still to read is there: it is in a released buffer     *)
(* that is kept, or a request of its ring still holds its bytes; no two    *)
(* requests of a ring share a byte, and no two rings a staging buffer      *)
(* (RingBufferAllocator.cpp:81-148, DynamicUploader.cpp:125-141).          *)
HeldByRing(u, i) ==
    /\ buffers[i] = u.buffer
    /\ \E j \in DOMAIN rings[i].requests :
         /\ rings[i].requests[j].from = u.from
         /\ rings[i].requests[j].endOffset = u.to

UploadsIntact ==
    /\ \A u \in uploads :
         \/ \E r \in released : r.buffer = u.buffer
         \/ \E i \in DOMAIN rings : HeldByRing(u, i)
    /\ \A i \in DOMAIN rings : Disjoint(rings[i])
    /\ \A i, j \in DOMAIN rings : i # j /\ buffers[i] # NoBuffer => buffers[i] # buffers[j]

(* An upload from a ring stays inside the ring, and mUsedSize is what lies *)
(* between mUsedStartOffset and mUsedEndOffset: no bytes are lost for good *)
(* (RingBufferAllocator.cpp:34-45, 63, 119-134).                           *)
NoBytesLost == \A i \in DOMAIN rings : UsedIsDistance(rings[i])

(* When Deallocate has returned nothing whose serial it was given is held  *)
(* any more, and it leaves behind no empty ring but the last one           *)
(* (DynamicUploader.cpp:125-141).                                          *)
EverythingReclaimed ==
    /\ \A i \in DOMAIN rings :
         at = 0 \/ i < at =>
             \A j \in DOMAIN rings[i].requests : rings[i].requests[j].serial > upTo
    /\ \A i \in DOMAIN rings : i < at => ~IsEmpty(rings[i])
    /\ at = 0 => \A r \in released : r.serial > upTo
=============================================================================
