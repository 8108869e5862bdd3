---------------------------- MODULE RingAllocator ----------------------------
(***************************************************************************)
(* Dawn's RingBufferAllocator (native/RingBufferAllocator.cpp), as         *)
(* operators on the state of one ring.  A request keeps, besides what the  *)
(* code keeps, where its bytes begin.  Sizes are small against 2^64,       *)
(* nothing overflows.                                                      *)
(***************************************************************************)
EXTENDS Integers, Sequences

CONSTANT RingSize \* mMaxBlockSize

ASSUME RingSizeAssumption == RingSize \in Nat \ {0}

Offsets == 0 .. RingSize
Request ==
    [serial: Nat, endOffset: Offsets, size: Offsets, \* the code's
     from: Offsets]                                  \* history
Ring ==
    [start: Offsets, end: Offsets, used: Offsets,    \* mUsed...
     requests: Seq(Request)]                         \* mInflightRequests
EmptyRing == [start |-> 0, end |-> 0, used |-> 0, requests |-> <<>>]

IsEmpty(ring) == ring.requests = <<>>

-----------------------------------------------------------------------------
(* Allocate: after the used bytes, aligned, or, when they are one piece    *)
(* that leaves no room at the end, at the front; the bytes skipped belong  *)
(* to the request.                                                         *)
Padding(ring, alignment) == (-ring.end) % alignment
AlignedEnd(ring, alignment) == ring.end + Padding(ring, alignment)

IsSplit(ring) == ring.end < ring.start

(* A mutant: whether it fits is asked of the unaligned end.                *)
AtEndUnaligned(ring, size, alignment) ==
    ~IsSplit(ring) /\ ring.end + size <= RingSize

AtEnd(ring, size, alignment) ==
    /\ ~IsSplit(ring)
    /\ AlignedEnd(ring, alignment) + size <= RingSize

(* A mutant: the front is tried without looking where the used bytes are.  *)
AtFrontUnchecked(ring, size, alignment) ==
    ~IsSplit(ring) /\ ~AtEnd(ring, size, alignment)

AtFront(ring, size, alignment) ==
    /\ ~IsSplit(ring) /\ ~AtEnd(ring, size, alignment)
    /\ size <= ring.start

InBetween(ring, size, alignment) ==
    /\ IsSplit(ring)
    /\ AlignedEnd(ring, alignment) + size <= ring.start

CanAllocate(ring, size, alignment) ==
    /\ ring.used < RingSize
    /\ size <= RingSize - ring.used
    /\ \/ AtEnd(ring, size, alignment)
       \/ AtFront(ring, size, alignment)
       \/ InBetween(ring, size, alignment)

Granted(ring, from, size, taken, serial) ==
    [ring EXCEPT
       !.end = from + size,
       !.used = @ + taken,
       !.requests = Append(@, [serial |-> serial, endOffset |-> from + size, size |-> taken,
                               from |-> from])]

(* A mutant: the bytes left at the end are not counted.                    *)
AllocateUncounted(ring, size, alignment, serial) ==
    IF AtFront(ring, size, alignment)
    THEN Granted(ring, 0, size, size, serial)
    ELSE Granted(ring, AlignedEnd(ring, alignment), size, Padding(ring, alignment) + size, serial)

Allocate(ring, size, alignment, serial) ==
    IF AtFront(ring, size, alignment)
    THEN Granted(ring, 0, size, (RingSize - ring.end) + size, serial)
    ELSE Granted(ring, AlignedEnd(ring, alignment), size, Padding(ring, alignment) + size, serial)

(* Deallocate, for one request.                                            *)
Reclaim(ring) ==
    [ring EXCEPT
       !.start = Head(ring.requests).endOffset,
       !.used = @ - Head(ring.requests).size,
       !.requests = Tail(@)]

HasPassed(ring, serial) == ~IsEmpty(ring) /\ Head(ring.requests).serial <= serial

-----------------------------------------------------------------------------
(* What makes a ring one: the bytes in use run from start to end, once     *)
(* around at most, and none are in use when there is no request.           *)
UsedIsDistance(ring) ==
    /\ \/ ring.start <= ring.end /\ ring.used = ring.end - ring.start
       \/ ring.end <= ring.start /\ ring.used = RingSize - (ring.start - ring.end)
    /\ IsEmpty(ring) <=> ring.used = 0

(* No two requests share a byte.                                           *)
Disjoint(ring) ==
    \A j, k \in DOMAIN ring.requests :
        j < k => \/ ring.requests[j].endOffset <= ring.requests[k].from
                \/ ring.requests[k].endOffset <= ring.requests[j].from
=============================================================================
