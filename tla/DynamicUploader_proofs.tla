----------------------- MODULE DynamicUploader_proofs ------------------------
(***************************************************************************)
(* Proofs about DynamicUploader and the rings it allocates from, for every *)
(* size of a ring, of uploads and of alignments.                           *)
(*                                                                         *)
(* What a ring keeps (start, end, used and a list of requests) says where  *)
(* the bytes in use are only together with the place in the list at which  *)
(* the requests wrap around.  Shape names that place; RingInv says that    *)
(* there is one.                                                           *)
(***************************************************************************)
EXTENDS DynamicUploader, TLAPS

(* The offset at which request i takes over from the one before it.        *)
Prev(ring, i) == IF i = 1 THEN ring.start ELSE ring.requests[i - 1].endOffset

(* The requests up to k lie between start and the end of the ring, those   *)
(* after k between its beginning and start; request k + 1 wraps around.    *)
Shape(ring, k) ==
    /\ k \in 0 .. Len(ring.requests)
    /\ ring.end = Prev(ring, Len(ring.requests) + 1)
    /\ ring.used = IF k = Len(ring.requests) THEN ring.end - ring.start
                   ELSE RingSize - ring.start + ring.end
    /\ k = Len(ring.requests) => ring.start <= ring.end
    /\ \A i \in 1 .. Len(ring.requests) :
         /\ ring.requests[i].from < ring.requests[i].endOffset
         /\ i <= k => ring.start <= ring.requests[i].from
         /\ i > k => ring.requests[i].endOffset <= ring.start
         /\ IF i = k + 1
            THEN ring.requests[i].size = RingSize - Prev(ring, i) + ring.requests[i].endOffset
            ELSE ring.requests[i].size = ring.requests[i].endOffset - Prev(ring, i)
    /\ \A i, j \in 1 .. Len(ring.requests) :
         i < j /\ (j <= k \/ k < i) => ring.requests[i].endOffset <= ring.requests[j].from

RingInv(ring) == ring \in Ring /\ \E k \in Nat : Shape(ring, k)

-----------------------------------------------------------------------------
(* An empty ring is one.                                                   *)
LEMMA EmptyRingInv == RingInv(EmptyRing)
<1>1. EmptyRing \in Ring
  BY RingSizeAssumption DEF EmptyRing, Ring, Offsets
<1>2. Shape(EmptyRing, 0)
  BY RingSizeAssumption DEF EmptyRing, Shape, Prev
<1>3. QED
  BY <1>1, <1>2 DEF RingInv

(* The bytes in use are the distance from start to end, and the requests   *)
(* are disjoint.                                                           *)
LEMMA RingInvImplies ==
    ASSUME NEW ring, RingInv(ring)
    PROVE  UsedIsDistance(ring) /\ Disjoint(ring)
<1>1. PICK k \in Nat : Shape(ring, k)
  BY DEF RingInv
<1> DEFINE n == Len(ring.requests)
<1>2. /\ ring.start \in Nat /\ ring.end \in Nat /\ ring.start <= RingSize
      /\ ring.end <= RingSize /\ RingSize \in Nat
      /\ ring.requests \in Seq(Request) /\ n \in Nat /\ DOMAIN ring.requests = 1 .. n
  BY RingSizeAssumption DEF RingInv, Ring, Offsets
<1>3. \A i \in 1 .. n : ring.requests[i].from \in Nat /\ ring.requests[i].endOffset \in Nat
  <2> TAKE i \in 1 .. n
  <2>1. ring.requests[i] \in Request
    BY <1>2
  <2>2. QED
    BY <2>1, RingSizeAssumption DEF Request, Offsets
<1>4. IsEmpty(ring) <=> n = 0
  BY <1>2 DEF IsEmpty
<1>5. UsedIsDistance(ring)
  <2>1. CASE n = 0
    BY <1>1, <1>2, <1>4, <2>1 DEF UsedIsDistance, Shape, Prev
  <2>2. CASE n # 0
    <3>1. ring.end = ring.requests[n].endOffset
      BY <1>1, <1>2, <2>2 DEF Shape, Prev
    <3>2. CASE k = n
      BY <1>1, <1>2, <1>3, <1>4, <2>2, <3>1, <3>2 DEF UsedIsDistance, Shape
    <3>3. CASE k # n
      <4>1. n > k /\ n \in 1 .. n
        BY <1>1, <1>2, <2>2, <3>3 DEF Shape
      <4>2. /\ ring.end <= ring.start /\ ring.used = RingSize - ring.start + ring.end
            /\ ring.end > 0
        BY <1>1, <1>2, <1>3, <3>1, <3>3, <4>1 DEF Shape
      <4>3. QED
        BY <1>2, <1>4, <2>2, <4>2 DEF UsedIsDistance
    <3>4. QED
      BY <3>2, <3>3
  <2>3. QED
    BY <2>1, <2>2
<1>6. Disjoint(ring)
  <2> SUFFICES ASSUME NEW i \in 1 .. n, NEW j \in 1 .. n, i < j
               PROVE  \/ ring.requests[i].endOffset <= ring.requests[j].from
                      \/ ring.requests[j].endOffset <= ring.requests[i].from
    BY <1>2 DEF Disjoint
  <2>1. CASE j <= k \/ k < i
    BY <1>1, <2>1 DEF Shape
  <2>2. CASE i <= k /\ k < j
    BY <1>1, <1>2, <1>3, <2>2 DEF Shape
  <2>3. QED
    BY <1>1, <1>2, <2>1, <2>2 DEF Shape
<1>7. QED
  BY <1>5, <1>6

(* A request put behind the others, at the place of the wrap or after it,  *)
(* leaves the shape.                                                       *)
LEMMA AppendShape ==
    ASSUME NEW ring \in Ring, NEW k \in Nat, Shape(ring, k),
           NEW n \in Nat, n = Len(ring.requests),
           NEW new \in Request, NEW used \in Offsets, NEW kk \in Nat,
           kk = IF k < n THEN k ELSE kk, kk <= n + 1, k = n => kk >= n,
           new.from < new.endOffset,
           kk = n + 1 => ring.end <= new.from /\ used = new.endOffset - ring.start,
           kk < n + 1 =>
             new.endOffset <= ring.start /\ used = RingSize - ring.start + new.endOffset,
           kk # n => ring.end <= new.from /\ new.size = new.endOffset - ring.end,
           kk = n => new.size = RingSize - ring.end + new.endOffset
    PROVE  Shape([ring EXCEPT !.end = new.endOffset, !.used = used,
                              !.requests = Append(@, new)], kk)
<1> DEFINE R == Append(ring.requests, new)
           g == [ring EXCEPT !.end = new.endOffset, !.used = used, !.requests = Append(@, new)]
<1>1. /\ ring.start \in Nat /\ ring.end \in Nat /\ RingSize \in Nat
      /\ ring.requests \in Seq(Request) /\ n \in Nat /\ DOMAIN ring.requests = 1 .. n
  BY RingSizeAssumption DEF Ring, Offsets
<1>2. \A i \in 1 .. n : ring.requests[i].from \in Nat /\ ring.requests[i].endOffset \in Nat
  <2> TAKE i \in 1 .. n
  <2>1. ring.requests[i] \in Request
    BY <1>1
  <2>2. QED
    BY <2>1, RingSizeAssumption DEF Request, Offsets
<1>3. new.from \in Nat /\ new.endOffset \in Nat
  BY RingSizeAssumption DEF Request, Offsets
<1>4. /\ Len(R) = n + 1 /\ R[n + 1] = new
      /\ \A i \in 1 .. n : R[i] = ring.requests[i]
  BY <1>1
<1>5. g.start = ring.start /\ g.end = new.endOffset /\ g.used = used /\ g.requests = R
  BY DEF Ring
<1>6. ring.end = Prev(ring, n + 1)
  BY DEF Shape
<1>7. /\ \A i \in 1 .. n : Prev(g, i) = Prev(ring, i)
      /\ Prev(g, n + 1) = ring.end /\ Prev(g, n + 2) = new.endOffset
  <2>1. ASSUME NEW i \in 1 .. n PROVE Prev(g, i) = Prev(ring, i)
    BY <1>1, <1>4, <1>5 DEF Prev
  <2>2. Prev(g, n + 1) = ring.end
    BY <1>1, <1>4, <1>5, <1>6 DEF Prev
  <2>3. Prev(g, n + 2) = new.endOffset
    BY <1>1, <1>4, <1>5 DEF Prev
  <2>4. QED
    BY <2>1, <2>2, <2>3
<1>8. kk \in 0 .. n + 1 /\ k <= n /\ (k < n => kk = k)
  BY <1>1 DEF Shape
<1>9. ASSUME NEW i \in 1 .. n
      PROVE  ring.requests[i].endOffset <= ring.end \/ (k < n /\ i <= k)
  <2>1. ring.end = ring.requests[n].endOffset /\ n \in 1 .. n
    BY <1>1, <1>6 DEF Prev
  <2>2. CASE i = n
    BY <1>1, <1>2, <2>1, <2>2
  <2>3. CASE i < n /\ (n <= k \/ k < i)
    <3>1. ring.requests[i].endOffset <= ring.requests[n].from
      BY <1>1, <2>1, <2>3 DEF Shape
    <3>2. ring.requests[n].from < ring.requests[n].endOffset
      BY <1>1, <2>1 DEF Shape
    <3>3. QED
      BY <1>1, <1>2, <2>1, <3>1, <3>2
  <2>4. CASE k < n /\ i <= k
    BY <2>4
  <2>5. i = n \/ (i < n /\ (n <= k \/ k < i)) \/ (k < n /\ i <= k)
    BY <1>1, <1>8
  <2>6. QED
    BY <2>2, <2>3, <2>4, <2>5
<1> HIDE DEF R, g
<1>10. kk = n + 1 => g.start <= g.end
  <2> SUFFICES ASSUME kk = n + 1 PROVE g.start <= g.end
    OBVIOUS
  <2>1. k = n
    BY <1>1, <1>8
  <2>2. ring.start <= ring.end
    BY <2>1 DEF Shape
  <2>3. ring.end <= new.from
    OBVIOUS
  <2>4. QED
    BY <1>1, <1>3, <1>5, <2>2, <2>3
<1>11. ASSUME NEW i \in 1 .. n + 1
       PROVE  /\ R[i].from < R[i].endOffset
              /\ i <= kk => g.start <= R[i].from
              /\ i > kk => R[i].endOffset <= g.start
              /\ IF i = kk + 1
                 THEN R[i].size = RingSize - Prev(g, i) + R[i].endOffset
                 ELSE R[i].size = R[i].endOffset - Prev(g, i)
  <2>1. CASE i = n + 1
    <3>1. R[i] = new /\ Prev(g, i) = ring.end
      BY <1>4, <1>7, <2>1
    <3>2. i <= kk => g.start <= new.from
      <4>1. i <= kk => k = n /\ kk = n + 1 /\ ring.start <= ring.end
        BY <1>1, <1>8, <2>1 DEF Shape
      <4>2. QED
        BY <1>1, <1>3, <1>5, <4>1
    <3>3. i > kk => new.endOffset <= g.start
      BY <1>1, <1>5, <1>8, <2>1
    <3>4. CASE kk = n
      BY <2>1, <3>1, <3>2, <3>3, <3>4
    <3>5. CASE kk # n
      BY <1>1, <1>8, <2>1, <3>1, <3>2, <3>3, <3>5
    <3>6. QED
      BY <3>4, <3>5
  <2>2. CASE i \in 1 .. n
    <3>1. R[i] = ring.requests[i] /\ Prev(g, i) = Prev(ring, i)
      BY <1>4, <1>7, <2>2
    <3>2. (i <= kk <=> i <= k) /\ (i > kk <=> i > k) /\ (i = kk + 1 <=> i = k + 1)
      BY <1>1, <1>8, <2>2
    <3>3. /\ ring.requests[i].from < ring.requests[i].endOffset
          /\ i <= k => ring.start <= ring.requests[i].from
          /\ i > k => ring.requests[i].endOffset <= ring.start
          /\ IF i = k + 1
             THEN ring.requests[i].size = RingSize - Prev(ring, i) + ring.requests[i].endOffset
             ELSE ring.requests[i].size = ring.requests[i].endOffset - Prev(ring, i)
      BY <2>2 DEF Shape
    <3>4. QED
      BY <1>5, <3>1, <3>2, <3>3
  <2>3. QED
    BY <1>1, <2>1, <2>2
<1>12. ASSUME NEW i \in 1 .. n + 1, NEW j \in 1 .. n + 1, i < j, j <= kk \/ kk < i
       PROVE  R[i].endOffset <= R[j].from
  <2>1. i \in 1 .. n /\ R[i] = ring.requests[i]
    BY <1>1, <1>4, <1>12
  <2>2. CASE j = n + 1
    <3>1. R[j] = new /\ kk # n
      BY <1>1, <1>4, <1>8, <1>12, <2>2
    <3>2. ring.end <= new.from /\ ring.requests[i].endOffset <= ring.end
      BY <1>1, <1>8, <1>9, <1>12, <2>1, <2>2, <3>1
    <3>3. QED
      BY <1>1, <1>2, <1>3, <2>1, <3>1, <3>2
  <2>3. CASE j \in 1 .. n
    <3>1. R[j] = ring.requests[j]
      BY <1>4, <2>3
    <3>2. j <= k \/ k < i
      BY <1>1, <1>8, <1>12, <2>1, <2>3
    <3>3. QED
      BY <1>1, <1>12, <2>1, <2>3, <3>1, <3>2 DEF Shape
  <2>4. QED
    BY <1>1, <2>2, <2>3
<1>13. Shape(g, kk)
  <2>1. Len(g.requests) = n + 1
    BY <1>4, <1>5
  <2>2. g.end = Prev(g, n + 2)
    BY <1>5, <1>7
  <2>3. g.used = IF kk = n + 1 THEN g.end - g.start ELSE RingSize - g.start + g.end
    <3>1. CASE kk = n + 1
      BY <1>5, <3>1
    <3>2. CASE kk # n + 1
      BY <1>1, <1>5, <1>8, <3>2
    <3>3. QED
      BY <3>1, <3>2
  <2>4. n + 1 + 1 = n + 2
    BY <1>1
  <2>5. QED
    BY <1>5, <1>8, <1>10, <1>11, <1>12, <2>1, <2>2, <2>3, <2>4 DEF Shape
<1>14. QED
  BY <1>13 DEF g

(* Whether the requests wrap around is what IsSplit sees.                  *)
LEMMA SplitIsWrapped ==
    ASSUME NEW ring \in Ring, NEW k \in Nat, Shape(ring, k), ring.used < RingSize
    PROVE  /\ IsSplit(ring) <=> k < Len(ring.requests)
           /\ k < Len(ring.requests) => ring.used = RingSize - ring.start + ring.end
           /\ k = Len(ring.requests) => ring.used = ring.end - ring.start /\ ring.start <= ring.end
           /\ k <= Len(ring.requests)
<1> DEFINE n == Len(ring.requests)
<1>1. /\ ring.start \in Nat /\ ring.end \in Nat /\ ring.used \in Nat /\ RingSize \in Nat
      /\ ring.requests \in Seq(Request) /\ n \in Nat
  BY RingSizeAssumption DEF Ring, Offsets
<1>2. k <= n
  BY <1>1 DEF Shape
<1>3. CASE k = n
  BY <1>1, <1>3 DEF Shape, IsSplit
<1>4. CASE k < n
  <2>1. ring.used = RingSize - ring.start + ring.end
    BY <1>1, <1>4 DEF Shape
  <2>2. QED
    BY <1>1, <1>4, <2>1 DEF IsSplit
<1>5. QED
  BY <1>1, <1>2, <1>3, <1>4

(* After has the requests of ring and one more, for its last bytes.        *)
Adds(ring, after, size, serial) ==
    \E request \in Request :
      /\ after.requests = Append(ring.requests, request)
      /\ request.serial = serial /\ request.from = after.end - size
      /\ request.endOffset = after.end

(* What is allocated begins at the end, aligned, or at the front.          *)
LEMMA AllocateInv ==
    ASSUME NEW ring, RingInv(ring), NEW serial \in Nat, NEW size \in Nat \ {0},
           NEW alignment \in Nat \ {0}, CanAllocate(ring, size, alignment),
           NEW after, after = Allocate(ring, size, alignment, serial)
    PROVE  RingInv(after) /\ after.end - size \in Nat /\ Adds(ring, after, size, serial)
<1> DEFINE n == Len(ring.requests)
           padding == Padding(ring, alignment)
           front == AtFront(ring, size, alignment)
           from == IF front THEN 0 ELSE ring.end + padding
           taken == IF front THEN (RingSize - ring.end) + size ELSE padding + size
           new == [serial |-> serial, endOffset |-> from + size, size |-> taken, from |-> from]
           used == ring.used + taken
           g == [ring EXCEPT !.end = new.endOffset, !.used = used, !.requests = Append(@, new)]
<1>1. ring \in Ring
  BY DEF RingInv
<1>2. PICK k \in Nat : Shape(ring, k)
  BY DEF RingInv
<1>3. /\ ring.start \in Nat /\ ring.end \in Nat /\ ring.used \in Nat
      /\ ring.start <= RingSize /\ ring.end <= RingSize /\ RingSize \in Nat
      /\ ring.requests \in Seq(Request) /\ n \in Nat
  BY <1>1, RingSizeAssumption DEF Ring, Offsets
<1>4. ring.used < RingSize
  BY DEF CanAllocate
<1>5. /\ IsSplit(ring) <=> k < n
      /\ k < n => ring.used = RingSize - ring.start + ring.end
      /\ k = n => ring.used = ring.end - ring.start /\ ring.start <= ring.end
      /\ k <= n
  BY <1>1, <1>2, <1>4, SplitIsWrapped
<1>6. padding \in Nat
  BY <1>3 DEF Padding
<1>7. after = g
  BY DEF Allocate, Granted, AlignedEnd
<1> DEFINE kk == IF front THEN n ELSE IF k = n THEN n + 1 ELSE k
<1>8. /\ from \in Nat /\ from + size <= RingSize /\ used \in 0 .. RingSize
      /\ taken \in 0 .. RingSize
      /\ kk \in Nat /\ (k < n => kk = k) /\ kk <= n + 1 /\ (k = n => kk >= n)
      /\ kk = n + 1 => ring.end <= from /\ used = from + size - ring.start
      /\ kk < n + 1 => from + size <= ring.start /\ used = RingSize - ring.start + (from + size)
      /\ kk # n => ring.end <= from /\ taken = from + size - ring.end
      /\ kk = n => taken = RingSize - ring.end + (from + size)
  <2>1. CASE front
    <3>1. k = n /\ size <= ring.start
      BY <1>5, <2>1 DEF AtFront
    <3>2. from = 0 /\ taken = (RingSize - ring.end) + size /\ kk = n
      BY <2>1
    <3>3. ring.used = ring.end - ring.start /\ ring.start <= ring.end
      BY <1>5, <3>1
    <3>4. used = ring.used + taken
      OBVIOUS
    <3> HIDE DEF from, taken, kk, used, front
    <3>5. from + size = size
      BY <3>2
    <3>6. taken \in 0 .. RingSize
      BY <1>3, <3>1, <3>2, <3>3
    <3>8. used = RingSize - ring.start + size
      BY <1>3, <3>2, <3>3, <3>4
    <3>9. used \in 0 .. RingSize
      BY <1>3, <3>1, <3>8
    <3>7. QED
      BY <1>3, <3>1, <3>2, <3>5, <3>6, <3>8, <3>9
  <2>2. CASE ~front
    <3>1. from = ring.end + padding /\ taken = padding + size /\ kk = IF k = n THEN n + 1 ELSE k
      BY <2>2
    <3>2. /\ from + size <= RingSize
          /\ k < n => from + size <= ring.start
      <4>1. CASE AtEnd(ring, size, alignment)
        BY <1>3, <1>5, <3>1, <4>1 DEF AtEnd, AlignedEnd
      <4>2. CASE InBetween(ring, size, alignment)
        BY <1>3, <1>5, <1>6, <3>1, <4>2 DEF InBetween, AlignedEnd
      <4>3. QED
        BY <2>2, <4>1, <4>2 DEF CanAllocate
    <3>3. used = ring.used + taken
      OBVIOUS
    <3> HIDE DEF from, taken, kk, padding, used, front, n
    <3>4. CASE k = n
      <4>1. ring.used = ring.end - ring.start /\ ring.start <= ring.end
        BY <1>5, <3>4
      <4>2. used = from + size - ring.start /\ taken = from + size - ring.end /\ kk = n + 1
        <5>1. kk = n + 1
          BY <3>1, <3>4
        <5>2. taken = from + size - ring.end
          BY <1>3, <1>6, <3>1
        <5>3. used = from + size - ring.start
          <6>1. from \in Nat
            BY <1>3, <1>6, <3>1
          <6>2. QED
            BY <1>3, <3>3, <4>1, <5>2, <6>1
        <5>4. QED
          BY <5>1, <5>2, <5>3
      <4>3. from \in Nat /\ ring.end <= from
        BY <1>3, <1>6, <3>1
      <4>4. taken \in 0 .. RingSize
        <5>1. taken = from + size - ring.end /\ from + size <= RingSize
          BY <3>2, <4>2
        <5>2. QED
          BY <1>3, <4>3, <5>1
      <4>6. used \in 0 .. RingSize
        BY <1>3, <3>2, <4>1, <4>2, <4>3
      <4>5. QED
        BY <1>3, <3>2, <3>4, <4>2, <4>3, <4>4, <4>6
    <3>5. CASE k < n
      <4>1. ring.used = RingSize - ring.start + ring.end /\ from + size <= ring.start
        BY <1>5, <3>2, <3>5
      <4>2. /\ used = RingSize - ring.start + (from + size)
            /\ taken = from + size - ring.end /\ kk = k
        <5>1. kk = k
          BY <1>5, <3>1, <3>5
        <5>2. taken = from + size - ring.end
          BY <1>3, <1>6, <3>1
        <5>3. used = RingSize - ring.start + (from + size)
          BY <1>3, <1>6, <3>1, <3>3, <4>1
        <5>4. QED
          BY <5>1, <5>2, <5>3
      <4>3. from \in Nat /\ ring.end <= from
        BY <1>3, <1>6, <3>1
      <4>4. taken \in 0 .. RingSize
        <5>1. taken = from + size - ring.end /\ from + size <= RingSize
          BY <3>2, <4>2
        <5>2. QED
          BY <1>3, <4>3, <5>1
      <4>6. used \in 0 .. RingSize
        BY <1>3, <3>2, <4>1, <4>2, <4>3
      <4>5. QED
        BY <1>3, <3>2, <3>5, <4>1, <4>2, <4>3, <4>4, <4>6
    <3>6. QED
      BY <1>3, <1>5, <3>4, <3>5
  <2>3. QED
    BY <2>1, <2>2
<1>9. new \in Request /\ used \in Offsets
  <2> HIDE DEF from, taken, used
  <2>1. QED
    BY <1>3, <1>8 DEF Request, Offsets
<1>10. new.endOffset = from + size /\ new.from = from /\ new.size = taken /\ new.serial = serial
  OBVIOUS
<1> HIDE DEF from, taken, used, new, kk, padding, front
<1>11. new.from < new.endOffset
  BY <1>8, <1>10
<1>12. Shape(g, kk)
  <2>1. kk = IF k < n THEN k ELSE kk
    BY <1>8
  <2>2. kk = n + 1 => ring.end <= new.from /\ used = new.endOffset - ring.start
    BY <1>3, <1>8, <1>10
  <2>3. kk < n + 1 =>
          new.endOffset <= ring.start /\ used = RingSize - ring.start + new.endOffset
    BY <1>3, <1>8, <1>10
  <2>4. kk # n => ring.end <= new.from /\ new.size = new.endOffset - ring.end
    BY <1>3, <1>8, <1>10
  <2>5. kk = n => new.size = RingSize - ring.end + new.endOffset
    BY <1>3, <1>8, <1>10
  <2>6. QED
    BY <1>1, <1>2, <1>3, <1>8, <1>9, <1>11, <2>1, <2>2, <2>3, <2>4, <2>5, AppendShape DEF g
<1>13. g \in Ring
  <2>1. Append(ring.requests, new) \in Seq(Request) /\ new.endOffset \in Offsets
    BY <1>3, <1>8, <1>9, <1>10 DEF Offsets
  <2>2. QED
    BY <1>1, <1>9, <2>1 DEF Ring
<1>14. g.requests = Append(ring.requests, new) /\ g.end = from + size
  BY <1>1, <1>10 DEF Ring
<1> HIDE DEF g
<1>15. RingInv(g)
  BY <1>8, <1>12, <1>13 DEF RingInv
<1>16. g.end - size = from
  BY <1>8, <1>14
<1>17. Adds(ring, g, size, serial)
  BY <1>9, <1>10, <1>14, <1>16 DEF Adds
<1>18. QED
  BY <1>7, <1>8, <1>15, <1>16, <1>17

(* The first request can go: the ring begins where it ended.  If it was    *)
(* the one that wraps around, none of the others does.                     *)
LEMMA ReclaimInv ==
    ASSUME NEW ring, RingInv(ring), ~IsEmpty(ring)
    PROVE  RingInv(Reclaim(ring)) /\ Reclaim(ring).requests = Tail(ring.requests)
<1> DEFINE n == Len(ring.requests)
           first == ring.requests[1]
           g == Reclaim(ring)
           T == Tail(ring.requests)
<1>1. PICK k \in Nat : Shape(ring, k)
  BY DEF RingInv
<1> DEFINE kk == IF k = 0 THEN n - 1 ELSE k - 1
<1>2. /\ ring.start \in Nat /\ ring.end \in Nat /\ ring.used \in Nat /\ ring.start <= RingSize
      /\ ring.end <= RingSize /\ RingSize \in Nat
      /\ ring.requests \in Seq(Request) /\ n \in Nat /\ n >= 1 /\ ring \in Ring
  BY RingSizeAssumption DEF RingInv, Ring, Offsets, IsEmpty
<1>3. \A i \in 1 .. n :
        /\ ring.requests[i].from \in Nat /\ ring.requests[i].endOffset \in Offsets
        /\ ring.requests[i].size \in Nat
  <2> TAKE i \in 1 .. n
  <2>1. ring.requests[i] \in Request
    BY <1>2
  <2>2. QED
    BY <2>1, RingSizeAssumption DEF Request, Offsets
<1>4. /\ Len(T) = n - 1 /\ T \in Seq(Request) /\ Head(ring.requests) = first
      /\ \A i \in 1 .. n - 1 : T[i] = ring.requests[i + 1]
  BY <1>2
<1>5. /\ g.start = first.endOffset /\ g.end = ring.end /\ g.used = ring.used - first.size
      /\ g.requests = T
  BY <1>2, <1>4 DEF Reclaim, Ring
<1>6. /\ k \in 0 .. n /\ ring.end = ring.requests[n].endOffset
      /\ ring.used = IF k = n THEN ring.end - ring.start ELSE RingSize - ring.start + ring.end
      /\ k = n => ring.start <= ring.end
  BY <1>1, <1>2 DEF Shape, Prev
<1>7. \A i \in 1 .. n :
        /\ ring.requests[i].from < ring.requests[i].endOffset
        /\ i <= k => ring.start <= ring.requests[i].from
        /\ i > k => ring.requests[i].endOffset <= ring.start
        /\ IF i = k + 1
           THEN ring.requests[i].size = RingSize - Prev(ring, i) + ring.requests[i].endOffset
           ELSE ring.requests[i].size = ring.requests[i].endOffset - Prev(ring, i)
  BY <1>1 DEF Shape
<1>8. \A i, j \in 1 .. n :
        i < j /\ (j <= k \/ k < i) => ring.requests[i].endOffset <= ring.requests[j].from
  BY <1>1 DEF Shape
<1>9. Prev(ring, 1) = ring.start
  BY DEF Prev
<1>10. \A i \in 1 .. n - 1 : Prev(g, i) = Prev(ring, i + 1)
  <2> TAKE i \in 1 .. n - 1
  <2>1. CASE i = 1
    BY <1>2, <1>5, <2>1 DEF Prev
  <2>2. CASE i # 1
    <3>1. i - 1 \in 1 .. n - 1 /\ (i - 1) + 1 = i /\ (i + 1) - 1 = i /\ i + 1 # 1
      BY <1>2, <2>2
    <3>2. T[i - 1] = ring.requests[i]
      BY <1>4, <3>1
    <3>3. QED
      BY <1>5, <2>2, <3>1, <3>2 DEF Prev
  <2>3. QED
    BY <2>1, <2>2
<1>11. Prev(g, n) = ring.end
  <2>1. CASE n = 1
    BY <1>5, <1>6, <2>1 DEF Prev
  <2>2. CASE n # 1
    <3> HIDE DEF n
    <3>1. n - 1 \in 1 .. n - 1 /\ (n - 1) + 1 = n
      BY <1>2, <2>2
    <3>2. T[n - 1] = ring.requests[n]
      BY <1>4, <3>1
    <3>3. QED
      BY <1>5, <1>6, <2>2, <3>2 DEF Prev
  <2>3. QED
    BY <2>1, <2>2
<1>12. kk \in 0 .. n - 1 /\ (kk = n - 1 <=> k = 0 \/ k = n)
  BY <1>2, <1>6
<1>13. /\ first.endOffset \in Nat /\ first.from \in Nat /\ first.size \in Nat
       /\ first.endOffset <= RingSize
  BY <1>2, <1>3 DEF Offsets
<1>14. (k = 0 \/ k = n) => first.endOffset <= ring.end
  <2> SUFFICES ASSUME k = 0 \/ k = n PROVE first.endOffset <= ring.end
    OBVIOUS
  <2>1. CASE n = 1
    BY <1>2, <1>6, <1>13, <2>1
  <2>2. CASE n # 1
    <3> HIDE DEF n
    <3>1. 1 \in 1 .. n /\ n \in 1 .. n /\ 1 < n
      BY <1>2, <2>2
    <3>2. first.endOffset <= ring.requests[n].from
      BY <1>2, <1>8, <3>1
    <3>3. ring.requests[n].from < ring.requests[n].endOffset /\ ring.requests[n].from \in Nat
      BY <1>3, <1>7, <3>1
    <3>4. QED
      BY <1>2, <1>6, <1>13, <3>2, <3>3
  <2>3. QED
    BY <2>1, <2>2
<1>15. /\ k # 0 => first.size = first.endOffset - ring.start /\ ring.start < first.endOffset
       /\ k = 0 => first.size = RingSize - ring.start + first.endOffset
       /\ k < n => ring.end <= ring.start
  <2>1. 1 \in 1 .. n /\ n \in 1 .. n
    BY <1>2
  <2>2. k # 0 => first.size = first.endOffset - ring.start
    BY <1>6, <1>7, <1>9, <2>1
  <2>3. k # 0 => ring.start <= first.from /\ first.from < first.endOffset
    BY <1>6, <1>7, <2>1
  <2>4. k = 0 => first.size = RingSize - ring.start + first.endOffset
    BY <1>7, <1>9, <2>1
  <2>5. k < n => ring.end <= ring.start
    BY <1>6, <1>7, <2>1
  <2>6. QED
    BY <1>2, <1>13, <2>2, <2>3, <2>4, <2>5
<1> HIDE DEF g, T, first, kk, n
<1>16. ASSUME k = 0 PROVE Shape(g, kk) /\ g.used \in Offsets
  <2>1. kk = n - 1 /\ k # n
    BY <1>2, <1>16 DEF kk
  <2>2. g.used = g.end - g.start /\ g.used \in Offsets
    <3>1. /\ ring.used = RingSize - ring.start + ring.end
          /\ first.size = RingSize - ring.start + first.endOffset
      BY <1>6, <1>15, <1>16, <2>1
    <3>2. g.used = g.end - g.start
      BY <1>2, <1>5, <1>13, <3>1
    <3>3. g.used \in Offsets
      BY <1>2, <1>5, <1>13, <1>14, <1>16, <3>2 DEF Offsets
    <3>4. QED
      BY <3>2, <3>3
  <2>3. ASSUME NEW i \in 1 .. n - 1
        PROVE  /\ T[i].from < T[i].endOffset
               /\ g.start <= T[i].from
               /\ T[i].size = T[i].endOffset - Prev(g, i)
    <3>1. /\ i + 1 \in 1 .. n /\ i + 1 # 1
          /\ T[i] = ring.requests[i + 1] /\ Prev(g, i) = Prev(ring, i + 1)
      BY <1>2, <1>4, <1>10
    <3>2. 1 \in 1 .. n /\ 1 < i + 1 /\ k < 1
      BY <1>2, <1>16
    <3>3. first.endOffset <= ring.requests[i + 1].from
      BY <1>8, <3>1, <3>2 DEF first
    <3>4. QED
      BY <1>5, <1>7, <1>16, <3>1, <3>3
  <2>4. ASSUME NEW i \in 1 .. n - 1, NEW j \in 1 .. n - 1, i < j
        PROVE  T[i].endOffset <= T[j].from
    <3>1. /\ i + 1 \in 1 .. n /\ T[i] = ring.requests[i + 1]
          /\ j + 1 \in 1 .. n /\ T[j] = ring.requests[j + 1]
          /\ i + 1 < j + 1 /\ k < i + 1
      BY <1>2, <1>4, <1>16, <2>4
    <3>2. QED
      BY <1>8, <3>1
  <2>5. Shape(g, kk)
    <3>1. Len(g.requests) = n - 1 /\ n - 1 + 1 = n
      BY <1>2, <1>4, <1>5
    <3>2. g.start <= g.end
      BY <1>5, <1>14, <1>16
    <3>3. ASSUME NEW i \in 1 .. n - 1
          PROVE  i <= kk /\ ~(i > kk) /\ i # kk + 1
      BY <1>2, <2>1
    <3>4. QED
      BY <1>5, <1>11, <1>12, <2>1, <2>2, <2>3, <2>4, <3>1, <3>2, <3>3 DEF Shape
  <2>6. QED
    BY <2>2, <2>5
<1>17. ASSUME k # 0 PROVE Shape(g, kk) /\ g.used \in Offsets
  <2>1. kk = k - 1 /\ (kk = n - 1 <=> k = n)
    BY <1>2, <1>6, <1>17 DEF kk
  <2>2. /\ g.used = IF kk = n - 1 THEN g.end - g.start ELSE RingSize - g.start + g.end
        /\ g.used \in Offsets
    <3>1. first.size = first.endOffset - ring.start /\ ring.start < first.endOffset
      BY <1>15, <1>17
    <3>2. CASE k = n
      <4>1. first.endOffset <= ring.end
        BY <1>14, <3>2
      <4>2. g.used = g.end - g.start
        BY <1>2, <1>5, <1>6, <1>13, <3>1, <3>2
      <4>3. g.used \in Offsets
        BY <1>2, <1>5, <1>13, <4>1, <4>2 DEF Offsets
      <4>4. QED
        BY <2>1, <3>2, <4>2, <4>3
    <3>3. CASE k # n
      <4>1. ring.end <= ring.start
        BY <1>2, <1>6, <1>15, <3>3
      <4>2. g.used = RingSize - g.start + g.end
        BY <1>2, <1>5, <1>6, <1>13, <3>1, <3>3
      <4>3. g.used \in Offsets
        BY <1>2, <1>5, <1>13, <3>1, <4>1, <4>2 DEF Offsets
      <4>4. QED
        BY <2>1, <3>3, <4>2, <4>3
    <3>4. QED
      BY <3>2, <3>3
  <2>3. ASSUME NEW i \in 1 .. n - 1
        PROVE  /\ T[i].from < T[i].endOffset
               /\ i <= kk => g.start <= T[i].from
               /\ i > kk => T[i].endOffset <= g.start
               /\ IF i = kk + 1
                  THEN T[i].size = RingSize - Prev(g, i) + T[i].endOffset
                  ELSE T[i].size = T[i].endOffset - Prev(g, i)
    <3>1. i + 1 \in 1 .. n /\ T[i] = ring.requests[i + 1] /\ Prev(g, i) = Prev(ring, i + 1)
      BY <1>2, <1>4, <1>10
    <3>2. (i <= kk <=> i + 1 <= k) /\ (i > kk <=> i + 1 > k) /\ (i = kk + 1 <=> i + 1 = k + 1)
      BY <1>2, <1>6, <2>1
    <3>3. 1 \in 1 .. n /\ 1 < i + 1
      BY <1>2
    <3>4. i <= kk => first.endOffset <= ring.requests[i + 1].from
      BY <1>8, <3>1, <3>2, <3>3 DEF first
    <3>5. i > kk => ring.requests[i + 1].endOffset <= g.start
      <4>1. i > kk => ring.requests[i + 1].endOffset <= ring.start
        BY <1>7, <3>1, <3>2
      <4>2. ring.start < first.endOffset /\ ring.requests[i + 1].endOffset \in Nat
        BY <1>3, <1>15, <1>17, <3>1 DEF Offsets
      <4>3. QED
        BY <1>2, <1>5, <1>13, <4>1, <4>2
    <3>6. QED
      BY <1>5, <1>7, <3>1, <3>2, <3>4, <3>5
  <2>4. ASSUME NEW i \in 1 .. n - 1, NEW j \in 1 .. n - 1, i < j, j <= kk \/ kk < i
        PROVE  T[i].endOffset <= T[j].from
    <3>1. /\ i + 1 \in 1 .. n /\ T[i] = ring.requests[i + 1]
          /\ j + 1 \in 1 .. n /\ T[j] = ring.requests[j + 1]
          /\ i + 1 < j + 1
      BY <1>2, <1>4, <2>4
    <3>2. j + 1 <= k \/ k < i + 1
      BY <1>2, <1>6, <2>1, <2>4
    <3>3. QED
      BY <1>8, <3>1, <3>2
  <2>5. Shape(g, kk)
    <3>1. Len(g.requests) = n - 1 /\ n - 1 + 1 = n
      BY <1>2, <1>4, <1>5
    <3>2. kk = n - 1 => g.start <= g.end
      BY <1>5, <1>14, <2>1
    <3>3. g.end = Prev(g, n)
      BY <1>5, <1>11
    <3>4. QED
      BY <1>5, <1>12, <2>2, <2>3, <2>4, <3>1, <3>2, <3>3 DEF Shape
  <2>6. QED
    BY <2>2, <2>5
<1>18. Shape(g, kk) /\ g.used \in Offsets
  BY <1>16, <1>17
<1>19. g \in Ring
  <2>1. first.endOffset \in Offsets /\ ring.used - first.size \in Offsets
    BY <1>5, <1>13, <1>2, <1>18 DEF Offsets
  <2>2. QED
    BY <1>2, <1>4, <2>1 DEF g, Reclaim, Ring, T
<1>20. kk \in Nat
  BY <1>2, <1>12
<1>21. QED
  BY <1>5, <1>18, <1>19, <1>20 DEF RingInv, g, T

-----------------------------------------------------------------------------
(* The serials of a ring's requests never fall and none is in the future.  *)
Serials(ring, last) ==
    /\ \A j \in 1 .. Len(ring.requests) : ring.requests[j].serial <= last + 1
    /\ \A j, k \in 1 .. Len(ring.requests) :
         j < k => ring.requests[j].serial <= ring.requests[k].serial

(* Every ring is one, and no two have the same staging buffer.             *)
RingsOK(rs, bs, m, last) ==
    /\ rs \in Seq(Ring) /\ rs # <<>> /\ bs \in Seq(Nat) /\ Len(bs) = Len(rs)
    /\ m \in Nat /\ last \in Nat
    /\ \A i \in 1 .. Len(rs) : RingInv(rs[i]) /\ Serials(rs[i], last) /\ bs[i] <= m
    /\ \A i, j \in 1 .. Len(rs) : i # j /\ bs[i] # NoBuffer => bs[i] # bs[j]

(* What holds an upload goes with the upload's own serial.                 *)
HeldIn(u, i, rs, bs) ==
    /\ bs[i] = u.buffer /\ bs[i] # NoBuffer
    /\ \E j \in 1 .. Len(rs[i].requests) :
         /\ rs[i].requests[j].from = u.from /\ rs[i].requests[j].endOffset = u.to
         /\ rs[i].requests[j].serial = u.serial

Held(u, rs, bs, rel) ==
    \/ \E r \in rel : r.buffer = u.buffer /\ r.serial = u.serial
    \/ \E i \in 1 .. Len(rs) : HeldIn(u, i, rs, bs)

IInv ==
    /\ TypeOK
    /\ RingsOK(rings, buffers, made, lastSubmitted)
    /\ upTo <= finished /\ finished <= lastSubmitted
    /\ \A u \in uploads : u.serial > finished /\ Held(u, rings, buffers, released)
    /\ EverythingReclaimed

(* One element less.                                                       *)
LEMMA RemoveAtFacts ==
    ASSUME NEW S, NEW s \in Seq(S), NEW i \in 1 .. Len(s)
    PROVE  /\ RemoveAt(s, i) \in Seq(S) /\ Len(RemoveAt(s, i)) = Len(s) - 1
           /\ \A j \in 1 .. Len(s) - 1 : RemoveAt(s, i)[j] = IF j < i THEN s[j] ELSE s[j + 1]
<1> DEFINE a == SubSeq(s, 1, i - 1)
           b == SubSeq(s, i + 1, Len(s))
<1>1. RemoveAt(s, i) = a \o b
  BY DEF RemoveAt
<1>2. a \in Seq(S) /\ Len(a) = i - 1 /\ \A j \in 1 .. i - 1 : a[j] = s[j]
  OBVIOUS
<1>3. b \in Seq(S) /\ Len(b) = Len(s) - i /\ \A j \in 1 .. Len(s) - i : b[j] = s[i + j]
  OBVIOUS
<1> HIDE DEF a, b
<1>4. Len(s) \in Nat /\ i \in Nat
  OBVIOUS
<1>5. a \o b \in Seq(S) /\ Len(a \o b) = Len(a) + Len(b)
  <2>1. a \in Seq(S) /\ b \in Seq(S)
    BY <1>2, <1>3
  <2>2. QED
    BY <2>1
<1>6. Len(a) + Len(b) = Len(s) - 1
  BY <1>2, <1>3, <1>4
<1>7. ASSUME NEW j \in 1 .. Len(s) - 1
      PROVE  (a \o b)[j] = IF j < i THEN s[j] ELSE s[j + 1]
  <2>1. CASE j < i
    BY <1>2, <1>3, <1>4, <2>1
  <2>2. CASE j >= i
    <3>1. (a \o b)[j] = b[j - Len(a)]
      BY <1>2, <1>3, <1>4, <2>2
    <3>2. j - Len(a) \in 1 .. Len(s) - i /\ i + (j - Len(a)) = j + 1
      BY <1>2, <1>4, <2>2
    <3>3. b[j - Len(a)] = s[j + 1]
      BY <1>3, <3>2
    <3>4. ~(j < i)
      BY <1>4, <2>2
    <3>5. QED
      BY <3>1, <3>3, <3>4
  <2>3. j < i \/ j >= i
    BY <1>4
  <2>4. QED
    BY <2>1, <2>2, <2>3
<1>8. QED
  BY <1>1, <1>5, <1>6, <1>7

(* What holds a ring's requests holds them when one is added.              *)
LEMMA UploadFromInv ==
    ASSUME NEW tried, NEW places, NEW i \in 1 .. Len(tried),
           NEW size \in Nat \ {0}, NEW alignment \in Nat \ {0},
           RingsOK(tried, places, made, lastSubmitted),
           uploads \subseteq Upload,
           CanAllocate(tried[i], size, alignment),
           UploadFrom(tried, places, i, size, alignment)
    PROVE  /\ RingsOK(rings', buffers', made', lastSubmitted)
           /\ uploads' \subseteq Upload
           /\ \A u, rel : Held(u, tried, places, rel) => Held(u, rings', buffers', rel)
           /\ \A u \in uploads' \ uploads :
                u.serial = PendingSerial /\ \A rel : Held(u, rings', buffers', rel)
           /\ \A h \in 1 .. Len(rings') : \A j \in 1 .. Len(rings'[h].requests) :
                \/ rings'[h].requests[j].serial = PendingSerial
                \/ /\ h \in 1 .. Len(tried) /\ j \in 1 .. Len(tried[h].requests)
                   /\ rings'[h].requests[j] = tried[h].requests[j]
<1> DEFINE n == Len(tried)
           ring == Allocate(tried[i], size, alignment, PendingSerial)
           buffer == IF places[i] = NoBuffer THEN made + 1 ELSE places[i]
<1>1. /\ tried \in Seq(Ring) /\ n \in Nat /\ places \in Seq(Nat) /\ Len(places) = n
      /\ made \in Nat /\ lastSubmitted \in Nat /\ PendingSerial \in Nat
      /\ RingInv(tried[i]) /\ Serials(tried[i], lastSubmitted) /\ places[i] \in Nat
      /\ tried # <<>>
  BY DEF RingsOK, PendingSerial
<1> HIDE DEF ring, buffer
<1>2. /\ RingInv(ring) /\ ring.end - size \in Nat
      /\ Adds(tried[i], ring, size, PendingSerial)
  BY <1>1, AllocateInv DEF ring
<1>3. PICK request \in Request :
        /\ ring.requests = Append(tried[i].requests, request)
        /\ request.serial = PendingSerial /\ request.from = ring.end - size
        /\ request.endOffset = ring.end
  BY <1>2 DEF Adds
<1>4. tried[i] \in Ring /\ tried[i].requests \in Seq(Request) /\ ring \in Ring
  BY <1>1, <1>2 DEF RingInv, Ring
<1> DEFINE m == Len(tried[i].requests)
<1>5. /\ m \in Nat /\ Len(ring.requests) = m + 1 /\ ring.requests[m + 1] = request
      /\ \A j \in 1 .. m : ring.requests[j] = tried[i].requests[j]
  BY <1>3, <1>4
<1>6. rings' = [tried EXCEPT ![i] = ring]
  BY DEF UploadFrom, ring
<1>7. /\ buffers' \in Seq(Nat) /\ Len(buffers') = n /\ made' \in Nat /\ made <= made'
      /\ \A j \in 1 .. n : j # i => buffers'[j] = places[j]
      /\ \/ buffers'[i] = places[i]
         \/ places[i] = NoBuffer /\ buffers'[i] = made + 1 /\ made' = made + 1
      /\ \/ uploads' = uploads
         \/ /\ buffers'[i] \in Nat \ {NoBuffer}
            /\ uploads' = uploads \union {ToRead(buffers'[i], ring.end - size, size)}
  <2>1. CASE buffers' = places /\ UNCHANGED <<made, uploads>>
    BY <1>1, <2>1
  <2>2. CASE /\ buffers' = [places EXCEPT ![i] = buffer]
             /\ made' = IF places[i] = NoBuffer THEN made + 1 ELSE made
             /\ uploads' = uploads \union {ToRead(buffer, ring.end - size, size)}
    <3>1. /\ buffer \in Nat \ {NoBuffer} /\ (places[i] # NoBuffer => buffer = places[i])
          /\ places[i] = NoBuffer => buffer = made + 1
      BY <1>1 DEF NoBuffer, buffer
    <3>2. buffers' \in Seq(Nat) /\ Len(buffers') = n /\ buffers'[i] = buffer
          /\ \A j \in 1 .. n : j # i => buffers'[j] = places[j]
      BY <1>1, <2>2, <3>1
    <3>3. CASE places[i] = NoBuffer
      BY <1>1, <2>2, <3>1, <3>2, <3>3
    <3>4. CASE places[i] # NoBuffer
      BY <1>1, <2>2, <3>1, <3>2, <3>4
    <3>5. QED
      BY <3>3, <3>4
  <2>3. QED
    BY <2>1, <2>2 DEF UploadFrom, ring, buffer
<1>8. /\ rings' \in Seq(Ring) /\ Len(rings') = n /\ rings'[i] = ring
      /\ \A j \in 1 .. n : j # i => rings'[j] = tried[j]
  BY <1>1, <1>4, <1>6
<1>9. Serials(ring, lastSubmitted)
  <2>1. /\ \A j \in 1 .. m : tried[i].requests[j].serial <= PendingSerial
        /\ \A j, k \in 1 .. m : j < k => tried[i].requests[j].serial <= tried[i].requests[k].serial
    BY <1>1 DEF Serials, PendingSerial
  <2>2. \A j \in 1 .. m + 1 : ring.requests[j].serial <= PendingSerial
    BY <1>1, <1>3, <1>5, <2>1
  <2>3. ASSUME NEW j \in 1 .. m + 1, NEW k \in 1 .. m + 1, j < k
        PROVE  ring.requests[j].serial <= ring.requests[k].serial
    <3>1. CASE k = m + 1
      BY <1>3, <1>5, <2>2, <3>1
    <3>2. CASE k # m + 1
      <4>1. j \in 1 .. m /\ k \in 1 .. m
        BY <1>5, <2>3, <3>2
      <4>2. QED
        BY <1>5, <2>1, <2>3, <4>1
    <3>3. QED
      BY <3>1, <3>2
  <2>4. QED
    BY <1>5, <2>2, <2>3 DEF Serials, PendingSerial
<1>10. ASSUME NEW j \in 1 .. n
       PROVE  RingInv(rings'[j]) /\ Serials(rings'[j], lastSubmitted) /\ buffers'[j] <= made'
  <2>1. /\ RingInv(tried[j]) /\ Serials(tried[j], lastSubmitted)
        /\ places[j] <= made /\ places[j] \in Nat
    BY <1>1 DEF RingsOK
  <2>2. buffers'[j] <= made'
    <3>1. CASE buffers'[j] = places[j]
      BY <1>1, <1>7, <2>1, <3>1
    <3>2. CASE buffers'[j] = made + 1 /\ made' = made + 1
      BY <1>1, <3>2
    <3>3. QED
      BY <1>7, <3>1, <3>2
  <2>3. CASE j = i
    BY <1>2, <1>8, <1>9, <2>2, <2>3
  <2>4. CASE j # i
    BY <1>8, <2>1, <2>2, <2>4
  <2>5. QED
    BY <2>3, <2>4
<1>11. ASSUME NEW j \in 1 .. n, NEW k \in 1 .. n, j # k, buffers'[j] # NoBuffer
       PROVE  buffers'[j] # buffers'[k]
  <2>1. /\ places[j] \in Nat /\ places[j] <= made /\ places[k] \in Nat /\ places[k] <= made
        /\ places[j] # NoBuffer => places[j] # places[k]
        /\ places[k] # NoBuffer => places[k] # places[j]
    BY <1>1, <1>11 DEF RingsOK
  <2>2. CASE buffers'[i] = places[i]
    BY <1>7, <1>11, <2>1, <2>2
  <2>3. CASE buffers'[i] = made + 1
    <3>1. CASE j = i
      <4>1. buffers'[k] = places[k] /\ buffers'[j] = made + 1
        BY <1>7, <1>11, <2>3, <3>1
      <4>2. QED
        BY <1>1, <2>1, <4>1
    <3>2. CASE j # i
      <4>1. buffers'[j] = places[j]
        BY <1>7, <3>2
      <4>2. CASE k = i
        BY <1>1, <2>1, <2>3, <4>1, <4>2
      <4>3. CASE k # i
        BY <1>7, <1>11, <2>1, <4>1, <4>3
      <4>4. QED
        BY <4>2, <4>3
    <3>3. QED
      BY <3>1, <3>2
  <2>4. QED
    BY <1>7, <2>2, <2>3
<1>12. rings' # <<>>
  BY <1>1, <1>8
<1>13. RingsOK(rings', buffers', made', lastSubmitted)
  BY <1>1, <1>7, <1>8, <1>10, <1>11, <1>12 DEF RingsOK
<1>14. uploads' \subseteq Upload
  <2>1. buffers'[i] \in Nat \ {NoBuffer} => ToRead(buffers'[i], ring.end - size, size) \in Upload
    BY <1>1, <1>2 DEF Upload, ToRead
  <2>2. QED
    BY <1>7, <2>1
<1>15. ASSUME NEW u, NEW rel, Held(u, tried, places, rel)
       PROVE  Held(u, rings', buffers', rel)
  <2>1. CASE \E r \in rel : r.buffer = u.buffer /\ r.serial = u.serial
    BY <2>1 DEF Held
  <2>2. ASSUME NEW h \in 1 .. n, HeldIn(u, h, tried, places)
        PROVE  HeldIn(u, h, rings', buffers')
    <3>1. CASE h = i
      <4>1. PICK j \in 1 .. m :
              /\ tried[i].requests[j].from = u.from /\ tried[i].requests[j].endOffset = u.to
              /\ tried[i].requests[j].serial = u.serial
        BY <2>2, <3>1 DEF HeldIn
      <4>2. j \in 1 .. m + 1 /\ ring.requests[j] = tried[i].requests[j]
        BY <1>5
      <4>3. buffers'[i] = places[i] /\ places[i] = u.buffer /\ places[i] # NoBuffer
        BY <1>7, <2>2, <3>1 DEF HeldIn
      <4>4. QED
        BY <1>5, <1>8, <3>1, <4>1, <4>2, <4>3 DEF HeldIn
    <3>2. CASE h # i
      <4>1. rings'[h] = tried[h] /\ buffers'[h] = places[h]
        BY <1>7, <1>8, <3>2
      <4>2. QED
        BY <2>2, <4>1 DEF HeldIn
    <3>3. QED
      BY <3>1, <3>2
  <2>3. QED
    BY <1>8, <1>15, <2>1, <2>2 DEF Held
<1>16. ASSUME NEW u \in uploads' \ uploads, NEW rel
       PROVE  u.serial = PendingSerial /\ Held(u, rings', buffers', rel)
  <2>1. u = ToRead(buffers'[i], ring.end - size, size)
    BY <1>7, <1>16
  <2>2. /\ u.buffer = buffers'[i] /\ u.from = ring.end - size /\ u.to = ring.end - size + size
        /\ u.serial = PendingSerial
    BY <2>1 DEF ToRead
  <2>3. ring.end \in Nat /\ ring.end - size + size = ring.end
    BY <1>4, RingSizeAssumption DEF Ring, Offsets
  <2>4. HeldIn(u, i, rings', buffers')
    <3>1. m + 1 \in 1 .. Len(rings'[i].requests) /\ rings'[i].requests[m + 1] = request
      BY <1>5, <1>8
    <3>2. buffers'[i] # NoBuffer
      BY <1>7, <1>16
    <3>3. QED
      BY <1>3, <2>2, <2>3, <3>1, <3>2 DEF HeldIn
  <2>5. QED
    BY <1>8, <2>2, <2>4 DEF Held
<1>17. ASSUME NEW h \in 1 .. Len(rings'), NEW j \in 1 .. Len(rings'[h].requests)
       PROVE  \/ rings'[h].requests[j].serial = PendingSerial
              \/ /\ h \in 1 .. n /\ j \in 1 .. Len(tried[h].requests)
                 /\ rings'[h].requests[j] = tried[h].requests[j]
  <2>1. CASE h = i
    <3>1. j \in 1 .. m + 1 /\ rings'[h].requests[j] = ring.requests[j]
      BY <1>5, <1>8, <2>1
    <3>2. CASE j = m + 1
      BY <1>3, <1>5, <3>1, <3>2
    <3>3. CASE j # m + 1
      BY <1>5, <1>8, <2>1, <3>1, <3>3
    <3>4. QED
      BY <3>2, <3>3
  <2>2. CASE h # i
    BY <1>8, <2>2
  <2>3. QED
    BY <2>1, <2>2
<1>18. QED
  BY <1>13, <1>14, <1>15, <1>16, <1>17

(* Every ring is one in the initial state.                                 *)
LEMMA InitInv == Init => IInv
<1> SUFFICES ASSUME Init PROVE IInv
  OBVIOUS
<1> USE DEF Init
<1>1. EmptyRing \in Ring /\ EmptyRing.requests = <<>>
  BY EmptyRingInv DEF RingInv, EmptyRing
<1>2. /\ rings \in Seq(Ring) /\ rings # <<>> /\ Len(rings) = 1 /\ rings[1] = EmptyRing
      /\ buffers \in Seq(Nat) /\ Len(buffers) = 1 /\ buffers[1] = 0
  BY <1>1 DEF NoBuffer
<1>3. TypeOK
  BY <1>2 DEF TypeOK
<1>4. \A i \in 1 .. 1 : i = 1
  OBVIOUS
<1>5. Serials(EmptyRing, 0)
  BY <1>1 DEF Serials
<1>6. RingsOK(rings, buffers, made, lastSubmitted)
  BY <1>2, <1>4, <1>5, EmptyRingInv DEF RingsOK, NoBuffer
<1>7. EverythingReclaimed
  BY <1>1, <1>2, <1>4 DEF EverythingReclaimed, IsEmpty
<1>8. QED
  BY <1>3, <1>6, <1>7 DEF IInv

(* What IInv says that the steps below need of the domains.                *)
LEMMA Domains ==
    ASSUME IInv
    PROVE  /\ DOMAIN rings = 1 .. Len(rings) /\ Len(rings) \in Nat /\ Len(rings) >= 1
           /\ \A i \in DOMAIN rings :
                /\ rings[i] \in Ring /\ rings[i].requests \in Seq(Request)
                /\ DOMAIN rings[i].requests = 1 .. Len(rings[i].requests)
                /\ Len(rings[i].requests) \in Nat
<1>1. rings \in Seq(Ring) /\ rings # <<>>
  BY DEF IInv, TypeOK
<1>2. \A i \in DOMAIN rings : rings[i] \in Ring
  BY <1>1
<1>3. \A i \in DOMAIN rings : rings[i].requests \in Seq(Request)
  BY <1>2 DEF Ring
<1>4. QED
  BY <1>1, <1>2, <1>3

(* An upload alone is held by the buffer released for it.                  *)
LEMMA UploadAloneInv == IInv /\ UploadAlone => IInv'
<1> SUFFICES ASSUME IInv, UploadAlone PROVE IInv'
  OBVIOUS
<1>1. PICK size \in Sizes : uploads' = uploads \union {ToRead(made + 1, 0, size)}
  BY DEF UploadAlone
<1>2. /\ made' = made + 1 /\ at = 0
      /\ released' = released \union {[buffer |-> made + 1, serial |-> PendingSerial]}
      /\ rings' = rings /\ buffers' = buffers /\ lastSubmitted' = lastSubmitted
      /\ finished' = finished /\ upTo' = upTo /\ at' = at
  BY DEF UploadAlone, CanUpload, serials, loop
<1>3. /\ made \in Nat /\ lastSubmitted \in Nat /\ finished \in Nat /\ upTo \in Nat
      /\ upTo <= finished /\ finished <= lastSubmitted /\ size \in Nat
      /\ PendingSerial = lastSubmitted + 1
  BY UploaderBounds DEF IInv, TypeOK, PendingSerial
<1>4. TypeOK'
  <2>1. ToRead(made + 1, 0, size) \in Upload
    BY <1>3 DEF ToRead, Upload
  <2>2. [buffer |-> made + 1, serial |-> PendingSerial] \in Released
    BY <1>3 DEF Released
  <2>3. QED
    BY <1>1, <1>2, <1>3, <2>1, <2>2 DEF IInv, TypeOK
<1>5. RingsOK(rings, buffers, made', lastSubmitted)
  <2>1. RingsOK(rings, buffers, made, lastSubmitted) /\ buffers \in Seq(Nat)
    BY DEF IInv, RingsOK
  <2>2. ASSUME NEW i \in 1 .. Len(rings) PROVE buffers[i] <= made'
    <3>1. buffers[i] \in Nat /\ buffers[i] <= made
      BY <2>1 DEF RingsOK
    <3>2. QED
      BY <1>2, <1>3, <3>1
  <2>3. made' \in Nat
    BY <1>2, <1>3
  <2>4. QED
    BY <2>1, <2>2, <2>3 DEF RingsOK
<1>6. ASSUME NEW u \in uploads'
      PROVE  u.serial > finished /\ Held(u, rings, buffers, released')
  <2>1. CASE u \in uploads
    BY <1>2, <2>1 DEF IInv, Held
  <2>2. CASE u = ToRead(made + 1, 0, size)
    <3>1. u.serial = PendingSerial /\ u.buffer = made + 1
      BY <2>2 DEF ToRead
    <3> DEFINE r == [buffer |-> made + 1, serial |-> PendingSerial]
    <3>2. r \in released' /\ r.buffer = u.buffer /\ r.serial = u.serial
      BY <1>2, <3>1
    <3>3. u.serial > finished
      BY <1>3, <3>1
    <3>4. QED
      BY <3>2, <3>3 DEF Held
  <2>3. QED
    BY <1>1, <2>1, <2>2
<1>7. EverythingReclaimed'
  <2>1. \A r \in released' : r.serial > upTo
    BY <1>2, <1>3 DEF IInv, EverythingReclaimed
  <2>2. QED
    BY <1>2, <2>1 DEF IInv, EverythingReclaimed
<1>8. QED
  BY <1>2, <1>3, <1>4, <1>5, <1>6, <1>7 DEF IInv

(* An upload from a ring is held by the request that was added for it.     *)
LEMMA UploadFromStep ==
    ASSUME IInv, at = 0,
           NEW tried, NEW places, NEW i \in 1 .. Len(tried),
           NEW size \in Nat \ {0}, NEW alignment \in Nat \ {0},
           RingsOK(tried, places, made, lastSubmitted),
           \A u \in uploads : Held(u, tried, places, released),
           CanAllocate(tried[i], size, alignment),
           \A h \in 1 .. Len(tried) : \A j \in 1 .. Len(tried[h].requests) :
              tried[h].requests[j].serial > upTo,
           UploadFrom(tried, places, i, size, alignment),
           UNCHANGED <<released, serials, loop>>
    PROVE  IInv'
<1>1. uploads \subseteq Upload
  BY DEF IInv, TypeOK
<1>2. /\ released' = released /\ lastSubmitted' = lastSubmitted
      /\ finished' = finished /\ upTo' = upTo /\ at' = 0
  BY DEF serials, loop
<1>3. /\ RingsOK(rings', buffers', made', lastSubmitted)
      /\ uploads' \subseteq Upload
      /\ \A u, rel : Held(u, tried, places, rel) => Held(u, rings', buffers', rel)
      /\ \A u \in uploads' \ uploads :
           u.serial = PendingSerial /\ \A rel : Held(u, rings', buffers', rel)
      /\ \A h \in 1 .. Len(rings') : \A j \in 1 .. Len(rings'[h].requests) :
           \/ rings'[h].requests[j].serial = PendingSerial
           \/ /\ h \in 1 .. Len(tried) /\ j \in 1 .. Len(tried[h].requests)
              /\ rings'[h].requests[j] = tried[h].requests[j]
  BY <1>1, UploadFromInv
<1>4. /\ lastSubmitted \in Nat /\ finished \in Nat /\ upTo \in Nat
      /\ upTo <= finished /\ finished <= lastSubmitted
      /\ PendingSerial = lastSubmitted + 1
  BY DEF IInv, TypeOK, PendingSerial
<1>5. TypeOK'
  <2>1. released' \subseteq Released
    BY <1>2 DEF IInv, TypeOK
  <2>2. /\ rings' \in Seq(Ring) /\ rings' # <<>> /\ buffers' \in Seq(Nat)
        /\ Len(buffers') = Len(rings') /\ made' \in Nat
    BY <1>3 DEF RingsOK
  <2>3. 0 \in 0 .. Len(rings')
    BY <2>2
  <2>4. QED
    BY <1>2, <1>3, <1>4, <2>1, <2>2, <2>3 DEF TypeOK
<1>6. ASSUME NEW u \in uploads'
      PROVE  u.serial > finished /\ Held(u, rings', buffers', released)
  <2>1. CASE u \in uploads
    BY <1>3, <2>1 DEF IInv
  <2>2. CASE u \notin uploads
    BY <1>3, <1>4, <2>2
  <2>3. QED
    BY <2>1, <2>2
<1>7. ASSUME NEW h \in DOMAIN rings', NEW j \in DOMAIN rings'[h].requests
      PROVE  rings'[h].requests[j].serial > upTo
  <2>1. rings' \in Seq(Ring)
    BY <1>3 DEF RingsOK
  <2>2. rings'[h].requests \in Seq(Request) /\ h \in 1 .. Len(rings')
    <3>1. h \in 1 .. Len(rings')
      BY <2>1
    <3>2. rings'[h] \in Ring
      BY <2>1, <3>1
    <3>3. QED
      BY <3>1, <3>2 DEF Ring
  <2>3. j \in 1 .. Len(rings'[h].requests)
    BY <2>2
  <2>4. CASE rings'[h].requests[j].serial = PendingSerial
    BY <1>4, <2>4
  <2>5. CASE /\ h \in 1 .. Len(tried) /\ j \in 1 .. Len(tried[h].requests)
             /\ rings'[h].requests[j] = tried[h].requests[j]
    BY <2>5
  <2>6. QED
    BY <1>3, <2>2, <2>3, <2>4, <2>5
<1>8. EverythingReclaimed'
  <2>1. ASSUME NEW h \in DOMAIN rings', h < 0 PROVE FALSE
    BY <1>3, <2>1 DEF RingsOK
  <2>2. \A r \in released : r.serial > upTo
    BY DEF IInv, EverythingReclaimed
  <2>3. QED
    BY <1>2, <1>7, <2>1, <2>2 DEF EverythingReclaimed
<1>9. QED
  BY <1>2, <1>3, <1>4, <1>5, <1>6, <1>8 DEF IInv

LEMMA UploadFromRingInv == IInv /\ UploadFromRing => IInv'
<1> SUFFICES ASSUME IInv, UploadFromRing PROVE IInv'
  OBVIOUS
<1>1. PICK size \in Sizes, alignment \in Alignments, i \in DOMAIN rings :
        CanAllocate(rings[i], size, alignment) /\ UploadFrom(rings, buffers, i, size, alignment)
  BY DEF UploadFromRing, WithRoom
<1>2. at = 0 /\ UNCHANGED <<released, serials, loop>>
  BY DEF UploadFromRing, CanUpload
<1>3. size \in Nat \ {0} /\ alignment \in Nat \ {0}
  BY UploaderBounds
<1>4. /\ RingsOK(rings, buffers, made, lastSubmitted)
      /\ \A u \in uploads : Held(u, rings, buffers, released)
  BY DEF IInv
<1>5. i \in 1 .. Len(rings)
  BY Domains
<1>6. \A h \in 1 .. Len(rings) : \A j \in 1 .. Len(rings[h].requests) :
        rings[h].requests[j].serial > upTo
  BY <1>2, Domains DEF IInv, EverythingReclaimed
<1>7. QED
  BY <1>1, <1>2, <1>3, <1>4, <1>5, <1>6, UploadFromStep

LEMMA UploadFromNewRingInv == IInv /\ UploadFromNewRing => IInv'
<1> SUFFICES ASSUME IInv, UploadFromNewRing PROVE IInv'
  OBVIOUS
<1> DEFINE n == Len(rings)
           tried == Append(rings, EmptyRing)
           places == Append(buffers, NoBuffer)
<1>1. PICK size \in Sizes, alignment \in Alignments :
        size <= RingSize /\ UploadFrom(tried, places, n + 1, size, 1)
  BY DEF UploadFromNewRing
<1>2. at = 0 /\ UNCHANGED <<released, serials, loop>>
  BY DEF UploadFromNewRing, CanUpload
<1>3. size \in Nat \ {0} /\ 1 \in Nat \ {0}
  BY UploaderBounds
<1>4. /\ RingsOK(rings, buffers, made, lastSubmitted)
      /\ \A u \in uploads : Held(u, rings, buffers, released)
  BY DEF IInv
<1>5. /\ rings \in Seq(Ring) /\ buffers \in Seq(Nat) /\ Len(buffers) = n /\ n \in Nat
      /\ made \in Nat /\ lastSubmitted \in Nat
      /\ \A i \in 1 .. n :
           RingInv(rings[i]) /\ Serials(rings[i], lastSubmitted) /\ buffers[i] <= made
      /\ \A i, j \in 1 .. n : i # j /\ buffers[i] # NoBuffer => buffers[i] # buffers[j]
  BY <1>4 DEF RingsOK
<1>6. EmptyRing \in Ring /\ EmptyRing.requests = <<>>
  BY EmptyRingInv DEF RingInv, EmptyRing
<1>7. /\ tried \in Seq(Ring) /\ Len(tried) = n + 1 /\ tried[n + 1] = EmptyRing
      /\ \A i \in 1 .. n : tried[i] = rings[i]
      /\ places \in Seq(Nat) /\ Len(places) = n + 1 /\ places[n + 1] = NoBuffer
      /\ \A i \in 1 .. n : places[i] = buffers[i]
  BY <1>5, <1>6 DEF NoBuffer
<1> HIDE DEF n, tried, places
<1>8. tried # <<>>
  BY <1>5, <1>7
<1>9. ASSUME NEW i \in 1 .. n + 1
      PROVE  RingInv(tried[i]) /\ Serials(tried[i], lastSubmitted) /\ places[i] <= made
  <2>1. CASE i = n + 1
    <3>1. Serials(EmptyRing, lastSubmitted)
      BY <1>6 DEF Serials
    <3>2. places[i] <= made
      BY <1>5, <1>7, <2>1 DEF NoBuffer
    <3>3. QED
      BY <1>7, <2>1, <3>1, <3>2, EmptyRingInv
  <2>2. CASE i \in 1 .. n
    BY <1>5, <1>7, <2>2
  <2>3. QED
    BY <1>5, <2>1, <2>2
<1>10. ASSUME NEW i \in 1 .. n + 1, NEW j \in 1 .. n + 1, i # j, places[i] # NoBuffer
       PROVE  places[i] # places[j]
  <2>1. i \in 1 .. n
    BY <1>5, <1>7, <1>10
  <2>2. CASE j = n + 1
    BY <1>7, <1>10, <2>2
  <2>3. CASE j \in 1 .. n
    BY <1>5, <1>7, <1>10, <2>1, <2>3
  <2>4. QED
    BY <1>5, <2>2, <2>3
<1>11. RingsOK(tried, places, made, lastSubmitted)
  BY <1>5, <1>7, <1>8, <1>9, <1>10 DEF RingsOK
<1>12. ASSUME NEW u \in uploads PROVE Held(u, tried, places, released)
  <2>1. Held(u, rings, buffers, released)
    BY <1>4
  <2>2. CASE \E r \in released : r.buffer = u.buffer /\ r.serial = u.serial
    BY <2>2 DEF Held
  <2>3. ASSUME NEW i \in 1 .. n, HeldIn(u, i, rings, buffers)
        PROVE  HeldIn(u, i, tried, places)
    BY <1>7, <2>3 DEF HeldIn
  <2>4. \A i \in 1 .. n : i \in 1 .. n + 1
    BY <1>5
  <2>5. QED
    BY <1>7, <2>1, <2>2, <2>3, <2>4 DEF Held, n
<1>13. CanAllocate(tried[n + 1], size, 1)
  <2>1. Padding(EmptyRing, 1) = 0
    BY DEF Padding, EmptyRing
  <2>2. EmptyRing.start = 0 /\ EmptyRing.end = 0 /\ EmptyRing.used = 0
    BY DEF EmptyRing
  <2>3. AtEnd(EmptyRing, size, 1)
    BY <1>1, <1>3, <2>1, <2>2, RingSizeAssumption DEF AtEnd, AlignedEnd, IsSplit
  <2>4. QED
    BY <1>1, <1>3, <1>7, <2>2, <2>3, RingSizeAssumption DEF CanAllocate
<1>14. ASSUME NEW h \in 1 .. Len(tried), NEW j \in 1 .. Len(tried[h].requests)
       PROVE  tried[h].requests[j].serial > upTo
  <2>1. CASE h = n + 1
    <3>1. 1 .. Len(tried[h].requests) = {}
      BY <1>6, <1>7, <2>1
    <3>2. QED
      BY <3>1
  <2>2. CASE h \in 1 .. n
    <3>1. tried[h] = rings[h] /\ h \in DOMAIN rings /\ j \in DOMAIN rings[h].requests
      BY <1>7, <2>2, Domains DEF n
    <3>2. QED
      BY <1>2, <3>1 DEF IInv, EverythingReclaimed
  <2>3. QED
    BY <1>5, <1>7, <2>1, <2>2
<1>15. n + 1 \in 1 .. Len(tried)
  BY <1>5, <1>7
<1>16. QED
  BY <1>1, <1>2, <1>3, <1>11, <1>12, <1>13, <1>14, <1>15, UploadFromStep

(* A later serial changes nothing for the requests there are.              *)
LEMMA LaterSerial ==
    ASSUME NEW rs, NEW bs, NEW m, NEW last, RingsOK(rs, bs, m, last),
           NEW later \in Nat, last <= later
    PROVE  RingsOK(rs, bs, m, later)
<1>1. rs \in Seq(Ring) /\ last \in Nat
  BY DEF RingsOK
<1>2. ASSUME NEW i \in 1 .. Len(rs) PROVE Serials(rs[i], later)
  <2>1. rs[i] \in Ring
    BY <1>1
  <2>2. rs[i].requests \in Seq(Request)
    BY <2>1 DEF Ring
  <2>3. Serials(rs[i], last)
    BY DEF RingsOK
  <2>4. ASSUME NEW j \in 1 .. Len(rs[i].requests)
        PROVE  rs[i].requests[j].serial <= later + 1
    <3>1. rs[i].requests[j] \in Request
      BY <2>2
    <3>2. rs[i].requests[j].serial \in Nat
      BY <3>1 DEF Request
    <3>3. rs[i].requests[j].serial <= last + 1
      BY <2>3 DEF Serials
    <3>4. QED
      BY <1>1, <3>2, <3>3
  <2>5. QED
    BY <2>3, <2>4 DEF Serials
<1>3. QED
  BY <1>2 DEF RingsOK

LEMMA TickInv == IInv /\ Tick => IInv'
<1> SUFFICES ASSUME IInv, Tick PROVE IInv'
  OBVIOUS
<1>1. /\ rings' = rings /\ buffers' = buffers /\ released' = released /\ made' = made
      /\ uploads' = uploads /\ finished' = finished /\ upTo' = finished /\ at' = 1
      /\ lastSubmitted' = lastSubmitted \/ lastSubmitted' = lastSubmitted + 1
  BY DEF Tick, PendingSerial
<1>2. /\ lastSubmitted \in Nat /\ finished \in Nat /\ finished <= lastSubmitted
      /\ RingsOK(rings, buffers, made, lastSubmitted)
  BY DEF IInv, TypeOK
<1>3. lastSubmitted' \in Nat /\ lastSubmitted <= lastSubmitted'
  BY <1>1, <1>2
<1>4. RingsOK(rings, buffers, made, lastSubmitted')
  BY <1>2, <1>3, LaterSerial
<1>5. TypeOK'
  <2>1. 1 \in 0 .. Len(rings)
    BY Domains
  <2>2. QED
    BY <1>1, <1>2, <1>3, <2>1 DEF IInv, TypeOK
<1>6. EverythingReclaimed'
  <2>1. ASSUME NEW i \in DOMAIN rings, i < 1 PROVE FALSE
    BY <2>1, Domains
  <2>2. QED
    BY <1>1, <2>1 DEF EverythingReclaimed
<1>7. upTo' <= finished' /\ finished' <= lastSubmitted'
  BY <1>1, <1>2, <1>3
<1>8. QED
  BY <1>1, <1>4, <1>5, <1>6, <1>7 DEF IInv

LEMMA GpuInv == IInv /\ Gpu => IInv'
<1> SUFFICES ASSUME IInv, Gpu PROVE IInv'
  OBVIOUS
<1>1. /\ rings' = rings /\ buffers' = buffers /\ released' = released /\ made' = made
      /\ uploads' = {u \in uploads : u.serial > finished'} /\ lastSubmitted' = lastSubmitted
      /\ finished' = finished + 1 /\ finished < lastSubmitted /\ upTo' = upTo /\ at' = at
  BY DEF Gpu, loop
<1>2. /\ lastSubmitted \in Nat /\ finished \in Nat /\ upTo \in Nat /\ upTo <= finished
  BY DEF IInv, TypeOK
<1>3. TypeOK'
  BY <1>1, <1>2 DEF IInv, TypeOK
<1>4. upTo' <= finished' /\ finished' <= lastSubmitted'
  BY <1>1, <1>2
<1>5. EverythingReclaimed'
  BY <1>1 DEF IInv, EverythingReclaimed
<1>6. \A u \in uploads' : u.serial > finished' /\ Held(u, rings, buffers, released)
  BY <1>1 DEF IInv
<1>7. QED
  BY <1>1, <1>3, <1>4, <1>5, <1>6 DEF IInv

(* The request that goes has a serial that has passed: no upload counts on *)
(* it.                                                                     *)
LEMMA ReclaimOneInv == IInv /\ ReclaimOne => IInv'
<1> SUFFICES ASSUME IInv, ReclaimOne PROVE IInv'
  OBVIOUS
<1> DEFINE n == Len(rings)
           ring == rings[at]
           T == Tail(ring.requests)
           m == Len(ring.requests)
<1>1. /\ rings' = [rings EXCEPT ![at] = Reclaim(ring)]
      /\ buffers' = buffers /\ released' = released /\ made' = made
      /\ uploads' = uploads /\ finished' = finished /\ lastSubmitted' = lastSubmitted
      /\ upTo' = upTo /\ at' = at /\ at # 0
      /\ ~IsEmpty(ring) /\ Head(ring.requests).serial <= upTo
  BY DEF ReclaimOne, CanReclaim, HasPassed, serials, loop
<1>2. /\ lastSubmitted \in Nat /\ finished \in Nat /\ upTo \in Nat /\ upTo <= finished
      /\ finished <= lastSubmitted /\ at \in 0 .. n /\ buffers \in Seq(Nat) /\ Len(buffers) = n
      /\ n \in Nat /\ rings \in Seq(Ring) /\ rings # <<>> /\ uploads \subseteq Upload
  BY Domains DEF IInv, TypeOK
<1>3. at \in 1 .. n
  BY <1>1, <1>2
<1>4. RingInv(ring) /\ Serials(ring, lastSubmitted) /\ ring \in Ring
  BY <1>3 DEF IInv, RingsOK, RingInv
<1>5. RingInv(Reclaim(ring)) /\ Reclaim(ring).requests = T
  BY <1>1, <1>4, ReclaimInv
<1>6. /\ ring.requests \in Seq(Request) /\ m \in Nat /\ m >= 1
      /\ Head(ring.requests) = ring.requests[1]
      /\ T \in Seq(Request) /\ Len(T) = m - 1
      /\ \A j \in 1 .. m - 1 : T[j] = ring.requests[j + 1]
  <2>1. ring.requests \in Seq(Request) /\ ring.requests # <<>>
    BY <1>1, <1>4 DEF Ring, IsEmpty
  <2>2. QED
    BY <2>1
<1>7. Reclaim(ring) \in Ring
  BY <1>5 DEF RingInv
<1> HIDE DEF n, ring, T, m
<1>8. /\ rings' \in Seq(Ring) /\ Len(rings') = n /\ rings'[at] = Reclaim(ring)
      /\ \A i \in 1 .. n : i # at => rings'[i] = rings[i]
  BY <1>1, <1>2, <1>3, <1>7 DEF n
<1>9. TypeOK'
  <2>1. rings' # <<>>
    BY <1>3, <1>8
  <2>2. QED
    BY <1>1, <1>2, <1>8, <2>1 DEF IInv, TypeOK
<1>10. Serials(Reclaim(ring), lastSubmitted)
  <2>1. \A j \in 1 .. m - 1 : j + 1 \in 1 .. m
    BY <1>6
  <2>2. \A j, k \in 1 .. m - 1 : j < k => j + 1 < k + 1
    BY <1>6
  <2>3. /\ \A j \in 1 .. m : ring.requests[j].serial <= lastSubmitted + 1
        /\ \A j, k \in 1 .. m :
             j < k => ring.requests[j].serial <= ring.requests[k].serial
    BY <1>4 DEF Serials, m
  <2>4. \A j \in 1 .. m - 1 : T[j].serial <= lastSubmitted + 1
    BY <1>6, <2>1, <2>3
  <2>5. ASSUME NEW j \in 1 .. m - 1, NEW k \in 1 .. m - 1, j < k
        PROVE  T[j].serial <= T[k].serial
    BY <1>6, <2>1, <2>2, <2>3, <2>5
  <2>6. QED
    BY <1>5, <1>6, <2>4, <2>5 DEF Serials
<1>11. RingsOK(rings', buffers, made, lastSubmitted)
  <2>1. ASSUME NEW i \in 1 .. n
        PROVE  RingInv(rings'[i]) /\ Serials(rings'[i], lastSubmitted) /\ buffers[i] <= made
    <3>1. RingInv(rings[i]) /\ Serials(rings[i], lastSubmitted) /\ buffers[i] <= made
      BY DEF IInv, RingsOK, n
    <3>2. CASE i = at
      BY <1>5, <1>8, <1>10, <3>1, <3>2
    <3>3. CASE i # at
      BY <1>8, <3>1, <3>3
    <3>4. QED
      BY <3>2, <3>3
  <2>2. rings' # <<>>
    BY <1>3, <1>8
  <2>3. /\ made \in Nat
        /\ \A i, j \in 1 .. n : i # j /\ buffers[i] # NoBuffer => buffers[i] # buffers[j]
    BY DEF IInv, RingsOK, n
  <2>4. QED
    BY <1>2, <1>8, <2>1, <2>2, <2>3 DEF RingsOK
<1>12. ASSUME NEW u \in uploads
       PROVE  u.serial > finished /\ Held(u, rings', buffers, released)
  <2>1. u.serial > finished /\ Held(u, rings, buffers, released) /\ u.serial \in Nat
    BY <1>2 DEF IInv, Upload
  <2>2. CASE \E r \in released : r.buffer = u.buffer /\ r.serial = u.serial
    BY <2>1, <2>2 DEF Held
  <2>3. ASSUME NEW h \in 1 .. n, HeldIn(u, h, rings, buffers)
        PROVE  HeldIn(u, h, rings', buffers)
    <3>1. CASE h # at
      BY <1>8, <2>3, <3>1 DEF HeldIn
    <3>2. CASE h = at
      <4>1. PICK j \in 1 .. m :
              /\ ring.requests[j].from = u.from /\ ring.requests[j].endOffset = u.to
              /\ ring.requests[j].serial = u.serial
        BY <2>3, <3>2 DEF HeldIn, ring, m
      <4>2. j # 1
        BY <1>1, <1>2, <1>6, <2>1, <4>1
      <4>3. j - 1 \in 1 .. m - 1 /\ (j - 1) + 1 = j
        BY <1>6, <4>2
      <4>4. T[j - 1] = ring.requests[j] /\ j - 1 \in 1 .. Len(T)
        BY <1>6, <4>3
      <4>5. QED
        BY <1>5, <1>8, <2>3, <3>2, <4>1, <4>4 DEF HeldIn
    <3>3. QED
      BY <3>1, <3>2
  <2>4. QED
    BY <1>8, <2>1, <2>2, <2>3 DEF Held, n
<1>13. EverythingReclaimed'
  <2>1. DOMAIN rings' = 1 .. n /\ DOMAIN rings = 1 .. n
    BY <1>8, Domains DEF n
  <2>2. ASSUME NEW i \in 1 .. n, i < at PROVE rings'[i] = rings[i]
    BY <1>3, <1>8, <2>2
  <2>3. QED
    BY <1>1, <2>1, <2>2 DEF IInv, EverythingReclaimed
<1>14. QED
  BY <1>1, <1>2, <1>9, <1>11, <1>12, <1>13 DEF IInv

(* The ring erased has no request, so no upload counts on it.              *)
LEMMA EraseRingInv == IInv /\ EraseRing => IInv'
<1> SUFFICES ASSUME IInv, EraseRing PROVE IInv'
  OBVIOUS
<1> DEFINE n == Len(rings)
<1>1. /\ rings' = RemoveAt(rings, at) /\ buffers' = RemoveAt(buffers, at)
      /\ released' = released /\ made' = made
      /\ uploads' = uploads /\ finished' = finished /\ lastSubmitted' = lastSubmitted
      /\ upTo' = upTo /\ at' = at /\ at # 0
      /\ rings[at].requests = <<>> /\ at < n
  BY DEF EraseRing, CanErase, IsEmpty, serials, loop
<1>2. /\ lastSubmitted \in Nat /\ made \in Nat
      /\ at \in 0 .. n /\ buffers \in Seq(Nat) /\ Len(buffers) = n
      /\ n \in Nat /\ rings \in Seq(Ring)
  BY Domains DEF IInv, TypeOK
<1>3. at \in 1 .. n /\ n - 1 \in Nat /\ n - 1 >= 1 /\ at <= n - 1
  BY <1>1, <1>2
<1>4. /\ rings' \in Seq(Ring) /\ Len(rings') = n - 1
      /\ \A i \in 1 .. n - 1 : rings'[i] = IF i < at THEN rings[i] ELSE rings[i + 1]
  BY <1>1, <1>2, <1>3, RemoveAtFacts
<1>5. /\ buffers' \in Seq(Nat) /\ Len(buffers') = n - 1
      /\ \A i \in 1 .. n - 1 : buffers'[i] = IF i < at THEN buffers[i] ELSE buffers[i + 1]
  <2>1. at \in 1 .. Len(buffers)
    BY <1>2, <1>3
  <2>2. /\ buffers' \in Seq(Nat) /\ Len(buffers') = Len(buffers) - 1
        /\ \A i \in 1 .. Len(buffers) - 1 :
             buffers'[i] = IF i < at THEN buffers[i] ELSE buffers[i + 1]
    BY <1>1, <1>2, <2>1, RemoveAtFacts
  <2>3. QED
    BY <1>2, <2>2
<1> HIDE DEF n
<1> DEFINE Old(i) == IF i < at THEN i ELSE i + 1
<1>6. ASSUME NEW i \in 1 .. n - 1
      PROVE  Old(i) \in 1 .. n /\ rings'[i] = rings[Old(i)] /\ buffers'[i] = buffers[Old(i)]
  <2>1. CASE i < at
    BY <1>2, <1>4, <1>5, <2>1
  <2>2. CASE ~(i < at)
    BY <1>2, <1>4, <1>5, <2>2
  <2>3. QED
    BY <2>1, <2>2
<1>7. ASSUME NEW i \in 1 .. n - 1, NEW j \in 1 .. n - 1, i # j PROVE Old(i) # Old(j)
  <2>1. i \in Nat /\ j \in Nat /\ at \in Nat
    BY <1>2
  <2>2. CASE i < at /\ j < at
    BY <1>7, <2>2
  <2>3. CASE i < at /\ ~(j < at)
    BY <2>1, <2>3
  <2>4. CASE ~(i < at) /\ j < at
    BY <2>1, <2>4
  <2>5. CASE ~(i < at) /\ ~(j < at)
    BY <1>7, <2>1, <2>5
  <2>6. QED
    BY <2>2, <2>3, <2>4, <2>5
<1>8. ASSUME NEW h \in 1 .. n, h # at
      PROVE  \E i \in 1 .. n - 1 : Old(i) = h
  <2>1. CASE h < at
    <3>1. h \in 1 .. n - 1 /\ Old(h) = h
      BY <1>2, <1>3, <2>1
    <3>2. QED
      BY <3>1
  <2>2. CASE h > at
    <3>1. h - 1 \in 1 .. n - 1 /\ ~(h - 1 < at) /\ (h - 1) + 1 = h
      BY <1>2, <1>3, <2>2
    <3>2. Old(h - 1) = h
      BY <3>1
    <3>3. QED
      BY <3>1, <3>2
  <2>3. QED
    BY <1>2, <1>8, <2>1, <2>2
<1> HIDE DEF Old
<1>9. rings' # <<>>
  BY <1>3, <1>4
<1>10. TypeOK'
  <2>1. at \in 0 .. Len(rings')
    BY <1>2, <1>3, <1>4
  <2>2. QED
    BY <1>1, <1>4, <1>5, <1>9, <2>1 DEF IInv, TypeOK
<1>11. RingsOK(rings', buffers', made, lastSubmitted)
  <2>1. /\ \A i \in 1 .. n :
             RingInv(rings[i]) /\ Serials(rings[i], lastSubmitted) /\ buffers[i] <= made
        /\ \A i, j \in 1 .. n : i # j /\ buffers[i] # NoBuffer => buffers[i] # buffers[j]
    BY DEF IInv, RingsOK, n
  <2>2. \A i \in 1 .. n - 1 :
          RingInv(rings'[i]) /\ Serials(rings'[i], lastSubmitted) /\ buffers'[i] <= made
    BY <1>6, <2>1
  <2>3. \A i, j \in 1 .. n - 1 : i # j /\ buffers'[i] # NoBuffer => buffers'[i] # buffers'[j]
    BY <1>6, <1>7, <2>1
  <2>4. QED
    BY <1>2, <1>4, <1>5, <1>9, <2>2, <2>3 DEF RingsOK
<1>12. ASSUME NEW u \in uploads
       PROVE  u.serial > finished /\ Held(u, rings', buffers', released)
  <2>1. u.serial > finished /\ Held(u, rings, buffers, released)
    BY DEF IInv
  <2>2. CASE \E r \in released : r.buffer = u.buffer /\ r.serial = u.serial
    BY <2>1, <2>2 DEF Held
  <2>3. ASSUME NEW h \in 1 .. n, HeldIn(u, h, rings, buffers)
        PROVE  \E i \in 1 .. n - 1 : HeldIn(u, i, rings', buffers')
    <3>1. h # at
      <4>1. Len(rings[at].requests) = 0
        BY <1>1
      <4>2. QED
        BY <2>3, <4>1 DEF HeldIn
    <3>2. PICK i \in 1 .. n - 1 : Old(i) = h
      BY <1>8, <3>1
    <3>3. rings'[i] = rings[h] /\ buffers'[i] = buffers[h]
      BY <1>6, <3>2
    <3>4. QED
      BY <2>3, <3>3 DEF HeldIn
  <2>4. QED
    BY <1>4, <2>1, <2>2, <2>3 DEF Held, n
<1>13. EverythingReclaimed'
  <2>1. DOMAIN rings' = 1 .. n - 1 /\ DOMAIN rings = 1 .. n /\ \A i \in 1 .. n - 1 : i \in 1 .. n
    BY <1>2, <1>3, <1>4, Domains DEF n
  <2>2. ASSUME NEW i \in 1 .. n - 1, i < at PROVE rings'[i] = rings[i]
    BY <1>4, <2>2
  <2>3. QED
    BY <1>1, <2>1, <2>2 DEF IInv, EverythingReclaimed
<1>14. upTo' <= finished' /\ finished' <= lastSubmitted'
  BY <1>1 DEF IInv
<1>15. QED
  BY <1>1, <1>10, <1>11, <1>12, <1>13, <1>14 DEF IInv

(* A ring that the loop leaves has only requests that have not passed.     *)
LEMMA RingDone ==
    ASSUME IInv, NEW h \in DOMAIN rings, ~HasPassed(rings[h], upTo),
           NEW j \in DOMAIN rings[h].requests
    PROVE  rings[h].requests[j].serial > upTo
<1> DEFINE ring == rings[h]
<1>1. /\ ring.requests \in Seq(Request) /\ DOMAIN ring.requests = 1 .. Len(ring.requests)
      /\ Len(ring.requests) \in Nat /\ h \in 1 .. Len(rings) /\ upTo \in Nat
  BY Domains DEF IInv, TypeOK
<1>2. Serials(ring, lastSubmitted)
  BY <1>1 DEF IInv, RingsOK
<1> HIDE DEF ring
<1>3. ring.requests # <<>> /\ 1 \in 1 .. Len(ring.requests)
  BY <1>1 DEF ring
<1>4. Head(ring.requests) = ring.requests[1]
  BY <1>1, <1>3
<1>5. ~(ring.requests[1].serial <= upTo)
  BY <1>3, <1>4 DEF HasPassed, IsEmpty, ring
<1>6. ring.requests[1].serial \in Nat /\ ring.requests[j].serial \in Nat
  <2>1. ring.requests[1] \in Request /\ ring.requests[j] \in Request
    BY <1>1, <1>3 DEF ring
  <2>2. QED
    BY <2>1 DEF Request
<1>7. ring.requests[1].serial <= ring.requests[j].serial
  <2>1. CASE j = 1
    BY <1>6, <2>1
  <2>2. CASE j # 1
    <3>1. j \in 1 .. Len(ring.requests) /\ 1 < j
      BY <1>1, <2>2 DEF ring
    <3>2. QED
      BY <1>2, <1>3, <3>1 DEF Serials
  <2>3. QED
    BY <2>1, <2>2
<1>8. QED
  BY <1>1, <1>5, <1>6, <1>7 DEF ring

LEMMA NextRingInv == IInv /\ NextRing => IInv'
<1> SUFFICES ASSUME IInv, NextRing PROVE IInv'
  OBVIOUS
<1>1. /\ rings' = rings /\ buffers' = buffers /\ released' = released /\ made' = made
      /\ uploads' = uploads /\ lastSubmitted' = lastSubmitted /\ finished' = finished
      /\ upTo' = upTo /\ at' = at + 1 /\ at # 0 /\ at < Len(rings)
      /\ ~HasPassed(rings[at], upTo) /\ ~IsEmpty(rings[at])
  BY DEF NextRing, CanReclaim, CanErase, serials
<1>2. at \in 1 .. Len(rings) /\ Len(rings) \in Nat /\ DOMAIN rings = 1 .. Len(rings)
  BY <1>1, Domains DEF IInv, TypeOK
<1>3. at' \in 0 .. Len(rings) /\ at' # 0
  BY <1>1, <1>2
<1>4. TypeOK'
  BY <1>1, <1>3 DEF IInv, TypeOK
<1>5. EverythingReclaimed'
  <2>1. ASSUME NEW i \in DOMAIN rings, i < at'
        PROVE  /\ ~IsEmpty(rings[i])
               /\ \A j \in DOMAIN rings[i].requests : rings[i].requests[j].serial > upTo
    <3>1. CASE i = at
      BY <1>1, <1>2, <3>1, RingDone
    <3>2. CASE i # at
      <4>1. i < at
        BY <1>1, <1>2, <2>1, <3>2
      <4>2. QED
        BY <4>1 DEF IInv, EverythingReclaimed
    <3>3. QED
      BY <3>1, <3>2
  <2>2. QED
    BY <1>1, <1>3, <2>1 DEF EverythingReclaimed
<1>6. QED
  BY <1>1, <1>4, <1>5 DEF IInv

(* The buffers that go have a serial that has passed.                      *)
LEMMA EndDeallocateInv == IInv /\ EndDeallocate => IInv'
<1> SUFFICES ASSUME IInv, EndDeallocate PROVE IInv'
  OBVIOUS
<1>1. /\ rings' = rings /\ buffers' = buffers /\ made' = made
      /\ released' = {r \in released : r.serial > upTo}
      /\ uploads' = uploads /\ lastSubmitted' = lastSubmitted /\ finished' = finished
      /\ upTo' = upTo /\ at' = 0 /\ at = Len(rings)
      /\ ~HasPassed(rings[at], upTo)
  BY DEF EndDeallocate, CanReclaim, serials
<1>2. /\ at \in 1 .. Len(rings) /\ Len(rings) \in Nat /\ DOMAIN rings = 1 .. Len(rings)
      /\ upTo \in Nat /\ finished \in Nat /\ upTo <= finished
      /\ uploads \subseteq Upload /\ released \subseteq Released
  BY <1>1, Domains DEF IInv, TypeOK
<1>3. TypeOK'
  BY <1>1, <1>2 DEF IInv, TypeOK
<1>4. EverythingReclaimed'
  <2>1. ASSUME NEW i \in DOMAIN rings, NEW j \in DOMAIN rings[i].requests
        PROVE  rings[i].requests[j].serial > upTo
    <3>1. CASE i = at
      BY <1>1, <1>2, <3>1, RingDone
    <3>2. CASE i # at
      <4>1. i < at
        BY <1>1, <1>2, <3>2
      <4>2. QED
        BY <4>1 DEF IInv, EverythingReclaimed
    <3>3. QED
      BY <3>1, <3>2
  <2>2. ASSUME NEW i \in DOMAIN rings, i < 0 PROVE FALSE
    BY <1>2, <2>2
  <2>3. QED
    BY <1>1, <2>1, <2>2 DEF EverythingReclaimed
<1>5. ASSUME NEW u \in uploads
      PROVE  u.serial > finished /\ Held(u, rings, buffers, released')
  <2>1. u.serial > finished /\ Held(u, rings, buffers, released) /\ u.serial \in Nat
    BY <1>2 DEF IInv, Upload
  <2>2. ASSUME NEW r \in released, r.buffer = u.buffer, r.serial = u.serial
        PROVE  r \in released'
    BY <1>1, <1>2, <2>1, <2>2
  <2>3. QED
    BY <2>1, <2>2 DEF Held
<1>6. QED
  BY <1>1, <1>3, <1>4, <1>5 DEF IInv

-----------------------------------------------------------------------------
THEOREM InductiveInvariant == Spec => []IInv
<1>1. IInv /\ [Next]_vars => IInv'
  <2> SUFFICES ASSUME IInv, [Next]_vars PROVE IInv'
    OBVIOUS
  <2>1. CASE UploadAlone
    BY <2>1, UploadAloneInv
  <2>2. CASE UploadFromRing
    BY <2>2, UploadFromRingInv
  <2>3. CASE UploadFromNewRing
    BY <2>3, UploadFromNewRingInv
  <2>4. CASE Tick
    BY <2>4, TickInv
  <2>5. CASE Gpu
    BY <2>5, GpuInv
  <2>6. CASE ReclaimOne
    BY <2>6, ReclaimOneInv
  <2>7. CASE EraseRing
    BY <2>7, EraseRingInv
  <2>8. CASE NextRing
    BY <2>8, NextRingInv
  <2>9. CASE EndDeallocate
    BY <2>9, EndDeallocateInv
  <2>10. CASE UNCHANGED vars
    BY <2>10 DEF vars, serials, loop, IInv, TypeOK, EverythingReclaimed
  <2>11. QED
    BY <2>1, <2>2, <2>3, <2>4, <2>5, <2>6, <2>7, <2>8, <2>9, <2>10 DEF Next
<1>2. QED
  BY <1>1, InitInv, PTL DEF Spec

(* Every variable keeps its type.                                          *)
THEOREM TypeCorrect == Spec => []TypeOK
<1>1. IInv => TypeOK
  BY DEF IInv
<1>2. QED
  BY <1>1, InductiveInvariant, PTL

(* In every ring the bytes counted as used are those from start to end:    *)
(* whatever the sizes and alignments, none is lost.                        *)
THEOREM NothingLost == Spec => []NoBytesLost
<1>1. IInv => NoBytesLost
  BY Domains, RingInvImplies DEF IInv, RingsOK, NoBytesLost
<1>2. QED
  BY <1>1, InductiveInvariant, PTL

(* What the GPU has still to read is never given to another upload.        *)
THEOREM NothingOverwritten == Spec => []UploadsIntact
<1>1. IInv => UploadsIntact
  <2> SUFFICES ASSUME IInv PROVE UploadsIntact
    OBVIOUS
  <2>1. /\ DOMAIN rings = 1 .. Len(rings)
        /\ \A i \in DOMAIN rings : DOMAIN rings[i].requests = 1 .. Len(rings[i].requests)
    BY Domains
  <2>2. \A i \in DOMAIN rings : Disjoint(rings[i])
    BY <2>1, RingInvImplies DEF IInv, RingsOK
  <2>3. \A i, j \in DOMAIN rings : i # j /\ buffers[i] # NoBuffer => buffers[i] # buffers[j]
    BY <2>1 DEF IInv, RingsOK
  <2>4. ASSUME NEW u \in uploads
        PROVE  \/ \E r \in released : r.buffer = u.buffer
               \/ \E i \in DOMAIN rings : HeldByRing(u, i)
    <3>1. Held(u, rings, buffers, released)
      BY DEF IInv
    <3>2. ASSUME NEW i \in DOMAIN rings, HeldIn(u, i, rings, buffers) PROVE HeldByRing(u, i)
      BY <2>1, <3>2 DEF HeldIn, HeldByRing
    <3>3. QED
      BY <2>1, <3>1, <3>2 DEF Held
  <2>5. QED
    BY <2>2, <2>3, <2>4 DEF UploadsIntact
<1>2. QED
  BY <1>1, InductiveInvariant, PTL

(* When Deallocate has returned nothing that has passed is held any more.  *)
THEOREM AllReclaimed == Spec => []EverythingReclaimed
<1>1. IInv => EverythingReclaimed
  BY DEF IInv
<1>2. QED
  BY <1>1, InductiveInvariant, PTL
=============================================================================
