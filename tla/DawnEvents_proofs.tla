-------------------------- MODULE DawnEvents_proofs --------------------------
(***************************************************************************)
(* Proofs about DawnEvents, for every number of threads and events.        *)
(***************************************************************************)
EXTENDS DawnEvents, FiniteSetTheorems, TLAPS

(* No event that a call makes ready under the device's lock is spontaneous. *)
Quiet == "AllowSpontaneous" \notin LostModes \union MapModes

(* What a step of a call leaves to the step after it.                      *)
LastSteps == {"untrackPolled", "untrackWaited", "unlockDevice", "unlockEvents"}

Follows(s, i, step) == i + 1 \in DOMAIN s /\ s[i + 1] = step

Paired(s) ==
    \A i \in DOMAIN s :
      /\ s[i].do = "erase" => Follows(s, i, Step("complete", s[i].event))
      /\ s[i].do = "signal" => Follows(s, i, Step("handle", s[i].event))
      /\ s[i].do = "handle" => Follows(s, i, Step("release", s[i].event))
      /\ s[i].do = "flush" => Follows(s, i, Step("checkPassed", NoEvent))
      /\ s[i].do \in LastSteps => i = Len(s)

(* What a thread may still have to do while it holds a lock.               *)
LossSteps == {"signal", "handle", "release"}
PollSteps == LossSteps \union {"serials", "systems", "flush", "checkPassed", "untrackPolled",
                               "unlockEvents"}
TickSteps == LossSteps \union {"unlockDevice"}

Among(s, steps) == \A x \in ToSet(s) : x.do \in steps

Within(s, steps) == Among(s, steps) /\ \A x \in ToSet(s) : x.do = "handle" => x.event = Lost

ThreadOK(t, s, events, device) ==
    /\ s \in Seq(Steps)
    /\ Paired(s)
    /\ events = t <=> \E x \in ToSet(s) : x.do \in {"untrackPolled", "unlockEvents"}
    /\ device = t <=> \E x \in ToSet(s) : x.do = "unlockDevice"
    /\ Quiet /\ events = t => Within(s, PollSteps)
    /\ Quiet /\ device = t => Among(s, TickSteps)

(* The references that steps hold, and those of them that will not be      *)
(* dropped before the event is completed or in mEvents.                    *)
Keepers == {"track", "check", "emplace", "complete"}
Refs(td) == {e \in Events : \E t \in Threads : \E x \in ToSet(td[t]) : x.event = e}
Keeps(td) ==
    {e \in Events : \E t \in Threads : \E x \in ToSet(td[t]) : x.event = e /\ x.do \in Keepers}

Referred ==
    \A e \in Events :
      event[e].outcome = "pending" =>
        /\ e \in tracked \union working \union Refs(todo)
        /\ ~shut => e \in tracked \union Keeps(todo)

(* An event that anything refers to has been made.                         *)
Made == \A e \in tracked \union working \union Refs(todo) : event[e].kind # "none"

Basics ==
    /\ Lost \in working => submitted <= MaxSerial
    /\ shut => \A t \in Threads : wait[t].set = {}
    /\ \A t \in Threads : \A e \in wait[t].ready : event[e].kind # "none"
    /\ event[Lost].kind = "system" /\ event[Lost].mode \in LostModes

AllOK == \A t \in Threads : ThreadOK(t, todo[t], eventsLock, deviceLock)

(* The serial events that are held by others than mEvents and the threads  *)
(* are those of map requests, and only these and the lost event are made   *)
(* ready under the device's lock.                                          *)
UnderLock(s) ==
    \A x \in ToSet(s) : x.do = "handle" => event[x.event].mode \in LostModes \union MapModes

Handled ==
    /\ \A e \in working : event[e].kind = "serial" => event[e].mode \in MapModes
    /\ Quiet => \A t \in Threads : deviceLock = t => UnderLock(todo[t])

IInv == TypeOK /\ Basics /\ AllOK /\ Made /\ Referred /\ Handled

-----------------------------------------------------------------------------
(* The steps of a sequence, of its tail, and of two in a row.              *)
LEMMA TailFacts ==
    ASSUME NEW S, NEW s \in Seq(S), s # <<>>
    PROVE  /\ Tail(s) \in Seq(S) /\ Len(Tail(s)) = Len(s) - 1 /\ Len(s) \in Nat /\ Len(s) >= 1
           /\ \A i \in 1 .. Len(s) - 1 : Tail(s)[i] = s[i + 1]
           /\ DOMAIN s = 1 .. Len(s) /\ DOMAIN Tail(s) = 1 .. Len(s) - 1
           /\ Head(s) = s[1] /\ Head(s) \in S
           /\ ToSet(s) = {Head(s)} \union ToSet(Tail(s))
<1>1. /\ Tail(s) \in Seq(S) /\ Len(Tail(s)) = Len(s) - 1 /\ Len(s) \in Nat /\ Len(s) >= 1
      /\ \A i \in 1 .. Len(s) - 1 : Tail(s)[i] = s[i + 1]
      /\ DOMAIN s = 1 .. Len(s) /\ DOMAIN Tail(s) = 1 .. Len(s) - 1
      /\ Head(s) = s[1] /\ Head(s) \in S
  OBVIOUS
<1>2. ASSUME NEW x \in ToSet(s) PROVE x \in {Head(s)} \union ToSet(Tail(s))
  <2>1. PICK i \in 1 .. Len(s) : x = s[i]
    BY <1>1 DEF ToSet
  <2>2. CASE i = 1
    BY <1>1, <2>1, <2>2
  <2>3. CASE i # 1
    <3>1. i - 1 \in 1 .. Len(s) - 1 /\ (i - 1) + 1 = i
      BY <1>1, <2>3
    <3>2. Tail(s)[i - 1] = x /\ i - 1 \in DOMAIN Tail(s)
      BY <1>1, <2>1, <3>1
    <3>3. QED
      BY <3>2 DEF ToSet
  <2>4. QED
    BY <2>2, <2>3
<1>3. ASSUME NEW x \in ToSet(Tail(s)) PROVE x \in ToSet(s)
  <2>1. PICK i \in 1 .. Len(s) - 1 : x = Tail(s)[i]
    BY <1>1 DEF ToSet
  <2>2. i + 1 \in 1 .. Len(s) /\ x = s[i + 1]
    BY <1>1, <2>1
  <2>3. QED
    BY <1>1, <2>2 DEF ToSet
<1>4. Head(s) \in ToSet(s)
  BY <1>1 DEF ToSet
<1>5. QED
  BY <1>1, <1>2, <1>3, <1>4

LEMMA NothingIn ==
    ASSUME NEW S, NEW s \in Seq(S)
    PROVE  Len(s) = 0 <=> s = <<>>
<1>1. s # <<>> => Len(s) >= 1
  BY TailFacts
<1>2. Len(s) \in Nat /\ Len(<<>>) = 0
  OBVIOUS
<1>3. QED
  BY <1>1, <1>2

LEMMA ConcatFacts ==
    ASSUME NEW S, NEW x \in Seq(S), NEW y \in Seq(S)
    PROVE  /\ x \o y \in Seq(S) /\ Len(x \o y) = Len(x) + Len(y)
           /\ Len(x) \in Nat /\ Len(y) \in Nat
           /\ DOMAIN x = 1 .. Len(x) /\ DOMAIN y = 1 .. Len(y)
           /\ DOMAIN (x \o y) = 1 .. Len(x) + Len(y)
           /\ \A i \in 1 .. Len(x) : (x \o y)[i] = x[i]
           /\ \A i \in 1 .. Len(y) : (x \o y)[Len(x) + i] = y[i]
           /\ ToSet(x \o y) = ToSet(x) \union ToSet(y)
<1>1. /\ x \o y \in Seq(S) /\ Len(x \o y) = Len(x) + Len(y)
      /\ Len(x) \in Nat /\ Len(y) \in Nat
      /\ DOMAIN x = 1 .. Len(x) /\ DOMAIN y = 1 .. Len(y)
      /\ DOMAIN (x \o y) = 1 .. Len(x) + Len(y)
  OBVIOUS
<1>2. \A i \in 1 .. Len(x) : (x \o y)[i] = x[i]
  OBVIOUS
<1>3. \A i \in 1 .. Len(y) : (x \o y)[Len(x) + i] = y[i]
  OBVIOUS
<1>4. ASSUME NEW e \in ToSet(x \o y) PROVE e \in ToSet(x) \union ToSet(y)
  <2>1. PICK i \in 1 .. Len(x) + Len(y) : e = (x \o y)[i]
    BY <1>1 DEF ToSet
  <2>2. CASE i <= Len(x)
    <3>1. i \in 1 .. Len(x)
      BY <1>1, <2>2
    <3>2. QED
      BY <1>1, <1>2, <2>1, <3>1 DEF ToSet
  <2>3. CASE i > Len(x)
    <3>1. i - Len(x) \in 1 .. Len(y) /\ Len(x) + (i - Len(x)) = i
      BY <1>1, <2>3
    <3>2. e = y[i - Len(x)]
      BY <1>3, <2>1, <3>1
    <3>3. QED
      BY <1>1, <3>1, <3>2 DEF ToSet
  <2>4. QED
    BY <1>1, <2>2, <2>3
<1>5. ASSUME NEW e \in ToSet(x) PROVE e \in ToSet(x \o y)
  <2>1. PICK i \in 1 .. Len(x) : e = x[i]
    BY <1>1 DEF ToSet
  <2>2. i \in 1 .. Len(x) + Len(y) /\ e = (x \o y)[i]
    BY <1>1, <1>2, <2>1
  <2>3. QED
    BY <1>1, <2>2 DEF ToSet
<1>6. ASSUME NEW e \in ToSet(y) PROVE e \in ToSet(x \o y)
  <2>1. PICK i \in 1 .. Len(y) : e = y[i]
    BY <1>1 DEF ToSet
  <2>2. Len(x) + i \in 1 .. Len(x) + Len(y) /\ e = (x \o y)[Len(x) + i]
    BY <1>1, <1>3, <2>1
  <2>3. QED
    BY <1>1, <2>2 DEF ToSet
<1>7. QED
  BY <1>1, <1>2, <1>3, <1>4, <1>5, <1>6

LEMMA ConcatSteps ==
    ASSUME NEW x \in Seq(Steps)
    PROVE  /\ x \o <<>> = x
           /\ \A y \in Seq(Steps) :
                x \o y \in Seq(Steps) /\ ToSet(x \o y) = ToSet(x) \union ToSet(y)
<1>1. x \o <<>> = x
  OBVIOUS
<1>2. QED
  BY <1>1, ConcatFacts

(* Pairs stay together when the step before them goes or steps come first. *)
LEMMA PairedTail ==
    ASSUME NEW s \in Seq(Steps), s # <<>>, Paired(s)
    PROVE  Paired(Tail(s))
<1> DEFINE T == Tail(s)
<1>1. /\ T \in Seq(Steps) /\ Len(T) = Len(s) - 1 /\ Len(s) \in Nat /\ Len(s) >= 1
      /\ \A i \in 1 .. Len(s) - 1 : T[i] = s[i + 1]
      /\ DOMAIN s = 1 .. Len(s) /\ DOMAIN T = 1 .. Len(s) - 1
  BY TailFacts
<1> HIDE DEF T
<1>2. ASSUME NEW i \in 1 .. Len(s) - 1, NEW step, Follows(s, i + 1, step)
      PROVE  Follows(T, i, step)
  <2>1. i + 1 + 1 \in 1 .. Len(s) /\ s[i + 1 + 1] = step
    BY <1>1, <1>2 DEF Follows
  <2>2. i + 1 \in 1 .. Len(s) - 1
    BY <1>1, <2>1
  <2>3. QED
    BY <1>1, <2>1, <2>2 DEF Follows
<1>3. ASSUME NEW i \in 1 .. Len(s) - 1, T[i].do \in LastSteps PROVE i = Len(T)
  <2>1. i + 1 \in DOMAIN s /\ s[i + 1].do \in LastSteps
    BY <1>1, <1>3
  <2>2. i + 1 = Len(s)
    BY <2>1 DEF Paired
  <2>3. QED
    BY <1>1, <2>2
<1>4. ASSUME NEW i \in 1 .. Len(s) - 1
      PROVE  /\ T[i].do = "erase" => Follows(T, i, Step("complete", T[i].event))
             /\ T[i].do = "signal" => Follows(T, i, Step("handle", T[i].event))
             /\ T[i].do = "handle" => Follows(T, i, Step("release", T[i].event))
             /\ T[i].do = "flush" => Follows(T, i, Step("checkPassed", NoEvent))
  <2>1. i + 1 \in DOMAIN s /\ T[i] = s[i + 1]
    BY <1>1
  <2>2. QED
    BY <1>2, <2>1 DEF Paired
<1>5. QED
  BY <1>1, <1>3, <1>4 DEF Paired, T

LEMMA PairedConcat ==
    ASSUME NEW x \in Seq(Steps), NEW y \in Seq(Steps), Paired(x), Paired(y),
           \A i \in DOMAIN x : x[i].do \notin LastSteps
    PROVE  Paired(x \o y)
<1> DEFINE z == x \o y
           n == Len(x)
<1>1. /\ Len(z) = n + Len(y) /\ n \in Nat /\ Len(y) \in Nat
      /\ DOMAIN x = 1 .. n /\ DOMAIN y = 1 .. Len(y) /\ DOMAIN z = 1 .. n + Len(y)
      /\ \A i \in 1 .. n : z[i] = x[i]
      /\ \A i \in 1 .. Len(y) : z[n + i] = y[i]
  BY ConcatFacts
<1> HIDE DEF z, n
<1>2. ASSUME NEW i \in 1 .. n, NEW step, Follows(x, i, step) PROVE Follows(z, i, step)
  BY <1>1, <1>2 DEF Follows
<1>3. ASSUME NEW i \in 1 .. Len(y), NEW step, Follows(y, i, step) PROVE Follows(z, n + i, step)
  <2>1. i + 1 \in 1 .. Len(y) /\ y[i + 1] = step
    BY <1>1, <1>3 DEF Follows
  <2>2. n + (i + 1) = n + i + 1 /\ n + (i + 1) \in 1 .. n + Len(y)
    BY <1>1, <2>1
  <2>3. QED
    BY <1>1, <2>1, <2>2 DEF Follows
<1>4. ASSUME NEW i \in DOMAIN z
      PROVE  /\ z[i].do = "erase" => Follows(z, i, Step("complete", z[i].event))
             /\ z[i].do = "signal" => Follows(z, i, Step("handle", z[i].event))
             /\ z[i].do = "handle" => Follows(z, i, Step("release", z[i].event))
             /\ z[i].do = "flush" => Follows(z, i, Step("checkPassed", NoEvent))
             /\ z[i].do \in LastSteps => i = Len(z)
  <2>1. CASE i <= n
    <3>1. i \in 1 .. n /\ i \in DOMAIN x /\ z[i] = x[i]
      BY <1>1, <2>1
    <3>2. z[i].do \notin LastSteps
      BY <3>1
    <3>3. QED
      BY <1>2, <3>1, <3>2 DEF Paired
  <2>2. CASE i > n
    <3>1. PICK j \in 1 .. Len(y) : i = n + j
      <4>1. i - n \in 1 .. Len(y) /\ i = n + (i - n)
        BY <1>1, <2>2
      <4>2. QED
        BY <4>1
    <3>2. j \in DOMAIN y /\ z[i] = y[j]
      BY <1>1, <3>1
    <3>3. z[i].do \in LastSteps => i = Len(z)
      <4>1. y[j].do \in LastSteps => j = Len(y)
        BY <3>2 DEF Paired
      <4>2. QED
        BY <1>1, <3>1, <3>2, <4>1
    <3>4. QED
      BY <1>3, <3>1, <3>2, <3>3 DEF Paired
  <2>3. QED
    BY <1>1, <2>1, <2>2
<1>5. QED
  BY <1>4 DEF Paired, z

(* Steps that may be put before others.                                    *)
Plain(x) ==
    /\ x \in Seq(Steps) /\ Paired(x)
    /\ \A i \in DOMAIN x : x[i].do \notin LastSteps

Alone == {"track", "check", "emplace", "complete", "release", "serials", "systems", "checkPassed"}

LEMMA NothingPlain == Plain(<<>>) /\ ToSet(<<>>) = {}
  BY DEF Plain, Paired, ToSet

LEMMA OneStepPlain ==
    ASSUME NEW step \in Steps, step.do \in Alone
    PROVE  Plain(<<step>>) /\ ToSet(<<step>>) = {step}
<1>1. /\ <<step>> \in Seq(Steps) /\ DOMAIN <<step>> = {1} /\ <<step>>[1] = step
  OBVIOUS
<1>2. /\ step.do # "erase" /\ step.do # "signal" /\ step.do # "handle" /\ step.do # "flush"
      /\ step.do \notin LastSteps
  BY DEF Alone, LastSteps
<1>3. ToSet(<<step>>) = {step}
  BY <1>1 DEF ToSet
<1>4. Paired(<<step>>)
  BY <1>1, <1>2 DEF Paired
<1>5. QED
  BY <1>1, <1>2, <1>3, <1>4 DEF Plain

LEMMA EventStep ==
    ASSUME NEW e \in Events, NEW do \in {"track", "check", "emplace", "signal", "handle", "erase",
                                         "complete", "release"}
    PROVE  Step(do, e) \in Steps /\ Step(do, e).do = do /\ Step(do, e).event = e
  BY DEF Step, Steps, EventSteps

LEMMA OtherStep ==
    ASSUME NEW do \in {"serials", "systems", "flush", "checkPassed", "unlockDevice",
                       "untrackPolled", "untrackWaited", "unlockEvents"}
    PROVE  Step(do, NoEvent) \in Steps /\ Step(do, NoEvent).do = do /\ Step(do, NoEvent).event = NoEvent
  BY DEF Step, Steps, OtherSteps

LEMMA NoEventIsNone == NoEvent \notin Events /\ Lost \in Events
  BY EventBounds DEF NoEvent, Events, Lost

LEMMA ReadyCallsPlain ==
    ASSUME NEW e \in Events
    PROVE  /\ Plain(SetFutureReadyCalls(e))
           /\ ToSet(SetFutureReadyCalls(e)) = {Step("signal", e), Step("handle", e), Step("release", e)}
<1> DEFINE a == Step("signal", e)
           b == Step("handle", e)
           c == Step("release", e)
           x == SetFutureReadyCalls(e)
<1>1. /\ a \in Steps /\ a.do = "signal" /\ a.event = e
      /\ b \in Steps /\ b.do = "handle" /\ b.event = e
      /\ c \in Steps /\ c.do = "release" /\ c.event = e
  BY EventStep
<1> HIDE DEF a, b, c
<1>2. x = <<a, b, c>>
  BY DEF SetFutureReadyCalls, a, b, c
<1> HIDE DEF x
<1>3. x \in Seq(Steps) /\ DOMAIN x = 1 .. 3 /\ x[1] = a /\ x[2] = b /\ x[3] = c
  BY <1>1, <1>2
<1>4. ToSet(x) = {a, b, c}
  BY <1>3 DEF ToSet
<1>5. ASSUME NEW i \in DOMAIN x
      PROVE  /\ x[i].do # "erase" /\ x[i].do # "flush" /\ x[i].do \notin LastSteps
             /\ x[i].do = "signal" => Follows(x, i, Step("handle", x[i].event))
             /\ x[i].do = "handle" => Follows(x, i, Step("release", x[i].event))
  <2>1. CASE i = 1
    BY <1>1, <1>3, <2>1 DEF LastSteps, Follows, b
  <2>2. CASE i = 2
    BY <1>1, <1>3, <2>2 DEF LastSteps, Follows, c
  <2>3. CASE i = 3
    BY <1>1, <1>3, <2>3 DEF LastSteps
  <2>4. QED
    BY <1>3, <2>1, <2>2, <2>3
<1>6. QED
  BY <1>3, <1>4, <1>5 DEF Plain, Paired, x, a, b, c

LEMMA EraseCompletePlain ==
    ASSUME NEW e \in Events
    PROVE  /\ Plain(<<Step("erase", e), Step("complete", e)>>)
           /\ ToSet(<<Step("erase", e), Step("complete", e)>>) = {Step("erase", e), Step("complete", e)}
<1> DEFINE a == Step("erase", e)
           b == Step("complete", e)
<1>1. /\ a \in Steps /\ a.do = "erase" /\ a.event = e
      /\ b \in Steps /\ b.do = "complete" /\ b.event = e
  BY EventStep
<1> HIDE DEF a, b
<1> DEFINE x == <<a, b>>
<1>3. x \in Seq(Steps) /\ DOMAIN x = 1 .. 2 /\ x[1] = a /\ x[2] = b
  BY <1>1
<1> HIDE DEF x
<1>4. ToSet(x) = {a, b}
  BY <1>3 DEF ToSet
<1>5. ASSUME NEW i \in DOMAIN x
      PROVE  /\ x[i].do \notin {"signal", "handle", "flush"} /\ x[i].do \notin LastSteps
             /\ x[i].do = "erase" => Follows(x, i, Step("complete", x[i].event))
  <2>1. CASE i = 1
    BY <1>1, <1>3, <2>1 DEF LastSteps, Follows, b
  <2>2. CASE i = 2
    BY <1>1, <1>3, <2>2 DEF LastSteps
  <2>4. QED
    BY <1>3, <2>1, <2>2
<1>6. QED
  BY <1>3, <1>4, <1>5 DEF Plain, Paired, x, a, b

LEMMA FlushCheckPlain ==
    LET x == <<Step("flush", NoEvent)>> \o <<Step("checkPassed", NoEvent)>>
    IN  Plain(x) /\ ToSet(x) = {Step("flush", NoEvent), Step("checkPassed", NoEvent)}
<1> DEFINE a == Step("flush", NoEvent)
           b == Step("checkPassed", NoEvent)
<1>1. /\ a \in Steps /\ a.do = "flush" /\ b \in Steps /\ b.do = "checkPassed"
  BY OtherStep
<1> HIDE DEF a, b
<1> DEFINE x == <<a>> \o <<b>>
<1>2. /\ <<a>> \in Seq(Steps) /\ Len(<<a>>) = 1 /\ <<a>>[1] = a
      /\ <<b>> \in Seq(Steps) /\ Len(<<b>>) = 1 /\ <<b>>[1] = b
  BY <1>1
<1>3. x \in Seq(Steps) /\ DOMAIN x = 1 .. 2 /\ x[1] = a /\ x[2] = b
  <2>1. /\ x \in Seq(Steps) /\ DOMAIN x = 1 .. 1 + 1
        /\ \A i \in 1 .. 1 : x[i] = <<a>>[i]
        /\ \A i \in 1 .. 1 : x[1 + i] = <<b>>[i]
    BY <1>2, ConcatFacts
  <2> HIDE DEF x
  <2>2. QED
    BY <1>2, <2>1
<1> HIDE DEF x
<1>4. ToSet(x) = {a, b}
  BY <1>3 DEF ToSet
<1>5. ASSUME NEW i \in DOMAIN x
      PROVE  /\ x[i].do \notin {"signal", "handle", "erase"} /\ x[i].do \notin LastSteps
             /\ x[i].do = "flush" => Follows(x, i, Step("checkPassed", NoEvent))
  <2>1. CASE i = 1
    BY <1>1, <1>3, <2>1 DEF LastSteps, Follows, b
  <2>2. CASE i = 2
    BY <1>1, <1>3, <2>2 DEF LastSteps
  <2>4. QED
    BY <1>3, <2>1, <2>2
<1>6. QED
  BY <1>3, <1>4, <1>5 DEF Plain, Paired, x, a, b

(* A sequence of all the elements of a set has all of them.                *)
LEMMA AllOfThem ==
    ASSUME NEW S, IsFiniteSet(S), NEW seq \in SetToSeqs(S)
    PROVE  seq \in Seq(S) /\ DOMAIN seq = 1 .. Len(seq) /\ Len(seq) \in Nat /\ ToSet(seq) = S
<1> DEFINE n == Cardinality(S)
<1>1. n \in Nat
  BY FS_CardinalityType
<1>2. IsFiniteSet(1 .. n) /\ Cardinality(1 .. n) = n
  BY <1>1, FS_Interval
<1>3. seq \in [1 .. n -> S] /\ \A i, j \in 1 .. n : i # j => seq[i] # seq[j]
  BY DEF SetToSeqs
<1> HIDE DEF n
<1>4. seq \in Injection(1 .. n, S)
  BY <1>3 DEF Injection, IsInjective
<1>5. seq \in Surjection(1 .. n, S)
  BY <1>1, <1>2, <1>4, FS_Injection DEF n
<1>6. ToSet(seq) = S
  BY <1>3, <1>5 DEF Surjection, ToSet
<1>7. seq \in Seq(S) /\ DOMAIN seq = 1 .. Len(seq) /\ Len(seq) \in Nat
  BY <1>1, <1>3
<1>8. QED
  BY <1>6, <1>7

LEMMA EventsFinite ==
    ASSUME NEW S, S \subseteq Events
    PROVE  IsFiniteSet(S)
<1>1. IsFiniteSet(Events)
  BY EventBounds, FS_Interval DEF Events
<1>2. QED
  BY <1>1, FS_Subset

LEMMA StepsForPlain ==
    ASSUME NEW do \in {"complete", "release"}, NEW S, S \subseteq Events, NEW events \in SetToSeqs(S)
    PROVE  /\ Plain(StepsFor(do, events))
           /\ ToSet(StepsFor(do, events)) = {Step(do, e) : e \in S}
<1> DEFINE x == StepsFor(do, events)
           n == Len(events)
<1>1. /\ events \in Seq(S) /\ DOMAIN events = 1 .. n /\ n \in Nat /\ ToSet(events) = S
      /\ \A i \in 1 .. n : events[i] \in Events
  BY AllOfThem, EventsFinite
<1>2. DOMAIN x = 1 .. n /\ \A i \in 1 .. n : x[i] = Step(do, events[i])
  BY <1>1 DEF StepsFor
<1>3. \A i \in 1 .. n : x[i] \in Steps /\ x[i].do = do
  BY <1>1, <1>2, EventStep
<1>4. x \in Seq(Steps)
  <2>1. x \in [1 .. n -> Steps]
    BY <1>1, <1>3 DEF StepsFor
  <2>2. QED
    BY <1>1, <2>1
<1> HIDE DEF x, n
<1>5. ToSet(x) = {Step(do, e) : e \in S}
  BY <1>1, <1>2 DEF ToSet
<1>6. ASSUME NEW i \in DOMAIN x
      PROVE  /\ x[i].do \notin {"erase", "signal", "handle", "flush"}
             /\ x[i].do \notin LastSteps
  BY <1>2, <1>3 DEF LastSteps
<1>7. QED
  BY <1>4, <1>5, <1>6 DEF Plain, Paired, x

-----------------------------------------------------------------------------
(* What a step of a thread leaves of ThreadOK.                             *)
LEMMA FreshOK ==
    ASSUME NEW t, NEW x, Plain(x), NEW el, NEW dl, el # t, dl # t
    PROVE  ThreadOK(t, x, el, dl)
<1>1. ASSUME NEW y \in ToSet(x) PROVE y.do \notin {"untrackPolled", "unlockEvents", "unlockDevice"}
  BY DEF Plain, ToSet, LastSteps
<1>2. QED
  BY <1>1 DEF ThreadOK, Plain

LEMMA WithLastOK ==
    ASSUME NEW t, NEW x, Plain(x), NEW last \in Steps, last.do \in LastSteps, NEW el, NEW dl,
           el = t <=> last.do \in {"untrackPolled", "unlockEvents"},
           dl = t <=> last.do = "unlockDevice",
           Quiet /\ el = t => Within(x, PollSteps),
           Quiet /\ dl = t => Among(x, TickSteps)
    PROVE  ThreadOK(t, Append(x, last), el, dl) /\ ToSet(Append(x, last)) = ToSet(x) \union {last}
<1> DEFINE y == <<last>>
<1>1. /\ y \in Seq(Steps) /\ DOMAIN y = {1} /\ Len(y) = 1 /\ y[1] = last
      /\ x \in Seq(Steps) /\ Paired(x)
  BY DEF Plain
<1>2. Append(x, last) = x \o y
  BY <1>1
<1> HIDE DEF y
<1>3. Paired(y)
  BY <1>1 DEF Paired, LastSteps
<1>4. Paired(x \o y)
  BY <1>1, <1>3, PairedConcat DEF Plain
<1>5. ToSet(y) = {last}
  BY <1>1 DEF ToSet
<1>6. x \o y \in Seq(Steps) /\ ToSet(x \o y) = ToSet(x) \union {last}
  BY <1>1, <1>5, ConcatFacts
<1>7. ASSUME NEW z \in ToSet(x) PROVE z.do \notin {"untrackPolled", "unlockEvents", "unlockDevice"}
  BY DEF Plain, ToSet, LastSteps
<1>8. last.do # "handle"
  BY DEF LastSteps
<1>9. Quiet /\ el = t => Within(x \o y, PollSteps)
  BY <1>6, <1>8 DEF Within, Among, PollSteps
<1>10. Quiet /\ dl = t => Among(x \o y, TickSteps)
  BY <1>6 DEF Among, TickSteps
<1>11. /\ el = t <=> \E z \in ToSet(x \o y) : z.do \in {"untrackPolled", "unlockEvents"}
       /\ dl = t <=> \E z \in ToSet(x \o y) : z.do = "unlockDevice"
  BY <1>6, <1>7
<1>12. QED
  BY <1>2, <1>4, <1>6, <1>9, <1>10, <1>11 DEF ThreadOK

Unlock == Step("unlockDevice", NoEvent)

LEMMA UnlockLastOK ==
    ASSUME NEW t, NEW x, Plain(x), Among(x, TickSteps), NEW el, el # t
    PROVE  /\ ThreadOK(t, Append(x, Unlock), el, t)
           /\ ToSet(Append(x, Unlock)) = ToSet(x) \union {Unlock}
<1>1. /\ Unlock \in Steps /\ Unlock.do \in LastSteps /\ Unlock.do = "unlockDevice"
      /\ Unlock.do \notin {"untrackPolled", "unlockEvents"}
  BY OtherStep DEF LastSteps, Unlock
<1>2. QED
  BY <1>1, WithLastOK

LEMMA GotoOK ==
    ASSUME NEW t, NEW s, NEW el, NEW dl, ThreadOK(t, s, el, dl), s # <<>>,
           Head(s).do \notin LastSteps, NEW x, Plain(x),
           Quiet /\ el = t => Within(x, PollSteps),
           Quiet /\ dl = t => Among(x, TickSteps)
    PROVE  ThreadOK(t, x \o Tail(s), el, dl)
<1>1. /\ s \in Seq(Steps) /\ Paired(s) /\ x \in Seq(Steps)
      /\ el = t <=> \E y \in ToSet(s) : y.do \in {"untrackPolled", "unlockEvents"}
      /\ dl = t <=> \E y \in ToSet(s) : y.do = "unlockDevice"
  BY DEF ThreadOK, Plain
<1>2. Tail(s) \in Seq(Steps) /\ ToSet(s) = {Head(s)} \union ToSet(Tail(s))
  BY <1>1, TailFacts
<1> DEFINE T == Tail(s)
<1>0. T \in Seq(Steps) /\ ToSet(s) = {Head(s)} \union ToSet(T) /\ Paired(T)
  BY <1>1, <1>2, PairedTail
<1> HIDE DEF T
<1>3. Paired(x \o T)
  BY <1>0, <1>1, PairedConcat DEF Plain
<1>4. x \o T \in Seq(Steps) /\ ToSet(x \o T) = ToSet(x) \union ToSet(T)
  BY <1>0, <1>1, ConcatFacts
<1>5. ASSUME NEW z \in ToSet(x) PROVE z.do \notin {"untrackPolled", "unlockEvents", "unlockDevice"}
  BY DEF Plain, ToSet, LastSteps
<1>6. Quiet /\ el = t => Within(x \o T, PollSteps)
  BY <1>0, <1>4 DEF Within, Among, ThreadOK
<1>7. Quiet /\ dl = t => Among(x \o T, TickSteps)
  BY <1>0, <1>4 DEF Among, ThreadOK
<1>8. Head(s).do \notin {"untrackPolled", "unlockEvents", "unlockDevice"}
  BY DEF LastSteps
<1>9. el = t <=> \E z \in ToSet(x \o T) : z.do \in {"untrackPolled", "unlockEvents"}
  BY <1>1, <1>0, <1>4, <1>5, <1>8
<1>10. dl = t <=> \E z \in ToSet(x \o T) : z.do = "unlockDevice"
  BY <1>1, <1>0, <1>4, <1>5, <1>8
<1>11. QED
  BY <1>3, <1>4, <1>6, <1>7, <1>9, <1>10 DEF ThreadOK, T

LEMMA LastIsLast ==
    ASSUME NEW s \in Seq(Steps), s # <<>>, Paired(s), Head(s).do \in LastSteps
    PROVE  Tail(s) = <<>>
<1>1. /\ Len(s) \in Nat /\ 1 \in DOMAIN s /\ s[1] = Head(s)
      /\ Tail(s) \in Seq(Steps) /\ Len(Tail(s)) = Len(s) - 1
  BY TailFacts
<1>2. Len(s) = 1
  BY <1>1 DEF Paired
<1>3. Len(Tail(s)) = 0
  BY <1>1, <1>2
<1> DEFINE T == Tail(s)
<1> HIDE DEF T
<1>4. T \in Seq(Steps) /\ Len(T) = 0
  BY <1>1, <1>3 DEF T
<1>5. T = <<>>
  BY <1>4, NothingIn
<1>6. QED
  BY <1>5 DEF T

(* The steps that follow the first one of a pair.                          *)
LEMMA SecondStep ==
    ASSUME NEW s \in Seq(Steps), s # <<>>, Paired(s)
    PROVE  /\ Head(s).do = "erase" => Step("complete", Head(s).event) \in ToSet(Tail(s))
           /\ Head(s).do = "signal" => Step("handle", Head(s).event) \in ToSet(Tail(s))
           /\ Head(s).do = "handle" => Step("release", Head(s).event) \in ToSet(Tail(s))
           /\ Head(s).do = "flush" =>
                Tail(s) # <<>> /\ Head(Tail(s)) = Step("checkPassed", NoEvent)
<1>1. /\ Len(s) \in Nat /\ Len(s) >= 1 /\ DOMAIN s = 1 .. Len(s) /\ s[1] = Head(s)
      /\ Tail(s) \in Seq(Steps) /\ Len(Tail(s)) = Len(s) - 1 /\ DOMAIN Tail(s) = 1 .. Len(s) - 1
      /\ \A i \in 1 .. Len(s) - 1 : Tail(s)[i] = s[i + 1]
  BY TailFacts
<1>2. ASSUME NEW step, Follows(s, 1, step)
      PROVE  1 \in DOMAIN Tail(s) /\ Tail(s)[1] = step
  <2>1. 2 \in 1 .. Len(s) /\ s[2] = step
    BY <1>1, <1>2 DEF Follows
  <2>2. 1 \in 1 .. Len(s) - 1 /\ 1 + 1 = 2
    BY <1>1, <2>1
  <2>3. QED
    BY <1>1, <2>1, <2>2
<1>3. ASSUME NEW step, Follows(s, 1, step) PROVE step \in ToSet(Tail(s))
  BY <1>2, <1>3 DEF ToSet
<1>4. ASSUME NEW step, Follows(s, 1, step) PROVE Tail(s) # <<>> /\ Head(Tail(s)) = step
  <2>1. Len(Tail(s)) # 0 /\ Tail(s)[1] = step
    BY <1>1, <1>2, <1>4
  <2> DEFINE T == Tail(s)
  <2> HIDE DEF T
  <2>2. T \in Seq(Steps) /\ Len(T) # 0 /\ T[1] = step
    BY <1>1, <2>1 DEF T
  <2>3. T # <<>>
    BY <2>2, NothingIn
  <2>4. Head(T) = T[1]
    BY <2>2, <2>3, TailFacts
  <2>5. QED
    BY <2>2, <2>3, <2>4 DEF T
<1>5. 1 \in DOMAIN s
  BY <1>1
<1>6. QED
  BY <1>1, <1>3, <1>4, <1>5 DEF Paired

(* What a change of one thread's steps leaves of the references.           *)
LEMMA RefsAfter ==
    ASSUME todo \in [Threads -> Seq(Steps)], NEW t \in Threads, NEW new \in Seq(Steps),
           todo' = [todo EXCEPT ![t] = new]
    PROVE  /\ \A x \in ToSet(new) : x.event \in Events =>
                x.event \in Refs(todo') /\ (x.do \in Keepers => x.event \in Keeps(todo'))
           /\ \A e \in Refs(todo) \ Refs(todo') :
                \E x \in ToSet(todo[t]) : x.event = e /\ x \notin ToSet(new)
           /\ \A e \in Keeps(todo) \ Keeps(todo') :
                \E x \in ToSet(todo[t]) : x.event = e /\ x.do \in Keepers /\ x \notin ToSet(new)
<1>1. todo'[t] = new /\ \A u \in Threads : u # t => todo'[u] = todo[u]
  OBVIOUS
<1>2. ASSUME NEW x \in ToSet(new), x.event \in Events
      PROVE  x.event \in Refs(todo') /\ (x.do \in Keepers => x.event \in Keeps(todo'))
  BY <1>1, <1>2 DEF Refs, Keeps
<1>3. ASSUME NEW e \in Refs(todo) \ Refs(todo')
      PROVE  \E x \in ToSet(todo[t]) : x.event = e /\ x \notin ToSet(new)
  <2>1. PICK u \in Threads : \E x \in ToSet(todo[u]) : x.event = e
    BY DEF Refs
  <2>2. PICK x \in ToSet(todo[u]) : x.event = e
    BY <2>1
  <2>3. e \in Events
    BY DEF Refs
  <2>4. u = t
    BY <1>1, <1>3, <2>2, <2>3 DEF Refs
  <2>5. QED
    BY <1>1, <1>3, <2>2, <2>3, <2>4 DEF Refs
<1>4. ASSUME NEW e \in Keeps(todo) \ Keeps(todo')
      PROVE  \E x \in ToSet(todo[t]) : x.event = e /\ x.do \in Keepers /\ x \notin ToSet(new)
  <2>1. PICK u \in Threads : \E x \in ToSet(todo[u]) : x.event = e /\ x.do \in Keepers
    BY DEF Keeps
  <2>2. PICK x \in ToSet(todo[u]) : x.event = e /\ x.do \in Keepers
    BY <2>1
  <2>3. e \in Events
    BY DEF Keeps
  <2>4. u = t
    BY <1>1, <1>4, <2>2, <2>3 DEF Keeps
  <2>5. QED
    BY <1>1, <1>4, <2>2, <2>3, <2>4 DEF Keeps
<1>5. QED
  BY <1>2, <1>3, <1>4

-----------------------------------------------------------------------------
(* The step a thread is at.                                                *)
LEMMA HeadStep ==
    ASSUME IInv, NEW t \in Threads, todo[t] # <<>>
    PROVE  /\ todo[t] \in Seq(Steps) /\ Paired(todo[t]) /\ Head(todo[t]) \in Steps
           /\ Tail(todo[t]) \in Seq(Steps)
           /\ ToSet(todo[t]) = {Head(todo[t])} \union ToSet(Tail(todo[t]))
           /\ Now(t) \in Events => Now(t) \in Refs(todo) /\ event[Now(t)].kind # "none"
           /\ Head(todo[t]).do \in {"track", "check", "emplace", "signal", "handle", "erase",
                                    "complete", "release"} <=> Now(t) \in Events
<1>1. todo[t] \in Seq(Steps) /\ Paired(todo[t])
  BY DEF IInv, AllOK, ThreadOK
<1>2. /\ Head(todo[t]) \in Steps /\ Tail(todo[t]) \in Seq(Steps)
      /\ ToSet(todo[t]) = {Head(todo[t])} \union ToSet(Tail(todo[t]))
  BY <1>1, TailFacts
<1>3. Now(t) \in Events => Now(t) \in Refs(todo)
  BY <1>2 DEF Refs, Now
<1>4. Now(t) \in Events => event[Now(t)].kind # "none"
  BY <1>3 DEF IInv, Made
<1>5. Head(todo[t]).do \in {"track", "check", "emplace", "signal", "handle", "erase",
                            "complete", "release"} <=> Now(t) \in Events
  BY <1>2, NoEventIsNone DEF Steps, EventSteps, OtherSteps, Now
<1>6. QED
  BY <1>1, <1>2, <1>3, <1>4, <1>5

LEMMA HeadWithin ==
    ASSUME IInv, NEW t \in Threads, todo[t] # <<>>, Quiet
    PROVE  /\ eventsLock = t => /\ Head(todo[t]).do \in PollSteps
                                /\ Head(todo[t]).do = "handle" => Now(t) = Lost
           /\ deviceLock = t => /\ Head(todo[t]).do \in TickSteps
                                /\ Head(todo[t]).do = "handle" =>
                                     event[Now(t)].mode \in LostModes \union MapModes
<1>1. Head(todo[t]) \in ToSet(todo[t])
  BY HeadStep
<1>2. ThreadOK(t, todo[t], eventsLock, deviceLock)
  BY DEF IInv, AllOK
<1>3. deviceLock = t => UnderLock(todo[t])
  BY DEF IInv, Handled
<1>4. QED
  BY <1>1, <1>2, <1>3 DEF ThreadOK, Within, Among, UnderLock, Now

(* A thread that is in no call holds no lock.                              *)
LEMMA IdleHoldsNothing ==
    ASSUME IInv, NEW t \in Threads, todo[t] = <<>>
    PROVE  eventsLock # t /\ deviceLock # t
<1>1. ThreadOK(t, todo[t], eventsLock, deviceLock)
  BY DEF IInv, AllOK
<1>2. ToSet(todo[t]) = {}
  BY NothingPlain
<1>3. QED
  BY <1>1, <1>2 DEF ThreadOK

LEMMA NewThreads ==
    ASSUME IInv, NEW t \in Threads, NEW new, todo' = [todo EXCEPT ![t] = new],
           ThreadOK(t, new, eventsLock', deviceLock'),
           eventsLock' = eventsLock \/ (eventsLock \in {t, NoThread} /\ eventsLock' \in {t, NoThread}),
           deviceLock' = deviceLock \/ (deviceLock \in {t, NoThread} /\ deviceLock' \in {t, NoThread})
    PROVE  todo' \in [Threads -> Seq(Steps)] /\ AllOK' /\ todo'[t] = new
<1>1. /\ todo \in [Threads -> Seq(Steps)]
      /\ \A u \in Threads : ThreadOK(u, todo[u], eventsLock, deviceLock)
  BY DEF IInv, TypeOK, AllOK
<1>2. new \in Seq(Steps)
  BY DEF ThreadOK
<1>3. todo' \in [Threads -> Seq(Steps)] /\ todo'[t] = new
  BY <1>1, <1>2
<1>4. ASSUME NEW u \in Threads PROVE ThreadOK(u, todo'[u], eventsLock', deviceLock')
  <2>1. CASE u = t
    BY <1>3, <2>1
  <2>2. CASE u # t
    <3>1. ThreadOK(u, todo[u], eventsLock, deviceLock) /\ todo'[u] = todo[u]
      BY <1>1, <2>2
    <3>2. (eventsLock = u <=> eventsLock' = u) /\ (deviceLock = u <=> deviceLock' = u)
      BY <2>2, KnownModes
    <3>3. QED
      BY <3>1, <3>2 DEF ThreadOK
  <2>3. QED
    BY <2>1, <2>2
<1>5. QED
  BY <1>3, <1>4 DEF AllOK

(* Thread t has replaced the step it was at by x.                          *)
Moved(t, x) ==
    /\ todo' \in [Threads -> Seq(Steps)] /\ AllOK'
    /\ todo' = [todo EXCEPT ![t] = x \o Tail(todo[t])]
    /\ x \o Tail(todo[t]) \in Seq(Steps)
    /\ ToSet(x \o Tail(todo[t])) = ToSet(x) \union ToSet(Tail(todo[t]))
    /\ eventsLock' \in Threads \union {NoThread} /\ deviceLock' \in Threads \union {NoThread}
    /\ \A u \in Threads : deviceLock' = u => deviceLock = u
    /\ Quiet /\ deviceLock' = t => \A y \in ToSet(x) : y.do = "handle" => y.event = Lost

LEMMA GotoThreads ==
    ASSUME IInv, NEW t \in Threads, todo[t] # <<>>, Head(todo[t]).do \notin LastSteps,
           NEW x, Plain(x), Goto(t, x), UNCHANGED locks,
           Quiet /\ eventsLock = t => Within(x, PollSteps),
           Quiet /\ deviceLock = t => Within(x, TickSteps)
    PROVE  Moved(t, x)
<1>1. ThreadOK(t, todo[t], eventsLock, deviceLock) /\ todo \in [Threads -> Seq(Steps)]
  BY DEF IInv, AllOK, TypeOK
<1> DEFINE new == x \o Tail(todo[t])
<1>2. ThreadOK(t, new, eventsLock, deviceLock)
  <2>1. Quiet /\ deviceLock = t => Among(x, TickSteps)
    BY DEF Within
  <2>2. QED
    BY <1>1, <2>1, GotoOK
<1>3. new \in Seq(Steps) /\ ToSet(new) = ToSet(x) \union ToSet(Tail(todo[t]))
  BY HeadStep, ConcatSteps DEF Plain
<1>4. todo' = [todo EXCEPT ![t] = new]
  BY <1>1 DEF Goto
<1> HIDE DEF new
<1>5. todo' \in [Threads -> Seq(Steps)] /\ AllOK'
  BY <1>2, <1>4, NewThreads DEF locks
<1>6. eventsLock' \in Threads \union {NoThread} /\ deviceLock' \in Threads \union {NoThread}
  BY DEF IInv, TypeOK, locks
<1>7. /\ \A u \in Threads : deviceLock' = u => deviceLock = u
      /\ Quiet /\ deviceLock' = t => \A y \in ToSet(x) : y.do = "handle" => y.event = Lost
  BY DEF locks, Within
<1>8. QED
  BY <1>3, <1>4, <1>5, <1>6, <1>7 DEF new, Moved

(* The last step of a call, with which the lock is given up.               *)
LEMMA EndThreads ==
    ASSUME IInv, NEW t \in Threads, todo[t] # <<>>, Head(todo[t]).do \in LastSteps,
           NEW x, Plain(x), Goto(t, x),
           IF eventsLock = t THEN eventsLock' = NoThread ELSE eventsLock' = eventsLock,
           IF deviceLock = t THEN deviceLock' = NoThread ELSE deviceLock' = deviceLock
    PROVE  Moved(t, x)
<1>1. todo \in [Threads -> Seq(Steps)]
  BY DEF IInv, TypeOK
<1>2. Tail(todo[t]) = <<>>
  BY HeadStep, LastIsLast
<1> DEFINE new == x \o Tail(todo[t])
<1>3. new \in Seq(Steps) /\ ToSet(new) = ToSet(x) \union ToSet(Tail(todo[t]))
  BY HeadStep, ConcatSteps DEF Plain
<1>4. todo' = [todo EXCEPT ![t] = new]
  BY <1>1 DEF Goto
<1>5. new = x
  BY <1>2, ConcatSteps DEF Plain
<1> HIDE DEF new
<1>6. ThreadOK(t, x, eventsLock', deviceLock')
  <2>1. eventsLock' # t /\ deviceLock' # t
    BY KnownModes
  <2>2. QED
    BY <2>1, FreshOK
<1>7. todo' \in [Threads -> Seq(Steps)] /\ AllOK'
  BY <1>4, <1>5, <1>6, NewThreads
<1>8. eventsLock' \in Threads \union {NoThread} /\ deviceLock' \in Threads \union {NoThread}
  BY DEF IInv, TypeOK
<1>9. /\ \A u \in Threads : deviceLock' = u => deviceLock = u
      /\ deviceLock' # t
  BY KnownModes
<1>10. QED
  BY <1>3, <1>4, <1>7, <1>8, <1>9 DEF new, Moved

(* A step loses no event when nothing that is dropped was the only         *)
(* reference to one that is pending.                                       *)
LEMMA ReferredStep ==
    ASSUME IInv, NEW t \in Threads, NEW new \in Seq(Steps), todo' = [todo EXCEPT ![t] = new],
           shut => shut',
           \A e \in tracked \union working :
             event'[e].outcome = "pending" => e \in tracked' \union working' \union Refs(todo'),
           ~shut' => tracked \subseteq tracked' \union Keeps(todo'),
           \A e \in Events :
             event'[e].outcome = "pending" =>
               \/ event[e].outcome = "pending"
               \/ \E x \in ToSet(new) : x.event = e /\ x.do \in Keepers,
           \A x \in ToSet(todo[t]) \ ToSet(new) :
             x.event \in Events /\ event'[x.event].outcome = "pending" =>
               /\ x.event \in tracked' \union working' \union Refs(todo')
               /\ ~shut' /\ x.do \in Keepers => x.event \in tracked' \union Keeps(todo')
    PROVE  Referred'
<1>1. todo \in [Threads -> Seq(Steps)]
  BY DEF IInv, TypeOK
<1>2. /\ \A x \in ToSet(new) : x.event \in Events =>
           x.event \in Refs(todo') /\ (x.do \in Keepers => x.event \in Keeps(todo'))
      /\ \A e \in Refs(todo) \ Refs(todo') :
           \E x \in ToSet(todo[t]) : x.event = e /\ x \notin ToSet(new)
      /\ \A e \in Keeps(todo) \ Keeps(todo') :
           \E x \in ToSet(todo[t]) : x.event = e /\ x.do \in Keepers /\ x \notin ToSet(new)
  BY <1>1, RefsAfter
<1>3. ASSUME NEW e \in Events, event'[e].outcome = "pending"
      PROVE  /\ e \in tracked' \union working' \union Refs(todo')
             /\ ~shut' => e \in tracked' \union Keeps(todo')
  <2>1. CASE \E x \in ToSet(new) : x.event = e /\ x.do \in Keepers
    <3>1. PICK x \in ToSet(new) : x.event = e /\ x.do \in Keepers
      BY <2>1
    <3>2. x.event \in Refs(todo') /\ x.event \in Keeps(todo')
      BY <1>2, <3>1
    <3>3. QED
      BY <3>1, <3>2
  <2>2. CASE event[e].outcome = "pending"
    <3>1. /\ e \in tracked \union working \union Refs(todo)
          /\ ~shut => e \in tracked \union Keeps(todo)
      BY <2>2 DEF IInv, Referred
    <3>2. e \in tracked' \union working' \union Refs(todo')
      <4>1. CASE e \in tracked \union working
        BY <1>3, <4>1
      <4>2. CASE e \in Refs(todo) \ Refs(todo')
        <5>1. PICK x \in ToSet(todo[t]) : x.event = e /\ x \notin ToSet(new)
          BY <1>2, <4>2
        <5>2. QED
          BY <1>3, <5>1
      <4>3. QED
        BY <3>1, <4>1, <4>2
    <3>3. ASSUME ~shut' PROVE e \in tracked' \union Keeps(todo')
      <4>1. CASE e \in tracked
        BY <3>3, <4>1
      <4>2. CASE e \in Keeps(todo) \ Keeps(todo')
        <5>1. PICK x \in ToSet(todo[t]) : x.event = e /\ x.do \in Keepers /\ x \notin ToSet(new)
          BY <1>2, <4>2
        <5>2. QED
          BY <1>3, <3>3, <5>1
      <4>3. QED
        BY <3>1, <3>3, <4>1, <4>2
    <3>4. QED
      BY <3>2, <3>3
  <2>3. QED
    BY <1>3, <2>1, <2>2
<1>4. QED
  BY <1>3 DEF Referred

LEMMA MadeStep ==
    ASSUME IInv, NEW t \in Threads, NEW new \in Seq(Steps), todo' = [todo EXCEPT ![t] = new],
           \A e \in Events : event[e].kind # "none" => event'[e].kind # "none",
           tracked' \subseteq Events, working' \subseteq Events,
           \A e \in tracked' \union working' :
             e \in tracked \union working \union Refs(todo) \/ event'[e].kind # "none",
           \A x \in ToSet(new) : x.event \in Events =>
             \/ x.event \in tracked \union working \union Refs(todo)
             \/ event'[x.event].kind # "none"
    PROVE  Made'
<1>1. /\ todo \in [Threads -> Seq(Steps)] /\ tracked \subseteq Events /\ working \subseteq Events
      /\ Refs(todo) \subseteq Events
  BY DEF IInv, TypeOK, Refs
<1>2. \A e \in Events : e \in tracked \union working \union Refs(todo) => event'[e].kind # "none"
  BY DEF IInv, Made
<1>3. ASSUME NEW e \in Refs(todo') PROVE event'[e].kind # "none"
  <2>1. PICK u \in Threads : \E x \in ToSet(todo'[u]) : x.event = e
    BY DEF Refs
  <2>2. PICK x \in ToSet(todo'[u]) : x.event = e
    BY <2>1
  <2>3. e \in Events
    BY DEF Refs
  <2>4. CASE u = t
    BY <1>1, <1>2, <2>2, <2>3, <2>4
  <2>5. CASE u # t
    <3>1. e \in Refs(todo)
      BY <1>1, <2>2, <2>3, <2>5 DEF Refs
    <3>2. QED
      BY <1>2, <2>3, <3>1
  <2>6. QED
    BY <2>4, <2>5
<1>4. \A e \in tracked' \union working' : event'[e].kind # "none"
  BY <1>1, <1>2
<1>5. QED
  BY <1>3, <1>4 DEF Made

LEMMA HandledStep ==
    ASSUME IInv, NEW t \in Threads, NEW new \in Seq(Steps), todo' = [todo EXCEPT ![t] = new],
           \A e \in Events : event[e].kind # "none" =>
             event'[e].kind = event[e].kind /\ event'[e].mode = event[e].mode,
           \A e \in working' :
             e \in working \/ (event'[e].kind = "serial" => event'[e].mode \in MapModes),
           \A u \in Threads : deviceLock' = u => u = t \/ deviceLock = u,
           Quiet /\ deviceLock' = t =>
             \A y \in ToSet(new) : y.do = "handle" =>
               \/ event'[y.event].mode \in LostModes \union MapModes
               \/ deviceLock = t /\ y \in ToSet(todo[t])
    PROVE  Handled'
<1>1. /\ todo \in [Threads -> Seq(Steps)] /\ working \subseteq Events
      /\ todo'[t] = new /\ \A u \in Threads \ {t} : todo'[u] = todo[u]
  BY DEF IInv, TypeOK
<1>2. ASSUME NEW e \in working', event'[e].kind = "serial" PROVE event'[e].mode \in MapModes
  <2>1. CASE e \in working
    <3>1. e \in Events /\ event[e].kind # "none"
      BY <1>1, <2>1 DEF IInv, Made
    <3>2. event'[e].kind = event[e].kind /\ event'[e].mode = event[e].mode
      BY <3>1
    <3>3. QED
      BY <1>2, <2>1, <3>2 DEF IInv, Handled
  <2>2. QED
    BY <1>2, <2>1
<1>3. ASSUME Quiet, NEW u \in Threads, deviceLock = u, NEW y \in ToSet(todo[u]), y.do = "handle"
      PROVE  event'[y.event].mode \in LostModes \union MapModes
  <2>1. event[y.event].mode \in LostModes \union MapModes
    BY <1>3 DEF IInv, Handled, UnderLock
  <2>2. y \in Steps
    BY <1>1 DEF ToSet
  <2>3. y.event \in Events
    BY <1>3, <2>2 DEF Steps, EventSteps, OtherSteps
  <2>4. y.event \in Refs(todo)
    BY <2>3 DEF Refs
  <2>5. event[y.event].kind # "none"
    BY <2>4 DEF IInv, Made
  <2>6. QED
    BY <2>1, <2>3, <2>5
<1>4. ASSUME Quiet, NEW u \in Threads, deviceLock' = u, NEW y \in ToSet(todo'[u]), y.do = "handle"
      PROVE  event'[y.event].mode \in LostModes \union MapModes
  <2>1. CASE u = t
    BY <1>1, <1>3, <1>4, <2>1
  <2>2. CASE u # t
    BY <1>1, <1>3, <1>4, <2>2
  <2>3. QED
    BY <2>1, <2>2
<1>5. QED
  BY <1>2, <1>4 DEF Handled, UnderLock

(* The same when a thread replaces the step it is at by others.            *)
LEMMA GotoReferred ==
    ASSUME IInv, NEW t \in Threads, todo[t] # <<>>,
           NEW x \in Seq(Steps), NEW new \in Seq(Steps), todo' = [todo EXCEPT ![t] = new],
           ToSet(new) = ToSet(x) \union ToSet(Tail(todo[t])),
           shut' = shut,
           \A e \in tracked \union working :
             event'[e].outcome = "pending" => e \in tracked' \union working' \union Refs(todo'),
           ~shut => tracked \subseteq tracked' \union Keeps(todo'),
           \A e \in Events :
             /\ event'[e].outcome = "pending" => event[e].outcome = "pending"
             /\ event'[e].kind = event[e].kind,
           tracked' \subseteq tracked \union ({Now(t)} \intersect Events),
           working' \subseteq working,
           \A y \in ToSet(x) : y.event \in Events =>
             y.event = Now(t) \/ y.event \in tracked \union working \/ event[y.event].kind # "none",
           Now(t) \in Events /\ event'[Now(t)].outcome = "pending" =>
             /\ Now(t) \in tracked' \union working' \union Refs(todo')
             /\ ~shut /\ Head(todo[t]).do \in Keepers => Now(t) \in tracked' \union Keeps(todo')
    PROVE  Referred' /\ Made'
<1>1. /\ ToSet(todo[t]) = {Head(todo[t])} \union ToSet(Tail(todo[t]))
      /\ Now(t) \in Events => Now(t) \in Refs(todo)
      /\ Tail(todo[t]) \in Seq(Steps)
  BY HeadStep
<1>2. tracked \subseteq Events /\ working \subseteq Events
  BY DEF IInv, TypeOK
<1>3. ToSet(todo[t]) \ ToSet(new) \subseteq {Head(todo[t])}
  BY <1>1
<1>4. Referred'
  <2>1. ASSUME NEW y \in ToSet(todo[t]) \ ToSet(new), y.event \in Events,
               event'[y.event].outcome = "pending"
        PROVE  /\ y.event \in tracked' \union working' \union Refs(todo')
               /\ ~shut' /\ y.do \in Keepers => y.event \in tracked' \union Keeps(todo')
    BY <1>3, <2>1 DEF Now
  <2>2. QED
    BY <2>1, ReferredStep
<1>5. Made'
  <2>1. ASSUME NEW y \in ToSet(new), y.event \in Events
        PROVE  y.event \in tracked \union working \union Refs(todo) \/ event'[y.event].kind # "none"
    <3>1. CASE y \in ToSet(x)
      BY <1>1, <2>1, <3>1
    <3>2. CASE y \in ToSet(todo[t])
      BY <2>1, <3>2 DEF Refs
    <3>3. QED
      BY <1>1, <3>1, <3>2
  <2>2. QED
    BY <1>1, <1>2, <2>1, MadeStep
<1>6. QED
  BY <1>4, <1>5

-----------------------------------------------------------------------------
(* The steps with which calls begin.                                       *)
Fits(new, mode, kind, serial) ==
    /\ new \in EventStates /\ new.mode = mode /\ new.kind = kind /\ new.serial = serial
    /\ new.id = 0 /\ new.outcome = "pending"

LEMMA PendingFits ==
    ASSUME NEW mode \in Modes, NEW kind \in {"system", "serial"}, NEW serial \in 0 .. MaxSerial
    PROVE  /\ Fits(Pending(mode, kind, serial), mode, kind, serial)
           /\ Fits([Pending(mode, kind, serial) EXCEPT !.early = TRUE], mode, kind, serial)
           /\ \A signaled \in BOOLEAN :
                Fits([Pending(mode, kind, serial) EXCEPT !.signaled = signaled], mode, kind, serial)
<1> DEFINE u == Unmade(mode)
           p == Pending(mode, kind, serial)
<1>1. u \in EventStates /\ u.mode = mode /\ u.id = 0
  <2>1. 0 \in 0 .. MaxSerial
    BY EventBounds
  <2>2. QED
    BY <2>1 DEF Unmade, EventStates
<1>2. p = [u EXCEPT !.kind = kind, !.serial = serial, !.outcome = "pending"]
  BY DEF Pending
<1> HIDE DEF u, p
<1>3. Fits(p, mode, kind, serial)
  BY <1>1, <1>2 DEF Fits, EventStates
<1>4. Fits([p EXCEPT !.early = TRUE], mode, kind, serial)
  BY <1>3 DEF Fits, EventStates
<1>5. \A signaled \in BOOLEAN : Fits([p EXCEPT !.signaled = signaled], mode, kind, serial)
  BY <1>3 DEF Fits, EventStates
<1>6. QED
  BY <1>3, <1>4, <1>5 DEF p

(* The events the entry points make.                                       *)
Makes(t, e, new) ==
    /\ Make(t, e, new) /\ new \in EventStates /\ new.kind \in {"system", "serial"}
    /\ working' \in {working, working \union {e}}
    /\ e \in working' /\ new.kind = "serial" => new.mode \in MapModes
    /\ new.id = 0 /\ new.outcome = "pending" /\ new.serial <= submitted + 1

Entry(t, e) ==
    OnSubmittedWorkDoneF(t, e) \/ MapAsyncF(t, e) \/ Refuse(t, e) \/ MakeSystem(t, e)

LEMMA EntryMakes ==
    ASSUME IInv, NEW t \in Threads, NEW e \in Events, Entry(t, e)
    PROVE  \E new : Makes(t, e, new)
<1>1. submitted \in Nat /\ MaxSerial \in Nat /\ 0 \in 0 .. MaxSerial /\ 0 <= submitted + 1
  BY EventBounds DEF IInv, TypeOK, Serials
<1>2. \A mode \in NewModes \union MapModes : mode \in Modes
  BY KnownModes
<1>3. e \notin working \/ event[e].kind # "none"
  BY DEF IInv, Made
<1>4. CASE OnSubmittedWorkDoneF(t, e)
  <2>1. PICK mode \in NewModes, serial \in {submitted, submitted + 1} \intersect 0 .. MaxSerial :
          Make(t, e, Pending(mode, "serial", serial))
    BY <1>4 DEF OnSubmittedWorkDoneF
  <2>2. working' = working /\ e \notin working'
    BY <1>3, <1>4, <2>1 DEF OnSubmittedWorkDoneF, Make
  <2> DEFINE new == Pending(mode, "serial", serial)
  <2>3. Fits(new, mode, "serial", serial)
    BY <1>2, PendingFits
  <2>4. serial <= submitted + 1
    BY <1>1
  <2> HIDE DEF new
  <2>5. Makes(t, e, new)
    BY <2>1, <2>2, <2>3, <2>4 DEF Makes, Fits, new
  <2>6. QED
    BY <2>5
<1>5. CASE MapAsyncF(t, e)
  <2>1. PICK mode \in MapModes, serial \in {s \in 0 .. MaxSerial : s <= submitted + 1} :
          Make(t, e, Pending(mode, "serial", serial))
    BY <1>5 DEF MapAsyncF
  <2>2. working' = working \union {e}
    BY <1>5 DEF MapAsyncF
  <2> DEFINE new == Pending(mode, "serial", serial)
  <2>3. Fits(new, mode, "serial", serial)
    BY <1>2, PendingFits
  <2> HIDE DEF new
  <2>4. Makes(t, e, new)
    BY <2>1, <2>2, <2>3 DEF Makes, Fits, new
  <2>5. QED
    BY <2>4
<1>6. CASE Refuse(t, e)
  <2>1. PICK mode \in NewModes \union MapModes :
          Make(t, e, [Pending(mode, "serial", 0) EXCEPT !.early = TRUE])
    BY <1>6 DEF Refuse
  <2>2. working' = working /\ e \notin working'
    BY <1>3, <1>6, <2>1 DEF Refuse, Make
  <2> DEFINE new == [Pending(mode, "serial", 0) EXCEPT !.early = TRUE]
  <2>3. Fits(new, mode, "serial", 0)
    BY <1>1, <1>2, PendingFits
  <2> HIDE DEF new
  <2>4. Makes(t, e, new)
    BY <1>1, <2>1, <2>2, <2>3 DEF Makes, Fits, new
  <2>5. QED
    BY <2>4
<1>7. CASE MakeSystem(t, e)
  <2>1. PICK mode \in NewModes, signaled \in BOOLEAN :
          /\ Make(t, e, [Pending(mode, "system", 0) EXCEPT !.signaled = signaled])
          /\ working' = IF signaled THEN working ELSE working \union {e}
    BY <1>7 DEF MakeSystem
  <2> DEFINE new == [Pending(mode, "system", 0) EXCEPT !.signaled = signaled]
  <2>2. Fits(new, mode, "system", 0)
    BY <1>1, <1>2, PendingFits
  <2>3. Make(t, e, new) /\ working' \in {working, working \union {e}}
    BY <2>1
  <2> HIDE DEF new
  <2>4. Makes(t, e, new)
    BY <1>1, <2>2, <2>3 DEF Makes, Fits
  <2>5. QED
    BY <2>4
<1>8. QED
  BY <1>4, <1>5, <1>6, <1>7 DEF Entry

LEMMA MakeKeeps ==
    ASSUME IInv, NEW t \in Threads, NEW e \in Events, NEW made, Makes(t, e, made)
    PROVE  IInv'
<1> DEFINE new == <<Step("track", e)>>
<1>1. /\ todo[t] = <<>> /\ event[e].kind = "none" /\ todo' = [todo EXCEPT ![t] = new]
      /\ UNCHANGED <<nextID, tracked, shut, wait, eventsLock, deviceLock, submitted, passed>>
  BY DEF Makes, Make, manager, locks, serials
<1>2. /\ event' = [event EXCEPT ![e] = made]
      /\ working' = working \/ working' = working \union {e}
      /\ made \in EventStates /\ made.kind \in {"system", "serial"}
      /\ e \in working' /\ made.kind = "serial" => made.mode \in MapModes
  BY DEF Makes, Make
<1>3. /\ Plain(new) /\ ToSet(new) = {Step("track", e)} /\ new \in Seq(Steps)
      /\ Step("track", e).do = "track" /\ Step("track", e).event = e
  BY EventStep, OneStepPlain DEF Alone, Plain
<1> HIDE DEF new
<1>4. todo' \in [Threads -> Seq(Steps)] /\ AllOK'
  <2>1. ThreadOK(t, new, eventsLock', deviceLock')
    BY <1>1, <1>3, IdleHoldsNothing, FreshOK
  <2>2. QED
    BY <1>1, <2>1, NewThreads
<1>5. TypeOK /\ Basics
  BY DEF IInv
<1>6. /\ event' \in [Events -> EventStates] /\ event'[e].kind \in {"system", "serial"}
      /\ event'[e] = made
      /\ \A d \in Events \ {e} : event'[d] = event[d]
      /\ working' \subseteq working \union {e}
  BY <1>2, <1>5 DEF TypeOK
<1>7. TypeOK'
  BY <1>1, <1>4, <1>5, <1>6 DEF TypeOK
<1>8. e # Lost
  BY <1>1, <1>5 DEF Basics
<1>9. Basics'
  <2>1. \A u \in Threads : \A d \in wait[u].ready : d \in Events /\ event[d].kind # "none"
    BY <1>5 DEF TypeOK, Waits, Basics
  <2>2. \A u \in Threads : \A d \in wait'[u].ready : event'[d].kind # "none"
    BY <1>1, <1>6, <2>1
  <2>3. /\ Lost \in working' => submitted' <= MaxSerial
        /\ event'[Lost].kind = "system" /\ event'[Lost].mode \in LostModes
        /\ shut' => \A u \in Threads : wait'[u].set = {}
    BY <1>1, <1>5, <1>6, <1>8, NoEventIsNone DEF Basics
  <2>4. QED
    BY <2>2, <2>3 DEF Basics
<1>10. Made'
  <2>1. tracked' \subseteq Events /\ working' \subseteq Events
    BY <1>7 DEF TypeOK
  <2>2. \A d \in Events : event[d].kind # "none" => event'[d].kind # "none"
    BY <1>1, <1>6
  <2>3. QED
    BY <1>1, <1>3, <1>6, <2>1, <2>2, MadeStep
<1>11. Referred'
  <2>1. ToSet(todo[t]) = {}
    BY <1>1, NothingPlain
  <2>2. \A d \in Events : event'[d].outcome = "pending" =>
          event[d].outcome = "pending" \/ \E x \in ToSet(new) : x.event = d /\ x.do \in Keepers
    BY <1>3, <1>6 DEF Keepers
  <2>3. working \subseteq working'
    BY <1>2
  <2>4. QED
    BY <1>1, <1>3, <2>1, <2>2, <2>3, ReferredStep
<1>12. Handled'
  <2>1. \A d \in Events : event[d].kind # "none" =>
          event'[d].kind = event[d].kind /\ event'[d].mode = event[d].mode
    BY <1>1, <1>6
  <2>2. \A d \in working' :
          d \in working \/ (event'[d].kind = "serial" => event'[d].mode \in MapModes)
    BY <1>2, <1>6
  <2>3. QED
    BY <1>1, <1>3, <2>1, <2>2, HandledStep
<1>13. QED
  BY <1>4, <1>7, <1>9, <1>10, <1>11, <1>12 DEF IInv

LEMMA WorkerDoneKeeps ==
    ASSUME IInv, NEW t \in Threads, NEW e \in Events, WorkerDone(t, e)
    PROVE  IInv'
<1> DEFINE new == SetFutureReadyCalls(e)
<1>1. /\ todo[t] = <<>> /\ e \in working \ {Lost} /\ todo' = [todo EXCEPT ![t] = new]
      /\ working' = working \ {e}
      /\ UNCHANGED <<event, nextID, tracked, shut, wait, eventsLock, deviceLock, submitted, passed>>
  BY DEF WorkerDone, manager, locks, serials
<1>2. /\ Plain(new) /\ new \in Seq(Steps)
      /\ \A x \in ToSet(new) : x.event = e
      /\ \E x \in ToSet(new) : x.event = e
  BY ReadyCallsPlain, EventStep DEF Plain
<1> HIDE DEF new
<1>3. todo' \in [Threads -> Seq(Steps)] /\ AllOK'
  <2>1. ThreadOK(t, new, eventsLock', deviceLock')
    BY <1>1, <1>2, IdleHoldsNothing, FreshOK
  <2>2. QED
    BY <1>1, <2>1, NewThreads
<1>4. TypeOK /\ Basics
  BY DEF IInv
<1>5. TypeOK' /\ Basics'
  BY <1>1, <1>3, <1>4 DEF TypeOK, Basics
<1>6. e \in Refs(todo')
  <2>1. PICK x \in ToSet(new) : x.event = e
    BY <1>2
  <2>2. todo \in [Threads -> Seq(Steps)]
    BY <1>4 DEF TypeOK
  <2>3. \A y \in ToSet(new) : y.event \in Events => y.event \in Refs(todo')
    BY <1>1, <1>2, <2>2, RefsAfter
  <2>4. QED
    BY <2>1, <2>3
<1>7. Made'
  <2>1. \A x \in ToSet(new) : x.event \in working
    BY <1>1, <1>2
  <2>2. tracked' \subseteq Events /\ working' \subseteq Events /\ tracked' \subseteq tracked
        /\ working' \subseteq working
    BY <1>1, <1>5 DEF TypeOK
  <2>3. QED
    BY <1>1, <1>2, <2>1, <2>2, MadeStep
<1>8. Referred'
  <2>1. ToSet(todo[t]) = {}
    BY <1>1, NothingPlain
  <2>2. tracked \union working \subseteq tracked' \union working' \union Refs(todo')
    BY <1>1, <1>6
  <2>3. QED
    BY <1>1, <1>2, <2>1, <2>2, ReferredStep
<1>9. Handled'
  <2>1. deviceLock' # t
    BY <1>1, IdleHoldsNothing
  <2>2. QED
    BY <1>1, <1>2, <2>1, HandledStep
<1>10. QED
  BY <1>3, <1>5, <1>7, <1>8, <1>9 DEF IInv

(* The polls of the kinds among the futures.                               *)
LEMMA PollsPlain ==
    ASSUME NEW kinds, kinds \subseteq {"serial", "system"}, NEW order \in SetToSeqs(kinds), NEW do,
           do = [serial |-> "serials", system |-> "systems"],
           NEW x, x = [i \in DOMAIN order |-> Step(do[order[i]], NoEvent)]
    PROVE  /\ Plain(x) /\ Within(x, PollSteps)
           /\ \A y \in ToSet(x) : y.event = NoEvent
<1>1. IsFiniteSet(kinds)
  <2>1. IsFiniteSet({"serial", "system"})
    <3>1. IsFiniteSet({"serial"}) /\ IsFiniteSet({"system"})
      BY FS_Singleton
    <3>2. {"serial", "system"} = {"serial"} \union {"system"}
      OBVIOUS
    <3>3. QED
      BY <3>1, <3>2, FS_Union
  <2>2. QED
    BY <2>1, FS_Subset
<1>2. order \in Seq(kinds) /\ DOMAIN order = 1 .. Len(order) /\ Len(order) \in Nat
  BY <1>1, AllOfThem
<1> DEFINE n == Len(order)
<1>3. \A i \in 1 .. n : order[i] \in {"serial", "system"}
  <2>1. \A i \in 1 .. n : order[i] \in kinds
    BY <1>2
  <2>2. QED
    BY <2>1
<1>4. \A i \in 1 .. n : do[order[i]] \in {"serials", "systems"}
  BY <1>3
<1>5. DOMAIN x = 1 .. n /\ \A i \in 1 .. n : x[i] = Step(do[order[i]], NoEvent)
  BY <1>2
<1>6. \A i \in 1 .. n : x[i] \in Steps /\ x[i].do \in {"serials", "systems"} /\ x[i].event = NoEvent
  BY <1>4, <1>5, OtherStep
<1>7. x \in Seq(Steps)
  <2>1. x \in [1 .. n -> Steps]
    BY <1>2, <1>6
  <2>2. QED
    BY <1>2, <2>1
<1> HIDE DEF n
<1>8. ASSUME NEW i \in DOMAIN x
      PROVE  /\ x[i].do \notin {"erase", "signal", "handle", "flush"}
             /\ x[i].do \notin LastSteps
  BY <1>5, <1>6 DEF LastSteps
<1>9. Plain(x)
  BY <1>7, <1>8 DEF Plain, Paired
<1>10. \A y \in ToSet(x) : y.do \in {"serials", "systems"} /\ y.event = NoEvent
  BY <1>5, <1>6 DEF ToSet
<1>11. QED
  BY <1>9, <1>10 DEF Within, Among, PollSteps

LEMMA WaitImplKeeps ==
    ASSUME IInv, NEW t \in Threads, todo[t] = <<>>, ~shut, Free(eventsLock),
           NEW futures, futures \subseteq tracked, NEW untrack \in {"untrackPolled", "untrackWaited"},
           WaitImpl(t, futures, untrack),
           eventsLock' = IF untrack = "untrackPolled" THEN t ELSE NoThread,
           UNCHANGED <<event, manager, working, deviceLock, serials>>
    PROVE  IInv'
<1> DEFINE do == [serial |-> "serials", system |-> "systems"]
           kinds == {event[e].kind : e \in futures}
           last == Step(untrack, NoEvent)
<1>1. TypeOK /\ Basics /\ Made
  BY DEF IInv
<1>2. kinds \subseteq {"serial", "system"}
  <2>1. \A e \in futures : e \in Events /\ e \in tracked
    BY <1>1 DEF TypeOK
  <2>2. \A e \in futures : event[e].kind # "none" /\ event[e].kind \in {"none", "system", "serial"}
    BY <1>1, <2>1 DEF Made, TypeOK, EventStates
  <2>3. QED
    BY <2>2
<1>3. wait' = [wait EXCEPT ![t].set = futures]
  BY DEF WaitImpl
<1>4. PICK order \in SetToSeqs(kinds) :
        todo' = [todo EXCEPT ![t] =
                   Append([i \in DOMAIN order |-> Step(do[order[i]], NoEvent)], last)]
  BY DEF WaitImpl
<1> DEFINE x == [i \in DOMAIN order |-> Step(do[order[i]], NoEvent)]
<1>5. Plain(x) /\ Within(x, PollSteps) /\ \A y \in ToSet(x) : y.event = NoEvent
  <2> HIDE DEF kinds
  <2>1. QED
    BY <1>2, <1>4, PollsPlain
<1>6. last \in Steps /\ last.do = untrack /\ last.event = NoEvent
  BY OtherStep
<1> DEFINE new == Append(x, last)
<1>7. todo' = [todo EXCEPT ![t] = new]
  BY <1>4
<1> HIDE DEF do, kinds, last, x
<1>8. ThreadOK(t, new, eventsLock', deviceLock') /\ ToSet(new) = ToSet(x) \union {last}
  <2>1. eventsLock' = t <=> last.do \in {"untrackPolled", "unlockEvents"}
    BY <1>6, KnownModes
  <2>2. deviceLock' # t
    BY IdleHoldsNothing
  <2>3. last.do \in LastSteps /\ last.do # "unlockDevice"
    BY <1>6 DEF LastSteps
  <2>4. deviceLock' = t <=> last.do = "unlockDevice"
    BY <2>2, <2>3
  <2>5. QED
    BY <1>5, <1>6, <2>1, <2>2, <2>3, <2>4, WithLastOK
<1>9. new \in Seq(Steps) /\ \A y \in ToSet(new) : y.event \notin Events
  BY <1>5, <1>6, <1>8, NoEventIsNone DEF ThreadOK
<1> HIDE DEF new
<1>10. todo' \in [Threads -> Seq(Steps)] /\ AllOK'
  BY <1>7, <1>8, NewThreads DEF Free
<1>11. wait' \in [Threads -> Waits]
  <2>1. futures \subseteq Events
    BY <1>1 DEF TypeOK
  <2>2. QED
    BY <1>1, <1>3, <2>1 DEF TypeOK, Waits
<1>12. TypeOK' /\ Basics'
  <2>1. \A u \in Threads : wait'[u].ready = wait[u].ready
    BY <1>1, <1>3 DEF TypeOK, Waits
  <2>2. QED
    BY <1>1, <1>10, <1>11, <2>1 DEF TypeOK, Basics, manager, serials
<1>13. Made'
  <2>1. tracked' \subseteq Events /\ working' \subseteq Events
    BY <1>12 DEF TypeOK
  <2>2. QED
    BY <1>7, <1>9, <2>1, MadeStep DEF manager
<1>14. Referred'
  <2>1. ToSet(todo[t]) = {}
    BY NothingPlain
  <2>2. QED
    BY <1>7, <1>9, <2>1, ReferredStep DEF manager
<1>15. Handled'
  <2>1. deviceLock' = deviceLock /\ deviceLock' # t
    BY IdleHoldsNothing
  <2>2. QED
    BY <1>7, <1>9, <2>1, HandledStep
<1>16. QED
  BY <1>10, <1>12, <1>13, <1>14, <1>15 DEF IInv

LEMMA TickTypes ==
    ASSUME IInv, TickQueue
    PROVE  /\ submitted' \in Serials /\ passed' \in Serials
           /\ Lost \in working => submitted' <= MaxSerial
<1>1. TypeOK /\ Basics
  BY DEF IInv
<1>2. /\ submitted \in Nat /\ submitted <= MaxSerial + 1 /\ passed \in Nat
      /\ Lost \in working => submitted <= MaxSerial
      /\ \A e \in Events : event[e].serial \in Nat /\ event[e].serial <= MaxSerial
  BY <1>1, EventBounds DEF TypeOK, Basics, Serials, EventStates
<1>3. passed' \in Nat /\ passed' <= submitted
  BY <1>2 DEF TickQueue
<1>4. CASE \E e \in Events : event[e].serial > submitted
  <2>1. PICK e \in Events : event[e].serial > submitted
    BY <1>4
  <2>2. submitted' = submitted + 1
    BY <1>4 DEF TickQueue
  <2>3. submitted < MaxSerial
    BY <1>2, <2>1, EventBounds
  <2>4. QED
    BY <1>2, <1>3, <2>2, <2>3, EventBounds DEF Serials
<1>5. CASE ~\E e \in Events : event[e].serial > submitted
  <2>1. submitted' = submitted
    BY <1>5 DEF TickQueue
  <2>2. QED
    BY <1>2, <1>3, <2>1, EventBounds DEF Serials
<1>6. QED
  BY <1>4, <1>5

LEMMA LoseTypes ==
    ASSUME IInv, Lose
    PROVE  /\ Lost \in working /\ working' = working \ {Lost}
           /\ submitted' \in Serials /\ passed' \in Serials
<1>1. Lost \in working /\ working' = working \ {Lost}
  BY DEF Lose
<1>2. submitted \in Nat /\ submitted <= MaxSerial
  BY <1>1, EventBounds DEF IInv, TypeOK, Basics, Serials
<1>3. QED
  BY <1>1, <1>2, EventBounds DEF Lose, Serials

LEMMA APITickKeeps ==
    ASSUME IInv, NEW t \in Threads, APITick(t)
    PROVE  IInv'
<1>1. /\ submitted' \in Serials /\ passed' \in Serials
      /\ Lost \in working => submitted' <= MaxSerial
  BY TickTypes DEF APITick
<1>2. UNCHANGED <<event, nextID, tracked, shut, working, wait, todo, eventsLock, deviceLock>>
  BY DEF APITick, manager, locks
<1>3. TypeOK' /\ Basics'
  BY <1>1, <1>2 DEF IInv, TypeOK, Basics
<1>4. AllOK'
  BY <1>2 DEF IInv, AllOK
<1>5. Made' /\ Referred' /\ Handled'
  BY <1>2 DEF IInv, Made, Referred, Refs, Keeps, Handled, UnderLock
<1>6. QED
  BY <1>3, <1>4, <1>5 DEF IInv

LEMMA APITickFailsKeeps ==
    ASSUME IInv, NEW t \in Threads, APITickFails(t)
    PROVE  IInv'
<1> DEFINE x == SetFutureReadyCalls(Lost)
           new == Append(x, Unlock)
<1>1. /\ todo[t] = <<>> /\ deviceLock = NoThread /\ deviceLock' = t
      /\ todo' = [todo EXCEPT ![t] = new]
      /\ UNCHANGED <<event, nextID, tracked, shut, wait, eventsLock>>
  BY DEF APITickFails, Free, manager, Unlock
<1>2. /\ Lost \in working /\ working' = working \ {Lost}
      /\ submitted' \in Serials /\ passed' \in Serials
  BY LoseTypes DEF APITickFails
<1>3. Plain(x) /\ Among(x, TickSteps) /\ \A y \in ToSet(x) : y.event = Lost
  BY ReadyCallsPlain, NoEventIsNone, EventStep DEF Among, TickSteps, LossSteps
<1>4. \E y \in ToSet(x) : y.event = Lost
  BY ReadyCallsPlain, NoEventIsNone, EventStep
<1>5. Unlock \in Steps /\ Unlock.do = "unlockDevice" /\ Unlock.event = NoEvent
  BY OtherStep DEF Unlock
<1> HIDE DEF x
<1>6. ThreadOK(t, new, eventsLock', deviceLock') /\ ToSet(new) = ToSet(x) \union {Unlock}
  <2>1. eventsLock' # t
    BY <1>1, IdleHoldsNothing
  <2>2. /\ ThreadOK(t, Append(x, Unlock), eventsLock', t)
        /\ ToSet(Append(x, Unlock)) = ToSet(x) \union {Unlock}
    BY <1>3, <2>1, UnlockLastOK
  <2>3. QED
    BY <1>1, <2>2
<1>7. new \in Seq(Steps) /\ \A y \in ToSet(new) : y.event \in Events => y.event = Lost
  BY <1>3, <1>5, <1>6, NoEventIsNone DEF ThreadOK
<1> HIDE DEF new
<1>8. todo' \in [Threads -> Seq(Steps)] /\ AllOK'
  BY <1>1, <1>6, NewThreads
<1>9. TypeOK' /\ Basics'
  BY <1>1, <1>2, <1>8 DEF IInv, TypeOK, Basics
<1>10. Lost \in Refs(todo')
  <2>1. todo \in [Threads -> Seq(Steps)]
    BY DEF IInv, TypeOK
  <2>2. \A y \in ToSet(new) : y.event \in Events => y.event \in Refs(todo')
    BY <1>1, <1>7, <2>1, RefsAfter
  <2>3. QED
    BY <1>4, <1>6, <2>2, NoEventIsNone
<1>11. Made'
  <2>1. tracked' \subseteq Events /\ working' \subseteq Events
    BY <1>9 DEF TypeOK
  <2>2. QED
    BY <1>1, <1>2, <1>7, <2>1, MadeStep
<1>12. Referred'
  <2>1. ToSet(todo[t]) = {}
    BY <1>1, NothingPlain
  <2>2. tracked \union working \subseteq tracked' \union working' \union Refs(todo')
    BY <1>1, <1>2, <1>10
  <2>3. QED
    BY <1>1, <1>7, <2>1, <2>2, ReferredStep
<1>13. Handled'
  <2>1. \A y \in ToSet(new) : y.do = "handle" => y.event = Lost
    BY <1>3, <1>5, <1>6
  <2>2. event[Lost].mode \in LostModes
    BY DEF IInv, Basics
  <2>3. QED
    BY <1>1, <1>2, <1>7, <2>1, <2>2, HandledStep
<1>14. QED
  BY <1>8, <1>9, <1>11, <1>12, <1>13 DEF IInv

LEMMA UnmapEarlyKeeps ==
    ASSUME IInv, NEW t \in Threads, NEW e \in Events, UnmapEarly(t, e)
    PROVE  IInv'
<1> DEFINE x == SetFutureReadyCalls(e)
           new == Append(x, Unlock)
<1>1. /\ todo[t] = <<>> /\ deviceLock = NoThread /\ deviceLock' = t
      /\ todo' = [todo EXCEPT ![t] = new]
      /\ event' = [event EXCEPT ![e].early = TRUE]
      /\ e \in working /\ event[e].kind = "serial" /\ working' = working \ {e}
      /\ UNCHANGED <<nextID, tracked, shut, wait, eventsLock, submitted, passed>>
  BY DEF UnmapEarly, Free, manager, serials, Unlock
<1>2. event[e].mode \in MapModes
  BY <1>1 DEF IInv, Handled
<1>3. Plain(x) /\ Among(x, TickSteps) /\ \A y \in ToSet(x) : y.event = e
  BY ReadyCallsPlain, EventStep DEF Among, TickSteps, LossSteps
<1>4. \E y \in ToSet(x) : y.event = e
  BY ReadyCallsPlain, EventStep
<1>5. Unlock \in Steps /\ Unlock.do = "unlockDevice" /\ Unlock.event = NoEvent
  BY OtherStep DEF Unlock
<1> HIDE DEF x
<1>6. ThreadOK(t, new, eventsLock', deviceLock') /\ ToSet(new) = ToSet(x) \union {Unlock}
  <2>1. eventsLock' # t
    BY <1>1, IdleHoldsNothing
  <2>2. /\ ThreadOK(t, Append(x, Unlock), eventsLock', t)
        /\ ToSet(Append(x, Unlock)) = ToSet(x) \union {Unlock}
    BY <1>3, <2>1, UnlockLastOK
  <2>3. QED
    BY <1>1, <2>2
<1>7. new \in Seq(Steps) /\ \A y \in ToSet(new) : y.event \in Events => y.event = e
  BY <1>3, <1>5, <1>6, NoEventIsNone DEF ThreadOK
<1> HIDE DEF new
<1>8. todo' \in [Threads -> Seq(Steps)] /\ AllOK'
  BY <1>1, <1>6, NewThreads
<1>9. /\ event' \in [Events -> EventStates]
      /\ \A d \in Events : /\ event'[d].kind = event[d].kind /\ event'[d].mode = event[d].mode
                           /\ event'[d].outcome = event[d].outcome
  BY <1>1 DEF IInv, TypeOK, EventStates
<1>10. TypeOK' /\ Basics'
  <2>1. TypeOK /\ Basics
    BY DEF IInv
  <2>2. TypeOK'
    BY <1>1, <1>8, <1>9, <2>1 DEF TypeOK
  <2>3. \A u \in Threads : \A d \in wait[u].ready : d \in Events
    BY <2>1 DEF TypeOK, Waits
  <2>4. \A u \in Threads : \A d \in wait'[u].ready : event'[d].kind # "none"
    BY <1>1, <1>9, <2>1, <2>3 DEF Basics
  <2>5. QED
    BY <1>1, <1>9, <2>1, <2>2, <2>4, NoEventIsNone DEF Basics
<1>11. e \in Refs(todo')
  <2>1. todo \in [Threads -> Seq(Steps)]
    BY DEF IInv, TypeOK
  <2>2. \A y \in ToSet(new) : y.event \in Events => y.event \in Refs(todo')
    BY <1>1, <1>7, <2>1, RefsAfter
  <2>3. QED
    BY <1>4, <1>6, <2>2
<1>12. Made'
  <2>1. tracked' \subseteq Events /\ working' \subseteq Events
    BY <1>10 DEF TypeOK
  <2>2. QED
    BY <1>1, <1>7, <1>9, <2>1, MadeStep
<1>13. Referred'
  <2>1. ToSet(todo[t]) = {}
    BY <1>1, NothingPlain
  <2>2. tracked \union working \subseteq tracked' \union working' \union Refs(todo')
    BY <1>1, <1>11
  <2>3. QED
    BY <1>1, <1>7, <1>9, <2>1, <2>2, ReferredStep
<1>14. Handled'
  <2>1. \A y \in ToSet(new) : y.do = "handle" => y.event = e
    BY <1>3, <1>5, <1>6
  <2>2. QED
    BY <1>1, <1>2, <1>7, <1>9, <2>1, HandledStep
<1>15. QED
  BY <1>8, <1>10, <1>12, <1>13, <1>14 DEF IInv

LEMMA ShutDownKeeps ==
    ASSUME IInv, NEW t \in Threads, ShutDown(t)
    PROVE  IInv'
<1>1. /\ todo[t] = <<>> /\ eventsLock = NoThread /\ eventsLock' = t
      /\ \A u \in Threads : wait[u].set = {}
      /\ shut' = TRUE /\ tracked' = {}
      /\ UNCHANGED <<event, nextID, working, wait, deviceLock, submitted, passed>>
  BY DEF ShutDown, Free, serials
<1>2. PICK events \in SetToSeqs(tracked) :
        todo' = [todo EXCEPT ![t] = Append(StepsFor("release", events), Step("unlockEvents", NoEvent))]
  BY DEF ShutDown
<1> DEFINE x == StepsFor("release", events)
           last == Step("unlockEvents", NoEvent)
           new == Append(x, last)
<1>3. todo' = [todo EXCEPT ![t] = new]
  BY <1>2
<1>4. TypeOK /\ Basics
  BY DEF IInv
<1>5. Plain(x) /\ ToSet(x) = {Step("release", e) : e \in tracked}
  BY <1>4, StepsForPlain DEF TypeOK
<1>6. \A e \in tracked : /\ Step("release", e).do = "release" /\ Step("release", e).event = e
                         /\ Step("release", e) \in ToSet(x)
  BY <1>4, <1>5, EventStep DEF TypeOK
<1>7. \A y \in ToSet(x) : y.do = "release" /\ y.event \in tracked
  BY <1>5, <1>6
<1>8. last \in Steps /\ last.do = "unlockEvents" /\ last.event = NoEvent
  BY OtherStep
<1> HIDE DEF x, last
<1>9. ThreadOK(t, new, eventsLock', deviceLock') /\ ToSet(new) = ToSet(x) \union {last}
  <2>1. deviceLock' # t
    BY <1>1, IdleHoldsNothing
  <2>2. last.do \in LastSteps
    BY <1>8 DEF LastSteps
  <2>3. Within(x, PollSteps)
    BY <1>7 DEF Within, Among, PollSteps, LossSteps
  <2>4. QED
    BY <1>1, <1>5, <1>8, <2>1, <2>2, <2>3, WithLastOK
<1>10. new \in Seq(Steps) /\ \A y \in ToSet(new) : y.event \in Events => y.event \in tracked
  BY <1>7, <1>8, <1>9, NoEventIsNone DEF ThreadOK
<1> HIDE DEF new
<1>11. todo' \in [Threads -> Seq(Steps)] /\ AllOK'
  BY <1>1, <1>3, <1>9, NewThreads
<1>12. TypeOK' /\ Basics'
  BY <1>1, <1>4, <1>11 DEF TypeOK, Basics
<1>13. tracked \subseteq Refs(todo')
  <2>1. todo \in [Threads -> Seq(Steps)] /\ tracked \subseteq Events
    BY <1>4 DEF TypeOK
  <2>2. \A y \in ToSet(new) : y.event \in Events => y.event \in Refs(todo')
    BY <1>3, <1>10, <2>1, RefsAfter
  <2>3. QED
    BY <1>6, <1>9, <2>1, <2>2
<1>14. Made'
  <2>1. tracked' \subseteq Events /\ working' \subseteq Events
    BY <1>12 DEF TypeOK
  <2>2. QED
    BY <1>1, <1>3, <1>10, <2>1, MadeStep
<1>15. Referred'
  <2>1. ToSet(todo[t]) = {}
    BY <1>1, NothingPlain
  <2>2. tracked \union working \subseteq tracked' \union working' \union Refs(todo')
    BY <1>1, <1>13
  <2>3. QED
    BY <1>1, <1>3, <1>10, <2>1, <2>2, ReferredStep
<1>16. Handled'
  <2>1. deviceLock' = deviceLock /\ deviceLock' # t
    BY <1>1, IdleHoldsNothing
  <2>2. QED
    BY <1>1, <1>3, <1>10, <2>1, HandledStep
<1>17. QED
  BY <1>11, <1>12, <1>14, <1>15, <1>16 DEF IInv

LEMMA BeginKeeps ==
    ASSUME IInv, NEW t \in Threads, Begin(t)
    PROVE  IInv'
<1>1. CASE \E e \in Events : Entry(t, e)
  BY <1>1, EntryMakes, MakeKeeps
<1>2. CASE \E e \in Events : WorkerDone(t, e) \/ UnmapEarly(t, e)
  BY <1>2, WorkerDoneKeeps, UnmapEarlyKeeps
<1>3. CASE ProcessPollEvents(t)
  <2> DEFINE futures == {e \in tracked : event[e].mode # "WaitAnyOnly"}
  <2>1. /\ todo[t] = <<>> /\ ~shut /\ Free(eventsLock) /\ WaitImpl(t, futures, "untrackPolled")
        /\ eventsLock' = t /\ UNCHANGED <<event, manager, working, deviceLock, serials>>
    BY <1>3 DEF ProcessPollEvents
  <2>2. futures \subseteq tracked
    OBVIOUS
  <2> HIDE DEF futures
  <2>3. QED
    BY <2>1, <2>2, WaitImplKeeps
<1>4. CASE WaitAny(t)
  <2>1. /\ todo[t] = <<>> /\ ~shut /\ Free(eventsLock)
        /\ UNCHANGED <<event, manager, working, deviceLock, serials>>
        /\ eventsLock' = NoThread
    BY <1>4 DEF WaitAny, locks, Free
  <2>2. PICK futures \in (SUBSET (tracked \ {Lost})) \ {{}} : WaitImpl(t, futures, "untrackWaited")
    BY <1>4 DEF WaitAny
  <2>3. futures \subseteq tracked
    BY <2>2
  <2>4. QED
    BY <2>1, <2>2, <2>3, WaitImplKeeps
<1>5. CASE APITick(t)
  BY <1>5, APITickKeeps
<1>6. CASE APITickFails(t)
  BY <1>6, APITickFailsKeeps
<1>7. CASE ShutDown(t)
  BY <1>7, ShutDownKeeps
<1>8. QED
  BY <1>1, <1>2, <1>3, <1>4, <1>5, <1>6, <1>7 DEF Begin, Entry

-----------------------------------------------------------------------------
(* The steps with which calls go on.  What such a step has to leave alone: *)
SameEvents ==
    /\ event' \in [Events -> EventStates]
    /\ \A e \in Events :
         /\ event'[e].kind = event[e].kind /\ event'[e].mode = event[e].mode
         /\ event'[e].outcome = "pending" => event[e].outcome = "pending"

SameWaits ==
    /\ wait' \in [Threads -> Waits]
    /\ \A u \in Threads :
         /\ wait'[u].set \subseteq wait[u].set
         /\ \A e \in wait'[u].ready : e \in wait[u].ready \/ event[e].kind # "none"

SameSerials ==
    /\ submitted' \in Serials /\ passed' \in Serials
    /\ Lost \in working' => submitted' <= MaxSerial

(* Thread t drops no reference to an event without leaving another.        *)
KeepsReferences(t, x) ==
    /\ shut' = shut
    /\ tracked' \subseteq tracked \union ({Now(t)} \intersect Events)
    /\ working' \subseteq working
    /\ \A e \in tracked \ tracked' :
         \E y \in ToSet(x) \union ToSet(Tail(todo[t])) : y.event = e /\ y.do \in Keepers
    /\ \A e \in working \ working' :
         event'[e].outcome = "pending" => \E y \in ToSet(x) : y.event = e
    /\ \A y \in ToSet(x) : y.event \in Events => y.event = Now(t) \/ event[y.event].kind # "none"
    /\ Now(t) \in Events /\ event'[Now(t)].outcome = "pending" =>
         /\ \/ Now(t) \in tracked' \union working' \union Refs(todo')
            \/ \E y \in ToSet(x) \union ToSet(Tail(todo[t])) : y.event = Now(t)
         /\ ~shut /\ Head(todo[t]).do \in Keepers =>
              Now(t) \in tracked' \/ \E y \in ToSet(x) : y.event = Now(t) /\ y.do \in Keepers

LEMMA StepKeeps ==
    ASSUME IInv, NEW t \in Threads, todo[t] # <<>>, NEW x, Plain(x), Moved(t, x),
           SameEvents, SameWaits, SameSerials, nextID' \in Nat \ {0}, KeepsReferences(t, x)
    PROVE  IInv'
<1> DEFINE new == x \o Tail(todo[t])
<1>0. /\ shut' = shut
      /\ tracked' \subseteq tracked \union ({Now(t)} \intersect Events) /\ working' \subseteq working
      /\ \A y \in ToSet(x) : y.event \in Events => y.event = Now(t) \/ event[y.event].kind # "none"
  BY DEF KeepsReferences
<1>1. /\ todo' \in [Threads -> Seq(Steps)] /\ AllOK'
      /\ todo' = [todo EXCEPT ![t] = new] /\ new \in Seq(Steps)
      /\ ToSet(new) = ToSet(x) \union ToSet(Tail(todo[t]))
      /\ eventsLock' \in Threads \union {NoThread} /\ deviceLock' \in Threads \union {NoThread}
  BY DEF Moved
<1> HIDE DEF new
<1>2. TypeOK /\ Basics
  BY DEF IInv
<1>3. tracked \subseteq Events /\ working \subseteq Events /\ todo \in [Threads -> Seq(Steps)]
  BY <1>2 DEF TypeOK
<1>4. TypeOK'
  BY <1>0, <1>1, <1>2, <1>3 DEF TypeOK, SameEvents, SameWaits, SameSerials
<1>5. Basics'
  <2>1. shut' => \A u \in Threads : wait'[u].set = {}
    BY <1>0, <1>2 DEF Basics, SameWaits
  <2>2. event'[Lost].kind = "system" /\ event'[Lost].mode \in LostModes
    BY <1>2, NoEventIsNone DEF Basics, SameEvents
  <2>3. \A u \in Threads : \A e \in wait'[u].ready : e \in Events /\ event'[e].kind # "none"
    BY <1>2 DEF Basics, SameWaits, SameEvents, Waits
  <2>4. QED
    BY <2>1, <2>2, <2>3 DEF Basics, SameSerials
<1>6. \A y \in ToSet(new) : y.event \in Events =>
        y.event \in Refs(todo') /\ (y.do \in Keepers => y.event \in Keeps(todo'))
  BY <1>1, <1>3, RefsAfter
<1>7. \A y \in ToSet(x) \union ToSet(Tail(todo[t])) : y.event \in Events =>
        y.event \in Refs(todo') /\ (y.do \in Keepers => y.event \in Keeps(todo'))
  BY <1>1, <1>6
<1>8. ASSUME NEW e \in tracked \ tracked' PROVE e \in Refs(todo') /\ e \in Keeps(todo')
  <2>1. PICK y \in ToSet(x) \union ToSet(Tail(todo[t])) : y.event = e /\ y.do \in Keepers
    BY DEF KeepsReferences
  <2>2. QED
    BY <1>3, <1>7, <2>1
<1>9. ASSUME NEW e \in working \ working', event'[e].outcome = "pending" PROVE e \in Refs(todo')
  <2>1. PICK y \in ToSet(x) : y.event = e
    BY <1>9 DEF KeepsReferences
  <2>2. QED
    BY <1>3, <1>7, <2>1
<1>10. \A e \in tracked \union working :
         event'[e].outcome = "pending" => e \in tracked' \union working' \union Refs(todo')
  BY <1>8, <1>9
<1>11. tracked \subseteq tracked' \union Keeps(todo')
  BY <1>8
<1>12. Now(t) \in Events /\ event'[Now(t)].outcome = "pending" =>
        /\ Now(t) \in tracked' \union working' \union Refs(todo')
        /\ ~shut /\ Head(todo[t]).do \in Keepers => Now(t) \in tracked' \union Keeps(todo')
  <2>1. ASSUME Now(t) \in Events, event'[Now(t)].outcome = "pending"
        PROVE  Now(t) \in tracked' \union working' \union Refs(todo')
    BY <1>7, <2>1 DEF KeepsReferences
  <2>2. ASSUME Now(t) \in Events, event'[Now(t)].outcome = "pending", ~shut,
               Head(todo[t]).do \in Keepers
        PROVE  Now(t) \in tracked' \union Keeps(todo')
    BY <1>7, <2>2 DEF KeepsReferences
  <2>3. QED
    BY <2>1, <2>2
<1>13. x \in Seq(Steps)
  BY DEF Plain
<1>14. Referred' /\ Made'
  BY <1>0, <1>1, <1>3, <1>10, <1>11, <1>12, <1>13, GotoReferred DEF SameEvents
<1>15. Handled'
  <2>1. /\ \A u \in Threads : deviceLock' = u => deviceLock = u
        /\ Quiet /\ deviceLock' = t => \A y \in ToSet(x) : y.do = "handle" => y.event = Lost
    BY DEF Moved
  <2>2. event'[Lost].mode \in LostModes
    BY <1>5 DEF Basics
  <2>3. ToSet(Tail(todo[t])) \subseteq ToSet(todo[t])
    BY HeadStep
  <2>4. Quiet /\ deviceLock' = t =>
          \A y \in ToSet(new) : y.do = "handle" =>
            \/ event'[y.event].mode \in LostModes \union MapModes
            \/ deviceLock = t /\ y \in ToSet(todo[t])
    BY <1>1, <2>1, <2>2, <2>3
  <2>5. \A e \in Events : event'[e].kind = event[e].kind /\ event'[e].mode = event[e].mode
    BY DEF SameEvents
  <2>6. QED
    BY <1>0, <1>1, <2>1, <2>4, <2>5, HandledStep
<1>16. QED
  BY <1>1, <1>4, <1>5, <1>14, <1>15 DEF IInv

LEMMA Unchanged ==
    ASSUME IInv
    PROVE  /\ event' = event => SameEvents
           /\ wait' = wait => SameWaits
           /\ UNCHANGED <<submitted, passed>> /\ working' \subseteq working => SameSerials
           /\ nextID \in Nat \ {0}
           /\ tracked \subseteq Events /\ working \subseteq Events
  BY DEF IInv, TypeOK, Basics, SameEvents, SameWaits, SameSerials

LEMMA SameReferences ==
    ASSUME NEW t, NEW x, tracked' = tracked, shut' = shut, working' = working,
           \A y \in ToSet(x) : y.event \in Events => y.event = Now(t),
           \/ Now(t) \notin Events
           \/ event'[Now(t)].outcome # "pending"
           \/ Head(todo[t]).do \notin Keepers
              /\ \E y \in ToSet(x) \union ToSet(Tail(todo[t])) : y.event = Now(t)
           \/ \E y \in ToSet(x) : y.event = Now(t) /\ y.do \in Keepers
    PROVE  KeepsReferences(t, x)
<1>1. /\ shut' = shut
      /\ tracked' \subseteq tracked \union ({Now(t)} \intersect Events)
      /\ working' \subseteq working
  OBVIOUS
<1>2. /\ \A e \in tracked \ tracked' :
           \E y \in ToSet(x) \union ToSet(Tail(todo[t])) : y.event = e /\ y.do \in Keepers
      /\ \A e \in working \ working' : \E y \in ToSet(x) : y.event = e
  OBVIOUS
<1>3. \A y \in ToSet(x) : y.event \in Events => y.event = Now(t) \/ event[y.event].kind # "none"
  OBVIOUS
<1>4. ASSUME Now(t) \in Events, event'[Now(t)].outcome = "pending"
      PROVE  /\ \/ Now(t) \in tracked' \union working' \union Refs(todo')
                \/ \E y \in ToSet(x) \union ToSet(Tail(todo[t])) : y.event = Now(t)
             /\ ~shut /\ Head(todo[t]).do \in Keepers =>
                  Now(t) \in tracked' \/ \E y \in ToSet(x) : y.event = Now(t) /\ y.do \in Keepers
  BY <1>4
<1>5. QED
  BY <1>1, <1>2, <1>3, <1>4 DEF KeepsReferences

(* A thread that is at a step no holder of a lock can be at.               *)
LEMMA NotLocked ==
    ASSUME IInv, NEW t \in Threads, todo[t] # <<>>,
           Head(todo[t]).do \notin PollSteps \union TickSteps
    PROVE  Quiet => eventsLock # t /\ deviceLock # t
  BY HeadWithin

LEMMA TrackEventKeeps ==
    ASSUME IInv, NEW t \in Threads, TrackEvent(t)
    PROVE  IInv'
<1> DEFINE do == IF event[Now(t)].mode = "AllowSpontaneous" THEN "check" ELSE "emplace"
           x == <<Step(do, Now(t))>>
<1>1. /\ todo[t] # <<>> /\ Head(todo[t]).do = "track" /\ Goto(t, x)
      /\ event' = [event EXCEPT ![Now(t)].id = nextID] /\ nextID' = nextID + 1
      /\ UNCHANGED <<tracked, shut, working, wait, locks, submitted, passed>>
  BY DEF TrackEvent, At, serials
<1>2. Now(t) \in Events
  BY <1>1, HeadStep
<1>3. do \in {"check", "emplace"}
  OBVIOUS
<1> HIDE DEF do
<1>4. /\ Plain(x) /\ ToSet(x) = {Step(do, Now(t))}
      /\ Step(do, Now(t)).do \in Keepers /\ Step(do, Now(t)).event = Now(t)
  BY <1>2, <1>3, EventStep, OneStepPlain DEF Alone, Keepers
<1> HIDE DEF x
<1>5. Moved(t, x)
  <2>1. Quiet => eventsLock # t /\ deviceLock # t
    BY <1>1, NotLocked DEF PollSteps, TickSteps, LossSteps
  <2>2. Head(todo[t]).do \notin LastSteps
    BY <1>1 DEF LastSteps
  <2>3. QED
    BY <1>1, <1>4, <2>1, <2>2, GotoThreads
<1>6. SameEvents /\ nextID' \in Nat \ {0}
  <2>1. nextID \in Nat \ {0} /\ event \in [Events -> EventStates]
    BY DEF IInv, TypeOK
  <2>2. nextID' \in Nat \ {0}
    BY <1>1, <2>1
  <2>3. QED
    BY <1>1, <1>2, <2>1, <2>2 DEF SameEvents, EventStates
<1>7. SameWaits /\ SameSerials
  BY <1>1, Unchanged
<1>8. KeepsReferences(t, x)
  BY <1>1, <1>4 DEF KeepsReferences
<1>9. QED
  BY <1>1, <1>4, <1>5, <1>6, <1>7, <1>8, StepKeeps

LEMMA CheckTrackedKeeps ==
    ASSUME IInv, NEW t \in Threads, CheckTracked(t)
    PROVE  IInv'
<1> DEFINE do == IF IsDue(Now(t)) THEN "complete" ELSE "emplace"
           x == <<Step(do, Now(t))>>
<1>1. /\ todo[t] # <<>> /\ Head(todo[t]).do = "check" /\ Goto(t, x)
      /\ UNCHANGED <<event, nextID, tracked, shut, working, wait, locks, submitted, passed>>
  BY DEF CheckTracked, At, serials, manager
<1>2. Now(t) \in Events
  BY <1>1, HeadStep
<1>3. do \in {"complete", "emplace"}
  OBVIOUS
<1> HIDE DEF do
<1>4. /\ Plain(x) /\ ToSet(x) = {Step(do, Now(t))}
      /\ Step(do, Now(t)).do \in Keepers /\ Step(do, Now(t)).event = Now(t)
  BY <1>2, <1>3, EventStep, OneStepPlain DEF Alone, Keepers
<1> HIDE DEF x
<1>5. Moved(t, x)
  <2>1. Quiet => eventsLock # t /\ deviceLock # t
    BY <1>1, NotLocked DEF PollSteps, TickSteps, LossSteps
  <2>2. Head(todo[t]).do \notin LastSteps
    BY <1>1 DEF LastSteps
  <2>3. QED
    BY <1>1, <1>4, <2>1, <2>2, GotoThreads
<1>6. SameEvents /\ SameWaits /\ SameSerials /\ nextID' \in Nat \ {0}
  BY <1>1, Unchanged
<1>7. KeepsReferences(t, x)
  BY <1>1, <1>4 DEF KeepsReferences
<1>8. QED
  BY <1>1, <1>4, <1>5, <1>6, <1>7, StepKeeps

LEMMA EmplaceKeeps ==
    ASSUME IInv, NEW t \in Threads, Emplace(t)
    PROVE  IInv'
<1>1. /\ todo[t] # <<>> /\ Head(todo[t]).do = "emplace"
      /\ UNCHANGED <<event, nextID, shut, working, wait, locks, submitted, passed>>
  BY DEF Emplace, At, serials
<1>2. Now(t) \in Events
  BY <1>1, HeadStep
<1>3. Quiet => eventsLock # t /\ deviceLock # t
  BY <1>1, NotLocked DEF PollSteps, TickSteps, LossSteps
<1>4. Head(todo[t]).do \notin LastSteps
  BY <1>1 DEF LastSteps
<1>5. SameEvents /\ SameWaits /\ SameSerials /\ nextID' \in Nat \ {0}
  BY <1>1, Unchanged
<1>6. CASE shut
  <2> DEFINE x == <<Step("release", Now(t))>>
  <2>1. Goto(t, x) /\ tracked' = tracked
    BY <1>6 DEF Emplace
  <2>2. /\ Plain(x) /\ ToSet(x) = {Step("release", Now(t))}
        /\ Step("release", Now(t)).event = Now(t)
    BY <1>2, EventStep, OneStepPlain DEF Alone
  <2> HIDE DEF x
  <2>3. Moved(t, x)
    BY <1>1, <1>3, <1>4, <2>1, <2>2, GotoThreads
  <2>4. KeepsReferences(t, x)
    BY <1>1, <1>6, <2>1, <2>2 DEF KeepsReferences
  <2>5. QED
    BY <1>1, <1>5, <2>2, <2>3, <2>4, StepKeeps
<1>7. CASE ~shut
  <2>1. Goto(t, <<>>) /\ tracked' = tracked \union {Now(t)}
    BY <1>7 DEF Emplace, Return
  <2>2. Moved(t, <<>>)
    BY <1>1, <1>3, <1>4, <2>1, NothingPlain, GotoThreads
  <2>3. KeepsReferences(t, <<>>)
    BY <1>1, <1>2, <2>1, NothingPlain DEF KeepsReferences
  <2>4. QED
    BY <1>1, <1>5, <2>2, <2>3, NothingPlain, StepKeeps
<1>8. QED
  BY <1>6, <1>7

LEMMA SignalKeeps ==
    ASSUME IInv, NEW t \in Threads, Signal(t)
    PROVE  IInv'
<1>1. /\ todo[t] # <<>> /\ Head(todo[t]).do = "signal" /\ Goto(t, <<>>)
      /\ event' = [event EXCEPT ![Now(t)].signaled = @ \/ event[Now(t)].kind = "system"]
      /\ UNCHANGED <<nextID, tracked, shut, working, wait, locks, submitted, passed>>
  BY DEF Signal, At, Return, serials, manager
<1>2. Now(t) \in Events
  BY <1>1, HeadStep
<1>3. Moved(t, <<>>)
  <2>1. Head(todo[t]).do \notin LastSteps /\ \A steps : Within(<<>>, steps)
    BY <1>1, NothingPlain DEF LastSteps, Within, Among
  <2>2. QED
    BY <1>1, <2>1, NothingPlain, GotoThreads
<1>4. SameEvents
  <2>1. event \in [Events -> EventStates]
    BY DEF IInv, TypeOK
  <2>2. \A e \in Events : event[e].signaled \in BOOLEAN
    BY <2>1 DEF EventStates
  <2>3. QED
    BY <1>1, <1>2, <2>1, <2>2 DEF SameEvents, EventStates
<1>5. SameWaits /\ SameSerials /\ nextID' \in Nat \ {0}
  BY <1>1, Unchanged
<1>6. \E y \in ToSet(Tail(todo[t])) : y.event = Now(t)
  <2>1. Step("handle", Now(t)) \in ToSet(Tail(todo[t]))
    BY <1>1, HeadStep, SecondStep DEF Now
  <2>2. QED
    BY <1>2, <2>1, EventStep
<1>7. Head(todo[t]).do \notin Keepers
  BY <1>1 DEF Keepers
<1>8. KeepsReferences(t, <<>>)
  BY <1>1, <1>6, <1>7, NothingPlain DEF KeepsReferences
<1>9. QED
  BY <1>1, <1>3, <1>4, <1>5, <1>8, NothingPlain, StepKeeps

LEMMA HandleKeeps ==
    ASSUME IInv, NEW t \in Threads, HandleSpontaneous(t)
    PROVE  IInv'
<1>1. /\ todo[t] # <<>> /\ Head(todo[t]).do = "handle"
      /\ UNCHANGED <<event, nextID, tracked, shut, working, wait, locks, submitted, passed>>
  BY DEF HandleSpontaneous, At, serials, manager
<1>2. Now(t) \in Events
  BY <1>1, HeadStep
<1>3. Head(todo[t]).do \notin LastSteps /\ Head(todo[t]).do \notin Keepers
  BY <1>1 DEF LastSteps, Keepers
<1>4. SameEvents /\ SameWaits /\ SameSerials /\ nextID' \in Nat \ {0}
  BY <1>1, Unchanged
<1>5. \E y \in ToSet(Tail(todo[t])) : y.event = Now(t)
  <2>1. Step("release", Now(t)) \in ToSet(Tail(todo[t]))
    BY <1>1, HeadStep, SecondStep DEF Now
  <2>2. QED
    BY <1>2, <2>1, EventStep
<1>6. CASE event[Now(t)].id # 0 /\ event[Now(t)].mode = "AllowSpontaneous"
  <2> DEFINE x == <<Step("erase", Now(t)), Step("complete", Now(t))>>
  <2>1. Goto(t, x)
    BY <1>6 DEF HandleSpontaneous
  <2>2. Plain(x) /\ \A y \in ToSet(x) : y.event = Now(t)
    BY <1>2, EventStep, EraseCompletePlain
  <2> HIDE DEF x
  <2>3. Quiet => eventsLock # t /\ deviceLock # t
    <3>1. Quiet => Now(t) # Lost /\ event[Now(t)].mode \notin LostModes \union MapModes
      BY <1>6 DEF IInv, Basics, Quiet
    <3>2. QED
      BY <1>1, <3>1, HeadWithin
  <2>4. Moved(t, x)
    BY <1>1, <1>3, <2>1, <2>2, <2>3, GotoThreads
  <2>5. KeepsReferences(t, x)
    BY <1>1, <1>3, <1>5, <2>2 DEF KeepsReferences
  <2>6. QED
    BY <1>1, <1>4, <2>2, <2>4, <2>5, StepKeeps
<1>7. CASE ~(event[Now(t)].id # 0 /\ event[Now(t)].mode = "AllowSpontaneous")
  <2>1. Goto(t, <<>>)
    BY <1>7 DEF HandleSpontaneous, Return
  <2>2. Moved(t, <<>>)
    <3>1. \A steps : Within(<<>>, steps)
      BY NothingPlain DEF Within, Among
    <3>2. QED
      BY <1>1, <1>3, <2>1, <3>1, NothingPlain, GotoThreads
  <2>3. KeepsReferences(t, <<>>)
    BY <1>1, <1>3, <1>5, NothingPlain DEF KeepsReferences
  <2>4. QED
    BY <1>1, <1>4, <2>2, <2>3, NothingPlain, StepKeeps
<1>8. QED
  BY <1>6, <1>7

LEMMA NothingWithin == \A steps : Within(<<>>, steps)
  BY NothingPlain DEF Within, Among

LEMMA EraseKeeps ==
    ASSUME IInv, NEW t \in Threads, Erase(t)
    PROVE  IInv'
<1>1. /\ todo[t] # <<>> /\ Head(todo[t]).do = "erase" /\ Goto(t, <<>>)
      /\ tracked' = tracked \ {Now(t)}
      /\ UNCHANGED <<event, nextID, shut, working, wait, locks, submitted, passed>>
  BY DEF Erase, At, Return, serials
<1>2. Now(t) \in Events
  BY <1>1, HeadStep
<1>3. Moved(t, <<>>)
  <2>1. Head(todo[t]).do \notin LastSteps
    BY <1>1 DEF LastSteps
  <2>2. QED
    BY <1>1, <2>1, NothingPlain, NothingWithin, GotoThreads
<1>4. SameEvents /\ SameWaits /\ SameSerials /\ nextID' \in Nat \ {0}
  BY <1>1, Unchanged
<1>5. \E y \in ToSet(Tail(todo[t])) : y.event = Now(t) /\ y.do \in Keepers
  <2>1. Step("complete", Now(t)) \in ToSet(Tail(todo[t]))
    BY <1>1, HeadStep, SecondStep DEF Now
  <2>2. QED
    BY <1>2, <2>1, EventStep DEF Keepers
<1>6. Head(todo[t]).do \notin Keepers
  BY <1>1 DEF Keepers
<1>7. KeepsReferences(t, <<>>)
  BY <1>1, <1>5, <1>6, NothingPlain DEF KeepsReferences
<1>8. QED
  BY <1>1, <1>3, <1>4, <1>7, NothingPlain, StepKeeps

LEMMA OutcomeTypes ==
    ASSUME IInv, NEW e \in Events, NEW outcome \in {"ready", "shutdown"}, EnsureComplete(e, outcome)
    PROVE  SameEvents /\ event'[e].outcome # "pending"
<1>1. event \in [Events -> EventStates]
  BY DEF IInv, TypeOK
<1>2. event' = [event EXCEPT ![e].outcome = IF @ = "pending" THEN outcome ELSE @]
  BY DEF EnsureComplete
<1>3. QED
  BY <1>1, <1>2 DEF SameEvents, EventStates

LEMMA CompleteKeeps ==
    ASSUME IInv, NEW t \in Threads, Complete(t)
    PROVE  IInv'
<1>1. /\ todo[t] # <<>> /\ Head(todo[t]).do = "complete" /\ Goto(t, <<>>)
      /\ EnsureComplete(Now(t), "ready")
      /\ working' = IF event[Now(t)].kind = "serial" THEN working \ {Now(t)} ELSE working
      /\ UNCHANGED <<nextID, tracked, shut, wait, locks, submitted, passed>>
  BY DEF Complete, At, Return, serials, manager
<1>2. Now(t) \in Events
  BY <1>1, HeadStep
<1>3. Moved(t, <<>>)
  <2>1. Head(todo[t]).do \notin LastSteps
    BY <1>1 DEF LastSteps
  <2>2. QED
    BY <1>1, <2>1, NothingPlain, NothingWithin, GotoThreads
<1>4. SameEvents /\ event'[Now(t)].outcome # "pending"
  BY <1>1, <1>2, OutcomeTypes
<1>5. SameWaits /\ SameSerials /\ nextID' \in Nat \ {0}
  BY <1>1, Unchanged
<1>6. KeepsReferences(t, <<>>)
  BY <1>1, <1>4, NothingPlain DEF KeepsReferences
<1>7. QED
  BY <1>1, <1>3, <1>4, <1>5, <1>6, NothingPlain, StepKeeps

(* The reference that is released was not the last one to an event that is *)
(* pending, whichever of the others keeps it.                              *)
LEMMA StillReferred ==
    ASSUME IInv, NEW t \in Threads, todo[t] # <<>>, Head(todo[t]).do = "release", Moved(t, <<>>),
           HeldElsewhere(t, Now(t)), Now(t) \in Events, event[Now(t)].outcome = "pending"
    PROVE  \/ Now(t) \in tracked \union working \union Refs(todo')
           \/ \E y \in ToSet(Tail(todo[t])) : y.event = Now(t)
<1>1. /\ ToSet(todo[t]) = {Head(todo[t])} \union ToSet(Tail(todo[t]))
      /\ todo \in [Threads -> Seq(Steps)]
  BY HeadStep DEF IInv, TypeOK
<1>2. \A u \in Threads \ {t} : todo'[u] = todo[u]
  BY <1>1 DEF Moved
<1>3. ASSUME NEW u \in Threads, NEW y \in ToSet(todo[u]), y.event = Now(t), y # Head(todo[t])
      PROVE  \/ Now(t) \in Refs(todo')
             \/ \E z \in ToSet(Tail(todo[t])) : z.event = Now(t)
  <2>1. CASE u = t
    BY <1>1, <1>3, <2>1
  <2>2. CASE u # t
    BY <1>2, <1>3, <2>2 DEF Refs
  <2>3. QED
    BY <2>1, <2>2
<1>4. CASE ~shut
  <2>1. Now(t) \in tracked \union Keeps(todo)
    BY <1>4 DEF IInv, Referred
  <2>2. CASE Now(t) \in Keeps(todo)
    <3>1. PICK u \in Threads : \E y \in ToSet(todo[u]) : y.event = Now(t) /\ y.do \in Keepers
      BY <2>2 DEF Keeps
    <3>2. PICK y \in ToSet(todo[u]) : y.event = Now(t) /\ y.do \in Keepers
      BY <3>1
    <3>3. y # Head(todo[t])
      BY <3>2 DEF Keepers
    <3>4. QED
      BY <1>3, <3>2, <3>3
  <2>3. QED
    BY <2>1, <2>2
<1>5. CASE shut
  <2>1. \A u \in Threads : wait[u].set = {}
    BY <1>5 DEF IInv, Basics
  <2>2. CASE \E u \in Threads \ {t} : \E i \in DOMAIN todo[u] : todo[u][i].event = Now(t)
    <3>1. PICK u \in Threads \ {t} : \E i \in DOMAIN todo[u] : todo[u][i].event = Now(t)
      BY <2>2
    <3>2. PICK i \in DOMAIN todo[u] : todo[u][i].event = Now(t)
      BY <3>1
    <3>3. todo[u][i] \in ToSet(todo[u])
      BY DEF ToSet
    <3>4. todo[u][i] \in ToSet(todo'[u])
      BY <1>2, <3>3
    <3>5. QED
      BY <3>2, <3>4 DEF Refs
  <2>3. CASE \E i \in DOMAIN Tail(todo[t]) : Tail(todo[t])[i].event = Now(t)
    BY <2>3 DEF ToSet
  <2>4. QED
    BY <2>1, <2>2, <2>3 DEF HeldElsewhere
<1>6. QED
  BY <1>4, <1>5

LEMMA ReleaseKeeps ==
    ASSUME IInv, NEW t \in Threads, Release(t)
    PROVE  IInv'
<1>1. /\ todo[t] # <<>> /\ Head(todo[t]).do = "release" /\ Goto(t, <<>>)
      /\ UNCHANGED <<nextID, tracked, shut, working, wait, locks, submitted, passed>>
  BY DEF Release, At, Return, serials, manager
<1>2. Now(t) \in Events
  BY <1>1, HeadStep
<1>3. Moved(t, <<>>)
  <2>1. Head(todo[t]).do \notin LastSteps
    BY <1>1 DEF LastSteps
  <2>2. QED
    BY <1>1, <2>1, NothingPlain, NothingWithin, GotoThreads
<1>4. SameWaits /\ SameSerials /\ nextID' \in Nat \ {0}
  BY <1>1, Unchanged
<1>5. CASE HeldElsewhere(t, Now(t))
  <2>1. event' = event
    BY <1>5 DEF Release
  <2>2. SameEvents
    BY <2>1, Unchanged
  <2>3. Head(todo[t]).do \notin Keepers
    BY <1>1 DEF Keepers
  <2>4. event[Now(t)].outcome = "pending" =>
          \/ Now(t) \in tracked \union working \union Refs(todo')
          \/ \E y \in ToSet(Tail(todo[t])) : y.event = Now(t)
    BY <1>1, <1>2, <1>3, <1>5, StillReferred
  <2>5. KeepsReferences(t, <<>>)
    BY <1>1, <2>1, <2>3, <2>4, NothingPlain DEF KeepsReferences
  <2>6. QED
    BY <1>1, <1>3, <1>4, <2>2, <2>5, NothingPlain, StepKeeps
<1>6. CASE ~HeldElsewhere(t, Now(t))
  <2>1. EnsureComplete(Now(t), "shutdown")
    BY <1>6 DEF Release
  <2>2. SameEvents /\ event'[Now(t)].outcome # "pending"
    BY <1>2, <2>1, OutcomeTypes
  <2>3. KeepsReferences(t, <<>>)
    BY <1>1, <2>2, NothingPlain DEF KeepsReferences
  <2>4. QED
    BY <1>1, <1>3, <1>4, <2>2, <2>3, NothingPlain, StepKeeps
<1>7. QED
  BY <1>5, <1>6

-----------------------------------------------------------------------------
(* The steps that refer to no event.                                       *)
LEMMA OtherReferences ==
    ASSUME IInv, NEW t \in Threads, todo[t] # <<>>, Now(t) \notin Events,
           NEW x, \A y \in ToSet(x) : y.event \notin Events,
           UNCHANGED <<tracked, shut, working>>
    PROVE  KeepsReferences(t, x)
  BY DEF KeepsReferences

(* Futures of a thread that are found to be ready.                         *)
LEMMA ReadyTypes ==
    ASSUME IInv, NEW t \in Threads, NEW more, more \subseteq wait[t].set,
           \A e \in more : event[e].kind # "none",
           wait' = [wait EXCEPT ![t].ready = @ \union more]
    PROVE  SameWaits
<1>1. wait \in [Threads -> Waits]
  BY DEF IInv, TypeOK
<1>2. more \subseteq Events
  BY <1>1 DEF Waits
<1>3. wait' \in [Threads -> Waits]
  BY <1>1, <1>2 DEF Waits
<1>4. ASSUME NEW u \in Threads
      PROVE  /\ wait'[u].set \subseteq wait[u].set
             /\ \A e \in wait'[u].ready : e \in wait[u].ready \/ event[e].kind # "none"
  <2>1. CASE u = t
    <3>1. wait'[t].set = wait[t].set /\ wait'[t].ready = wait[t].ready \union more
      BY <1>1 DEF Waits
    <3>2. QED
      BY <2>1, <3>1
  <2>2. CASE u # t
    BY <1>1, <2>2
  <2>3. QED
    BY <2>1, <2>2
<1>5. QED
  BY <1>3, <1>4 DEF SameWaits

LEMMA WaitSystemsKeeps ==
    ASSUME IInv, NEW t \in Threads, WaitSystems(t)
    PROVE  IInv'
<1> DEFINE more == {e \in wait[t].set : event[e].kind = "system" /\ event[e].signaled}
<1>1. /\ todo[t] # <<>> /\ Head(todo[t]).do = "systems" /\ Goto(t, <<>>)
      /\ wait' = [wait EXCEPT ![t].ready = @ \union more]
      /\ UNCHANGED <<event, nextID, tracked, shut, working, locks, submitted, passed>>
  BY DEF WaitSystems, At, Return, serials, manager
<1>2. Now(t) \notin Events
  BY <1>1, HeadStep
<1>3. Moved(t, <<>>)
  <2>1. Head(todo[t]).do \notin LastSteps
    BY <1>1 DEF LastSteps
  <2>2. QED
    BY <1>1, <2>1, NothingPlain, NothingWithin, GotoThreads
<1>4. SameEvents /\ SameSerials /\ nextID' \in Nat \ {0}
  BY <1>1, Unchanged
<1>5. more \subseteq wait[t].set /\ \A e \in more : event[e].kind # "none"
  OBVIOUS
<1> HIDE DEF more
<1>6. SameWaits
  BY <1>1, <1>5, ReadyTypes
<1>7. KeepsReferences(t, <<>>)
  BY <1>1, <1>2, NothingPlain, OtherReferences
<1>8. QED
  BY <1>1, <1>3, <1>4, <1>6, <1>7, NothingPlain, StepKeeps

LEMMA WaitSerialsKeeps ==
    ASSUME IInv, NEW t \in Threads, WaitSerials(t)
    PROVE  IInv'
<1> DEFINE check == <<Step("checkPassed", NoEvent)>>
           x == (IF LowestSerial(t) > submitted THEN <<Step("flush", NoEvent)>> ELSE <<>>) \o check
<1>1. /\ todo[t] # <<>> /\ Head(todo[t]).do = "serials" /\ Goto(t, x)
      /\ UNCHANGED <<event, nextID, tracked, shut, working, wait, locks, submitted, passed>>
  BY DEF WaitSerials, At, serials, manager
<1>2. Now(t) \notin Events
  BY <1>1, HeadStep
<1>3. Plain(x) /\ \A y \in ToSet(x) : y.event = NoEvent /\ y.do \in {"flush", "checkPassed"}
  <2>1. /\ Step("flush", NoEvent).event = NoEvent /\ Step("flush", NoEvent).do = "flush"
        /\ Step("checkPassed", NoEvent) \in Steps
        /\ Step("checkPassed", NoEvent).event = NoEvent
        /\ Step("checkPassed", NoEvent).do = "checkPassed"
    BY OtherStep
  <2>2. CASE LowestSerial(t) > submitted
    <3>1. x = <<Step("flush", NoEvent)>> \o <<Step("checkPassed", NoEvent)>>
      BY <2>2
    <3> HIDE DEF x
    <3>2. QED
      BY <2>1, <3>1, FlushCheckPlain
  <2>3. CASE ~(LowestSerial(t) > submitted)
    <3>1. x = <<Step("checkPassed", NoEvent)>>
      BY <2>3
    <3> HIDE DEF x
    <3>2. QED
      BY <2>1, <3>1, OneStepPlain DEF Alone
  <2>4. QED
    BY <2>2, <2>3
<1> HIDE DEF x
<1>4. Moved(t, x)
  <2>1. Head(todo[t]).do \notin LastSteps
    BY <1>1 DEF LastSteps
  <2>2. Within(x, PollSteps)
    BY <1>3 DEF Within, Among, PollSteps
  <2>3. Quiet => deviceLock # t
    BY <1>1, HeadWithin DEF TickSteps, LossSteps
  <2>4. QED
    BY <1>1, <1>3, <2>1, <2>2, <2>3, GotoThreads
<1>5. SameEvents /\ SameWaits /\ SameSerials /\ nextID' \in Nat \ {0}
  BY <1>1, Unchanged
<1>6. KeepsReferences(t, x)
  BY <1>1, <1>2, <1>3, NoEventIsNone, OtherReferences
<1>7. QED
  BY <1>1, <1>3, <1>4, <1>5, <1>6, StepKeeps

LEMMA FlushKeeps ==
    ASSUME IInv, NEW t \in Threads, Flush(t)
    PROVE  IInv'
<1>1. /\ todo[t] # <<>> /\ Head(todo[t]).do = "flush" /\ Goto(t, <<>>) /\ TickQueue
      /\ UNCHANGED <<event, nextID, tracked, shut, working, wait, locks>>
  BY DEF Flush, At, Return, manager
<1>2. Now(t) \notin Events
  BY <1>1, HeadStep
<1>3. Moved(t, <<>>)
  <2>1. Head(todo[t]).do \notin LastSteps
    BY <1>1 DEF LastSteps
  <2>2. QED
    BY <1>1, <2>1, NothingPlain, NothingWithin, GotoThreads
<1>4. SameEvents /\ SameWaits /\ nextID' \in Nat \ {0}
  BY <1>1, Unchanged
<1>5. SameSerials
  BY <1>1, TickTypes DEF SameSerials
<1>6. KeepsReferences(t, <<>>)
  BY <1>1, <1>2, NothingPlain, OtherReferences
<1>7. QED
  BY <1>1, <1>3, <1>4, <1>5, <1>6, NothingPlain, StepKeeps

LEMMA CheckPassedKeeps ==
    ASSUME IInv, NEW t \in Threads, CheckPassed(t)
    PROVE  IInv'
<1> DEFINE more == {e \in SerialFutures(t) : event[e].serial <= passed'}
<1>1. /\ todo[t] # <<>> /\ Head(todo[t]).do = "checkPassed" /\ Goto(t, <<>>)
      /\ passed' \in (IF passed < LowestSerial(t) THEN passed .. submitted ELSE {passed})
      /\ wait' = [wait EXCEPT ![t].ready = @ \union more]
      /\ UNCHANGED <<event, nextID, tracked, shut, working, locks, submitted>>
  BY DEF CheckPassed, At, Return, manager
<1>2. Now(t) \notin Events
  BY <1>1, HeadStep
<1>3. Moved(t, <<>>)
  <2>1. Head(todo[t]).do \notin LastSteps
    BY <1>1 DEF LastSteps
  <2>2. QED
    BY <1>1, <2>1, NothingPlain, NothingWithin, GotoThreads
<1>4. SameEvents /\ nextID' \in Nat \ {0}
  BY <1>1, Unchanged
<1>5. SameWaits
  <2>1. more \subseteq wait[t].set /\ \A e \in more : event[e].kind # "none"
    BY DEF SerialFutures
  <2> HIDE DEF more
  <2>2. QED
    BY <1>1, <2>1, ReadyTypes
<1>6. SameSerials
  <2>1. submitted \in Serials /\ passed \in Serials /\ (Lost \in working => submitted <= MaxSerial)
    BY DEF IInv, TypeOK, Basics
  <2>2. passed' = passed \/ passed' \in passed .. submitted
    BY <1>1
  <2>3. passed' \in Serials
    BY <2>1, <2>2, EventBounds DEF Serials
  <2>4. QED
    BY <1>1, <2>1, <2>3 DEF SameSerials
<1>7. KeepsReferences(t, <<>>)
  BY <1>1, <1>2, NothingPlain, OtherReferences
<1>8. QED
  BY <1>1, <1>3, <1>4, <1>5, <1>6, <1>7, NothingPlain, StepKeeps

(* The loss of the device, in the middle of a poll.                        *)
LEMMA LossCalls ==
    ASSUME IInv
    PROVE  /\ Plain(SetFutureReadyCalls(Lost)) /\ Within(SetFutureReadyCalls(Lost), TickSteps)
           /\ Within(SetFutureReadyCalls(Lost), PollSteps)
           /\ \A y \in ToSet(SetFutureReadyCalls(Lost)) : y.event = Lost
           /\ \E y \in ToSet(SetFutureReadyCalls(Lost)) : y.event = Lost
           /\ event[Lost].kind # "none"
<1>1. Lost \in Events
  BY NoEventIsNone
<1>2. /\ Plain(SetFutureReadyCalls(Lost))
      /\ ToSet(SetFutureReadyCalls(Lost)) =
           {Step("signal", Lost), Step("handle", Lost), Step("release", Lost)}
  BY <1>1, ReadyCallsPlain
<1>3. /\ Step("signal", Lost).do = "signal" /\ Step("signal", Lost).event = Lost
      /\ Step("handle", Lost).do = "handle" /\ Step("handle", Lost).event = Lost
      /\ Step("release", Lost).do = "release" /\ Step("release", Lost).event = Lost
  BY <1>1, EventStep
<1>4. event[Lost].kind # "none"
  BY DEF IInv, Basics
<1>5. QED
  BY <1>2, <1>3, <1>4 DEF Within, Among, TickSteps, PollSteps, LossSteps

LEMMA CheckPassedFailsKeeps ==
    ASSUME IInv, NEW t \in Threads, CheckPassedFails(t)
    PROVE  IInv'
<1> DEFINE x == SetFutureReadyCalls(Lost)
<1>1. /\ todo[t] # <<>> /\ Head(todo[t]).do = "checkPassed" /\ Goto(t, x) /\ Lose
      /\ wait' = [wait EXCEPT ![t].ready = @ \union SerialFutures(t)]
      /\ UNCHANGED <<event, nextID, tracked, shut, locks>>
  BY DEF CheckPassedFails, At, manager
<1>2. Now(t) \notin Events
  BY <1>1, HeadStep
<1>3. /\ Plain(x) /\ Within(x, TickSteps) /\ Within(x, PollSteps)
      /\ \A y \in ToSet(x) : y.event = Lost
      /\ \E y \in ToSet(x) : y.event = Lost
      /\ event[Lost].kind # "none"
  BY LossCalls
<1> HIDE DEF x
<1>4. Moved(t, x)
  <2>1. Head(todo[t]).do \notin LastSteps
    BY <1>1 DEF LastSteps
  <2>2. QED
    BY <1>1, <1>3, <2>1, GotoThreads
<1>5. SameEvents /\ nextID' \in Nat \ {0}
  BY <1>1, Unchanged
<1>6. SameWaits
  <2>1. SerialFutures(t) \subseteq wait[t].set /\ \A e \in SerialFutures(t) : event[e].kind # "none"
    BY DEF SerialFutures
  <2>2. QED
    BY <1>1, <2>1, ReadyTypes
<1>7. SameSerials /\ working' = working \ {Lost}
  BY <1>1, LoseTypes DEF SameSerials
<1>8. KeepsReferences(t, x)
  BY <1>1, <1>2, <1>3, <1>7 DEF KeepsReferences
<1>9. QED
  BY <1>1, <1>3, <1>4, <1>5, <1>6, <1>7, <1>8, StepKeeps

LEMMA FlushFailsKeeps ==
    ASSUME IInv, NEW t \in Threads, FlushFails(t)
    PROVE  IInv'
<1> DEFINE x == SetFutureReadyCalls(Lost)
           s == Tail(todo[t])
           new == x \o Tail(s)
<1>1. /\ todo[t] # <<>> /\ Head(todo[t]).do = "flush" /\ Lose
      /\ wait' = [wait EXCEPT ![t].ready = @ \union SerialFutures(t)]
      /\ UNCHANGED <<event, nextID, tracked, shut, eventsLock, deviceLock>>
  BY DEF FlushFails, At, manager, locks
<1>2. /\ TypeOK /\ Basics /\ AllOK
  BY DEF IInv
<1>3. todo' = [todo EXCEPT ![t] = new]
  BY <1>2 DEF FlushFails, TypeOK
<1>4. /\ Plain(x) /\ Within(x, TickSteps) /\ Within(x, PollSteps)
      /\ \A y \in ToSet(x) : y.event = Lost
      /\ \E y \in ToSet(x) : y.event = Lost
      /\ event[Lost].kind # "none"
  BY LossCalls
<1> HIDE DEF x
<1>5. /\ todo[t] \in Seq(Steps) /\ s \in Seq(Steps)
      /\ ToSet(todo[t]) = {Head(todo[t])} \union ToSet(s)
      /\ s # <<>> /\ Head(s) = Step("checkPassed", NoEvent)
      /\ Head(todo[t]).event \notin Events
  BY <1>1, HeadStep, SecondStep DEF Now
<1>6. ThreadOK(t, s, eventsLock, deviceLock)
  <2>1. Head(todo[t]).do \notin LastSteps
    BY <1>1 DEF LastSteps
  <2>2. ThreadOK(t, todo[t], eventsLock, deviceLock)
    BY <1>2 DEF AllOK
  <2>3. ThreadOK(t, <<>> \o s, eventsLock, deviceLock)
    BY <1>1, <2>1, <2>2, NothingPlain, NothingWithin, GotoOK DEF Within
  <2>4. <<>> \o s = s
    BY <1>5
  <2>5. QED
    BY <2>3, <2>4
<1> HIDE DEF s
<1>7. /\ Head(s).do = "checkPassed" /\ Head(s).event = NoEvent /\ Head(s).do \notin LastSteps
      /\ ToSet(s) = {Head(s)} \union ToSet(Tail(s)) /\ Tail(s) \in Seq(Steps)
  BY <1>5, OtherStep, TailFacts DEF LastSteps
<1>8. ThreadOK(t, new, eventsLock, deviceLock)
  BY <1>4, <1>5, <1>6, <1>7, GotoOK DEF Within
<1>9. new \in Seq(Steps) /\ ToSet(new) = ToSet(x) \union ToSet(Tail(s))
  BY <1>4, <1>7, ConcatSteps DEF Plain
<1> HIDE DEF new
<1>10. todo' \in [Threads -> Seq(Steps)] /\ AllOK'
  BY <1>1, <1>3, <1>8, NewThreads
<1>11. SameEvents /\ nextID' \in Nat \ {0} /\ SameWaits /\ SameSerials /\ working' = working \ {Lost}
  <2>1. SerialFutures(t) \subseteq wait[t].set /\ \A e \in SerialFutures(t) : event[e].kind # "none"
    BY DEF SerialFutures
  <2>2. SameWaits
    BY <1>1, <2>1, ReadyTypes
  <2>3. SameSerials /\ working' = working \ {Lost}
    BY <1>1, LoseTypes DEF SameSerials
  <2>4. QED
    BY <1>1, <2>2, <2>3, Unchanged
<1>12. TypeOK'
  BY <1>1, <1>2, <1>10, <1>11 DEF TypeOK, SameEvents, SameWaits, SameSerials
<1>13. Basics'
  <2>1. shut' => \A u \in Threads : wait'[u].set = {}
    BY <1>1, <1>2, <1>11 DEF Basics, SameWaits
  <2>2. \A u \in Threads : \A e \in wait'[u].ready : event'[e].kind # "none"
    BY <1>1, <1>2, <1>11 DEF Basics, SameWaits
  <2>3. QED
    BY <1>1, <1>2, <1>11, <2>1, <2>2 DEF Basics, SameSerials
<1>14. Lost \in Refs(todo')
  <2>1. \A y \in ToSet(new) : y.event \in Events => y.event \in Refs(todo')
    BY <1>2, <1>3, <1>9, RefsAfter DEF TypeOK
  <2>2. QED
    BY <1>4, <1>9, <2>1, NoEventIsNone
<1>15. Made'
  <2>1. tracked' \subseteq Events /\ working' \subseteq Events
    BY <1>12 DEF TypeOK
  <2>2. ASSUME NEW y \in ToSet(new), y.event \in Events
        PROVE  y.event \in Refs(todo) \/ event'[y.event].kind # "none"
    <3>1. CASE y \in ToSet(x)
      BY <1>1, <1>4, <3>1
    <3>2. CASE y \in ToSet(todo[t])
      BY <2>2, <3>2 DEF Refs
    <3>3. QED
      BY <1>5, <1>7, <1>9, <3>1, <3>2
  <2>3. QED
    BY <1>1, <1>3, <1>9, <1>11, <2>1, <2>2, MadeStep
<1>16. Referred'
  <2>1. tracked \union working \subseteq tracked' \union working' \union Refs(todo')
    BY <1>1, <1>11, <1>14
  <2>2. \A y \in ToSet(todo[t]) \ ToSet(new) : y.event \notin Events
    BY <1>5, <1>7, <1>9, NoEventIsNone
  <2>3. QED
    BY <1>1, <1>3, <1>9, <2>1, <2>2, ReferredStep
<1>17. Handled'
  <2>1. \A y \in ToSet(new) : y.do = "handle" => y.event = Lost \/ y \in ToSet(todo[t])
    BY <1>4, <1>5, <1>7, <1>9
  <2>2. event'[Lost].mode \in LostModes
    BY <1>13 DEF Basics
  <2>3. QED
    BY <1>1, <1>3, <1>9, <1>11, <2>1, <2>2, HandledStep
<1>18. QED
  BY <1>10, <1>12, <1>13, <1>15, <1>16, <1>17 DEF IInv

-----------------------------------------------------------------------------
(* The last steps of calls.                                                *)
LEMMA LastHolder ==
    ASSUME IInv, NEW t \in Threads, todo[t] # <<>>, Head(todo[t]).do \in LastSteps
    PROVE  /\ eventsLock = t <=> Head(todo[t]).do \in {"untrackPolled", "unlockEvents"}
           /\ deviceLock = t <=> Head(todo[t]).do = "unlockDevice"
<1>1. ToSet(todo[t]) = {Head(todo[t])}
  <2>1. Tail(todo[t]) = <<>>
    BY HeadStep, LastIsLast
  <2>2. QED
    BY <2>1, HeadStep, NothingPlain
<1>2. ThreadOK(t, todo[t], eventsLock, deviceLock)
  BY DEF IInv, AllOK
<1>3. QED
  BY <1>1, <1>2 DEF ThreadOK

LEMMA UnlockDeviceKeeps ==
    ASSUME IInv, NEW t \in Threads, UnlockDevice(t)
    PROVE  IInv'
<1>1. /\ todo[t] # <<>> /\ Head(todo[t]).do = "unlockDevice" /\ Goto(t, <<>>)
      /\ deviceLock' = NoThread
      /\ UNCHANGED <<event, nextID, tracked, shut, working, wait, eventsLock, submitted, passed>>
  BY DEF UnlockDevice, At, Return, manager, serials
<1>2. Head(todo[t]).do \in LastSteps
  BY <1>1 DEF LastSteps
<1>3. eventsLock # t /\ deviceLock = t
  BY <1>1, <1>2, LastHolder
<1>4. Moved(t, <<>>)
  BY <1>1, <1>2, <1>3, NothingPlain, EndThreads
<1>5. Now(t) \notin Events
  BY <1>1, HeadStep
<1>6. SameEvents /\ SameWaits /\ SameSerials /\ nextID' \in Nat \ {0}
  BY <1>1, Unchanged
<1>7. KeepsReferences(t, <<>>)
  BY <1>1, <1>5, NothingPlain, OtherReferences
<1>8. QED
  BY <1>1, <1>4, <1>6, <1>7, NothingPlain, StepKeeps

LEMMA UnlockEventsKeeps ==
    ASSUME IInv, NEW t \in Threads, UnlockEvents(t)
    PROVE  IInv'
<1>1. /\ todo[t] # <<>> /\ Head(todo[t]).do = "unlockEvents" /\ Goto(t, <<>>)
      /\ eventsLock' = NoThread
      /\ UNCHANGED <<event, nextID, tracked, shut, working, wait, deviceLock, submitted, passed>>
  BY DEF UnlockEvents, At, Return, manager, serials
<1>2. Head(todo[t]).do \in LastSteps
  BY <1>1 DEF LastSteps
<1>3. eventsLock = t /\ deviceLock # t
  BY <1>1, <1>2, LastHolder
<1>4. Moved(t, <<>>)
  BY <1>1, <1>2, <1>3, NothingPlain, EndThreads
<1>5. Now(t) \notin Events
  BY <1>1, HeadStep
<1>6. SameEvents /\ SameWaits /\ SameSerials /\ nextID' \in Nat \ {0}
  BY <1>1, Unchanged
<1>7. KeepsReferences(t, <<>>)
  BY <1>1, <1>5, NothingPlain, OtherReferences
<1>8. QED
  BY <1>1, <1>4, <1>6, <1>7, NothingPlain, StepKeeps

(* The ready futures leave mEvents, and each has its step.                 *)
LEMMA UntrackKeeps ==
    ASSUME IInv, NEW t \in Threads, todo[t] # <<>>,
           Head(todo[t]).do \in {"untrackPolled", "untrackWaited"},
           CompleteReady(t), tracked' = tracked \ wait[t].ready,
           eventsLock' = IF Head(todo[t]).do = "untrackPolled" THEN NoThread ELSE eventsLock,
           UNCHANGED <<event, nextID, shut, working, deviceLock, serials>>
    PROVE  IInv'
<1> DEFINE ready == wait[t].ready
<1>1. /\ Head(todo[t]).do \in LastSteps
      /\ deviceLock # t
      /\ eventsLock = t <=> Head(todo[t]).do = "untrackPolled"
  <2>1. Head(todo[t]).do \in LastSteps
    BY DEF LastSteps
  <2>2. QED
    BY <2>1, LastHolder
<1>2. /\ wait \in [Threads -> Waits] /\ wait' = [wait EXCEPT ![t] = NoWait]
      /\ \A e \in ready : event[e].kind # "none"
  BY DEF IInv, TypeOK, Basics, CompleteReady
<1>3. ready \subseteq Events
  BY <1>2 DEF Waits
<1>4. PICK events \in SetToSeqs(ready) : Goto(t, StepsFor("complete", events))
  BY DEF CompleteReady, InOrder
<1> DEFINE x == StepsFor("complete", events)
<1>5. Plain(x) /\ ToSet(x) = {Step("complete", e) : e \in ready}
  <2> HIDE DEF ready
  <2>1. QED
    BY <1>3, <1>4, StepsForPlain
<1>6. /\ \A e \in ready : Step("complete", e) \in ToSet(x) /\ Step("complete", e).event = e
                          /\ Step("complete", e).do \in Keepers
      /\ \A y \in ToSet(x) : y.event \in ready
  BY <1>3, <1>5, EventStep DEF Keepers
<1> HIDE DEF x
<1>7. Moved(t, x)
  BY <1>1, <1>4, <1>5, EndThreads DEF x
<1>8. Now(t) \notin Events
  BY HeadStep
<1>9. SameEvents /\ SameSerials /\ nextID' \in Nat \ {0}
  BY Unchanged DEF serials
<1>10. SameWaits
  <2>1. NoWait \in Waits /\ NoWait.set = {} /\ NoWait.ready = {}
    BY DEF NoWait, Waits
  <2>2. wait' \in [Threads -> Waits]
    BY <1>2, <2>1
  <2>3. \A u \in Threads : wait'[u] = wait[u] \/ wait'[u] = NoWait
    BY <1>2
  <2>4. QED
    BY <2>1, <2>2, <2>3 DEF SameWaits
<1>11. KeepsReferences(t, x)
  <2>1. \A e \in tracked \ tracked' : \E y \in ToSet(x) : y.event = e /\ y.do \in Keepers
    BY <1>6
  <2>2. \A y \in ToSet(x) : event[y.event].kind # "none"
    BY <1>2, <1>6
  <2>3. tracked' \subseteq tracked
    OBVIOUS
  <2>4. QED
    BY <1>8, <2>1, <2>2, <2>3 DEF KeepsReferences
<1>12. QED
  BY <1>5, <1>7, <1>9, <1>10, <1>11, StepKeeps

LEMMA ContinueKeeps ==
    ASSUME IInv, NEW t \in Threads, Continue(t)
    PROVE  IInv'
<1>1. CASE TrackEvent(t) \/ CheckTracked(t) \/ Emplace(t)
  BY <1>1, TrackEventKeeps, CheckTrackedKeeps, EmplaceKeeps
<1>2. CASE Signal(t) \/ HandleSpontaneous(t) \/ Erase(t)
  BY <1>2, SignalKeeps, HandleKeeps, EraseKeeps
<1>3. CASE Complete(t) \/ Release(t)
  BY <1>3, CompleteKeeps, ReleaseKeeps
<1>4. CASE WaitSystems(t) \/ WaitSerials(t) \/ Flush(t) \/ FlushFails(t)
  BY <1>4, WaitSystemsKeeps, WaitSerialsKeeps, FlushKeeps, FlushFailsKeeps
<1>5. CASE CheckPassed(t) \/ CheckPassedFails(t)
  BY <1>5, CheckPassedKeeps, CheckPassedFailsKeeps
<1>6. CASE UntrackPolled(t)
  <2>1. /\ todo[t] # <<>> /\ Head(todo[t]).do = "untrackPolled" /\ CompleteReady(t)
        /\ tracked' = tracked \ wait[t].ready /\ eventsLock' = NoThread
        /\ UNCHANGED <<event, nextID, shut, working, deviceLock, serials>>
    BY <1>6 DEF UntrackPolled, At
  <2>2. QED
    BY <2>1, UntrackKeeps
<1>7. CASE UntrackWaited(t)
  <2>1. /\ todo[t] # <<>> /\ Head(todo[t]).do = "untrackWaited" /\ CompleteReady(t)
        /\ tracked' = tracked \ wait[t].ready /\ eventsLock' = eventsLock
        /\ UNCHANGED <<event, nextID, shut, working, deviceLock, serials>>
    BY <1>7 DEF UntrackWaited, At, locks
  <2>2. QED
    BY <2>1, UntrackKeeps
<1>8. CASE UnlockDevice(t) \/ UnlockEvents(t)
  BY <1>8, UnlockDeviceKeeps, UnlockEventsKeeps
<1>9. QED
  BY <1>1, <1>2, <1>3, <1>4, <1>5, <1>6, <1>7, <1>8 DEF Continue

-----------------------------------------------------------------------------
LEMMA InitInvariant == Init => IInv
<1> SUFFICES ASSUME Init PROVE IInv
  OBVIOUS
<1>1. PICK mode \in LostModes :
        event = [e \in Events |->
                   IF e = Lost
                   THEN [Unmade(mode) EXCEPT !.kind = "system", !.id = 1, !.outcome = "pending"]
                   ELSE Unmade("WaitAnyOnly")]
  BY DEF Init
<1>2. /\ nextID = 2 /\ tracked = {Lost} /\ working = {Lost} /\ shut = FALSE
      /\ wait = [t \in Threads |-> NoWait] /\ todo = [t \in Threads |-> <<>>]
      /\ eventsLock = NoThread /\ deviceLock = NoThread /\ submitted = 0 /\ passed = 0
  BY DEF Init
<1>3. Lost \in Events /\ mode \in Modes /\ MaxSerial \in Nat
  BY NoEventIsNone, KnownModes, EventBounds
<1>4. /\ event[Lost] = [mode |-> mode, kind |-> "system", serial |-> 0, id |-> 1,
                        signaled |-> FALSE, early |-> FALSE, outcome |-> "pending"]
      /\ \A e \in Events \ {Lost} :
           event[e] = [mode |-> "WaitAnyOnly", kind |-> "none", serial |-> 0, id |-> 0,
                       signaled |-> FALSE, early |-> FALSE, outcome |-> "none"]
  BY <1>1, <1>3 DEF Unmade
<1>5. event \in [Events -> EventStates]
  <2>1. ASSUME NEW e \in Events PROVE event[e] \in EventStates
    <3>1. 0 \in 0 .. MaxSerial /\ 0 \in Nat /\ 1 \in Nat /\ "WaitAnyOnly" \in Modes
      BY <1>3 DEF Modes
    <3>2. \A made \in Modes : \A kind \in {"none", "system"} : \A id \in Nat :
            \A outcome \in {"none", "pending"} :
              [mode |-> made, kind |-> kind, serial |-> 0, id |-> id, signaled |-> FALSE,
               early |-> FALSE, outcome |-> outcome] \in EventStates
      BY <3>1 DEF EventStates
    <3>3. event[e] = event[Lost] \/ e \in Events \ {Lost}
      OBVIOUS
    <3>4. QED
      BY <1>3, <1>4, <3>1, <3>2, <3>3
  <2>2. QED
    BY <1>1, <2>1
<1>6. NoWait \in Waits /\ NoWait.set = {} /\ NoWait.ready = {} /\ <<>> \in Seq(Steps)
  BY DEF NoWait, Waits
<1>7. TypeOK
  <2>1. 0 \in Serials /\ 2 \in Nat \ {0}
    BY <1>3 DEF Serials
  <2>2. wait \in [Threads -> Waits] /\ todo \in [Threads -> Seq(Steps)]
    BY <1>2, <1>6
  <2>3. QED
    BY <1>2, <1>3, <1>5, <2>1, <2>2 DEF TypeOK
<1>8. Basics
  BY <1>2, <1>3, <1>4, <1>6 DEF Basics
<1>9. AllOK
  <2>1. \A t \in Threads : ThreadOK(t, <<>>, eventsLock, deviceLock)
    BY <1>2, KnownModes, NothingPlain, FreshOK
  <2>2. QED
    BY <1>2, <2>1 DEF AllOK
<1>10. Refs(todo) = {}
  BY <1>2, NothingPlain DEF Refs
<1>11. Made
  BY <1>2, <1>4, <1>10 DEF Made
<1>12. Referred
  <2>1. \A e \in Events : event[e].outcome = "pending" => e = Lost
    BY <1>4
  <2>2. QED
    BY <1>2, <2>1 DEF Referred
<1>13. Handled
  BY <1>2, <1>4, KnownModes DEF Handled
<1>14. QED
  BY <1>7, <1>8, <1>9, <1>11, <1>12, <1>13 DEF IInv

LEMMA NextInvariant == IInv /\ [Next]_vars => IInv'
<1> SUFFICES ASSUME IInv, [Next]_vars PROVE IInv'
  OBVIOUS
<1>1. CASE Next
  BY <1>1, BeginKeeps, ContinueKeeps DEF Next
<1>2. CASE UNCHANGED vars
  <2>1. UNCHANGED <<event, nextID, tracked, shut, working, wait, todo, eventsLock, deviceLock,
                    submitted, passed>>
    BY <1>2 DEF vars, manager, locks, serials
  <2>2. TypeOK' /\ Basics' /\ AllOK'
    BY <2>1 DEF IInv, TypeOK, Basics, AllOK
  <2>3. Made' /\ Referred' /\ Handled'
    BY <2>1 DEF IInv, Made, Referred, Refs, Keeps, Handled, UnderLock
  <2>4. QED
    BY <2>2, <2>3 DEF IInv
<1>3. QED
  BY <1>1, <1>2

(* The invariant: what a thread that holds a lock may still do, which      *)
(* steps come in pairs, and that whatever is pending is referred to        *)
(* (EventManager.cpp:347-463).                                             *)
THEOREM InductiveInvariant == Spec => []IInv
<1>1. Init => IInv
  BY InitInvariant
<1>2. IInv /\ [Next]_vars => IInv'
  BY NextInvariant
<1>3. QED
  BY <1>1, <1>2, PTL DEF Spec

(* The manager's state, and the steps of every thread, have their types.   *)
THEOREM TypeCorrect == Spec => []TypeOK
<1>1. IInv => TypeOK
  BY DEF IInv
<1>2. QED
  BY <1>1, InductiveInvariant, PTL

(* However calls interleave, also with ShutDown and the loss of the        *)
(* device, mEvents, a worker or a call in progress refers to every event   *)
(* that is not completed (EventManager.cpp:347-411, 458-463).              *)
THEOREM NothingForgotten == Spec => []NoneForgotten
<1>1. IInv => NoneForgotten
  <2> SUFFICES ASSUME IInv, NEW e \in Events, event[e].outcome = "pending",
                      e \notin tracked \union working
               PROVE  \E t \in Threads : \E i \in DOMAIN todo[t] : todo[t][i].event = e
    BY DEF NoneForgotten
  <2>1. e \in Refs(todo)
    BY DEF IInv, Referred
  <2>2. PICK t \in Threads : \E y \in ToSet(todo[t]) : y.event = e
    BY <2>1 DEF Refs
  <2>3. PICK y \in ToSet(todo[t]) : y.event = e
    BY <2>2
  <2>4. PICK i \in DOMAIN todo[t] : y = todo[t][i]
    BY DEF ToSet
  <2>5. QED
    BY <2>3, <2>4
<1>2. QED
  BY <1>1, InductiveInvariant, PTL

(* No two threads poll at the same time, so they never hold the same       *)
(* future (EventManager.cpp:54, 413-450).                                  *)
THEOREM PollsStayDisjoint == Spec => []PollsDisjoint
<1>1. IInv => PollsDisjoint
  <2> SUFFICES ASSUME IInv, NEW t \in Threads, NEW u \in Threads, t # u, Polling(t), Polling(u)
               PROVE  FALSE
    BY DEF PollsDisjoint
  <2>1. ASSUME NEW v \in Threads, Polling(v) PROVE eventsLock = v
    <3>1. PICK i \in DOMAIN todo[v] : todo[v][i].do = "untrackPolled"
      BY <2>1 DEF Polling
    <3>2. todo[v][i] \in ToSet(todo[v])
      BY DEF ToSet
    <3>3. ThreadOK(v, todo[v], eventsLock, deviceLock)
      BY DEF IInv, AllOK
    <3>4. QED
      BY <3>1, <3>2, <3>3 DEF ThreadOK
  <2>2. QED
    BY <2>1
<1>2. QED
  BY <1>1, InductiveInvariant, PTL

(* When neither the device's lost callback nor those of map requests are   *)
(* spontaneous ones, which are the two the code makes ready under the      *)
(* device's lock (Device.cpp:727, Buffer.cpp:711-714), threads never wait  *)
(* in a circle: whoever holds the device's lock waits for nothing, and     *)
(* whoever holds mEvents' lock at most for the device's.                   *)
THEOREM NobodyWaitsForever == ASSUME Quiet PROVE Spec => []NoDeadlock
<1>1. ASSUME IInv, NEW t \in Threads, deviceLock = t PROVE WaitsFor(t) = NoThread
  <2>1. todo[t] # <<>>
    BY <1>1, IdleHoldsNothing
  <2>2. Head(todo[t]).do \in TickSteps
    BY <1>1, <2>1, HeadWithin
  <2>3. QED
    BY <2>2 DEF TickSteps, LossSteps, WaitsFor, At
<1>2. ASSUME IInv, NEW t \in Threads, eventsLock = t PROVE WaitsFor(t) \in {deviceLock, NoThread}
  <2>1. todo[t] # <<>>
    BY <1>2, IdleHoldsNothing
  <2>2. Head(todo[t]).do \in PollSteps
    BY <1>2, <2>1, HeadWithin
  <2>3. QED
    BY <2>2 DEF PollSteps, LossSteps, WaitsFor, At
<1>3. \A t \in Threads : WaitsFor(t) \in {eventsLock, deviceLock, NoThread}
  BY DEF WaitsFor
<1>4. IInv => NoDeadlock
  <2> SUFFICES ASSUME IInv, NEW T \in (SUBSET Threads) \ {{}}, \A t \in T : WaitsFor(t) \in T
               PROVE  FALSE
    BY DEF NoDeadlock
  <2>1. NoThread \notin T
    BY KnownModes
  <2>2. deviceLock \notin T
    BY <1>1, <2>1
  <2>3. eventsLock \notin T
    BY <1>2, <2>1, <2>2
  <2>4. PICK t \in T : TRUE
    OBVIOUS
  <2>5. WaitsFor(t) \in {eventsLock, deviceLock, NoThread} /\ WaitsFor(t) \in T
    BY <1>3
  <2>6. QED
    BY <2>1, <2>2, <2>3, <2>5
<1>5. QED
  BY <1>4, InductiveInvariant, PTL

-----------------------------------------------------------------------------
(* For the promise of Futures: nothing is completed, or taken out of       *)
(* mEvents, that is not ready, and an event with SetFutureReady is looked  *)
(* at only after it has been signaled.                                     *)
Due == {e \in Events : event[e].kind # "none" /\ (IsDue(e) \/ event[e].early)}
Signalable == {e \in Events : event[e].kind = "system" \/ (event[e].kind = "serial" /\ event[e].early)}
Signaled == {e \in Signalable : event[e].signaled \/ event[e].early}

Timely(s, due, signalable, signaled) ==
    /\ \A x \in ToSet(s) : x.do \in {"erase", "complete"} => x.event \in due
    /\ \A x \in ToSet(s) : x.do \in {"signal", "handle"} => x.event \in signalable
    /\ \A i \in DOMAIN s :
         s[i].do = "handle" =>
           s[i].event \in signaled \/ (i > 1 /\ s[i - 1] = Step("signal", s[i].event))

InTime ==
    \A t \in Threads : wait[t].ready \subseteq Due /\ Timely(todo[t], Due, Signalable, Signaled)

Numbers ==
    /\ passed <= submitted
    /\ \A e \in Events : event[e].kind = "none" => event[e].outcome = "none"
    /\ \A e \in Events : event[e].kind = "serial" => event[e].serial <= submitted + 1

FInv == IInv /\ Numbers /\ InTime

LEMMA TimelyGrows ==
    ASSUME NEW s, NEW due, NEW signalable, NEW signaled, Timely(s, due, signalable, signaled),
           NEW due1, NEW signalable1, NEW signaled1,
           due \subseteq due1, signalable \subseteq signalable1, signaled \subseteq signaled1
    PROVE  Timely(s, due1, signalable1, signaled1)
  BY DEF Timely

LEMMA TimelyTail ==
    ASSUME NEW s \in Seq(Steps), s # <<>>, NEW due, NEW signalable, NEW signaled,
           Timely(s, due, signalable, signaled),
           Head(s).do = "signal" => Head(s).event \in signaled
    PROVE  Timely(Tail(s), due, signalable, signaled)
<1> DEFINE T == Tail(s)
<1>1. /\ Len(s) \in Nat /\ Len(s) >= 1 /\ DOMAIN s = 1 .. Len(s)
      /\ DOMAIN T = 1 .. Len(s) - 1 /\ \A i \in 1 .. Len(s) - 1 : T[i] = s[i + 1]
      /\ Head(s) = s[1] /\ ToSet(T) \subseteq ToSet(s)
  BY TailFacts
<1> HIDE DEF T
<1>2. ASSUME NEW i \in DOMAIN T, T[i].do = "handle", T[i].event \notin signaled
      PROVE  i > 1 /\ T[i - 1] = Step("signal", T[i].event)
  <2>1. i \in 1 .. Len(s) - 1 /\ i + 1 \in DOMAIN s /\ T[i] = s[i + 1] /\ (i + 1) - 1 = i
    BY <1>1
  <2>2. s[i] = Step("signal", T[i].event)
    BY <1>2, <2>1 DEF Timely
  <2>3. i # 1
    BY <1>1, <1>2, <2>2 DEF Step
  <2>4. i > 1 /\ i - 1 \in 1 .. Len(s) - 1 /\ (i - 1) + 1 = i
    BY <1>1, <2>1, <2>3
  <2>5. T[i - 1] = s[i]
    BY <1>1, <2>4
  <2>6. QED
    BY <2>2, <2>4, <2>5
<1>3. QED
  BY <1>1, <1>2 DEF Timely, T

LEMMA TimelyConcat ==
    ASSUME NEW x \in Seq(Steps), NEW y \in Seq(Steps), NEW due, NEW signalable, NEW signaled,
           Timely(x, due, signalable, signaled), Timely(y, due, signalable, signaled)
    PROVE  Timely(x \o y, due, signalable, signaled)
<1> DEFINE z == x \o y
           n == Len(x)
<1>1. /\ n \in Nat /\ Len(y) \in Nat
      /\ DOMAIN x = 1 .. n /\ DOMAIN y = 1 .. Len(y) /\ DOMAIN z = 1 .. n + Len(y)
      /\ \A i \in 1 .. n : z[i] = x[i]
      /\ \A i \in 1 .. Len(y) : z[n + i] = y[i]
      /\ ToSet(z) = ToSet(x) \union ToSet(y)
  BY ConcatFacts
<1> HIDE DEF z, n
<1>2. ASSUME NEW i \in DOMAIN z, z[i].do = "handle", z[i].event \notin signaled
      PROVE  i > 1 /\ z[i - 1] = Step("signal", z[i].event)
  <2>1. CASE i <= n
    <3>1. i \in DOMAIN x /\ z[i] = x[i]
      BY <1>1, <2>1
    <3>2. i > 1 /\ x[i - 1] = Step("signal", z[i].event)
      BY <1>2, <3>1 DEF Timely
    <3>3. z[i - 1] = x[i - 1]
      <4>1. i - 1 \in 1 .. n
        BY <1>1, <3>1, <3>2
      <4>2. QED
        BY <1>1, <4>1
    <3>4. QED
      BY <3>2, <3>3
  <2>2. CASE i > n
    <3>1. PICK j \in 1 .. Len(y) : i = n + j
      <4>1. i - n \in 1 .. Len(y) /\ i = n + (i - n)
        BY <1>1, <2>2
      <4>2. QED
        BY <4>1
    <3>2. j \in DOMAIN y /\ z[i] = y[j]
      BY <1>1, <3>1
    <3>3. j > 1 /\ y[j - 1] = Step("signal", z[i].event)
      BY <1>2, <3>2 DEF Timely
    <3>4. j - 1 \in 1 .. Len(y) /\ n + (j - 1) = i - 1 /\ i > 1
      BY <1>1, <3>1, <3>3
    <3>5. z[i - 1] = y[j - 1]
      BY <1>1, <3>4
    <3>6. QED
      BY <3>3, <3>4, <3>5
  <2>3. QED
    BY <1>1, <2>1, <2>2
<1>3. QED
  BY <1>1, <1>2 DEF Timely, z

LEMMA TimelySteps ==
    ASSUME NEW x \in Seq(Steps), NEW due, NEW signalable, NEW signaled,
           \A y \in ToSet(x) : y.do \notin {"signal", "handle"},
           \A y \in ToSet(x) : y.do \in {"erase", "complete"} => y.event \in due
    PROVE  Timely(x, due, signalable, signaled)
<1>1. \A i \in DOMAIN x : x[i] \in ToSet(x)
  BY DEF ToSet
<1>2. QED
  BY <1>1 DEF Timely

LEMMA TimelyReady ==
    ASSUME NEW e \in Events, NEW due, NEW signalable, NEW signaled, e \in signalable
    PROVE  Timely(SetFutureReadyCalls(e), due, signalable, signaled)
<1> DEFINE a == Step("signal", e)
           b == Step("handle", e)
           c == Step("release", e)
           x == SetFutureReadyCalls(e)
<1>1. /\ a \in Steps /\ a.do = "signal" /\ a.event = e
      /\ b \in Steps /\ b.do = "handle" /\ b.event = e
      /\ c \in Steps /\ c.do = "release" /\ c.event = e
  BY EventStep
<1>2. ToSet(x) = {a, b, c}
  BY ReadyCallsPlain
<1> HIDE DEF b, c
<1>3. x = <<a, b, c>>
  BY DEF SetFutureReadyCalls, b, c
<1> HIDE DEF a, x
<1>4. DOMAIN x = 1 .. 3 /\ x[1] = a /\ x[2] = b /\ x[3] = c
  BY <1>1, <1>3
<1>5. ASSUME NEW i \in DOMAIN x, x[i].do = "handle"
      PROVE  i > 1 /\ x[i - 1] = Step("signal", x[i].event)
  <2>1. i = 2
    BY <1>1, <1>4, <1>5
  <2>2. QED
    BY <1>1, <1>4, <2>1 DEF a
<1>6. QED
  BY <1>1, <1>2, <1>5 DEF Timely, x

(* What every step leaves of the invariant.                                *)
Grown == Due \subseteq Due' /\ Signalable \subseteq Signalable' /\ Signaled \subseteq Signaled'

SameData ==
    \A e \in Events :
      /\ event'[e].kind = event[e].kind /\ event'[e].serial = event[e].serial
      /\ event[e].signaled => event'[e].signaled
      /\ event[e].early => event'[e].early
      /\ event[e].outcome = "none" => event'[e].outcome = "none"

LEMMA NumbersKept ==
    ASSUME IInv, IInv', Numbers, SameData,
           passed <= passed', passed' <= submitted', submitted <= submitted'
    PROVE  Grown /\ Numbers'
<1>1. /\ passed \in Nat /\ passed' \in Nat /\ submitted \in Nat /\ submitted' \in Nat
      /\ \A e \in Events : event[e].serial \in Nat
  BY EventBounds DEF IInv, TypeOK, Serials, EventStates
<1>2. Due \subseteq Due'
  <2>1. \A e \in Events : event[e].serial <= passed => event'[e].serial <= passed'
    BY <1>1 DEF SameData
  <2>2. QED
    BY <2>1 DEF Due, IsDue, SameData
<1>3. Signalable \subseteq Signalable' /\ Signaled \subseteq Signaled'
  BY DEF Signalable, Signaled, SameData
<1>4. \A e \in Events : event[e].serial <= submitted + 1 => event'[e].serial <= submitted' + 1
  BY <1>1 DEF SameData
<1>5. QED
  BY <1>2, <1>3, <1>4 DEF Grown, Numbers, SameData

LEMMA InTimeKept ==
    ASSUME IInv, InTime, Grown, NEW t \in Threads, NEW new, todo' = [todo EXCEPT ![t] = new],
           Timely(new, Due', Signalable', Signaled'),
           \A u \in Threads : wait'[u].ready \subseteq wait[u].ready \union Due'
    PROVE  InTime'
<1>1. todo \in [Threads -> Seq(Steps)]
  BY DEF IInv, TypeOK
<1>2. ASSUME NEW u \in Threads PROVE Timely(todo'[u], Due', Signalable', Signaled')
  <2>1. CASE u = t
    BY <1>1, <2>1
  <2>2. CASE u # t
    <3>1. todo'[u] = todo[u] /\ Timely(todo[u], Due, Signalable, Signaled)
      BY <1>1, <2>2 DEF InTime
    <3>2. QED
      BY <3>1, TimelyGrows DEF Grown
  <2>3. QED
    BY <2>1, <2>2
<1>3. \A u \in Threads : wait'[u].ready \subseteq Due'
  BY DEF InTime, Grown
<1>4. QED
  BY <1>2, <1>3 DEF InTime

LEMMA GotoInTime ==
    ASSUME IInv, InTime, Grown, NEW t \in Threads, todo[t] # <<>>,
           NEW x \in Seq(Steps), Goto(t, x), Timely(x, Due', Signalable', Signaled'),
           Head(todo[t]).do = "signal" => Now(t) \in Signaled',
           \A u \in Threads : wait'[u].ready \subseteq wait[u].ready \union Due'
    PROVE  InTime'
<1> DEFINE new == x \o Tail(todo[t])
<1>1. todo \in [Threads -> Seq(Steps)] /\ todo[t] \in Seq(Steps) /\ Tail(todo[t]) \in Seq(Steps)
  BY HeadStep DEF IInv, TypeOK
<1>2. Timely(todo[t], Due', Signalable', Signaled')
  BY TimelyGrows DEF InTime, Grown
<1>3. Timely(Tail(todo[t]), Due', Signalable', Signaled')
  BY <1>1, <1>2, TimelyTail DEF Now
<1>4. Timely(new, Due', Signalable', Signaled')
  BY <1>1, <1>3, TimelyConcat
<1>5. todo' = [todo EXCEPT ![t] = new]
  BY <1>1 DEF Goto
<1> HIDE DEF new
<1>6. QED
  BY <1>4, <1>5, InTimeKept

(* A step after which no outcome is another.                               *)
ReadyOnly ==
    /\ shut' = shut /\ Due \subseteq Due'
    /\ \A e \in Events : event'[e].outcome = event[e].outcome

LEMMA NothingNew ==
    ASSUME IInv, IInv', Numbers, UNCHANGED <<event, submitted, passed>>
    PROVE  /\ Grown /\ Numbers' /\ Due' = Due /\ Signalable' = Signalable /\ Signaled' = Signaled
           /\ shut' = shut => ReadyOnly
<1>1. Due' = Due /\ Signalable' = Signalable /\ Signaled' = Signaled
  BY DEF Due, Signalable, Signaled, IsDue
<1>2. Grown
  BY <1>1 DEF Grown
<1>3. Numbers'
  BY <1>1 DEF Numbers
<1>4. QED
  BY <1>1, <1>2, <1>3 DEF ReadyOnly

LEMMA HeadTimely ==
    ASSUME IInv, InTime, NEW t \in Threads, todo[t] # <<>>
    PROVE  /\ Head(todo[t]).do \in {"erase", "complete"} => Now(t) \in Due
           /\ Head(todo[t]).do \in {"signal", "handle"} => Now(t) \in Signalable
           /\ Head(todo[t]).do = "handle" => Now(t) \in Signaled
<1>1. Head(todo[t]) \in ToSet(todo[t]) /\ todo[t] \in Seq(Steps)
  BY HeadStep
<1>2. 1 \in DOMAIN todo[t] /\ todo[t][1] = Head(todo[t])
  BY <1>1, TailFacts
<1>3. Timely(todo[t], Due, Signalable, Signaled)
  BY DEF InTime
<1>4. QED
  BY <1>1, <1>2, <1>3 DEF Timely, Now

-----------------------------------------------------------------------------
LEMMA NoSteps ==
    /\ <<>> \in Seq(Steps)
    /\ \A due, signalable, signaled : Timely(<<>>, due, signalable, signaled)
  BY NothingPlain, TimelySteps DEF Plain

LEMMA TickNumbers ==
    ASSUME IInv, IInv', Numbers, TickQueue, UNCHANGED event
    PROVE  Grown /\ Numbers' /\ (shut' = shut => ReadyOnly)
<1>1. passed \in Nat /\ submitted \in Nat /\ passed <= submitted
  BY EventBounds DEF IInv, TypeOK, Serials, Numbers
<1>2. passed' \in passed .. submitted /\ submitted' \in {submitted, submitted + 1}
  BY DEF TickQueue
<1>3. passed <= passed' /\ passed' <= submitted' /\ submitted <= submitted'
  BY <1>1, <1>2
<1>4. SameData
  BY DEF SameData
<1>5. Grown /\ Numbers'
  BY <1>3, <1>4, NumbersKept
<1>6. QED
  BY <1>5 DEF ReadyOnly, Grown

LEMMA LoseNumbers ==
    ASSUME IInv, IInv', Numbers, Lose, UNCHANGED <<event, shut>>
    PROVE  /\ Grown /\ Numbers' /\ ReadyOnly /\ Lost \in Signalable'
           /\ \A e \in Events : event[e].kind = "serial" => e \in Due'
<1>1. /\ passed \in Nat /\ submitted \in Nat /\ passed <= submitted
      /\ \A e \in Events : event[e].serial \in Nat
  BY EventBounds DEF IInv, TypeOK, Serials, Numbers, EventStates
<1>2. passed' = submitted + 1 /\ submitted' = submitted + 1 /\ working' \subseteq working
  BY DEF Lose
<1>3. passed <= passed' /\ passed' <= submitted' /\ submitted <= submitted'
  BY <1>1, <1>2
<1>4. SameData
  BY DEF SameData
<1>5. Grown /\ Numbers'
  BY <1>2, <1>3, <1>4, NumbersKept
<1>6. Lost \in Signalable'
  BY <1>5, NoEventIsNone DEF IInv, Basics, Signalable
<1>7. \A e \in Events : event[e].kind = "serial" => e \in Due'
  BY <1>2 DEF Numbers, Due, IsDue
<1>8. QED
  BY <1>5, <1>6, <1>7 DEF ReadyOnly, Grown

LEMMA LossCallsInTime ==
    ASSUME Lost \in Signalable'
    PROVE  /\ SetFutureReadyCalls(Lost) \in Seq(Steps)
           /\ Timely(SetFutureReadyCalls(Lost), Due', Signalable', Signaled')
  BY NoEventIsNone, ReadyCallsPlain, TimelyReady DEF Plain

(* The steps that leave the events and the serials as they are.            *)
LEMMA QuietGoto ==
    ASSUME FInv, IInv', NEW t \in Threads, todo[t] # <<>>, Head(todo[t]).do # "signal",
           NEW x \in Seq(Steps), Goto(t, x), Timely(x, Due, Signalable, Signaled),
           UNCHANGED <<event, submitted, passed, shut>>,
           \A u \in Threads : wait'[u].ready \subseteq wait[u].ready \union Due
    PROVE  FInv' /\ ReadyOnly
<1>1. /\ Grown /\ Numbers' /\ Due' = Due /\ Signalable' = Signalable /\ Signaled' = Signaled /\ ReadyOnly
  BY NothingNew DEF FInv
<1>2. InTime'
  BY <1>1, GotoInTime DEF FInv
<1>3. QED
  BY <1>1, <1>2 DEF FInv

LEMMA QuietStart ==
    ASSUME FInv, IInv', NEW t \in Threads, NEW new, todo' = [todo EXCEPT ![t] = new],
           Timely(new, Due, Signalable, Signaled),
           UNCHANGED <<event, submitted, passed>>,
           \A u \in Threads : wait'[u].ready \subseteq wait[u].ready
    PROVE  FInv' /\ (shut' = shut => ReadyOnly)
<1>1. /\ Grown /\ Numbers' /\ Due' = Due /\ Signalable' = Signalable /\ Signaled' = Signaled
      /\ shut' = shut => ReadyOnly
  BY NothingNew DEF FInv
<1>2. InTime'
  BY <1>1, InTimeKept DEF FInv
<1>3. QED
  BY <1>1, <1>2 DEF FInv

LEMMA TrackEventInTime ==
    ASSUME FInv, IInv', NEW t \in Threads, TrackEvent(t)
    PROVE  FInv' /\ ReadyOnly
<1>1. /\ todo[t] # <<>> /\ Head(todo[t]).do = "track"
      /\ event' = [event EXCEPT ![Now(t)].id = nextID]
      /\ Goto(t, <<Step(IF event[Now(t)].mode = "AllowSpontaneous" THEN "check" ELSE "emplace", Now(t))>>)
      /\ UNCHANGED <<shut, working, wait, submitted, passed>>
  BY DEF TrackEvent, At, manager, serials
<1> DEFINE do == IF event[Now(t)].mode = "AllowSpontaneous" THEN "check" ELSE "emplace"
           x == <<Step(do, Now(t))>>
<1>2. IInv /\ InTime /\ Numbers /\ Now(t) \in Events
  BY <1>1, HeadStep DEF FInv
<1>3. do \in {"check", "emplace"}
  OBVIOUS
<1> HIDE DEF do
<1>4. Step(do, Now(t)) \in Steps /\ Step(do, Now(t)).do = do
  BY <1>2, <1>3, EventStep
<1>5. Plain(x) /\ ToSet(x) = {Step(do, Now(t))}
  BY <1>3, <1>4, OneStepPlain DEF Alone
<1>6. x \in Seq(Steps) /\ Timely(x, Due', Signalable', Signaled')
  BY <1>3, <1>4, <1>5, TimelySteps DEF Plain
<1>7. event \in [Events -> EventStates]
  BY <1>2 DEF IInv, TypeOK
<1>8. SameData /\ \A e \in Events : event'[e].outcome = event[e].outcome
  BY <1>1, <1>2, <1>7 DEF SameData, EventStates
<1>9. passed <= passed' /\ passed' <= submitted' /\ submitted <= submitted'
  BY <1>1, <1>2, EventBounds DEF IInv, TypeOK, Serials, Numbers
<1>10. Grown /\ Numbers'
  BY <1>1, <1>2, <1>8, <1>9, NumbersKept
<1>11. Goto(t, x)
  BY <1>1 DEF do
<1> HIDE DEF x
<1>12. InTime'
  BY <1>1, <1>2, <1>6, <1>10, <1>11, GotoInTime
<1>13. QED
  BY <1>1, <1>8, <1>10, <1>12 DEF FInv, ReadyOnly, Grown

LEMMA CheckTrackedInTime ==
    ASSUME FInv, IInv', NEW t \in Threads, CheckTracked(t)
    PROVE  FInv' /\ ReadyOnly
<1> DEFINE do == IF IsDue(Now(t)) THEN "complete" ELSE "emplace"
           x == <<Step(do, Now(t))>>
<1>1. /\ todo[t] # <<>> /\ Head(todo[t]).do = "check" /\ Goto(t, x)
      /\ UNCHANGED <<event, shut, working, wait, submitted, passed>>
  BY DEF CheckTracked, At, manager, serials
<1>2. IInv /\ Now(t) \in Events
  BY <1>1, HeadStep DEF FInv
<1>3. do \in {"complete", "emplace"} /\ (do = "complete" => Now(t) \in Due)
  BY <1>2 DEF Due, IsDue
<1> HIDE DEF do
<1>4. Step(do, Now(t)) \in Steps /\ Step(do, Now(t)).do = do /\ Step(do, Now(t)).event = Now(t)
  BY <1>2, <1>3, EventStep
<1>5. Plain(x) /\ ToSet(x) = {Step(do, Now(t))}
  BY <1>3, <1>4, OneStepPlain DEF Alone
<1>6. x \in Seq(Steps) /\ Timely(x, Due, Signalable, Signaled)
  BY <1>3, <1>4, <1>5, TimelySteps DEF Plain
<1> HIDE DEF x
<1>7. QED
  BY <1>1, <1>6, QuietGoto

LEMMA EmplaceInTime ==
    ASSUME FInv, IInv', NEW t \in Threads, Emplace(t)
    PROVE  FInv' /\ ReadyOnly
<1>1. /\ todo[t] # <<>> /\ Head(todo[t]).do = "emplace"
      /\ Goto(t, <<Step("release", Now(t))>>) \/ Goto(t, <<>>)
      /\ UNCHANGED <<event, shut, working, wait, submitted, passed>>
  BY DEF Emplace, At, Return, serials
<1>2. IInv /\ Now(t) \in Events
  BY <1>1, HeadStep DEF FInv
<1> DEFINE x == <<Step("release", Now(t))>>
<1>3. Step("release", Now(t)) \in Steps /\ Step("release", Now(t)).do = "release"
  BY <1>2, EventStep
<1>4. Plain(x) /\ ToSet(x) = {Step("release", Now(t))}
  BY <1>3, OneStepPlain DEF Alone
<1>5. x \in Seq(Steps) /\ Timely(x, Due, Signalable, Signaled)
  BY <1>3, <1>4, TimelySteps DEF Plain
<1> HIDE DEF x
<1>6. CASE Goto(t, x)
  BY <1>1, <1>5, <1>6, QuietGoto
<1>7. CASE Goto(t, <<>>)
  BY <1>1, <1>7, NoSteps, QuietGoto
<1>8. QED
  BY <1>1, <1>6, <1>7 DEF x

LEMMA SignalInTime ==
    ASSUME FInv, IInv', NEW t \in Threads, Signal(t)
    PROVE  FInv' /\ ReadyOnly
<1>1. /\ todo[t] # <<>> /\ Head(todo[t]).do = "signal" /\ Goto(t, <<>>)
      /\ event' = [event EXCEPT ![Now(t)].signaled = @ \/ event[Now(t)].kind = "system"]
      /\ UNCHANGED <<shut, working, wait, submitted, passed>>
  BY DEF Signal, At, Return, manager, serials
<1>2. IInv /\ InTime /\ Numbers /\ Now(t) \in Events /\ Now(t) \in Signalable
  BY <1>1, HeadStep, HeadTimely DEF FInv
<1>3. event \in [Events -> EventStates]
  BY <1>2 DEF IInv, TypeOK
<1>4. /\ \A e \in Events : event'[e].outcome = event[e].outcome
      /\ \A e \in Events : event'[e].kind = event[e].kind
      /\ \A e \in Events : event'[e].serial = event[e].serial
      /\ \A e \in Events : event[e].signaled => event'[e].signaled
      /\ \A e \in Events : event'[e].early = event[e].early
      /\ event[Now(t)].kind = "system" => event'[Now(t)].signaled
  <2>1. event'[Now(t)] =
          [event[Now(t)] EXCEPT !.signaled = event[Now(t)].signaled \/ event[Now(t)].kind = "system"]
    BY <1>1, <1>2, <1>3
  <2>2. event[Now(t)] \in EventStates
    BY <1>2, <1>3
  <2>3. /\ event'[Now(t)].outcome = event[Now(t)].outcome
        /\ event'[Now(t)].kind = event[Now(t)].kind
        /\ event'[Now(t)].serial = event[Now(t)].serial
        /\ event'[Now(t)].early = event[Now(t)].early
        /\ event'[Now(t)].signaled <=> event[Now(t)].signaled \/ event[Now(t)].kind = "system"
    BY <2>1, <2>2 DEF EventStates
  <2>4. \A e \in Events \ {Now(t)} : event'[e] = event[e]
    BY <1>1, <1>2, <1>3
  <2>5. QED
    BY <2>3, <2>4
<1>5. SameData
  BY <1>4 DEF SameData
<1>6. passed <= passed' /\ passed' <= submitted' /\ submitted <= submitted'
  BY <1>1, <1>2, EventBounds DEF IInv, TypeOK, Serials, Numbers
<1>7. Grown /\ Numbers'
  BY <1>1, <1>2, <1>5, <1>6, NumbersKept
<1>8. Now(t) \in Signaled'
  <2>1. event[Now(t)].kind = "system" \/ (event[Now(t)].kind = "serial" /\ event[Now(t)].early)
    BY <1>2 DEF Signalable
  <2>2. QED
    BY <1>2, <1>4, <2>1 DEF Signaled, Signalable
<1>9. InTime'
  BY <1>1, <1>2, <1>7, <1>8, NoSteps, GotoInTime
<1>10. QED
  BY <1>1, <1>4, <1>7, <1>9 DEF FInv, ReadyOnly, Grown

LEMMA HandleInTime ==
    ASSUME FInv, IInv', NEW t \in Threads, HandleSpontaneous(t)
    PROVE  FInv' /\ ReadyOnly
<1> DEFINE x == <<Step("erase", Now(t)), Step("complete", Now(t))>>
<1>1. /\ todo[t] # <<>> /\ Head(todo[t]).do = "handle" /\ (Goto(t, x) \/ Goto(t, <<>>))
      /\ UNCHANGED <<event, shut, working, wait, submitted, passed>>
  BY DEF HandleSpontaneous, At, Return, manager, serials
<1>2. IInv /\ Now(t) \in Events /\ Now(t) \in Signaled
  BY <1>1, HeadStep, HeadTimely DEF FInv
<1>3. Now(t) \in Due
  BY <1>2 DEF Due, IsDue, Signaled, Signalable
<1>4. /\ Step("erase", Now(t)).do = "erase" /\ Step("erase", Now(t)).event = Now(t)
      /\ Step("complete", Now(t)).do = "complete" /\ Step("complete", Now(t)).event = Now(t)
  BY <1>2, EventStep
<1>5. Plain(x) /\ ToSet(x) = {Step("erase", Now(t)), Step("complete", Now(t))}
  BY <1>2, EraseCompletePlain
<1> HIDE DEF x
<1>6. x \in Seq(Steps) /\ Timely(x, Due, Signalable, Signaled)
  BY <1>3, <1>4, <1>5, TimelySteps DEF Plain
<1>7. CASE Goto(t, x)
  BY <1>1, <1>6, <1>7, QuietGoto
<1>8. CASE Goto(t, <<>>)
  BY <1>1, <1>8, NoSteps, QuietGoto
<1>9. QED
  BY <1>1, <1>7, <1>8

LEMMA ReturnInTime ==
    ASSUME FInv, IInv', NEW t \in Threads, Erase(t) \/ UnlockDevice(t) \/ UnlockEvents(t)
    PROVE  FInv' /\ ReadyOnly
<1>1. /\ todo[t] # <<>> /\ Head(todo[t]).do # "signal" /\ Goto(t, <<>>)
      /\ UNCHANGED <<event, shut, working, wait, submitted, passed>>
  BY DEF Erase, UnlockDevice, UnlockEvents, At, Return, manager, serials
<1>2. QED
  BY <1>1, NoSteps, QuietGoto

(* Event e is completed, the only one.                                     *)
Outcomes == [e \in Events |-> event[e].outcome]

Ended(e, outcome) ==
    /\ Due' = Due /\ shut' = shut
    /\ Outcomes[e] = "pending" /\ Outcomes' = [Outcomes EXCEPT ![e] = outcome]

LEMMA EnsureCompleteInTime ==
    ASSUME FInv, IInv', NEW t \in Threads, todo[t] # <<>>,
           Head(todo[t]).do \in {"complete", "release"}, Goto(t, <<>>),
           NEW outcome \in {"ready", "shutdown"}, EnsureComplete(Now(t), outcome),
           UNCHANGED <<shut, wait, submitted, passed>>
    PROVE  /\ FInv'
           /\ IF event[Now(t)].outcome = "pending" THEN Ended(Now(t), outcome) ELSE ReadyOnly
<1>1. IInv /\ InTime /\ Numbers /\ Now(t) \in Events
  BY HeadStep DEF FInv
<1>2. event \in [Events -> EventStates]
  BY <1>1 DEF IInv, TypeOK
<1>3. event' = [event EXCEPT ![Now(t)].outcome = IF @ = "pending" THEN outcome ELSE @]
  BY DEF EnsureComplete
<1>4. \A e \in Events : /\ event'[e].kind = event[e].kind /\ event'[e].serial = event[e].serial
                        /\ event'[e].signaled = event[e].signaled
                        /\ event'[e].early = event[e].early
  BY <1>1, <1>2, <1>3 DEF EventStates
<1>5. \A e \in Events :
        event'[e].outcome = IF e = Now(t) /\ event[e].outcome = "pending" THEN outcome
                            ELSE event[e].outcome
  BY <1>1, <1>2, <1>3 DEF EventStates
<1>6. SameData
  BY <1>4, <1>5 DEF SameData
<1>7. passed <= passed' /\ passed' <= submitted' /\ submitted <= submitted'
  BY <1>1, EventBounds DEF IInv, TypeOK, Serials, Numbers
<1>8. Grown /\ Numbers'
  BY <1>1, <1>6, <1>7, NumbersKept
<1>9. InTime'
  BY <1>1, <1>8, NoSteps, GotoInTime
<1>10. Due' = Due
  BY <1>4 DEF Due, IsDue
<1>11. CASE event[Now(t)].outcome = "pending"
  <2>1. Outcomes' = [Outcomes EXCEPT ![Now(t)] = outcome] /\ Outcomes[Now(t)] = "pending"
    BY <1>1, <1>5, <1>11 DEF Outcomes
  <2>2. QED
    BY <1>1, <1>8, <1>9, <1>10, <1>11, <2>1 DEF FInv, Ended
<1>12. CASE event[Now(t)].outcome # "pending"
  BY <1>5, <1>8, <1>9, <1>10, <1>12 DEF FInv, ReadyOnly
<1>13. QED
  BY <1>11, <1>12

LEMMA CompleteInTime ==
    ASSUME FInv, IInv', NEW t \in Threads, Complete(t)
    PROVE  /\ FInv'
           /\ ReadyOnly \/ \E e \in Due : Ended(e, "ready")
<1>1. /\ todo[t] # <<>> /\ Head(todo[t]).do = "complete" /\ Goto(t, <<>>)
      /\ EnsureComplete(Now(t), "ready")
      /\ UNCHANGED <<shut, wait, submitted, passed>>
  BY DEF Complete, At, Return, manager, serials
<1>2. Now(t) \in Due
  BY <1>1, HeadTimely DEF FInv
<1>3. QED
  BY <1>1, <1>2, EnsureCompleteInTime

(* As long as mEvents has not been reset, an event that is pending is      *)
(* referred to by more than the step that drops a reference.               *)
LEMMA ShutBefore ==
    ASSUME IInv, NEW t \in Threads, todo[t] # <<>>, Head(todo[t]).do = "release",
           ~HeldElsewhere(t, Now(t)), event[Now(t)].outcome = "pending"
    PROVE  shut
<1> SUFFICES ASSUME ~shut PROVE FALSE
  OBVIOUS
<1>1. Now(t) \in Events /\ ToSet(todo[t]) = {Head(todo[t])} \union ToSet(Tail(todo[t]))
  BY HeadStep
<1>2. Now(t) \in Keeps(todo)
  BY <1>1 DEF IInv, Referred, HeldElsewhere
<1>3. PICK u \in Threads : \E y \in ToSet(todo[u]) : y.event = Now(t) /\ y.do \in Keepers
  BY <1>2 DEF Keeps
<1>4. PICK y \in ToSet(todo[u]) : y.event = Now(t) /\ y.do \in Keepers
  BY <1>3
<1>5. CASE u # t
  <2>1. PICK i \in DOMAIN todo[u] : y = todo[u][i]
    BY DEF ToSet
  <2>2. QED
    BY <1>4, <1>5, <2>1 DEF HeldElsewhere
<1>6. CASE u = t
  <2>1. y \in ToSet(Tail(todo[t]))
    BY <1>1, <1>4, <1>6 DEF Keepers
  <2>2. PICK i \in DOMAIN Tail(todo[t]) : y = Tail(todo[t])[i]
    BY <2>1 DEF ToSet
  <2>3. QED
    BY <1>4, <2>2 DEF HeldElsewhere
<1>7. QED
  BY <1>5, <1>6

LEMMA ReleaseInTime ==
    ASSUME FInv, IInv', NEW t \in Threads, Release(t)
    PROVE  /\ FInv'
           /\ ReadyOnly \/ (shut /\ \E e \in Events : Ended(e, "shutdown"))
<1>1. /\ todo[t] # <<>> /\ Head(todo[t]).do = "release" /\ Goto(t, <<>>)
      /\ UNCHANGED <<shut, working, wait, submitted, passed>>
      /\ IF HeldElsewhere(t, Now(t)) THEN UNCHANGED event ELSE EnsureComplete(Now(t), "shutdown")
  BY DEF Release, At, Return, manager, serials
<1>2. Now(t) \in Events
  BY <1>1, HeadStep DEF FInv
<1>3. CASE HeldElsewhere(t, Now(t))
  <2>1. UNCHANGED event
    BY <1>1, <1>3
  <2>2. QED
    BY <1>1, <2>1, NoSteps, QuietGoto
<1>4. CASE ~HeldElsewhere(t, Now(t))
  <2>1. /\ FInv'
        /\ IF event[Now(t)].outcome = "pending" THEN Ended(Now(t), "shutdown") ELSE ReadyOnly
    BY <1>1, <1>4, EnsureCompleteInTime
  <2>2. event[Now(t)].outcome = "pending" => shut
    BY <1>1, <1>4, ShutBefore DEF FInv
  <2>3. QED
    BY <1>2, <2>1, <2>2
<1>5. QED
  BY <1>3, <1>4

-----------------------------------------------------------------------------
LEMMA ReadyAfter ==
    ASSUME IInv, NEW t \in Threads, NEW more, wait' = [wait EXCEPT ![t].ready = @ \union more]
    PROVE  \A u \in Threads : wait'[u].ready \subseteq wait[u].ready \union more
<1>1. wait \in [Threads -> Waits]
  BY DEF IInv, TypeOK
<1>2. wait'[t].ready = wait[t].ready \union more
  BY <1>1 DEF Waits
<1>3. \A u \in Threads \ {t} : wait'[u] = wait[u]
  BY <1>1
<1>4. QED
  BY <1>2, <1>3

LEMMA WaitSystemsInTime ==
    ASSUME FInv, IInv', NEW t \in Threads, WaitSystems(t)
    PROVE  FInv' /\ ReadyOnly
<1> DEFINE more == {e \in wait[t].set : event[e].kind = "system" /\ event[e].signaled}
<1>1. /\ todo[t] # <<>> /\ Head(todo[t]).do = "systems" /\ Goto(t, <<>>)
      /\ wait' = [wait EXCEPT ![t].ready = @ \union more]
      /\ UNCHANGED <<event, shut, working, submitted, passed>>
  BY DEF WaitSystems, At, Return, manager, serials
<1>2. more \subseteq Due
  <2>1. wait[t].set \subseteq Events
    BY DEF FInv, IInv, TypeOK, Waits
  <2>2. QED
    BY <2>1 DEF Due, IsDue
<1> HIDE DEF more
<1>3. \A u \in Threads : wait'[u].ready \subseteq wait[u].ready \union Due
  BY <1>1, <1>2, ReadyAfter DEF FInv
<1>4. QED
  BY <1>1, <1>3, NoSteps, QuietGoto

LEMMA WaitSerialsInTime ==
    ASSUME FInv, IInv', NEW t \in Threads, WaitSerials(t)
    PROVE  FInv' /\ ReadyOnly
<1> DEFINE x == (IF LowestSerial(t) > submitted THEN <<Step("flush", NoEvent)>> ELSE <<>>)
                  \o <<Step("checkPassed", NoEvent)>>
<1>1. /\ todo[t] # <<>> /\ Head(todo[t]).do = "serials" /\ Goto(t, x)
      /\ UNCHANGED <<event, shut, working, wait, submitted, passed>>
  BY DEF WaitSerials, At, manager, serials
<1>2. /\ Step("flush", NoEvent) \in Steps /\ Step("flush", NoEvent).do = "flush"
      /\ Step("checkPassed", NoEvent) \in Steps /\ Step("checkPassed", NoEvent).do = "checkPassed"
  BY OtherStep
<1>3. Plain(x) /\ ToSet(x) \subseteq {Step("flush", NoEvent), Step("checkPassed", NoEvent)}
  <2>1. CASE LowestSerial(t) > submitted
    <3>1. x = <<Step("flush", NoEvent)>> \o <<Step("checkPassed", NoEvent)>>
      BY <2>1
    <3> HIDE DEF x
    <3>2. QED
      BY <3>1, FlushCheckPlain
  <2>2. CASE ~(LowestSerial(t) > submitted)
    <3>1. x = <<Step("checkPassed", NoEvent)>>
      BY <2>2
    <3> HIDE DEF x
    <3>2. QED
      BY <1>2, <3>1, OneStepPlain DEF Alone
  <2>3. QED
    BY <2>1, <2>2
<1> HIDE DEF x
<1>4. x \in Seq(Steps) /\ Timely(x, Due, Signalable, Signaled)
  BY <1>2, <1>3, TimelySteps DEF Plain
<1>5. QED
  BY <1>1, <1>4, QuietGoto

LEMMA FlushInTime ==
    ASSUME FInv, IInv', NEW t \in Threads, Flush(t)
    PROVE  FInv' /\ ReadyOnly
<1>1. /\ todo[t] # <<>> /\ Head(todo[t]).do = "flush" /\ Goto(t, <<>>) /\ TickQueue
      /\ UNCHANGED <<event, shut, working, wait>>
  BY DEF Flush, At, Return, manager
<1>2. IInv /\ InTime /\ Numbers
  BY DEF FInv
<1>3. Grown /\ Numbers' /\ ReadyOnly
  BY <1>1, <1>2, TickNumbers
<1>4. InTime'
  BY <1>1, <1>2, <1>3, NoSteps, GotoInTime
<1>5. QED
  BY <1>3, <1>4 DEF FInv

LEMMA CheckPassedInTime ==
    ASSUME FInv, IInv', NEW t \in Threads, CheckPassed(t)
    PROVE  FInv' /\ ReadyOnly
<1> DEFINE more == {e \in SerialFutures(t) : event[e].serial <= passed'}
<1>1. /\ todo[t] # <<>> /\ Head(todo[t]).do = "checkPassed" /\ Goto(t, <<>>)
      /\ passed' \in (IF passed < LowestSerial(t) THEN passed .. submitted ELSE {passed})
      /\ wait' = [wait EXCEPT ![t].ready = @ \union more]
      /\ UNCHANGED <<event, shut, working, submitted>>
  BY DEF CheckPassed, At, Return, manager
<1>2. IInv /\ InTime /\ Numbers
  BY DEF FInv
<1>3. passed \in Nat /\ submitted \in Nat /\ passed <= submitted
  BY <1>2, EventBounds DEF IInv, TypeOK, Serials, Numbers
<1>4. passed <= passed' /\ passed' <= submitted' /\ submitted <= submitted'
  <2>1. passed' = passed \/ passed' \in passed .. submitted
    BY <1>1
  <2>2. QED
    BY <1>1, <1>3, <2>1
<1>5. SameData
  BY <1>1 DEF SameData
<1>6. Grown /\ Numbers'
  BY <1>1, <1>2, <1>4, <1>5, NumbersKept
<1>7. more \subseteq Due'
  <2>1. wait[t].set \subseteq Events
    BY <1>2 DEF IInv, TypeOK, Waits
  <2>2. QED
    BY <1>1, <2>1 DEF SerialFutures, Due, IsDue
<1> HIDE DEF more
<1>8. \A u \in Threads : wait'[u].ready \subseteq wait[u].ready \union Due'
  BY <1>1, <1>2, <1>7, ReadyAfter
<1>9. InTime'
  BY <1>1, <1>2, <1>6, <1>8, NoSteps, GotoInTime
<1>10. QED
  BY <1>1, <1>6, <1>9 DEF FInv, ReadyOnly, Grown

LEMMA LostWaits ==
    ASSUME IInv, \A e \in Events : event[e].kind = "serial" => e \in Due',
           NEW t \in Threads, wait' = [wait EXCEPT ![t].ready = @ \union SerialFutures(t)]
    PROVE  \A u \in Threads : wait'[u].ready \subseteq wait[u].ready \union Due'
<1>1. wait[t].set \subseteq Events
  BY DEF IInv, TypeOK, Waits
<1>2. SerialFutures(t) \subseteq Due'
  BY <1>1 DEF SerialFutures
<1>3. QED
  BY <1>2, ReadyAfter

LEMMA CheckPassedFailsInTime ==
    ASSUME FInv, IInv', NEW t \in Threads, CheckPassedFails(t)
    PROVE  FInv' /\ ReadyOnly
<1>1. /\ todo[t] # <<>> /\ Head(todo[t]).do = "checkPassed" /\ Goto(t, SetFutureReadyCalls(Lost))
      /\ wait' = [wait EXCEPT ![t].ready = @ \union SerialFutures(t)]
      /\ Lose /\ UNCHANGED <<event, shut>>
  BY DEF CheckPassedFails, At, manager
<1>2. IInv /\ InTime /\ Numbers
  BY DEF FInv
<1>3. /\ Grown /\ Numbers' /\ ReadyOnly /\ Lost \in Signalable'
      /\ \A e \in Events : event[e].kind = "serial" => e \in Due'
  BY <1>1, <1>2, LoseNumbers
<1>4. \A u \in Threads : wait'[u].ready \subseteq wait[u].ready \union Due'
  BY <1>1, <1>2, <1>3, LostWaits
<1>5. InTime'
  BY <1>1, <1>2, <1>3, <1>4, LossCallsInTime, GotoInTime
<1>6. QED
  BY <1>3, <1>5 DEF FInv

LEMMA FlushFailsInTime ==
    ASSUME FInv, IInv', NEW t \in Threads, FlushFails(t)
    PROVE  FInv' /\ ReadyOnly
<1> DEFINE T == Tail(todo[t])
           new == SetFutureReadyCalls(Lost) \o Tail(T)
<1>1. /\ todo[t] # <<>> /\ Head(todo[t]).do = "flush"
      /\ wait' = [wait EXCEPT ![t].ready = @ \union SerialFutures(t)]
      /\ Lose /\ UNCHANGED <<event, shut>>
      /\ todo' = [todo EXCEPT ![t] = SetFutureReadyCalls(Lost) \o Tail(Tail(@))]
  BY DEF FlushFails, At, manager
<1>2. IInv /\ InTime /\ Numbers
  BY DEF FInv
<1>3. /\ Grown /\ Numbers' /\ ReadyOnly /\ Lost \in Signalable'
      /\ \A e \in Events : event[e].kind = "serial" => e \in Due'
  BY <1>1, <1>2, LoseNumbers
<1>4. \A u \in Threads : wait'[u].ready \subseteq wait[u].ready \union Due'
  BY <1>1, <1>2, <1>3, LostWaits
<1>5. /\ todo[t] \in Seq(Steps) /\ T \in Seq(Steps)
      /\ T # <<>> /\ Head(T) = Step("checkPassed", NoEvent)
  BY <1>1, <1>2, HeadStep, SecondStep
<1>6. todo' = [todo EXCEPT ![t] = new]
  <2>1. todo \in [Threads -> Seq(Steps)]
    BY <1>2 DEF IInv, TypeOK
  <2>2. QED
    BY <1>1, <2>1
<1>7. Timely(todo[t], Due', Signalable', Signaled')
  BY <1>2, <1>3, TimelyGrows DEF InTime, Grown
<1>8. Timely(T, Due', Signalable', Signaled')
  BY <1>1, <1>5, <1>7, TimelyTail
<1> HIDE DEF T
<1>9. Timely(Tail(T), Due', Signalable', Signaled') /\ Tail(T) \in Seq(Steps)
  <2>1. Head(T).do # "signal"
    BY <1>5, OtherStep
  <2>2. Tail(T) \in Seq(Steps)
    BY <1>5, TailFacts
  <2>3. QED
    BY <1>5, <1>8, <2>1, <2>2, TimelyTail
<1>10. Timely(new, Due', Signalable', Signaled')
  BY <1>3, <1>9, LossCallsInTime, TimelyConcat
<1> HIDE DEF new
<1>11. InTime'
  BY <1>2, <1>3, <1>4, <1>6, <1>10, InTimeKept
<1>12. QED
  BY <1>3, <1>11 DEF FInv

LEMMA UntrackInTime ==
    ASSUME FInv, IInv', NEW t \in Threads, UntrackPolled(t) \/ UntrackWaited(t)
    PROVE  FInv' /\ ReadyOnly
<1>1. /\ todo[t] # <<>> /\ Head(todo[t]).do # "signal" /\ CompleteReady(t)
      /\ UNCHANGED <<event, shut, working, submitted, passed>>
  BY DEF UntrackPolled, UntrackWaited, At, serials
<1> DEFINE ready == wait[t].ready
<1>2. /\ wait \in [Threads -> Waits] /\ wait' = [wait EXCEPT ![t] = NoWait]
      /\ ready \subseteq Due /\ ready \subseteq Events
  BY <1>1 DEF FInv, IInv, TypeOK, InTime, CompleteReady, Due
<1>3. PICK events \in SetToSeqs(ready) : Goto(t, StepsFor("complete", events))
  BY <1>1 DEF CompleteReady, InOrder
<1> DEFINE x == StepsFor("complete", events)
<1>4. Plain(x) /\ ToSet(x) = {Step("complete", e) : e \in ready}
  <2> HIDE DEF ready
  <2>1. QED
    BY <1>2, <1>3, StepsForPlain
<1> HIDE DEF x
<1>5. x \in Seq(Steps) /\ Timely(x, Due, Signalable, Signaled)
  <2>1. \A e \in ready : Step("complete", e).do = "complete" /\ Step("complete", e).event = e
    BY <1>2, EventStep
  <2>2. QED
    BY <1>2, <1>4, <2>1, TimelySteps DEF Plain
<1>6. \A u \in Threads : wait'[u].ready \subseteq wait[u].ready \union Due
  <2>1. \A u \in Threads : wait'[u] = wait[u] \/ wait'[u] = NoWait
    BY <1>2
  <2>2. NoWait.ready = {}
    BY DEF NoWait
  <2>3. QED
    BY <2>1, <2>2
<1>7. Goto(t, x)
  BY <1>3 DEF x
<1>8. QED
  BY <1>1, <1>5, <1>6, <1>7, QuietGoto

LEMMA ContinueInTime ==
    ASSUME FInv, IInv', NEW t \in Threads, Continue(t)
    PROVE  /\ FInv'
           /\ \/ ReadyOnly
              \/ \E e \in Due : Ended(e, "ready")
              \/ shut /\ \E e \in Events : Ended(e, "shutdown")
<1>1. CASE TrackEvent(t) \/ CheckTracked(t) \/ Emplace(t)
  BY <1>1, TrackEventInTime, CheckTrackedInTime, EmplaceInTime
<1>2. CASE Signal(t) \/ HandleSpontaneous(t)
  BY <1>2, SignalInTime, HandleInTime
<1>3. CASE Complete(t) \/ Release(t)
  BY <1>3, CompleteInTime, ReleaseInTime
<1>4. CASE WaitSystems(t) \/ WaitSerials(t) \/ Flush(t) \/ FlushFails(t)
  BY <1>4, WaitSystemsInTime, WaitSerialsInTime, FlushInTime, FlushFailsInTime
<1>5. CASE CheckPassed(t) \/ CheckPassedFails(t)
  BY <1>5, CheckPassedInTime, CheckPassedFailsInTime
<1>6. CASE UntrackPolled(t) \/ UntrackWaited(t)
  BY <1>6, UntrackInTime
<1>7. CASE Erase(t) \/ UnlockDevice(t) \/ UnlockEvents(t)
  BY <1>7, ReturnInTime
<1>8. QED
  BY <1>1, <1>2, <1>3, <1>4, <1>5, <1>6, <1>7 DEF Continue

-----------------------------------------------------------------------------
(* An event is made: it may be ready already, and is pending.              *)
Starts(e) ==
    /\ Outcomes[e] = "none" /\ Outcomes' = [Outcomes EXCEPT ![e] = "pending"]
    /\ Due' = Due \/ Due' = Due \union {e}
    /\ shut' = shut

LEMMA MakeInTime ==
    ASSUME FInv, IInv', NEW t \in Threads, NEW e \in Events, NEW new, Makes(t, e, new)
    PROVE  FInv' /\ Starts(e)
<1>1. /\ event[e].kind = "none" /\ event' = [event EXCEPT ![e] = new]
      /\ todo' = [todo EXCEPT ![t] = <<Step("track", e)>>]
      /\ UNCHANGED <<shut, wait, submitted, passed>>
  BY DEF Makes, Make, manager, serials
<1>2. /\ new.kind \in {"serial", "system"} /\ new.outcome = "pending"
      /\ new.serial <= submitted + 1
  BY DEF Makes
<1>3. IInv /\ InTime /\ Numbers
  BY DEF FInv
<1>4. event \in [Events -> EventStates]
  BY <1>3 DEF IInv, TypeOK
<1>5. event'[e] = new /\ \A d \in Events \ {e} : event'[d] = event[d]
  BY <1>1, <1>4
<1>6. e \notin Due /\ e \notin Signalable /\ event[e].outcome = "none"
  BY <1>1, <1>3 DEF Due, Signalable, Numbers
<1>7. \A d \in Events \ {e} : (d \in Due' <=> d \in Due) /\ (d \in Signalable' <=> d \in Signalable)
                              /\ (d \in Signaled' <=> d \in Signaled)
  BY <1>1, <1>5 DEF Due, IsDue, Signalable, Signaled
<1>8. Due' \subseteq Events /\ Due \subseteq Events /\ Signalable \subseteq Events
      /\ Signaled \subseteq Signalable
  BY DEF Due, Signalable, Signaled
<1>9. Grown /\ (Due' = Due \/ Due' = Due \union {e})
  BY <1>6, <1>7, <1>8 DEF Grown
<1>10. Numbers'
  <2>1. \A d \in Events : event'[d].kind = "none" => event'[d].outcome = "none"
    BY <1>2, <1>3, <1>5 DEF Numbers
  <2>2. \A d \in Events : event'[d].kind = "serial" => event'[d].serial <= submitted' + 1
    BY <1>1, <1>2, <1>3, <1>5 DEF Numbers
  <2>3. passed' <= submitted'
    BY <1>1, <1>3 DEF Numbers
  <2>4. QED
    BY <2>1, <2>2, <2>3 DEF Numbers
<1>11. InTime'
  <2>1. Step("track", e) \in Steps /\ Step("track", e).do = "track"
    BY EventStep
  <2>2. Plain(<<Step("track", e)>>) /\ ToSet(<<Step("track", e)>>) = {Step("track", e)}
    BY <2>1, OneStepPlain DEF Alone
  <2>3. Timely(<<Step("track", e)>>, Due', Signalable', Signaled')
    BY <2>1, <2>2, TimelySteps DEF Plain
  <2>4. QED
    BY <1>1, <1>3, <1>9, <2>3, InTimeKept
<1>12. Outcomes[e] = "none" /\ Outcomes' = [Outcomes EXCEPT ![e] = "pending"]
  BY <1>2, <1>5, <1>6 DEF Outcomes
<1>13. QED
  BY <1>1, <1>9, <1>10, <1>11, <1>12 DEF FInv, Starts

LEMMA WorkerDoneInTime ==
    ASSUME FInv, IInv', NEW t \in Threads, NEW e \in Events, WorkerDone(t, e)
    PROVE  FInv' /\ ReadyOnly
<1>1. /\ event[e].kind = "system" /\ todo' = [todo EXCEPT ![t] = SetFutureReadyCalls(e)]
      /\ UNCHANGED <<event, shut, wait, submitted, passed>>
  BY DEF WorkerDone, manager, serials
<1>2. e \in Signalable
  BY <1>1 DEF Signalable
<1>3. Timely(SetFutureReadyCalls(e), Due, Signalable, Signaled)
  BY <1>2, TimelyReady
<1>4. QED
  BY <1>1, <1>3, QuietStart

(* The calls of SetFutureReady, under the device's lock.                   *)
LEMMA LockedCallsInTime ==
    ASSUME NEW e \in Events, e \in Signalable'
    PROVE  Timely(Append(SetFutureReadyCalls(e), Step("unlockDevice", NoEvent)),
                  Due', Signalable', Signaled')
<1> DEFINE calls == SetFutureReadyCalls(e)
           last == Step("unlockDevice", NoEvent)
<1>1. calls \in Seq(Steps) /\ Timely(calls, Due', Signalable', Signaled')
  BY ReadyCallsPlain, TimelyReady DEF Plain
<1>2. last \in Steps /\ last.do = "unlockDevice"
  BY OtherStep
<1> HIDE DEF calls, last
<1>3. <<last>> \in Seq(Steps) /\ ToSet(<<last>>) = {last} /\ Append(calls, last) = calls \o <<last>>
  BY <1>1, <1>2 DEF ToSet
<1>4. Timely(<<last>>, Due', Signalable', Signaled')
  BY <1>2, <1>3, TimelySteps
<1>5. Timely(Append(calls, last), Due', Signalable', Signaled')
  BY <1>1, <1>3, <1>4, TimelyConcat
<1>6. QED
  BY <1>5 DEF calls, last

LEMMA UnmapEarlyInTime ==
    ASSUME FInv, IInv', NEW t \in Threads, NEW e \in Events, UnmapEarly(t, e)
    PROVE  FInv' /\ ReadyOnly
<1> DEFINE new == Append(SetFutureReadyCalls(e), Step("unlockDevice", NoEvent))
<1>1. /\ event[e].kind = "serial" /\ event' = [event EXCEPT ![e].early = TRUE]
      /\ todo' = [todo EXCEPT ![t] = new]
      /\ UNCHANGED <<shut, wait, submitted, passed>>
  BY DEF UnmapEarly, manager, serials
<1>2. IInv /\ InTime /\ Numbers
  BY DEF FInv
<1>3. event \in [Events -> EventStates]
  BY <1>2 DEF IInv, TypeOK
<1>4. /\ event'[e] = [event[e] EXCEPT !.early = TRUE] /\ event[e] \in EventStates
      /\ \A d \in Events \ {e} : event'[d] = event[d]
  BY <1>1, <1>3
<1>5. /\ event'[e].kind = event[e].kind /\ event'[e].serial = event[e].serial
      /\ event'[e].signaled = event[e].signaled /\ event'[e].early
      /\ event'[e].outcome = event[e].outcome
  BY <1>4 DEF EventStates
<1>6. SameData /\ \A d \in Events : event'[d].outcome = event[d].outcome
  BY <1>4, <1>5 DEF SameData
<1>7. passed <= passed' /\ passed' <= submitted' /\ submitted <= submitted'
  BY <1>1, <1>2, EventBounds DEF IInv, TypeOK, Serials, Numbers
<1>8. Grown /\ Numbers'
  BY <1>2, <1>6, <1>7, NumbersKept
<1>9. e \in Signalable'
  BY <1>1, <1>5 DEF Signalable
<1>10. Timely(new, Due', Signalable', Signaled')
  BY <1>9, LockedCallsInTime
<1> HIDE DEF new
<1>11. InTime'
  BY <1>1, <1>2, <1>8, <1>10, InTimeKept
<1>12. QED
  BY <1>1, <1>6, <1>8, <1>11 DEF FInv, ReadyOnly, Grown

LEMMA WaitImplInTime ==
    ASSUME FInv, IInv', NEW t \in Threads, NEW futures, futures \subseteq tracked,
           NEW untrack \in {"untrackPolled", "untrackWaited"}, WaitImpl(t, futures, untrack),
           UNCHANGED <<event, shut, working, submitted, passed>>
    PROVE  FInv' /\ ReadyOnly
<1> DEFINE do == [serial |-> "serials", system |-> "systems"]
           kinds == {event[e].kind : e \in futures}
<1>1. PICK order \in SetToSeqs(kinds) :
        todo' = [todo EXCEPT ![t] =
                   Append([i \in DOMAIN order |-> Step(do[order[i]], NoEvent)], Step(untrack, NoEvent))]
  BY DEF WaitImpl
<1>2. wait' = [wait EXCEPT ![t].set = futures] /\ wait \in [Threads -> Waits]
  BY DEF WaitImpl, FInv, IInv, TypeOK
<1>3. kinds \subseteq {"serial", "system"}
  <2>1. \A e \in futures : e \in Events /\ event[e].kind # "none"
    BY DEF FInv, IInv, Made, TypeOK
  <2>2. \A e \in Events : event[e].kind \in {"none", "system", "serial"}
    BY DEF FInv, IInv, TypeOK, EventStates
  <2>3. QED
    BY <2>1, <2>2
<1> DEFINE x == [i \in DOMAIN order |-> Step(do[order[i]], NoEvent)]
           last == Step(untrack, NoEvent)
<1>4. Plain(x) /\ \A y \in ToSet(x) : y.event = NoEvent
  <2> HIDE DEF kinds
  <2>1. QED
    BY <1>1, <1>3, PollsPlain
<1>5. last \in Steps /\ last.do = untrack
  BY OtherStep
<1> HIDE DEF x, last
<1>6. Timely(x, Due, Signalable, Signaled)
  <2>1. \A y \in ToSet(x) : y.do \notin {"signal", "handle", "erase", "complete"}
    <3>1. \A y \in ToSet(x) : y \in Steps
      BY <1>4 DEF Plain, ToSet
    <3>2. QED
      BY <1>4, <3>1, NoEventIsNone DEF Steps, EventSteps, OtherSteps
  <2>2. QED
    BY <1>4, <2>1, TimelySteps DEF Plain
<1>7. /\ <<last>> \in Seq(Steps) /\ ToSet(<<last>>) = {last}
      /\ Append(x, last) = x \o <<last>>
  <2>1. x \in Seq(Steps)
    BY <1>4 DEF Plain
  <2>2. QED
    BY <1>5, <2>1 DEF ToSet
<1>8. Timely(<<last>>, Due, Signalable, Signaled)
  BY <1>5, <1>7, TimelySteps
<1>9. Timely(Append(x, last), Due, Signalable, Signaled)
  BY <1>4, <1>6, <1>7, <1>8, TimelyConcat DEF Plain
<1>10. todo' = [todo EXCEPT ![t] = Append(x, last)]
  BY <1>1 DEF x, last
<1>11. \A u \in Threads : wait'[u].ready \subseteq wait[u].ready
  <2>1. wait'[t].ready = wait[t].ready /\ \A u \in Threads \ {t} : wait'[u] = wait[u]
    BY <1>2 DEF Waits
  <2>2. QED
    BY <2>1
<1>12. QED
  BY <1>9, <1>10, <1>11, QuietStart

LEMMA TickInTime ==
    ASSUME FInv, IInv', NEW t \in Threads, APITick(t) \/ APITickFails(t)
    PROVE  FInv' /\ ReadyOnly
<1>1. IInv /\ InTime /\ Numbers /\ todo \in [Threads -> Seq(Steps)]
  BY DEF FInv, IInv, TypeOK
<1>2. CASE APITick(t)
  <2>1. TickQueue /\ UNCHANGED <<event, shut, working, wait, todo>>
    BY <1>2 DEF APITick, manager
  <2>2. Grown /\ Numbers' /\ ReadyOnly
    BY <1>1, <2>1, TickNumbers
  <2>3. InTime'
    <3>1. \A u \in Threads : Timely(todo[u], Due', Signalable', Signaled')
      BY <1>1, <2>2, TimelyGrows DEF InTime, Grown
    <3>2. QED
      BY <1>1, <2>1, <2>2, <3>1 DEF InTime, Grown
  <2>4. QED
    BY <2>2, <2>3 DEF FInv
<1>3. CASE APITickFails(t)
  <2> DEFINE new == Append(SetFutureReadyCalls(Lost), Step("unlockDevice", NoEvent))
  <2>1. Lose /\ UNCHANGED <<event, shut, wait>> /\ todo' = [todo EXCEPT ![t] = new]
    BY <1>3 DEF APITickFails, manager
  <2>2. Grown /\ Numbers' /\ ReadyOnly /\ Lost \in Signalable'
    BY <1>1, <2>1, LoseNumbers
  <2>3. Timely(new, Due', Signalable', Signaled')
    BY <2>2, LockedCallsInTime, NoEventIsNone
  <2> HIDE DEF new
  <2>4. InTime'
    BY <1>1, <2>1, <2>2, <2>3, InTimeKept
  <2>5. QED
    BY <2>2, <2>4 DEF FInv
<1>4. QED
  BY <1>2, <1>3

LEMMA ShutDownInTime ==
    ASSUME FInv, IInv', NEW t \in Threads, ShutDown(t)
    PROVE  FInv' /\ shut' = TRUE /\ Outcomes' = Outcomes /\ Due' = Due
<1>1. /\ shut' = TRUE /\ UNCHANGED <<event, working, wait, submitted, passed>>
  BY DEF ShutDown, serials
<1>2. PICK events \in SetToSeqs(tracked) :
        todo' = [todo EXCEPT ![t] = Append(StepsFor("release", events), Step("unlockEvents", NoEvent))]
  BY DEF ShutDown
<1> DEFINE x == StepsFor("release", events)
           last == Step("unlockEvents", NoEvent)
<1>3. tracked \subseteq Events
  BY DEF FInv, IInv, TypeOK
<1>4. Plain(x) /\ ToSet(x) = {Step("release", e) : e \in tracked}
  BY <1>2, <1>3, StepsForPlain
<1>5. last \in Steps /\ last.do = "unlockEvents"
  BY OtherStep
<1>6. \A y \in ToSet(x) : y.do = "release"
  BY <1>3, <1>4, EventStep
<1> HIDE DEF x, last
<1>7. Timely(x, Due, Signalable, Signaled)
  BY <1>4, <1>6, TimelySteps DEF Plain
<1>8. /\ <<last>> \in Seq(Steps) /\ ToSet(<<last>>) = {last}
      /\ Append(x, last) = x \o <<last>>
  <2>1. x \in Seq(Steps)
    BY <1>4 DEF Plain
  <2>2. QED
    BY <1>5, <2>1 DEF ToSet
<1>9. Timely(<<last>>, Due, Signalable, Signaled)
  BY <1>5, <1>8, TimelySteps
<1>10. Timely(Append(x, last), Due, Signalable, Signaled)
  BY <1>4, <1>7, <1>8, <1>9, TimelyConcat DEF Plain
<1>11. todo' = [todo EXCEPT ![t] = Append(x, last)]
  BY <1>2 DEF x, last
<1>12. FInv'
  BY <1>1, <1>10, <1>11, QuietStart
<1>13. Outcomes' = Outcomes /\ Due' = Due
  BY <1>1 DEF Outcomes, Due, IsDue
<1>14. QED
  BY <1>1, <1>12, <1>13

LEMMA BeginInTime ==
    ASSUME FInv, IInv', NEW t \in Threads, Begin(t)
    PROVE  /\ FInv'
           /\ \/ ReadyOnly
              \/ \E e \in Events : Starts(e)
              \/ shut' = TRUE /\ Outcomes' = Outcomes /\ Due' = Due
<1>1. CASE \E e \in Events : Entry(t, e)
  <2>1. PICK e \in Events : Entry(t, e)
    BY <1>1
  <2>2. PICK new : Makes(t, e, new)
    BY <2>1, EntryMakes DEF FInv
  <2>3. QED
    BY <2>2, MakeInTime
<1>2. CASE \E e \in Events : WorkerDone(t, e) \/ UnmapEarly(t, e)
  BY <1>2, WorkerDoneInTime, UnmapEarlyInTime
<1>3. CASE ProcessPollEvents(t)
  <2> DEFINE futures == {e \in tracked : event[e].mode # "WaitAnyOnly"}
  <2>1. /\ WaitImpl(t, futures, "untrackPolled")
        /\ UNCHANGED <<event, shut, working, submitted, passed>>
    BY <1>3 DEF ProcessPollEvents, manager, serials
  <2>2. futures \subseteq tracked
    OBVIOUS
  <2> HIDE DEF futures
  <2>3. QED
    BY <2>1, <2>2, WaitImplInTime
<1>4. CASE WaitAny(t)
  <2>1. UNCHANGED <<event, shut, working, submitted, passed>>
    BY <1>4 DEF WaitAny, manager, serials
  <2>2. PICK futures \in (SUBSET (tracked \ {Lost})) \ {{}} : WaitImpl(t, futures, "untrackWaited")
    BY <1>4 DEF WaitAny
  <2>3. futures \subseteq tracked
    BY <2>2
  <2>4. QED
    BY <2>1, <2>2, <2>3, WaitImplInTime
<1>5. CASE APITick(t) \/ APITickFails(t)
  BY <1>5, TickInTime
<1>6. CASE ShutDown(t)
  BY <1>6, ShutDownInTime
<1>7. QED
  BY <1>1, <1>2, <1>3, <1>4, <1>5, <1>6 DEF Begin, Entry

LEMMA InitInTime == Init => FInv
<1> SUFFICES ASSUME Init PROVE FInv
  OBVIOUS
<1>1. IInv
  BY InitInvariant
<1>2. PICK mode \in LostModes :
        event = [e \in Events |->
                   IF e = Lost
                   THEN [Unmade(mode) EXCEPT !.kind = "system", !.id = 1, !.outcome = "pending"]
                   ELSE Unmade("WaitAnyOnly")]
  BY DEF Init
<1>3. /\ working = {Lost} /\ wait = [t \in Threads |-> NoWait]
      /\ todo = [t \in Threads |-> <<>>] /\ submitted = 0 /\ passed = 0
  BY DEF Init
<1>4. /\ event[Lost].kind = "system"
      /\ \A e \in Events \ {Lost} : event[e].kind = "none" /\ event[e].outcome = "none"
  BY <1>2, NoEventIsNone DEF Unmade
<1>5. Numbers
  BY <1>3, <1>4, NoEventIsNone DEF Numbers, Signalable
<1>6. InTime
  BY <1>3, NoSteps DEF InTime, NoWait
<1>7. QED
  BY <1>1, <1>5, <1>6 DEF FInv

LEMMA NextInTime == FInv /\ [Next]_vars => FInv'
<1> SUFFICES ASSUME FInv, [Next]_vars PROVE FInv'
  OBVIOUS
<1>1. IInv'
  BY NextInvariant DEF FInv
<1>2. CASE Next
  BY <1>1, <1>2, BeginInTime, ContinueInTime DEF Next
<1>3. CASE UNCHANGED vars
  <2>1. UNCHANGED <<event, shut, working, wait, todo, submitted, passed>>
    BY <1>3 DEF vars, manager, serials
  <2>2. Numbers' /\ InTime'
    BY <2>1 DEF FInv, Numbers, InTime, Due, IsDue, Signalable, Signaled
  <2>3. QED
    BY <1>1, <2>2 DEF FInv
<1>4. QED
  BY <1>2, <1>3

(* Whichever thread gets to an event first, its callback is called once,   *)
(* and with what is true: that the event is ready only after it was        *)
(* signaled or its serial has passed, and that the instance is gone only   *)
(* after ShutDown (EventManager.h:44-55, 67-70, EventManager.cpp:347-463). *)
THEOREM ImplementsFutures == Spec => KeepsFutures
<1>1. {e \in Events : event[e].kind # "none" /\ (IsDue(e) \/ event[e].early)} = Due
  BY DEF Due
<1>2. ASSUME Init PROVE Promise!Init
  <2>1. PICK mode \in LostModes :
          event = [e \in Events |->
                     IF e = Lost
                     THEN [Unmade(mode) EXCEPT !.kind = "system", !.id = 1, !.outcome = "pending"]
                     ELSE Unmade("WaitAnyOnly")]
    BY <1>2 DEF Init
  <2>2. /\ \A e \in Events : /\ event[e].outcome \in {"none", "pending"}
                             /\ ~event[e].signaled /\ ~event[e].early
        /\ \A e \in Events : event[e].kind \in {"none", "system"}
    BY <2>1 DEF Unmade
  <2>3. Due = {} /\ shut = FALSE
    BY <1>2, <2>2 DEF Due, IsDue, Init
  <2>4. QED
    BY <1>1, <2>2, <2>3 DEF Promise!Init
<1>3. ASSUME FInv, [Next]_vars PROVE [Promise!Next]_(Promise!futureVars)
  <2>1. {e \in Events : event'[e].kind # "none" /\ (IsDue(e)' \/ event'[e].early)} = Due'
    BY DEF Due
  <2>2. IInv'
    BY <1>3, NextInvariant DEF FInv
  <2>3. CASE ReadyOnly
    <3>1. Outcomes' = Outcomes /\ Due \subseteq Due' /\ shut' = shut
      BY <2>3 DEF ReadyOnly, Outcomes
    <3>2. Promise!BecomeReady
      BY <1>1, <2>1, <3>1 DEF Promise!BecomeReady, Outcomes
    <3>3. QED
      BY <3>2 DEF Promise!Next
  <2>4. CASE \E e \in Events : Starts(e)
    <3>1. PICK e \in Events : Starts(e)
      BY <2>4
    <3>2. Promise!Make(e)
      BY <1>1, <2>1, <3>1 DEF Promise!Make, Starts, Outcomes
    <3>3. QED
      BY <3>2 DEF Promise!Next
  <2>5. CASE \E e \in Due : Ended(e, "ready")
    <3>1. PICK e \in Due : Ended(e, "ready")
      BY <2>5
    <3>2. e \in Events
      BY DEF Due
    <3>3. Promise!Ready(e)
      BY <1>1, <2>1, <3>1 DEF Promise!Ready, Ended, Outcomes
    <3>4. QED
      BY <3>2, <3>3 DEF Promise!Next
  <2>6. CASE shut /\ \E e \in Events : Ended(e, "shutdown")
    <3>1. PICK e \in Events : Ended(e, "shutdown")
      BY <2>6
    <3>2. Promise!ShutDown(e)
      BY <1>1, <2>1, <2>6, <3>1 DEF Promise!ShutDown, Ended, Outcomes
    <3>3. QED
      BY <3>2 DEF Promise!Next
  <2>7. CASE shut' = TRUE /\ Outcomes' = Outcomes /\ Due' = Due
    <3>1. Promise!Close
      BY <1>1, <2>1, <2>7 DEF Promise!Close, Outcomes
    <3>2. QED
      BY <3>1 DEF Promise!Next
  <2>8. CASE UNCHANGED vars
    <3>1. ReadyOnly
      BY <2>8 DEF vars, manager, serials, ReadyOnly, Due, IsDue
    <3>2. QED
      BY <2>3, <3>1
  <2>9. CASE Next
    BY <1>3, <2>2, <2>3, <2>4, <2>5, <2>6, <2>7, <2>9, BeginInTime, ContinueInTime DEF Next
  <2>10. QED
    BY <1>3, <2>8, <2>9
<1>4. QED
  BY <1>2, <1>3, InitInTime, NextInTime, PTL DEF Spec, KeepsFutures, Promise!Spec
=============================================================================
