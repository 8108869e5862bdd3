------------------------- MODULE TeckReader_proofs -------------------------
(***************************************************************************)
(* Proofs about TeckReader, for every set of paths, contents and blocks:   *)
(* its types, what it owns, what it lends and the state in which its       *)
(* calls leave the stream.                                                 *)
(***************************************************************************)
EXTENDS TeckReader, TLAPS, SequenceTheorems, FiniteSetTheorems

(* A nonempty set of indices has a least one (the sets 1..i are well       *)
(* founded under inclusion).                                               *)
LEMMA LeastElement ==
    ASSUME NEW n \in Nat, NEW S \in SUBSET (1..n), S # {}
    PROVE  Min(S) \in S /\ \A y \in S : Min(S) <= y
<1> DEFINE T == {1..i : i \in S}
<1>1. T # {} /\ T \subseteq FiniteSubsetsOf(1..n)
  <2>1. IsFiniteSet(1..n)
    BY FS_Interval
  <2>2. FiniteSubsetsOf(1..n) = SUBSET (1..n)
    BY <2>1, FS_FiniteSubsetsOfFinite, Zenon
  <2>3. \A i \in S : 1..i \in SUBSET (1..n)
    OBVIOUS
  <2>4. T \subseteq SUBSET (1..n)
    BY <2>3, Zenon
  <2>5. T # {}
    BY Zenon
  <2> QED
    BY <2>2, <2>4, <2>5, Zenon
<1>2. PICK U \in T : \A V \in T : ~(<<V, U>> \in StrictSubsetOrdering(1..n))
  BY <1>1, FS_StrictSubsetOrderingWellFounded, WFMin, Zenon
<1>3. PICK x \in S : U = 1..x
  OBVIOUS
<1>4. \A y \in S : x <= y
  <2>1. SUFFICES ASSUME NEW y \in S, y < x PROVE FALSE
    OBVIOUS
  <2>2. 1..y \subseteq 1..x /\ x \in 1..x /\ x \notin 1..y
    BY <2>1
  <2>3. <<1..y, U>> \in StrictSubsetOrdering(1..n)
    BY <2>2, <1>3 DEF StrictSubsetOrdering
  <2> QED
    BY <2>3, <1>2
<1> QED
  BY <1>4 DEF Min

(* First finds the first place of a character, or is 0.                    *)
LEMMA FirstIndex ==
    ASSUME NEW s \in Seq(Chars), NEW c
    PROVE  /\ First(c, s) \in 0..Len(s)
           /\ First(c, s) = 0 => \A i \in 1..Len(s) : s[i] # c
           /\ First(c, s) # 0 =>
                 s[First(c, s)] = c /\ \A i \in 1..(First(c, s) - 1) : s[i] # c
<1> DEFINE I == {i \in 1..Len(s) : s[i] = c}
<1>1. First(c, s) = IF I # {} THEN Min(I) ELSE 0
  BY DEF First, SelectInSeq
<1>2. Len(s) \in Nat /\ I \in SUBSET (1..Len(s))
  OBVIOUS
<1>3. CASE I = {}
  BY <1>1, <1>2, <1>3
<1>4. CASE I # {}
  <2>1. First(c, s) \in I /\ \A y \in I : First(c, s) <= y
    BY <1>1, <1>2, <1>4, LeastElement
  <2> QED
    BY <2>1, <1>2
<1> QED
  BY <1>3, <1>4

(* A part of a string is a string.                                         *)
LEMMA SubSeqType ==
    ASSUME NEW s \in Seq(Chars), NEW m \in Nat \ {0}, NEW n \in 0..Len(s)
    PROVE  SubSeq(s, m, n) \in Seq(Chars)
<1>1. \A i \in m..n : s[i] \in Chars
  OBVIOUS
<1> QED
  BY <1>1, SubSeqProperties

LEMMA LineEndType ==
    ASSUME rest \in Seq(Chars)
    PROVE  LineEnd \in 0..Len(rest)
<1> QED
  BY FirstIndex DEF LineEnd

LEMMA CStringType ==
    ASSUME NEW s \in Seq(Chars)
    PROVE  CString(s) \in Seq(Chars)
<1>1. First("nul", s) \in 0..Len(s)
  BY FirstIndex
<1>2. CASE First("nul", s) # 0
  <2>1. First("nul", s) - 1 \in 0..Len(s)
    BY <1>1, <1>2
  <2> QED
    BY <2>1, <1>2, SubSeqType DEF CString
<1>3. CASE First("nul", s) = 0
  BY <1>3 DEF CString
<1> QED
  BY <1>2, <1>3
-----------------------------------------------------------------------------
(* The stream is open only while a call reads it.                          *)
OpenWhileReading == isOpen => pc = "Read"

(* Before it stores a new text, a call has given up the old one, and by    *)
(* then the stream has failed or ended.                                    *)
OldTextGone == pc = "SetMemory" => m_Memory = None
StreamUsedUp == pc \in {"ClearMemory", "SetMemory"} => ~good

(* The inductive invariant.                                                *)
IInv ==
    /\ TypeOK
    /\ OwnsItsMemory
    /\ ReturnedTextStays
    /\ OpenWhileReading
    /\ OldTextGone
    /\ StreamUsedUp

LEMMA InitIInv == Init => IInv
<1> SUFFICES ASSUME Init PROVE IInv
  OBVIOUS
<1>1. TypeOK
  <2>1. <<>> \in Seq(Chars)
    OBVIOUS
  <2>2. isOpen \in BOOLEAN /\ good \in BOOLEAN
    BY DEF Init
  <2> QED
    BY <2>1, <2>2 DEF Init, TypeOK
<1>2. OwnsItsMemory
  BY DEF Init, OwnsItsMemory, Live
<1>3. ReturnedTextStays /\ OpenWhileReading /\ OldTextGone /\ StreamUsedUp
  BY DEF Init, ReturnedTextStays, OpenWhileReading, OldTextGone, StreamUsedUp
<1> QED
  BY <1>1, <1>2, <1>3 DEF IInv

(* Freeing the reader's block leaves no block alive.                       *)
LEMMA FreeLemma ==
    ASSUME TypeOK, OwnsItsMemory, FreeMemory
    PROVE  /\ heap' \in [Blocks -> Seq(Chars) \union {None}]
           /\ m_Memory' = None
           /\ OwnsItsMemory'
<1>1. heap' \in [Blocks -> Seq(Chars) \union {None}] /\ m_Memory' = None
  BY DEF TypeOK, FreeMemory
<1>2. \A b \in Blocks : heap'[b] = None
  BY DEF TypeOK, FreeMemory, OwnsItsMemory, Live
<1> QED
  BY <1>1, <1>2 DEF OwnsItsMemory, Live

LEMMA OpenPreserves == ASSUME IInv, NEW path \in Paths, Open(path) PROVE IInv'
<1>1. TypeOK'
  <2>1. disk[path] \in Seq(Chars) \union {Missing}
    BY ContentsAssumption DEF IInv, TypeOK
  <2>2. rest' \in Seq(Chars)
    <3>1. rest \in Seq(Chars) /\ <<>> \in Seq(Chars)
      BY DEF IInv, TypeOK
    <3>2. rest' = rest \/ rest' = <<>> \/ (rest' = disk[path] /\ disk[path] # Missing)
      BY DEF Open, StreamOpen
    <3> QED
      BY <2>1, <3>1, <3>2
  <2>3. isOpen' \in BOOLEAN /\ good' \in BOOLEAN
    <3>1. isOpen \in BOOLEAN
      BY DEF IInv, TypeOK
    <3>2. CASE isOpen
      BY <3>1, <3>2 DEF Open, StreamOpen
    <3>3. CASE ~isOpen
      BY <3>3 DEF Open, StreamOpen
    <3> QED
      BY <3>2, <3>3
  <2>4. content' \in Seq(Chars)
    BY DEF Open
  <2> QED
    BY <2>2, <2>3, <2>4 DEF IInv, TypeOK, Open, memory
<1>2. OwnsItsMemory'
  BY DEF IInv, OwnsItsMemory, Live, Open, memory
<1>3. ReturnedTextStays' /\ OpenWhileReading' /\ OldTextGone' /\ StreamUsedUp'
  BY DEF Open, ReturnedTextStays, OpenWhileReading, OldTextGone, StreamUsedUp
<1> QED
  BY <1>1, <1>2, <1>3 DEF IInv

LEMMA EditPreserves == ASSUME IInv, NEW path \in Paths, Edit(path) PROVE IInv'
<1>1. TypeOK'
  BY DEF IInv, TypeOK, Edit, stream, memory
<1>2. OwnsItsMemory'
  BY DEF IInv, OwnsItsMemory, Live, Edit, memory
<1>3. ReturnedTextStays' /\ OpenWhileReading' /\ OldTextGone' /\ StreamUsedUp'
  BY DEF IInv, Edit, stream, memory, ReturnedTextStays, OpenWhileReading, OldTextGone,
         StreamUsedUp
<1> QED
  BY <1>1, <1>2, <1>3 DEF IInv

LEMMA ReadLinePreserves == ASSUME IInv, ReadLine PROVE IInv'
<1>1. TypeOK'
  <2>1. rest \in Seq(Chars) /\ content \in Seq(Chars) /\ "newline" \in Chars
    BY DEF IInv, TypeOK, Chars
  <2>2. CASE LineEnd > 0
    <3>1. LineEnd \in 1..Len(rest)
      BY <2>1, <2>2, LineEndType
    <3>2. SubSeq(rest, 1, LineEnd) \in Seq(Chars)
      BY <2>1, <3>1, SubSeqType
    <3>3. SubSeq(rest, LineEnd + 1, Len(rest)) \in Seq(Chars)
      BY <2>1, <3>1, SubSeqType
    <3>4. /\ content' = content \o SubSeq(rest, 1, LineEnd)
          /\ rest' = SubSeq(rest, LineEnd + 1, Len(rest))
      BY <2>2 DEF ReadLine
    <3>5. content' \in Seq(Chars) /\ rest' \in Seq(Chars)
      BY <2>1, <3>2, <3>3, <3>4
    <3>6. good' \in BOOLEAN
      BY <2>2 DEF ReadLine
    <3> QED
      BY <3>5, <3>6 DEF IInv, TypeOK, ReadLine, memory
  <2>3. CASE ~(LineEnd > 0)
    <3>1. Append(content \o rest, "newline") \in Seq(Chars) /\ <<>> \in Seq(Chars)
      BY <2>1
    <3> QED
      BY <2>3, <3>1 DEF IInv, TypeOK, ReadLine, memory
  <2> QED
    BY <2>2, <2>3
<1>2. OwnsItsMemory'
  BY DEF IInv, OwnsItsMemory, Live, ReadLine, memory
<1>3. ReturnedTextStays' /\ OpenWhileReading' /\ OldTextGone' /\ StreamUsedUp'
  BY DEF IInv, ReadLine, ReturnedTextStays, OpenWhileReading, OldTextGone, StreamUsedUp
<1> QED
  BY <1>1, <1>2, <1>3 DEF IInv

LEMMA ReadDonePreserves == ASSUME IInv, ReadDone PROVE IInv'
<1>1. TypeOK'
  BY DEF IInv, TypeOK, ReadDone, memory
<1>2. OwnsItsMemory'
  BY DEF IInv, OwnsItsMemory, Live, ReadDone, memory
<1>3. ReturnedTextStays' /\ OpenWhileReading' /\ OldTextGone' /\ StreamUsedUp'
  BY DEF ReadDone, ReturnedTextStays, OpenWhileReading, OldTextGone, StreamUsedUp
<1> QED
  BY <1>1, <1>2, <1>3 DEF IInv

LEMMA ClearPreserves == ASSUME IInv, ClearMemory PROVE IInv'
<1>1. /\ heap' \in [Blocks -> Seq(Chars) \union {None}]
      /\ m_Memory' = None
      /\ OwnsItsMemory'
  BY FreeLemma DEF IInv, ClearMemory
<1>2. TypeOK'
  BY <1>1 DEF IInv, TypeOK, ClearMemory, stream
<1>3. ReturnedTextStays' /\ OpenWhileReading' /\ OldTextGone' /\ StreamUsedUp'
  BY <1>1 DEF IInv, ClearMemory, stream, ReturnedTextStays, OpenWhileReading, OldTextGone,
              StreamUsedUp
<1> QED
  BY <1>1, <1>2, <1>3 DEF IInv

LEMMA SetPreserves == ASSUME IInv, SetMemory PROVE IInv'
<1>1. PICK b \in Blocks :
          /\ heap[b] = None
          /\ heap' = [heap EXCEPT ![b] = CString(content)]
          /\ m_Memory' = b
          /\ returned' = [block |-> b, text |-> CString(content)]
  BY DEF SetMemory
<1>2. CString(content) \in Seq(Chars)
  BY CStringType DEF IInv, TypeOK
<1>3. TypeOK'
  BY <1>1, <1>2 DEF IInv, TypeOK, SetMemory, stream
<1>4. OwnsItsMemory'
  <2>1. Live = {}
    BY DEF IInv, OwnsItsMemory, OldTextGone, SetMemory
  <2>2. CString(content) # None /\ b # None
    BY <1>2, NoneAssumption
  <2>3. \A c \in Blocks : heap'[c] # None <=> c = b
    BY <1>1, <2>1, <2>2 DEF IInv, TypeOK, Live
  <2> QED
    BY <1>1, <2>2, <2>3 DEF OwnsItsMemory, Live
<1>5. ReturnedTextStays'
  BY <1>1 DEF IInv, TypeOK, ReturnedTextStays
<1>6. OpenWhileReading' /\ OldTextGone' /\ StreamUsedUp'
  BY DEF IInv, SetMemory, stream, OpenWhileReading, OldTextGone, StreamUsedUp
<1> QED
  BY <1>3, <1>4, <1>5, <1>6 DEF IInv

LEMMA DestroyPreserves == ASSUME IInv, Destroy PROVE IInv'
<1>1. /\ heap' \in [Blocks -> Seq(Chars) \union {None}]
      /\ m_Memory' = None
      /\ OwnsItsMemory'
  BY FreeLemma DEF IInv, Destroy
<1>2. TypeOK'
  BY <1>1 DEF IInv, TypeOK, Destroy
<1>3. ReturnedTextStays' /\ OpenWhileReading' /\ OldTextGone' /\ StreamUsedUp'
  BY DEF Destroy, ReturnedTextStays, OpenWhileReading, OldTextGone, StreamUsedUp
<1> QED
  BY <1>1, <1>2, <1>3 DEF IInv

LEMMA StepIInv == IInv /\ [Next]_vars => IInv'
<1> SUFFICES ASSUME IInv, [Next]_vars PROVE IInv'
  OBVIOUS
<1>1. ASSUME NEW path \in Paths, Open(path) PROVE IInv'
  BY <1>1, OpenPreserves
<1>2. ASSUME NEW path \in Paths, Edit(path) PROVE IInv'
  BY <1>2, EditPreserves
<1>3. CASE ReadLine
  BY <1>3, ReadLinePreserves
<1>4. CASE ReadDone
  BY <1>4, ReadDonePreserves
<1>5. CASE ClearMemory
  BY <1>5, ClearPreserves
<1>6. CASE SetMemory
  BY <1>6, SetPreserves
<1>7. CASE Destroy
  BY <1>7, DestroyPreserves
<1>8. CASE UNCHANGED vars
  BY <1>8 DEF vars, stream, memory, IInv, TypeOK, OwnsItsMemory, Live, ReturnedTextStays,
              OpenWhileReading, OldTextGone, StreamUsedUp
<1> QED
  BY <1>1, <1>2, <1>3, <1>4, <1>5, <1>6, <1>7, <1>8 DEF Next, Step, Ended

(* Every state of the reader satisfies the inductive invariant.            *)
THEOREM ReaderInvariant == Spec => []IInv
  BY InitIInv, StepIInv, PTL DEF Spec

(* Every variable keeps its type: strings stay strings through the loop    *)
(* over the lines, the cut at a NUL and the copy to the heap.              *)
THEOREM ReaderTypeCorrect == Spec => []TypeOK
<1>1. IInv => TypeOK
  BY DEF IInv
<1> QED
  BY <1>1, ReaderInvariant, PTL

(* The reader owns exactly the block that is alive: nothing leaks and      *)
(* nothing is freed twice, however many calls there are.                   *)
THEOREM NothingLeaks == Spec => []OwnsItsMemory
<1>1. IInv => OwnsItsMemory
  BY DEF IInv
<1> QED
  BY <1>1, ReaderInvariant, PTL

(* The pointer that ReadTextFile returned is good until the next call.     *)
THEOREM TextStays == Spec => []ReturnedTextStays
<1>1. IInv => ReturnedTextStays
  BY DEF IInv
<1> QED
  BY <1>1, ReaderInvariant, PTL

(* No call finds the stream of an earlier one still open.                  *)
THEOREM StreamsClosed == Spec => []ClosedBetweenCalls
<1>1. IInv => ClosedBetweenCalls
  BY DEF IInv, OpenWhileReading, ClosedBetweenCalls
<1> QED
  BY <1>1, ReaderInvariant, PTL
-----------------------------------------------------------------------------
(* Refinement of TextStore: initial states and steps.                      *)

LEMMA CutLemma == ASSUME NEW s \in Seq(Chars) PROVE CString(s) = Store!UpToNul(s)
<1> DEFINE I == {i \in 1..Len(s) : s[i] = "nul"}
<1>1. First("nul", s) = IF I # {} THEN Min(I) ELSE 0
  BY DEF First, SelectInSeq
<1>2. Len(s) \in Nat /\ I \in SUBSET (1..Len(s))
  OBVIOUS
<1>3. Store!UpToNul(s) = IF I = {} THEN s ELSE SubSeq(s, 1, Min(I) - 1)
  BY DEF Store!UpToNul, Store!Min, Min
<1>4. CASE I = {}
  <2>1. First("nul", s) = 0
    BY <1>1, <1>4
  <2> QED
    BY <2>1, <1>3, <1>4 DEF CString
<1>5. CASE I # {}
  <2>1. Min(I) \in I
    BY <1>2, <1>5, LeastElement
  <2>2. Min(I) # 0
    BY <2>1
  <2>3. First("nul", s) = Min(I)
    BY <1>1, <1>5
  <2> QED
    BY <2>2, <2>3, <1>3, <1>5 DEF CString
<1> QED
  BY <1>4, <1>5

LEMMA RemainingType == ASSUME TypeOK PROVE Remaining \in Seq(Chars)
<1>1. "newline" \in Chars /\ rest \in Seq(Chars)
  BY DEF TypeOK, Chars
<1> QED
  BY <1>1 DEF Remaining

(* Cutting a text in two and joining the parts gives the text.             *)
LEMMA CutAndJoin ==
    ASSUME NEW s \in Seq(Chars), NEW k \in 1..Len(s)
    PROVE  SubSeq(s, 1, k) \o SubSeq(s, k + 1, Len(s)) = s
<1>1. SubSeq(s, 1, k) \o SubSeq(s, k + 1, Len(s)) = SubSeq(s, 1, Len(s))
  BY ConcatAdjacentSubSeq
<1> QED
  BY <1>1, SubSeqFull

(* Joining texts from the left or from the right is the same.              *)
LEMMA Join ==
    ASSUME NEW s \in Seq(Chars), NEW t \in Seq(Chars), NEW u \in Seq(Chars)
    PROVE  (s \o t) \o u = s \o (t \o u)
<1> QED
  BY ConcatAssociative, SMTT(30)

LEMMA AddNewline ==
    ASSUME NEW s \in Seq(Chars)
    PROVE  Append(s, "newline") = s \o <<"newline">>
<1>1. "newline" \in Chars
  BY DEF Chars
<1> QED
  BY <1>1, AppendIsConcat

(* A turn of the line loop moves text from what remains to what was read.  *)
LEMMA LineKeepsText ==
    ASSUME IInv, ReadLine
    PROVE  content' \o Remaining' = content \o Remaining
<1>1. /\ rest \in Seq(Chars) /\ content \in Seq(Chars) /\ rest # <<>> /\ good
      /\ <<"newline">> \in Seq(Chars)
  BY DEF IInv, TypeOK, ReadLine, Chars
<1>2. Len(rest) \in Nat /\ Len(rest) > 0
  BY <1>1
<1>3. CASE LineEnd > 0
  <2>1. LineEnd \in 1..Len(rest) /\ rest[LineEnd] = "newline"
    BY <1>1, <1>3, FirstIndex DEF LineEnd
  <2> DEFINE a == SubSeq(rest, 1, LineEnd)
             b == SubSeq(rest, LineEnd + 1, Len(rest))
  <2>2. a \in Seq(Chars) /\ b \in Seq(Chars)
    BY <1>1, <2>1, SubSeqType
  <2>3. a \o b = rest
    BY <1>1, <2>1, CutAndJoin
  <2>4. content' = content \o a /\ rest' = b /\ good' = TRUE
    BY <1>3 DEF ReadLine
  <2>5. Len(b) = Len(rest) - LineEnd /\ \A i \in 1..Len(b) : b[i] = rest[i + LineEnd]
    BY <1>1, <2>1
  <2>6. CASE b = <<>>
    <3> HIDE DEF a, b
    <3>1. LineEnd = Len(rest)
      <4>1. Len(b) = 0
        BY <2>6
      <4> QED
        BY <4>1, <2>1, <2>5, <1>2
    <3>2. Remaining = rest
      BY <1>1, <2>1, <3>1 DEF Remaining, Last
    <3>3. Remaining' = <<>>
      BY <2>4, <2>6 DEF Remaining
    <3>4. rest = a
      BY <2>2, <2>3, <2>6
    <3> QED
      BY <1>1, <2>2, <2>4, <3>2, <3>3, <3>4
  <2>7. CASE b # <<>>
    <3> HIDE DEF a, b
    <3>1. Last(b) = Last(rest)
      <4>1. Len(b) \in 1..Len(b)
        BY <2>2, <2>7
      <4>2. b[Len(b)] = rest[Len(rest)]
        BY <4>1, <2>1, <2>5, <1>2
      <4> QED
        BY <4>2 DEF Last
    <3>2. CASE Last(rest) = "newline"
      <4>1. Remaining = rest /\ Remaining' = b
        BY <1>1, <2>4, <2>7, <3>1, <3>2 DEF Remaining
      <4> QED
        BY <4>1, <1>1, <2>2, <2>3, <2>4, Join
    <3>3. CASE Last(rest) # "newline"
      <4>1. Remaining = rest \o <<"newline">> /\ Remaining' = b \o <<"newline">>
        BY <1>1, <2>2, <2>4, <2>7, <3>1, <3>3, AddNewline DEF Remaining
      <4>2. a \o (b \o <<"newline">>) = rest \o <<"newline">>
        BY <1>1, <2>2, <2>3, Join
      <4>3. b \o <<"newline">> \in Seq(Chars)
        BY <1>1, <2>2
      <4>4. (content \o a) \o (b \o <<"newline">>) = content \o (a \o (b \o <<"newline">>))
        BY <4>3, <1>1, <2>2, Join
      <4> QED
        BY <4>1, <4>2, <4>4, <2>4
    <3> QED
      BY <3>2, <3>3
  <2> QED
    BY <2>6, <2>7
<1>4. CASE ~(LineEnd > 0)
  <2>1. Last(rest) # "newline"
    BY <1>1, <1>2, <1>4, FirstIndex DEF LineEnd, Last
  <2>2. Remaining = rest \o <<"newline">>
    BY <1>1, <2>1, AddNewline DEF Remaining
  <2>3. Remaining' = <<>> /\ content' = Append(content \o rest, "newline")
    BY <1>4 DEF ReadLine, Remaining
  <2>4. content' = (content \o rest) \o <<"newline">>
    BY <1>1, <2>3, AddNewline
  <2>5. content' \o Remaining' = (content \o rest) \o <<"newline">>
    BY <1>1, <2>3, <2>4
  <2> QED
    BY <1>1, <2>2, <2>5, Join
<1> QED
  BY <1>3, <1>4

(* What is wanted after a step, in terms of the text after it.             *)
LEMMA WantedNext ==
    Wanted' = IF pc' \in {"idle", "destroyed"} THEN None
              ELSE CString(content' \o Remaining')
<1> QED
  BY DEF Wanted, CString, First, SelectInSeq, Min

(* A call begins with the text of its file still to be read.               *)
LEMMA CallWants ==
    ASSUME IInv, NEW path \in Paths, Open(path)
    PROVE  Wanted' = Store!TextOf(disk[path])
<1>1. ~isOpen /\ pc' = "Read" /\ content' = <<>>
  BY DEF IInv, OpenWhileReading, Open
<1>2. Wanted' = CString(<<>> \o Remaining')
  BY <1>1, WantedNext
<1>3. CASE disk[path] = Missing
  <2>1. good' = FALSE
    BY <1>1, <1>3 DEF Open, StreamOpen
  <2>2. Remaining' = <<>>
    BY <2>1 DEF Remaining
  <2>3. Wanted' = CString(<<>>)
    BY <1>2, <2>2
  <2>4. First("nul", <<>>) = 0
    <3>1. <<>> \in Seq(Chars)
      OBVIOUS
    <3>2. First("nul", <<>>) \in 0..Len(<<>>)
      BY <3>1, FirstIndex
    <3> QED
      BY <3>2
  <2> QED
    BY <2>3, <2>4, <1>3 DEF CString, Store!TextOf
<1>4. CASE disk[path] # Missing
  <2>1. good' = TRUE /\ rest' = disk[path]
    BY <1>1, <1>4 DEF Open, StreamOpen
  <2>2. disk[path] \in Seq(Chars)
    BY <1>4, ContentsAssumption DEF IInv, TypeOK
  <2>3. Remaining' = Store!EndLine(disk[path])
    BY <2>1 DEF Remaining, Store!EndLine, Store!Last, Last
  <2>4. Remaining' \in Seq(Chars)
    <3>1. "newline" \in Chars
      BY DEF Chars
    <3> QED
      BY <2>1, <2>2, <3>1 DEF Remaining
  <2>5. Wanted' = CString(Remaining')
    BY <1>2, <2>4
  <2> QED
    BY <2>3, <2>4, <2>5, <1>4, CutLemma DEF Store!TextOf
<1> QED
  BY <1>3, <1>4

(* When the stream has failed or ended, nothing remains to be read.        *)
LEMMA NothingRemains ==
    ASSUME IInv, ~(good /\ rest # <<>>)
    PROVE  Remaining = <<>> /\ content \o Remaining = content
<1>1. Remaining = <<>> /\ content \in Seq(Chars)
  BY DEF IInv, TypeOK, Remaining
<1> QED
  BY <1>1

LEMMA InitStore == Init => Store!Init
<1> SUFFICES ASSUME Init PROVE Store!Init
  OBVIOUS
<1>1. Wanted = None /\ Lent = None
  BY DEF Init, Wanted, Lent
<1> QED
  BY <1>1 DEF Init, Store!Init

(* Freeing the block revokes what was lent; nothing to free is a stutter.  *)
LEMMA FreeRevokes ==
    ASSUME IInv, FreeMemory
    PROVE  Lent' = None /\ (Lent = None => m_Memory = None)
<1>1. m_Memory' = None
  BY DEF FreeMemory
<1>2. m_Memory # None => heap[m_Memory] # None
  BY DEF IInv, TypeOK, OwnsItsMemory, Live
<1> QED
  BY <1>1, <1>2 DEF Lent

LEMMA StepStore == IInv /\ [Next]_vars => [Store!Next]_(Store!vars)
<1> SUFFICES ASSUME IInv, [Next]_vars PROVE [Store!Next]_(Store!vars)
  OBVIOUS
<1> USE DEF Store!vars
<1>1. ASSUME NEW path \in Paths, Open(path) PROVE Store!Call(path)
  <2>1. Wanted' = Store!TextOf(disk[path])
    BY <1>1, CallWants
  <2>2. Wanted = None /\ Lent' = Lent /\ disk' = disk
    BY <1>1 DEF Open, memory, Wanted, Lent
  <2> QED
    BY <2>1, <2>2 DEF Store!Call
<1>2. ASSUME NEW path \in Paths, Edit(path)
      PROVE  \E c \in Contents \union {Missing} : Store!Edit(path, c)
  <2>1. PICK c \in Contents \union {Missing} : disk' = [disk EXCEPT ![path] = c]
    BY <1>2 DEF Edit
  <2>2. Wanted = None /\ Wanted' = None /\ Lent' = Lent
    BY <1>2 DEF Edit, memory, Wanted, Lent
  <2> QED
    BY <2>1, <2>2 DEF Store!Edit
<1>3. CASE ReadLine
  <2>1. content' \o Remaining' = content \o Remaining
    BY <1>3, LineKeepsText
  <2>2. Wanted = CString(content \o Remaining) /\ Wanted' = CString(content' \o Remaining')
    BY <1>3, WantedNext DEF ReadLine, Wanted
  <2>3. Lent' = Lent /\ disk' = disk
    BY <1>3 DEF ReadLine, memory, Lent
  <2> QED
    BY <2>1, <2>2, <2>3
<1>4. CASE ReadDone
  <2>1. content \o Remaining = content
    BY <1>4, NothingRemains DEF ReadDone
  <2>2. content' \o Remaining' = content
    BY <1>4, ReadDonePreserves, <2>1 DEF ReadDone, Remaining, IInv, TypeOK
  <2>3. Wanted = CString(content \o Remaining) /\ Wanted' = CString(content' \o Remaining')
    BY <1>4, WantedNext DEF ReadDone, Wanted
  <2>4. Lent' = Lent /\ disk' = disk
    BY <1>4 DEF ReadDone, memory, Lent
  <2> QED
    BY <2>1, <2>2, <2>3, <2>4
<1>5. CASE ClearMemory
  <2>1. Wanted = CString(content \o Remaining) /\ Wanted' = CString(content' \o Remaining')
    BY <1>5, WantedNext DEF ClearMemory, Wanted
  <2>2. Remaining' = Remaining /\ content' = content /\ disk' = disk
    BY <1>5 DEF ClearMemory, stream, Remaining
  <2>3. Wanted' = Wanted
    BY <2>1, <2>2
  <2>4. Lent' = None
    BY <1>5, FreeRevokes DEF ClearMemory
  <2>5. CASE Lent = None
    BY <2>2, <2>3, <2>4, <2>5
  <2>6. CASE Lent # None
    <3>1. Wanted # None
      <4>1. content \o Remaining \in Seq(Chars)
        BY RemainingType DEF IInv, TypeOK
      <4> QED
        BY <2>1, <4>1, CStringType, NoneAssumption
    <3>2. Store!Revoke
      BY <3>1, <2>2, <2>3, <2>4, <2>6 DEF Store!Revoke
    <3> QED
      BY <3>2 DEF Store!Next
  <2> QED
    BY <2>5, <2>6
<1>6. CASE SetMemory
  <2>1. content \o Remaining = content
    BY <1>6, NothingRemains DEF IInv, StreamUsedUp, SetMemory
  <2>2. Wanted = CString(content) /\ Wanted' = None /\ disk' = disk
    BY <1>6, <2>1 DEF SetMemory, Wanted
  <2>3. CString(content) \in Seq(Chars)
    BY CStringType DEF IInv, TypeOK
  <2>4. Lent = None
    BY <1>6 DEF IInv, OldTextGone, SetMemory, Lent
  <2>5. Lent' = CString(content)
    <3>1. PICK b \in Blocks :
              /\ heap' = [heap EXCEPT ![b] = CString(content)]
              /\ m_Memory' = b
      BY <1>6 DEF SetMemory
    <3>2. heap'[b] = CString(content) /\ b # None
      BY <3>1, NoneAssumption DEF IInv, TypeOK
    <3> QED
      BY <3>1, <3>2 DEF Lent
  <2>6. Store!Lend
    BY <2>2, <2>3, <2>4, <2>5, NoneAssumption DEF Store!Lend
  <2> QED
    BY <2>6 DEF Store!Next
<1>7. CASE Destroy
  <2>1. Lent' = None
    BY <1>7, FreeRevokes DEF Destroy
  <2>2. Wanted = None /\ Wanted' = None /\ disk' = disk
    BY <1>7 DEF Destroy, Wanted
  <2>3. Store!Close
    BY <2>1, <2>2 DEF Store!Close
  <2> QED
    BY <2>3 DEF Store!Next
<1>8. CASE UNCHANGED vars
  <2>1. pc' = pc /\ content' = content /\ Remaining' = Remaining
    BY <1>8 DEF vars, stream, Remaining
  <2>2. Lent' = Lent /\ disk' = disk
    BY <1>8 DEF vars, memory, Lent
  <2>3. Wanted' = Wanted
    BY <2>1, WantedNext DEF Wanted
  <2> QED
    BY <2>2, <2>3
<1>9. \A path \in Paths : Open(path) \/ Edit(path) => Store!Next
  BY <1>1, <1>2 DEF Store!Next
<1> QED
  BY <1>3, <1>4, <1>5, <1>6, <1>7, <1>8, <1>9 DEF Next, Step, Ended

(* ReadTextFile implements TextStore: each step is a step of TextStore or  *)
(* changes nothing it can see.  (That a call returns is left to TLC.)      *)
THEOREM ImplementsTextStore == Spec => Store!Init /\ [][Store!Next]_(Store!vars)
  BY ReaderInvariant, InitStore, StepStore, PTL DEF Spec
=============================================================================
