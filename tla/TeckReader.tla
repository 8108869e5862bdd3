----------------------------- MODULE TeckReader -----------------------------
(***************************************************************************)
(* tkReader (src/core/reader.cpp): the text file reader behind             *)
(* ReadTextFile, with its stream, its line loop and the block of memory it  *)
(* lends to its callers.  The other readers are never asked for.  Nobody   *)
(* writes a resource file while a call reads it.                           *)
(***************************************************************************)
EXTENDS SequencesExt

CONSTANTS
    Paths,     \* names of resource files
    Contents,  \* what a file may hold: sequences of Chars
    Missing,   \* the file cannot be opened
    Blocks,    \* addresses that new char[] may return
    None       \* the null pointer, the bytes of a freed block

Chars == {"letter", "newline", "nul"}

ASSUME ContentsAssumption == Contents \subseteq Seq(Chars) /\ Missing \notin Seq(Chars)
ASSUME NoneAssumption == None \notin Blocks /\ None \notin Seq(Chars)

VARIABLES
    disk,      \* [Paths -> Contents \union {Missing}]
    pc,        \* the next part of ReadTextFile; "idle" between calls
    isOpen,    \* m_File.is_open()
    good,      \* m_File.good()
    rest,      \* what the stream has not read yet
    content,   \* Read's local: the lines so far
    m_Memory,  \* the block that holds the returned text
    heap,      \* [Blocks -> its bytes]
    returned   \* the pointer the latest call returned, and what it pointed to

stream == <<isOpen, good, rest>>
memory == <<m_Memory, heap>>
vars == <<disk, pc, stream, content, memory, returned>>

(* fstream::open: a stream that is already open only fails; otherwise a    *)
(* success clears the state that earlier calls left and a failure sets it. *)
StreamOpen(path) ==
    IF isOpen
    THEN good' = FALSE /\ UNCHANGED <<isOpen, rest>>
    ELSE /\ isOpen' = (disk[path] # Missing)
         /\ good' = (disk[path] # Missing)
         /\ rest' = IF disk[path] = Missing THEN <<>> ELSE disk[path]

(* ReadTextFile up to ReadCStr: Open's result is not looked at.            *)
Open(path) ==
    /\ pc = "idle"
    /\ StreamOpen(path)
    /\ content' = <<>>
    /\ pc' = "Read"
    /\ UNCHANGED <<disk, memory, returned>>

(* The first place of a character in a text, or 0.                         *)
First(c, s) == SelectInSeq(s, LAMBDA ch : ch = c)

LineEnd == First("newline", rest)

(* A mutant of ReadLine: a last line without a newline is dropped.         *)
ReadLineDropsLast ==
    /\ pc = "Read"
    /\ good
    /\ rest # <<>>
    /\ content' = content \o SubSeq(rest, 1, LineEnd)
    /\ rest' = SubSeq(rest, LineEnd + 1, Len(rest))
    /\ good' = (LineEnd > 0)
    /\ UNCHANGED <<disk, pc, isOpen, memory, returned>>

(* One turn of the getline loop.  A line that ends with the file instead   *)
(* of a newline gets one, and leaves the stream at its end.                *)
ReadLine ==
    /\ pc = "Read"
    /\ good
    /\ rest # <<>>
    /\ IF LineEnd > 0
       THEN /\ content' = content \o SubSeq(rest, 1, LineEnd)
            /\ rest' = SubSeq(rest, LineEnd + 1, Len(rest))
            /\ good' = TRUE
       ELSE /\ content' = Append(content \o rest, "newline")
            /\ rest' = <<>>
            /\ good' = FALSE
    /\ UNCHANGED <<disk, pc, isOpen, memory, returned>>

(* getline finds nothing more and sets failbit, which ends the loop; Close. *)
ReadDone ==
    /\ pc = "Read"
    /\ ~(good /\ rest # <<>>)
    /\ good' = FALSE
    /\ isOpen' = FALSE
    /\ pc' = "ClearMemory"
    /\ UNCHANGED <<disk, rest, content, memory, returned>>

(* A mutant of ClearMemory: the block is not freed.                        *)
FreeNothing == UNCHANGED heap /\ m_Memory' = None

(* tkReader::ClearMemory.                                                  *)
FreeMemory ==
    /\ heap' = IF m_Memory = None THEN heap ELSE [heap EXCEPT ![m_Memory] = None]
    /\ m_Memory' = None

(* SetMemory, first half: the text of the call before is given up.         *)
ClearMemory ==
    /\ pc = "ClearMemory"
    /\ FreeMemory
    /\ pc' = "SetMemory"
    /\ UNCHANGED <<disk, stream, content, returned>>

(* A mutant of the copy: the block has no room for the terminator.         *)
Unterminated(s) == Append(s, "garbage")

(* strlen and strcpy_s stop at the first NUL.                              *)
CString(s) == IF First("nul", s) = 0 THEN s ELSE SubSeq(s, 1, First("nul", s) - 1)

(* A mutant of SetMemory: it clears after it has copied.                   *)
SetMemoryThenClear ==
    /\ pc = "SetMemory"
    /\ \E b \in Blocks :
          /\ heap[b] = None
          /\ m_Memory' = None
          /\ returned' = [block |-> b, text |-> CString(content)]
    /\ pc' = "idle"
    /\ UNCHANGED <<disk, stream, content, heap>>

(* SetMemory, second half, and GetMemory: any free block may be handed out, *)
(* the one just freed included.                                            *)
SetMemory ==
    /\ pc = "SetMemory"
    /\ \E b \in Blocks :
          /\ heap[b] = None
          /\ heap' = [heap EXCEPT ![b] = CString(content)]
          /\ m_Memory' = b
          /\ returned' = [block |-> b, text |-> CString(content)]
    /\ pc' = "idle"
    /\ UNCHANGED <<disk, stream, content>>

(* ~tkReader, at exit: ClearMemory and Close.                              *)
Destroy ==
    /\ pc = "idle"
    /\ FreeMemory
    /\ isOpen' = FALSE
    /\ pc' = "destroyed"
    /\ UNCHANGED <<disk, good, rest, content, returned>>

(* Between calls a resource file may be created, changed or removed.       *)
Edit(path) ==
    /\ pc = "idle"
    /\ \E c \in Contents \union {Missing} : disk' = [disk EXCEPT ![path] = c]
    /\ UNCHANGED <<pc, stream, content, memory, returned>>

Ended == pc = "destroyed" /\ UNCHANGED vars

Step == ReadLine \/ ReadDone \/ ClearMemory \/ SetMemory

Next ==
    \/ \E path \in Paths : Open(path) \/ Edit(path)
    \/ Step
    \/ Destroy
    \/ Ended

Init ==
    /\ disk \in [Paths -> Contents \union {Missing}]
    /\ pc = "idle"
    /\ isOpen = FALSE /\ good = TRUE /\ rest = <<>>
    /\ content = <<>>
    /\ m_Memory = None
    /\ heap = [b \in Blocks |-> None]
    /\ returned = None

(* A call runs to its end: the main thread keeps running.                  *)
Spec == Init /\ [][Next]_vars /\ WF_vars(Step)
-----------------------------------------------------------------------------
Live == {b \in Blocks : heap[b] # None}

TypeOK ==
    /\ disk \in [Paths -> Contents \union {Missing}]
    /\ pc \in {"idle", "Read", "ClearMemory", "SetMemory", "destroyed"}
    /\ isOpen \in BOOLEAN
    /\ good \in BOOLEAN
    /\ rest \in Seq(Chars)
    /\ content \in Seq(Chars)
    /\ m_Memory \in Blocks \union {None}
    /\ heap \in [Blocks -> Seq(Chars) \union {None}]
    /\ returned \in [block : Blocks, text : Seq(Chars)] \union {None}

(* The reader owns every block that is alive, and only such a block: no     *)
(* call leaks the text of the one before, and delete[] never sees a block  *)
(* that is already free.                                                   *)
OwnsItsMemory == Live = IF m_Memory = None THEN {} ELSE {m_Memory}

(* Between calls, the pointer that the latest call returned is good: its    *)
(* block is alive and still holds the text (CreateShaderModule reads it).  *)
ReturnedTextStays ==
    pc = "idle" /\ returned # None => heap[returned.block] = returned.text

(* No call finds the stream of the call before open.                       *)
ClosedBetweenCalls == pc = "idle" => ~isOpen

(* ReadTextFile keeps the promise of TextStore, where a call's text is      *)
(* defined by the whole file at once: the loop over the lines, the stream  *)
(* state that calls leave each other and the unchecked Open add up to it.  *)
Remaining ==
    IF good /\ rest # <<>>
    THEN IF Last(rest) = "newline" THEN rest ELSE Append(rest, "newline")
    ELSE <<>>

Wanted == IF pc \in {"idle", "destroyed"} THEN None ELSE CString(content \o Remaining)
Lent == IF m_Memory = None THEN None ELSE heap[m_Memory]

Store == INSTANCE TextStore WITH wanted <- Wanted, lent <- Lent

KeepsTextStore == Store!Spec
=============================================================================
