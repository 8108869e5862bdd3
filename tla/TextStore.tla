----------------------------- MODULE TextStore -----------------------------
(***************************************************************************)
(* What tkReader::ReadTextFile promises its callers: the text of a file as  *)
(* it was when the call started, lent until the next call starts to store  *)
(* its own.  A file that cannot be opened reads as the empty text, and     *)
(* that leaves no trace in later calls.                                    *)
(***************************************************************************)
EXTENDS SequencesExt

CONSTANTS
    Paths,     \* names of files
    Contents,  \* what a file may hold
    Missing,   \* the file cannot be opened
    None       \* no text

VARIABLES
    disk,    \* [Paths -> Contents \union {Missing}]
    wanted,  \* the text the running call is to return, or None
    lent     \* the text lent to the callers, or None

vars == <<disk, wanted, lent>>

(* A file's text ends its last line and, being a C string, stops at a NUL. *)
EndLine(c) == IF c = <<>> \/ Last(c) = "newline" THEN c ELSE Append(c, "newline")

UpToNul(s) ==
    LET nuls == {i \in 1..Len(s) : s[i] = "nul"}
    IN  IF nuls = {} THEN s ELSE SubSeq(s, 1, Min(nuls) - 1)

TextOf(c) == IF c = Missing THEN <<>> ELSE UpToNul(EndLine(c))

Init ==
    /\ disk \in [Paths -> Contents \union {Missing}]
    /\ wanted = None
    /\ lent = None

Call(p) ==
    /\ wanted = None
    /\ wanted' = TextOf(disk[p])
    /\ UNCHANGED <<disk, lent>>

Revoke ==
    /\ wanted # None
    /\ lent # None
    /\ lent' = None
    /\ UNCHANGED <<disk, wanted>>

Lend ==
    /\ wanted # None
    /\ lent = None
    /\ lent' = wanted
    /\ wanted' = None
    /\ UNCHANGED disk

(* The reader is destroyed at exit, and what it lent goes with it.         *)
Close ==
    /\ wanted = None
    /\ lent' = None
    /\ UNCHANGED <<disk, wanted>>

Edit(p, c) ==
    /\ wanted = None
    /\ disk' = [disk EXCEPT ![p] = c]
    /\ UNCHANGED <<wanted, lent>>

Next ==
    \/ \E p \in Paths : Call(p) \/ \E c \in Contents \union {Missing} : Edit(p, c)
    \/ Revoke \/ Lend \/ Close

(* A call that was started returns.                                        *)
Spec == Init /\ [][Next]_vars /\ WF_vars(Revoke \/ Lend)
=============================================================================
