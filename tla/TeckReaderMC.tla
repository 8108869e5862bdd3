---------------------------- MODULE TeckReaderMC ----------------------------
(***************************************************************************)
(* TeckReader on all files of up to MaxLength characters.                  *)
(***************************************************************************)
EXTENDS TeckReader

CONSTANT MaxLength

ShortFiles == BoundedSeq(Chars, MaxLength)
=============================================================================
