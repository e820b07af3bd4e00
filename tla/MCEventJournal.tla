--------------------------- MODULE MCEventJournal ---------------------------
(***************************************************************************)
(* Small instances of EventJournal: writers and streams are interchangeable*)
(***************************************************************************)
EXTENDS EventJournal, TLC

MCSymmetry == Permutations(Writers) \cup Permutations(Streams)
=============================================================================
