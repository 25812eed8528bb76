--------------------------- MODULE MCJournalStore ---------------------------
(* JournalStore for TLC.  Events are interchangeable.                      *)
EXTENDS JournalStore, TLC

Symmetry == Permutations(Events)
=============================================================================
