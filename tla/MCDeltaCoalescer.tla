-------------------------- MODULE MCDeltaCoalescer --------------------------
(* DeltaCoalescer for TLC.  The streams are interchangeable.               *)
EXTENDS DeltaCoalescer, TLC

Symmetry == Permutations(Streams)
=============================================================================
