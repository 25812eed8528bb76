---------------------------- MODULE MCTurnSystem ----------------------------
(* TurnSystem for TLC.  Turns and callers are interchangeable: no          *)
(* definition names one or orders them.                                    *)
EXTENDS TurnSystem, TLC

Symmetry == Permutations(Turns) \cup Permutations(Callers)
=============================================================================
