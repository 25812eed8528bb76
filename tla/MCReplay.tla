------------------------------ MODULE MCReplay ------------------------------
(* Replay with interchangeable texts. *)
EXTENDS Replay, TLC

TextSymmetry == Permutations(Texts)
=============================================================================
