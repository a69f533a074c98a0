------------------------------ MODULE MCFollow ------------------------------
(* Instances of Follow for TLC. *)
EXTENDS Follow, TLC

SlotSymmetry == Permutations(Slots)
=============================================================================
