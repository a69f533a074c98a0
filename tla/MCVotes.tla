------------------------------ MODULE MCVotes ------------------------------
(* Instances of Votes for TLC. *)
EXTENDS Votes, TLC

SlotSymmetry == Permutations(Slots)
=============================================================================
