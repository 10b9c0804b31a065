------------------------------ MODULE MCTribes ------------------------------
(* Instances of Tribes for TLC. *)
EXTENDS Tribes, TLC

Symmetry == Permutations(Warrior) \cup Permutations(Tribe)
=============================================================================
