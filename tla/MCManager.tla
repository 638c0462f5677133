----------------------------- MODULE MCManager -----------------------------
(* Instances of module Manager for TLC. *)
EXTENDS Manager, TLC

CallSymmetry == Permutations(Callers) \cup Permutations(Sources)
=============================================================================
