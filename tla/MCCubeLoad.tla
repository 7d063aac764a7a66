----------------------------- MODULE MCCubeLoad -----------------------------
(* CubeLoad with the symmetry of its model values, for the safety runs. *)
EXTENDS CubeLoad, TLC

Symmetry == Permutations(Request) \cup Permutations(Owner) \cup Permutations(Scope)
=============================================================================
