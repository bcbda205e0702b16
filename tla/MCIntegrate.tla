---------------------------- MODULE MCIntegrate ----------------------------
(* Two processes, which may be exchanged, on one integration. *)
EXTENDS Integrate, TLC

Symmetry == Permutations(Procs)
=============================================================================
