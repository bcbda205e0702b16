------------------------------ MODULE MCWatch ------------------------------
(* Two observers, which may be exchanged where no liveness is checked. *)
EXTENDS Watch, TLC

Symmetry == Permutations(Observers)
=============================================================================
