----------------------------- MODULE MCSubAgent -----------------------------
(* Instances of SubAgent for TLC. *)
EXTENDS SubAgent, TLC

CONSTANTS ParentOps, UserOps   \* bounds: the values of MaxOps

MCMaxOps == [a \in Actors |-> IF a = "parent" THEN ParentOps ELSE UserOps]

\* The children are interchangeable.
Symmetry == Permutations(Children)
=============================================================================
