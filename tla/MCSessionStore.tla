--------------------------- MODULE MCSessionStore ---------------------------
(* Instances of SessionStore for TLC. *)
EXTENDS SessionStore

\* The first session is of one agent, all others are of the other.
CONSTANTS s1, g1, g2
MCAgentOf == [s \in Sessions |-> IF s = s1 THEN g1 ELSE g2]
=============================================================================
