-------------------------- MODULE MCNativeSession --------------------------
(* Instances of NativeSession for TLC. *)
EXTENDS NativeSession

\* Two behaviors on the same tool: the second needs activity of its own
\* after the first has fired.
MCBehaviors == <<{"Write"}, {"Write"}>>
=============================================================================
