------------------------- MODULE SubAgentLifecycle -------------------------
(***************************************************************************)
(* What the status of a sub-agent promises to those who ask for it, while  *)
(* nobody resumes the child: it becomes active once, leaves that phase for *)
(* good, and is done, cancelled or a zombie then.  A cancellation may      *)
(* still come after the other two, a completion after a zombie may not.    *)
(***************************************************************************)
CONSTANT Children

VARIABLE phase

Phases == {"none", "active", "done", "zombie", "cancelled"}

Move(c, from, to) ==
  /\ phase[c] \in from
  /\ phase' = [phase EXCEPT ![c] = to]

Begin(c)   == Move(c, {"none"}, "active")
Complete(c) == Move(c, {"active"}, "done")
Vanish(c)  == Move(c, {"active"}, "zombie")
Cancel(c)  == Move(c, {"active", "zombie", "done"}, "cancelled")

Init == phase = [c \in Children |-> "none"]

Leave(c) == Complete(c) \/ Vanish(c) \/ Cancel(c)

Next == \E c \in Children : Begin(c) \/ Leave(c)

Spec == Init /\ [][Next]_phase

\* An active child does not stay active for ever.
FairSpec == Spec /\ \A c \in Children : WF_phase(phase[c] = "active" /\ Leave(c))
=============================================================================
