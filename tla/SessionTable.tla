---------------------------- MODULE SessionTable ----------------------------
(***************************************************************************)
(* What sessions.yaml is to the rest of toc: a table from session ids to   *)
(* recorded statuses that changes in one step per operation.               *)
(***************************************************************************)
CONSTANTS Sessions, Statuses, Agents, AgentOf, Faults

VARIABLE table

Tables == UNION {[S -> Statuses] : S \in SUBSET Sessions}
Empty  == [s \in {} |-> CHOOSE x \in Statuses : TRUE]

\* Tables after a session was added, updated, or its agent removed.
With(t, s, x)  == [r \in DOMAIN t \cup {s} |-> IF r = s THEN x ELSE t[r]]
Without(t, ag) == [r \in {s \in DOMAIN t : AgentOf[s] # ag} |-> t[r]]

Add(s, x) == s \notin DOMAIN table /\ table' = With(table, s, x)
Set(s, x) == s \in DOMAIN table /\ table' = With(table, s, x)
Remove(ag) == table' = Without(table, ag)

\* A process that dies while it rewrites the file takes the table with it.
Lose == "tear" \in Faults /\ table' = Empty

Init == table = Empty

Next == \/ \E s \in Sessions, x \in Statuses : Add(s, x) \/ Set(s, x)
        \/ \E ag \in Agents : Remove(ag)
        \/ Lose

Spec == Init /\ [][Next]_table
=============================================================================
