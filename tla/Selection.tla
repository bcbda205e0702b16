------------------------------ MODULE Selection ------------------------------
(***************************************************************************)
(* The loop `for _, x := range s { if keep(x) { kept = append(kept, x) } }` *)
(* as it occurs all over the code: the elements of a sequence that are in  *)
(* a set, in their order.                                                  *)
(***************************************************************************)
EXTENDS Naturals, Sequences

Only(s, S) ==
  LET kept[i \in 0 .. Len(s)] ==
        IF i = 0 THEN <<>>
        ELSE IF s[i] \in S THEN Append(kept[i - 1], s[i]) ELSE kept[i - 1]
  IN  kept[Len(s)]
=============================================================================
