----------------------------- MODULE MCModelCall -----------------------------
(***************************************************************************)
(* A small instance of ModelCall: a window of 3000 tokens, so that two or   *)
(* three tool results move the context from one threshold to the next, and  *)
(* one that is smaller than its own output limit.                           *)
(***************************************************************************)
EXTENDS ModelCall

MCSetups == {[window |-> 4500, maxOutput |-> 1000, reserved |-> 500, tty |-> FALSE],
             [window |-> 2000, maxOutput |-> 4000, reserved |-> 10, tty |-> TRUE]}
MCToolResults == {[tool |-> "Glob", bytes |-> 6400, error |-> FALSE],
                  [tool |-> "Edit", bytes |-> 1000, error |-> TRUE]}
MCTexts == {<<"w">>, <<"s", "w", "n">>}
==============================================================================
