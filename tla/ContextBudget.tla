----------------------------- MODULE ContextBudget -----------------------------
(***************************************************************************)
(* The functions that decide what the model is sent: the token estimate,   *)
(* the thresholds of the budget, the pruning of old tool outputs, the      *)
(* compaction of old messages into a continuation, and the view that is    *)
(* built for a request.  A message is its role, the tool it came from, its *)
(* length in bytes and whether its text looks like an error; the id is its *)
(* place in the transcript.                                                *)
(***************************************************************************)
EXTENDS Integers, SequencesExt, FiniteSetsExt, Selection

Message(role, tool, bytes, error, calls, id) ==
  [role |-> role, tool |-> tool, bytes |-> bytes, error |-> error,
   calls |-> calls, id |-> id]

-----------------------------------------------------------------------------
(* Tokens and thresholds *)

Tokens(bytes) == (bytes + 3) \div 4

NameBytes(tool) == IF tool = "" THEN 0 ELSE 4
CallTokens(calls) == calls * (1 + 15 + 4)    \* a name, about 60 bytes of arguments

MessageTokens(m) == Tokens(m.bytes) + 4 + Tokens(NameBytes(m.tool)) + CallTokens(m.calls)

Estimate(ms) == FoldLeft(LAMBDA total, m : total + MessageTokens(m), 0, ms)

Default(n, d) == IF n <= 0 THEN d ELSE n

\* NewContextBudgeter and InputBudget: an output limit larger than the window
\* counts as half of it, and the budget is never below 1024 tokens.
InputBudget(p) ==
  LET window == Default(p.window, 128000)
      maxOut == Default(p.maxOutput, 8192)
      used   == (IF maxOut > window THEN window \div 2 ELSE maxOut)
                  + Default(p.reserved, 4096)
  IN  IF window - used < 1024 THEN 1024 ELSE window - used

PruneThreshold(p)   == (InputBudget(p) * 3) \div 4
CompactThreshold(p) == (InputBudget(p) * 9) \div 10
FailThreshold(p)    == (InputBudget(p) * 98) \div 100

Evaluate(p, tokens) ==
  CASE tokens >= FailThreshold(p)    -> "fail"
    [] tokens >= CompactThreshold(p) /\ tokens < FailThreshold(p)    -> "compact"
    [] tokens >= PruneThreshold(p)   /\ tokens < CompactThreshold(p) -> "prune"
    [] tokens < PruneThreshold(p)    -> "continue"

-----------------------------------------------------------------------------
(* Tool outputs *)

OutputBudget(tool) ==
  CASE tool \in {"Read", "Skill"} -> 48 * 1024
    [] tool \in {"Write", "Edit"} -> 1024
    [] tool = "Grep"              -> 16 * 1024
    [] tool = "Glob"              -> 8 * 1024
    [] OTHER                      -> 32 * 1024

\* truncateMiddle: of the limit, 80 bytes are kept for a marker of about 50.
\* The cut at line ends, which shortens a little more, is left out.
TruncateMiddle(bytes, max) ==
  IF bytes <= max \/ max <= 0 THEN bytes
  ELSE IF max <= 160 THEN max + 15 ELSE max - 30

TruncateToolOutput(tool, bytes) == TruncateMiddle(bytes, OutputBudget(tool))

Protected == {"Edit", "Write", "SubAgent"}
AgedBudget(tool) == Max({512, OutputBudget(tool) \div 4})
PruneMarkerBytes == 46

Prunable(m) ==
  /\ m.role = "tool" /\ m.tool \notin Protected /\ ~m.error
  /\ m.bytes > AgedBudget(m.tool)

Pruned(m) ==
  [m EXCEPT !.bytes = IF AgedBudget(m.tool) <= 512 THEN PruneMarkerBytes
                      ELSE TruncateMiddle(@, AgedBudget(m.tool))]

\* pruneStaleToolOutputs
Prune(ms, keep) ==
  [i \in DOMAIN ms |-> IF i <= Len(ms) - keep /\ Prunable(ms[i])
                       THEN Pruned(ms[i]) ELSE ms[i]]

-----------------------------------------------------------------------------
(* Compaction *)

\* appendCapped, once for each element: the newest are kept.
Newest(s, n) == IF Len(s) <= n THEN s ELSE SubSeq(s, Len(s) - n + 1, Len(s))

NoContinuation == [by |-> "none", goal |-> 0, loops |-> <<>>, next |-> <<>>]

Ids(ms) == [i \in DOMAIN ms |-> ms[i].id]

\* Tool results that look like errors.
Errors(ms) == {m \in ToSet(ms) : m.role = "tool" /\ m.error}

\* Mutant: the next steps of the continuation before are dropped.
BuildContinuation_Forgets(head, prior) ==
  LET loops == Newest(Ids(Only(head, Errors(head))), 10)
  IN  [by |-> "heuristic", goal |-> 0, loops |-> loops, next |-> Newest(loops, 5)]

\* buildContinuationFromMessages: the goal is the first user message that is
\* compacted, errors become open loops and next steps, and the next steps of
\* the continuation before are carried over.
BuildContinuation(head, prior) ==
  LET users   == Ids(Only(head, {m \in ToSet(head) : m.role = "user" /\ m.bytes > 0}))
      loops   == Newest(Ids(Only(head, Errors(head))), 10)
      resolve == Newest(loops, 5)
  IN  [by    |-> "heuristic",
       goal  |-> IF users = <<>> THEN 0 ELSE users[1],
       loops |-> loops,
       next  |-> IF prior.next = <<>> THEN resolve
                 ELSE Newest(resolve \o prior.next, 10)]

\* The system prompt stays in front.
Preserved(ms) == IF ms # <<>> /\ ms[1].role = "system" THEN 1 ELSE 0
KeepAtLeast(keep) == Max({keep, 1})
Compactable(ms, keep) == Len(ms) - Preserved(ms) > KeepAtLeast(keep)
CompactedHead(ms, keep) == SubSeq(ms, Preserved(ms) + 1, Len(ms) - KeepAtLeast(keep))

\* compactMessagesStructuredWithModel: the head becomes one user message
\* that starts with the continuation's prefix.
Compact(ms, keep, bytes) ==
  SubSeq(ms, 1, Preserved(ms))
    \o <<Message("continuation", "", bytes, FALSE, 0, 0)>>
    \o SubSeq(ms, Len(ms) - KeepAtLeast(keep) + 1, Len(ms))

-----------------------------------------------------------------------------
(* The view *)

\* BuildContextView: todos and the working set, after the first message.
View(ms, notes) ==
  IF ms # <<>> /\ ms[1].role \in {"system", "continuation"}
  THEN <<ms[1]>> \o notes \o Tail(ms)
  ELSE ms
=============================================================================
