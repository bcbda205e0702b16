------------------------------- MODULE ModelCall -------------------------------
(***************************************************************************)
(* One prompt's way from the stored messages to the model and back: the    *)
(* context is brought under its budget, with a call of the small model     *)
(* when it must be compacted; the request is streamed, with retries, while *)
(* the text goes to the output and to events.jsonl; the assembled message  *)
(* and the results of its tool calls are stored (runNativeLoop with        *)
(* maybeManageContext, ChatStream, Chat and textStreamEmitter).            *)
(***************************************************************************)
EXTENDS ContextBudget

CONSTANTS
  Setups,       \* what a session runs with: limits of the model's profile,
                \* whether stdout is a terminal
  Keep,         \* CompactionKeepRecent
  Summaries,    \* lengths a rendered continuation may have
  ToolResults,  \* what a tool call may return: tool, bytes, error
  PathBytes,    \* what a tool call adds to the summary of the working set
  ChunkTexts,   \* texts a chunk may carry: sequences of w(ord), s(pace), n(ewline)
  MaxSegment, MinCut,  \* 120 and 40 in the code
  MaxAttempts,  \* maxRetryAttempts
  MaxIndex,     \* bound: indices of the tool calls in one response
  MaxChunks,    \* bound: chunks of one stream
  MaxTurns      \* bound: turns of the prompt

ASSUME ModelCallAssumption ==
  /\ Setups \subseteq [window : Int, maxOutput : Int, reserved : Int, tty : BOOLEAN]
  /\ Keep \in Nat \ {0} /\ Summaries \subseteq Nat \ {0}
  /\ ToolResults \subseteq [tool : STRING, bytes : Nat, error : BOOLEAN]
  /\ ChunkTexts \subseteq Seq({"w", "s", "n"})
  /\ {PathBytes, MaxSegment, MinCut, MaxAttempts, MaxIndex, MaxChunks, MaxTurns} \subseteq Nat
  /\ MinCut < MaxSegment /\ MaxAttempts > 0 /\ MaxTurns > 0

VARIABLES
  setup,     \* the element of Setups this session has
  messages,  \* state.Messages
  cont,      \* state.Continuation
  said,      \* messages of the transcript
  workingSet, \* entries of state.WorkingSet
  turn,      \* turns begun
  pc,        \* where the runner is
  urgent,    \* the compaction is the emergency one
  attempt,   \* attempts of the current call, from 0
  chunks,    \* chunks read from the current stream
  resp,      \* what is assembled from them
  shown,     \* written to the output in this call
  pending,   \* text.pending: not yet an event
  events,    \* text events appended in this call
  todo,      \* tool calls still to execute
  owed       \* history: errors compacted away since the model last summarised

context == <<messages, cont, owed>>
stream  == <<attempt, chunks, resp>>
emitter == <<shown, pending, events>>
callVars == <<setup, context, said, workingSet, turn, pc, urgent, stream, emitter, todo>>

NoResponse == [choices |-> FALSE, text |-> <<>>, calls |-> <<>>]

-----------------------------------------------------------------------------
(* manageContextWithBudget *)

Decision(ms) == Evaluate(setup, Estimate(ms))
Goto(where)  == pc' = where

\* The context fits, or is made to fit by pruning alone, or can be compacted.
ManageContext ==
  /\ pc = "manage"
  /\ LET pruned == Prune(messages, Keep)
         d      == Decision(messages)
     IN
     \/ d = "continue" /\ Goto("ask") /\ UNCHANGED <<messages, urgent>>
     \/ /\ \/ d = "prune"
           \/ d = "compact" /\ Decision(pruned) \in {"continue", "prune"}
        /\ messages' = pruned /\ Goto("ask") /\ UNCHANGED urgent
     \/ /\ d = "compact" /\ Decision(pruned) \in {"compact", "fail"}
        /\ messages' = pruned /\ urgent' = FALSE
        /\ Goto(IF Compactable(pruned, Keep) THEN "summarise" ELSE "ask")
     \/ /\ d = "fail"
        /\ messages' = pruned /\ urgent' = TRUE
        /\ Goto(IF Compactable(pruned, Keep) THEN "summarise" ELSE "full")
  /\ UNCHANGED <<setup, cont, said, workingSet, turn, stream, emitter, todo, owed>>

\* Chat asks the small model for a continuation; transient errors are retried.
RetryChat ==
  /\ pc = "summarise" /\ attempt < MaxAttempts - 1
  /\ attempt' = attempt + 1
  /\ UNCHANGED <<setup, context, said, workingSet, turn, pc, urgent, chunks, resp, emitter, todo>>

ErrorsIn(ms) == {m.id : m \in Errors(ms)}

\* Mutant: after the emergency the messages are not looked at again.
Compacted_Unmeasured ==
  /\ \E b \in Summaries :
       /\ messages' = Compact(messages, Keep, b)
       /\ Goto(IF urgent THEN "full" ELSE "ask")
  /\ attempt' = 0
  /\ UNCHANGED <<setup, said, workingSet, turn, urgent, chunks, resp, emitter, todo>>

\* The compacted messages; the emergency is over when they fit.
Compacted ==
  /\ \E b \in Summaries :
       LET new == Compact(messages, Keep, b) IN
         /\ messages' = new
         /\ Goto(IF urgent /\ Decision(new) = "fail" THEN "full" ELSE "ask")
  /\ attempt' = 0
  /\ UNCHANGED <<setup, said, workingSet, turn, urgent, chunks, resp, emitter, todo>>

\* Chat answers with the JSON of an artifact: nothing is carried over.
SummariseByModel ==
  /\ pc = "summarise"
  /\ cont' = [by |-> "model", goal |-> 0, loops |-> <<>>, next |-> <<>>]
  /\ owed' = {}
  /\ Compacted

\* Chat fails, or its answer does not parse.
SummariseByHeuristic ==
  /\ pc = "summarise"
  /\ LET head == CompactedHead(messages, Keep) IN
       /\ cont' = BuildContinuation(head, cont)
       /\ owed' = owed \cup ErrorsIn(head)
  /\ Compacted

-----------------------------------------------------------------------------
(* The request *)

Notes == IF workingSet = 0 THEN <<>>
         ELSE <<Message("user", "", 18 + workingSet * PathBytes, FALSE, 0, 0)>>
Request == View(messages, Notes)

\* What one call assembles, shows and records starts empty.
NewCall == /\ attempt' = 0 /\ chunks' = 0 /\ resp' = NoResponse
           /\ shown' = <<>> /\ pending' = <<>> /\ events' = <<>>

\* The checkpoint is saved and the stream requested.
Ask ==
  /\ pc = "ask"
  /\ Goto("send")
  /\ UNCHANGED <<setup, context, said, workingSet, turn, urgent, stream, emitter, todo>>

Connect ==
  /\ pc = "send"
  /\ Goto("stream")
  /\ UNCHANGED <<setup, context, said, workingSet, turn, urgent, stream, emitter, todo>>

\* Mutant: the emitter starts anew with the attempt, without a flush.
RetryStream_ResetsEmitter ==
  /\ pc \in {"send", "stream"} /\ attempt < MaxAttempts - 1
  /\ attempt' = attempt + 1 /\ chunks' = 0 /\ resp' = NoResponse
  /\ pending' = <<>>
  /\ Goto("send")
  /\ UNCHANGED <<setup, context, said, workingSet, turn, urgent, shown, events, todo>>

\* A network error, a transient status or an error event of the provider, or
\* the time-out of the client: another request, and the text shown stays.
RetryStream ==
  /\ pc \in {"send", "stream"} /\ attempt < MaxAttempts - 1
  /\ attempt' = attempt + 1 /\ chunks' = 0 /\ resp' = NoResponse
  /\ Goto("send")
  /\ UNCHANGED <<setup, context, said, workingSet, turn, urgent, emitter, todo>>

\* The same in the last attempt, any other error in each, no choices.
StreamFails ==
  /\ pc \in {"send", "stream"}
  /\ Goto("flushFailed")
  /\ UNCHANGED <<setup, context, said, workingSet, turn, urgent, stream, emitter, todo>>

-----------------------------------------------------------------------------
(* textStreamEmitter.  A character is a pair: what it is, and its attempt. *)

IsBlank(segment) == \A i \in DOMAIN segment : segment[i][1] # "w"
IsNewline(ch) == ch[1] = "n"
IsSpace(ch) == ch[1] = "s"

\* emitSegment
Emitted(evs, segment) == IF IsBlank(segment) THEN evs ELSE Append(evs, segment)

\* Where the next segment of p ends: at a newline, which is dropped, and
\* without a terminal at a space or at MaxSegment.
FirstNewline(p) == SelectInSeq(p, IsNewline)
LastSpace(p)    == SelectLastInSeq(SubSeq(p, 1, MaxSegment), IsSpace)

Chars == {"w", "s", "n"} \X (0 .. MaxAttempts)

\* One round of the loop of WriteChunk.
Cut(s) ==
  LET p  == s.pending
      nl == FirstNewline(p)
      at == IF LastSpace(p) - 1 > MinCut THEN LastSpace(p) - 1 ELSE MaxSegment
  IN  IF nl > 0
      THEN [pending |-> SubSeq(p, nl + 1, Len(p)),
            events  |-> Emitted(s.events, SubSeq(p, 1, nl - 1))]
      ELSE IF setup.tty \/ Len(p) < MaxSegment THEN s
      ELSE [pending |-> SubSeq(p, at + 1, Len(p)),
            events  |-> Emitted(s.events, SubSeq(p, 1, at))]

\* The loop: a round that cuts takes a character at least, one that does not
\* changes nothing.
Segments(text) ==
  LET cut[n \in 0 .. Len(text)] ==
        IF n = 0 THEN [pending |-> text, events |-> events] ELSE Cut(cut[n - 1])
  IN  cut[Len(text)]

\* WriteChunk
WriteChunk(text) ==
  LET s == Segments(pending \o text) IN
    /\ shown' = shown \o text
    /\ pending' = s.pending /\ events' = s.events

-----------------------------------------------------------------------------
(* doStreamRequest and mergeStreamChunk *)

\* Text is appended and passed on.
TextChunk ==
  /\ pc = "stream" /\ chunks < MaxChunks
  /\ chunks' = chunks + 1
  /\ \E t \in ChunkTexts :
       LET text == [i \in DOMAIN t |-> <<t[i], attempt>>] IN
         /\ resp' = [resp EXCEPT !.choices = TRUE, !.text = @ \o text]
         /\ WriteChunk(text)
  /\ UNCHANGED <<setup, context, said, workingSet, turn, pc, urgent, attempt, todo>>

\* mergeToolCallDeltas: calls below the index are made, empty.  A call is the
\* number of deltas it was put together from.
Filled(calls, n) == [i \in 1 .. Max({n, Len(calls)}) |->
                       IF i \in DOMAIN calls THEN calls[i] ELSE 0]

CallChunk ==
  /\ pc = "stream" /\ chunks < MaxChunks
  /\ chunks' = chunks + 1
  /\ \E i \in 0 .. MaxIndex :
       LET calls == Filled(resp.calls, i + 1) IN
         resp' = [resp EXCEPT !.choices = TRUE, !.calls = [calls EXCEPT ![i + 1] = @ + 1]]
  /\ UNCHANGED <<setup, context, said, workingSet, turn, pc, urgent, attempt, emitter, todo>>

\* [DONE], or the end of the body: also of one that was cut short.
StreamEnds ==
  /\ pc = "stream"
  /\ Goto(IF resp.choices THEN "flush" ELSE "flushFailed")
  /\ UNCHANGED <<setup, context, said, workingSet, turn, urgent, stream, emitter, todo>>

\* Finish, whether the call has failed or not.
Finish ==
  /\ pc \in {"flush", "flushFailed"}
  /\ events' = Emitted(events, pending) /\ pending' = <<>>
  /\ Goto(IF pc = "flush" THEN "answered" ELSE "failed")
  /\ UNCHANGED <<setup, context, said, workingSet, turn, urgent, stream, shown, todo>>

-----------------------------------------------------------------------------
(* The rest of the turn *)

Store(ms) == messages' = messages \o ms /\ said' = said + Len(ms)

\* The assistant's message is stored.
Answer ==
  /\ pc = "answered"
  /\ Store(<<Message("assistant", "", IF resp.text = <<>> THEN 0 ELSE 100, FALSE,
                     Len(resp.calls), said + 1)>>)
  /\ todo' = Len(resp.calls)
  /\ Goto(IF resp.calls = <<>> THEN "done" ELSE "tools")
  /\ NewCall
  /\ UNCHANGED <<setup, cont, workingSet, turn, urgent, owed>>

\* A tool call: its result is cut to the budget of the tool, the working set
\* is updated, and after the last one the next turn begins.
ExecuteTool ==
  /\ pc = "tools"
  /\ \E r \in ToolResults :
       Store(<<Message("tool", r.tool, TruncateToolOutput(r.tool, r.bytes), r.error, 0, said + 1)>>)
  /\ workingSet' = Min({workingSet + 1, 50})
  /\ todo' = todo - 1
  /\ IF todo > 1 THEN UNCHANGED <<pc, turn>>
     ELSE turn' = turn + 1 /\ Goto(IF turn < MaxTurns THEN "manage" ELSE "done")
  /\ UNCHANGED <<setup, cont, urgent, stream, emitter, owed>>

CallInit ==
  /\ setup \in Setups
  /\ messages = <<Message("system", "", 400, FALSE, 0, 0), Message("user", "", 200, FALSE, 0, 1)>>
  /\ cont = NoContinuation /\ said = 1 /\ workingSet = 0 /\ turn = 1
  /\ pc = "manage" /\ urgent = FALSE
  /\ attempt = 0 /\ chunks = 0 /\ resp = NoResponse
  /\ shown = <<>> /\ pending = <<>> /\ events = <<>>
  /\ todo = 0 /\ owed = {}

CallNext ==
  \/ ManageContext \/ RetryChat \/ SummariseByModel \/ SummariseByHeuristic
  \/ Ask \/ Connect \/ RetryStream \/ StreamFails
  \/ TextChunk \/ CallChunk \/ StreamEnds \/ Finish
  \/ Answer \/ ExecuteTool

CallSpec == CallInit /\ [][CallNext]_callVars

-----------------------------------------------------------------------------
(* Properties *)

CallTypeOK ==
  /\ setup \in Setups
  /\ \A i \in DOMAIN messages :
       /\ messages[i].role \in {"system", "user", "continuation", "assistant", "tool"}
       /\ messages[i].bytes \in Nat /\ messages[i].id \in 0 .. said
  /\ cont.by \in {"none", "heuristic", "model"}
  /\ said \in Nat /\ workingSet \in 0 .. 50 /\ turn \in 1 .. MaxTurns + 1
  /\ pc \in {"manage", "summarise", "ask", "send", "stream", "flush", "flushFailed",
             "answered", "tools", "done", "failed", "full"}
  /\ attempt \in 0 .. MaxAttempts - 1 /\ chunks \in 0 .. MaxChunks
  /\ todo \in 0 .. MaxIndex + 1
  /\ owed \subseteq 1 .. said

\* A prompt ends for lack of room only when nothing was left to give up: the
\* messages are over the last threshold, none of them can be pruned, and
\* between the system prompt and the newest Keep there is at most the
\* continuation (manageContextWithBudget's error).
FullIsTruthful ==
  pc = "full" =>
    /\ Decision(messages) = "fail"
    /\ Prune(messages, Keep) = messages
    /\ Len(messages) <= 1 + 1 + Keep

\* An error that was compacted away is still to be resolved in the
\* continuation, however often the heuristic compacts again: its open loops
\* become next steps and the next steps are carried over (caps of 5 and 10).
\* Only a continuation written by the model may drop it.
ErrorsRemembered ==
  Cardinality(owed) <= 5 => owed \subseteq ToSet(cont.next)

Words(text) == Only(text, {"w"} \X (0 .. MaxAttempts))

\* When a call is over, the text shown ends with the whole text of the stored
\* response, after what failed attempts had shown; and the text events of
\* the call, failed or not, hold every word that was shown, in order.
OutputAccounted ==
  /\ pc = "answered" => IsSuffix(resp.text, shown)
  /\ pc \in {"answered", "failed"} => Words(FlattenSeq(events)) = Words(shown)
=============================================================================
