---------------------------- MODULE NativeSession ----------------------------
(***************************************************************************)
(* One toc-native session: the runner's State in memory, the state.json it *)
(* saves, the events.jsonl it appends to, and the process that may die     *)
(* between any two of these writes and be started again (RunNativeSession, *)
(* runNativePrompt, runNativeLoop, BootstrapNativeState).                  *)
(*                                                                         *)
(* Each action ends at a SaveState, which is an action of its own: a crash *)
(* before it loses the change, a crash inside it truncates the file.       *)
(***************************************************************************)
EXTENDS Naturals, FiniteSets, Sequences

CONSTANTS
  Modes,       \* how the process may be started: "detached", "interactive"
  Tools,       \* the tools the model may call
  Behaviors,   \* per declared behavior the tools its condition asks for
  KeepRecent,  \* messages compaction keeps at the end
  MaxIter,     \* tool iterations per prompt
  MaxCalls,    \* bound: tool calls in one model response
  MaxPrompts,  \* bound: prompts handled over the session
  MaxBoots,    \* bound: starts of the process
  Faults       \* crash, torn, panic, error, budget: which of them occur

ASSUME NativeSessionAssumption ==
  /\ Modes \subseteq {"detached", "interactive"}
  /\ Behaviors \in Seq((SUBSET Tools) \ {{}})
  /\ {KeepRecent, MaxIter, MaxBoots} \subseteq Nat \ {0}
  /\ {MaxCalls, MaxPrompts} \subseteq Nat
  /\ Faults \subseteq {"crash", "torn", "panic", "error", "budget"}

VARIABLES
  disk,     \* state.json: a State, or Missing, or Torn
  mem,      \* the runner's State
  events,   \* events.jsonl: ids of the tool events, number of recoveries
  mode,     \* how the process was started
  pc,       \* where the runner is
  then,     \* where it goes on after a save
  calls,    \* tool calls of the last response still to execute
  iter,     \* tool iterations of the prompt
  fired,    \* behaviors that have fired in the prompt
  changes,  \* tools used since the last behavior fired
  prompts, boots, nextId   \* counters for the bounds, and fresh call ids

local == <<calls, iter, fired, changes>>
vars == <<disk, mem, events, mode, pc, then, local, prompts, boots, nextId>>

-----------------------------------------------------------------------------
(* The State record, reduced to what recovery and the model's view need    *)

\* A message, with the ids of the calls it makes or answers.
Msg(role, ids) == [role |-> role, ids |-> ids]
System == Msg("system", {})
User   == Msg("user", {})
Continuation == Msg("continuation", {})   \* sent with role "user"

NoTurn == [phase |-> "none", calls |-> {}]
Turn(phase, ids) == [phase |-> phase, calls |-> ids]

Missing == [status |-> "missing"]
Torn    == [status |-> "torn"]
Fresh   == [status |-> "bootstrapping", turn |-> NoTurn, messages |-> <<>>,
            transcript |-> <<>>, recoveries |-> 0]

Proper(s) == s.status \notin {"missing", "torn"}

\* Append a message to Messages and to Transcript.
Say(s, m) == [s EXCEPT !.messages = Append(@, m), !.transcript = Append(@, m)]

Ids(cs) == {cs[i].id : i \in DOMAIN cs}

\* LoadState: what a start finds in state.json, when that is not Torn.
LoadState == IF disk = Missing THEN Fresh ELSE disk

\* AppendEvent, for the event of a tool call.
AppendEvent(id) == events' = [events EXCEPT !.tools = @ \cup {id}]

SaveThen(next) == pc' = "save" /\ then' = next
InLoop == pc \in {"turn", "ask", "model", "dispatch", "tools", "shrink"}

-----------------------------------------------------------------------------
(* Start and recovery *)

\* recoverInterruptedTurn
Recover(s) ==
  IF s.turn = NoTurn THEN s
  ELSE [s EXCEPT !.turn = NoTurn, !.recoveries = @ + 1,
                 !.status = IF @ \in {"running", "bootstrapping"}
                            THEN "interrupted" ELSE @]

\* BootstrapNativeState: a state.json that does not parse is an error.  The
\* recovery event is appended before the recovered state is saved.
Boot ==
  /\ pc = "down" /\ boots < MaxBoots
  /\ disk # Torn
  /\ boots' = boots + 1
  /\ mode' \in Modes
  /\ mem' = Recover(LoadState)
  /\ events' = [events EXCEPT !.recoveries =
                  IF LoadState.turn = NoTurn THEN @ ELSE @ + 1]
  /\ SaveThen("system")
  /\ UNCHANGED <<disk, local, prompts, nextId>>

\* ensureSystemPrompt
EnsureSystem ==
  /\ pc = "system"
  /\ mem' = IF mem.messages # <<>> /\ Head(mem.messages) = System THEN mem
            ELSE [mem EXCEPT !.messages = <<System>> \o @]
  /\ SaveThen("between")
  /\ UNCHANGED <<disk, events, local, prompts, mode, boots, nextId>>

-----------------------------------------------------------------------------
(* Saves and faults *)

\* saveStateToPath: os.WriteFile truncates the file and writes it.
Save ==
  /\ pc = "save"
  /\ disk' = mem
  /\ pc' = then
  /\ UNCHANGED <<mem, events, then, local, prompts, mode, boots, nextId>>

Die ==
  /\ pc' = "down" /\ then' = "down"
  /\ mem' = Fresh
  /\ calls' = <<>> /\ iter' = 0 /\ fired' = {} /\ changes' = {}

\* The process is killed, or a tool panics in its own goroutine.
Crash ==
  /\ "crash" \in Faults
  /\ pc # "down"
  /\ Die
  /\ UNCHANGED <<disk, events, prompts, mode, boots, nextId>>

\* The same between the truncation and the write of a save.
CrashInSave ==
  /\ "torn" \in Faults
  /\ pc = "save"
  /\ disk' = Torn
  /\ Die
  /\ UNCHANGED <<events, prompts, mode, boots, nextId>>

\* A panic of runNativeLoop itself is recorded and raised again.
Panic ==
  /\ "panic" \in Faults
  /\ InLoop
  /\ mem' = [mem EXCEPT !.status = "crashed", !.turn = NoTurn]
  /\ SaveThen("panicked")
  /\ UNCHANGED <<disk, events, local, prompts, mode, boots, nextId>>

\* The process ends after the save that Panic, Fail or Finalize asked for.
Leave ==
  /\ pc \in {"panicked", "failed", "finalized"}
  /\ Die
  /\ UNCHANGED <<disk, events, prompts, mode, boots, nextId>>

-----------------------------------------------------------------------------
(* runNativePrompt *)

\* A prompt from the command line, the user or a notification.
BeginPrompt ==
  /\ pc = "between" /\ prompts < MaxPrompts
  /\ prompts' = prompts + 1
  /\ mem' = [Say(mem, User) EXCEPT !.status = "running", !.turn = NoTurn]
  /\ calls' = <<>> /\ iter' = 0 /\ fired' = {} /\ changes' = {}
  /\ SaveThen("turn")
  /\ UNCHANGED <<disk, events, mode, boots, nextId>>

\* The loop has returned without an error.
EndPrompt ==
  /\ pc = "return"
  /\ mem' = [mem EXCEPT !.turn = NoTurn,
                        !.status = IF mode = "detached" THEN "completed" ELSE "ready"]
  /\ SaveThen("between")
  /\ UNCHANGED <<disk, events, local, prompts, mode, boots, nextId>>

\* An error ends the prompt and with it RunNativeSession, detached or not.
Fail(s) ==
  /\ mem' = [s EXCEPT !.status = "failed", !.turn = NoTurn]
  /\ SaveThen("failed")

\* Mutant: one past the last iteration.
OutOfIterations_OffByOne ==
  /\ pc = "turn" /\ iter > MaxIter
  /\ Fail(mem)
  /\ UNCHANGED <<disk, events, local, prompts, mode, boots, nextId>>

\* Out of iterations: an interactive session goes on with the next line
\* when the prompt was the user's, and ends when it was made of a
\* notification or was the OnEnd prompt.
OutOfIterations ==
  /\ pc = "turn" /\ iter = MaxIter
  /\ \/ mode = "detached" /\ Fail(mem)
     \/ /\ mode = "interactive"
        /\ mem' = [mem EXCEPT !.status = "ready", !.turn = NoTurn]
        /\ SaveThen("between") \/ SaveThen("failed")
  /\ UNCHANGED <<disk, events, local, prompts, mode, boots, nextId>>

\* waitForSessionNotifications, while a sub-agent is active.
Wait ==
  /\ pc = "between" /\ mem.status # "waiting"
  /\ mem' = [mem EXCEPT !.status = "waiting"]
  /\ SaveThen("between")
  /\ UNCHANGED <<disk, events, local, prompts, mode, boots, nextId>>

\* finalizeNativeSession, after its OnEnd prompt.
Finalize ==
  /\ pc = "between"
  /\ mem' = [mem EXCEPT !.status = "completed"]
  /\ SaveThen("finalized")
  /\ UNCHANGED <<disk, events, local, prompts, mode, boots, nextId>>

-----------------------------------------------------------------------------
(* runNativeLoop *)

\* compactMessagesStructuredWithModel
Start(ms) == IF ms # <<>> /\ ms[1].role = "system" THEN 1 ELSE 0
Compactable(ms) == Len(ms) - Start(ms) > KeepRecent
\* Mutant: the wrong end of the slice is kept.
Compact_KeepsHead(ms) ==
  SubSeq(ms, 1, Start(ms)) \o <<Continuation>>
    \o SubSeq(ms, Start(ms) + 1, Start(ms) + KeepRecent)
Compact(ms) ==
  SubSeq(ms, 1, Start(ms)) \o <<Continuation>>
    \o SubSeq(ms, Len(ms) - KeepRecent + 1, Len(ms))

Compacted == [mem EXCEPT !.messages = Compact(@)]

\* maybeManageContext: how full the context is, is data.  Pruning shortens
\* tool outputs in place, which no property sees.  Over the last threshold
\* the prompt fails, after it has compacted what it could.
ManageContext ==
  /\ pc = "turn" /\ iter < MaxIter
  /\ \/ pc' = "ask" /\ UNCHANGED <<mem, then>>
     \/ /\ "budget" \in Faults
        /\ Compactable(mem.messages)
        /\ \/ mem' = Compacted /\ SaveThen("ask")
           \/ Fail(Compacted)
     \/ /\ "budget" \in Faults
        /\ ~Compactable(mem.messages)
        /\ Fail(mem)
  /\ UNCHANGED <<disk, events, local, prompts, mode, boots, nextId>>

\* The checkpoint of the model call.
Ask ==
  /\ pc = "ask"
  /\ mem' = [mem EXCEPT !.turn = Turn("awaiting_model", {})]
  /\ SaveThen("model")
  /\ UNCHANGED <<disk, events, local, prompts, mode, boots, nextId>>

\* Mutant: no checkpoint of the calls.
Respond_NoCheckpoint ==
  /\ pc = "model"
  /\ \E ts \in UNION {[1 .. n -> Tools] : n \in 0 .. MaxCalls} :
       LET cs == [i \in DOMAIN ts |-> [id |-> nextId + i, tool |-> ts[i]]] IN
         /\ calls' = cs
         /\ nextId' = nextId + Len(cs)
         /\ mem' = [Say(mem, Msg("assistant", Ids(cs))) EXCEPT !.turn = NoTurn]
  /\ SaveThen("dispatch")
  /\ UNCHANGED <<disk, events, iter, fired, changes, prompts, mode, boots>>

\* The response: an assistant message with the checkpoint of its calls.
Respond ==
  /\ pc = "model"
  /\ \E ts \in UNION {[1 .. n -> Tools] : n \in 0 .. MaxCalls} :
       LET cs == [i \in DOMAIN ts |-> [id |-> nextId + i, tool |-> ts[i]]] IN
         /\ calls' = cs
         /\ nextId' = nextId + Len(cs)
         /\ mem' = [Say(mem, Msg("assistant", Ids(cs))) EXCEPT
              !.turn = IF cs = <<>> THEN NoTurn ELSE Turn("executing_tools", Ids(cs))]
  /\ SaveThen("dispatch")
  /\ UNCHANGED <<disk, events, iter, fired, changes, prompts, mode, boots>>

\* The client, an event or the working set fails inside the loop.
LoopFails ==
  /\ "error" \in Faults
  /\ pc \in {"model", "tools"}
  /\ Fail(mem)
  /\ UNCHANGED <<disk, events, local, prompts, mode, boots, nextId>>

\* evaluateBehaviors: the first behavior that has not fired and matches.
Matching == {b \in DOMAIN Behaviors : b \notin fired /\ Behaviors[b] \subseteq changes}

Dispatch ==
  /\ pc = "dispatch"
  /\ \/ /\ calls # <<>>
        /\ pc' = "tools"
        /\ UNCHANGED <<mem, then, fired, changes>>
     \/ /\ calls = <<>> /\ Matching = {}
        /\ changes' = {}
        /\ pc' = "return"
        /\ UNCHANGED <<mem, then, fired>>
     \/ /\ calls = <<>>
        /\ \E b \in Matching :
             /\ \A d \in Matching : b <= d
             /\ fired' = fired \cup {b}
        /\ changes' = {}
        /\ mem' = Say(mem, User)
        /\ SaveThen("turn")    \* i-- and i++: no iteration is consumed
  /\ UNCHANGED <<disk, events, calls, iter, prompts, mode, boots, nextId>>

\* Mutant: the event is left for later.
ExecuteTool_NoEvent ==
  /\ pc = "tools"
  /\ changes' = changes \cup {Head(calls).tool}
  /\ mem' = Say(mem, Msg("tool", {Head(calls).id}))
  /\ SaveThen("shrink")
  /\ UNCHANGED <<disk, events, calls, iter, fired, prompts, mode, boots, nextId>>

\* One tool call is executed; its event is appended before its message is
\* saved.
ExecuteTool ==
  /\ pc = "tools"
  /\ AppendEvent(Head(calls).id)
  /\ changes' = changes \cup {Head(calls).tool}
  /\ mem' = Say(mem, Msg("tool", {Head(calls).id}))
  /\ SaveThen("shrink")
  /\ UNCHANGED <<disk, calls, iter, fired, prompts, mode, boots, nextId>>

ShrinkTurn_FirstOnly ==
  /\ pc = "shrink"
  /\ mem' = [mem EXCEPT !.turn = NoTurn]
  /\ calls' = <<>>
  /\ iter' = iter + 1
  /\ SaveThen("turn")
  /\ UNCHANGED <<disk, events, fired, changes, prompts, mode, boots, nextId>>

\* remainingToolCalls, saved; after the last call the next iteration.
ShrinkTurn ==
  /\ pc = "shrink"
  /\ LET left == mem.turn.calls \ {Head(calls).id} IN
       mem' = [mem EXCEPT !.turn = IF left = {} THEN NoTurn
                                   ELSE Turn("executing_tools", left)]
  /\ calls' = Tail(calls)
  /\ iter' = IF Tail(calls) = <<>> THEN iter + 1 ELSE iter
  /\ SaveThen(IF Tail(calls) = <<>> THEN "turn" ELSE "tools")
  /\ UNCHANGED <<disk, events, fired, changes, prompts, mode, boots, nextId>>

-----------------------------------------------------------------------------
Init ==
  /\ disk = Missing /\ mem = Fresh
  /\ events = [tools |-> {}, recoveries |-> 0]
  /\ mode \in Modes /\ pc = "down" /\ then = "down"
  /\ calls = <<>> /\ iter = 0 /\ fired = {} /\ changes = {}
  /\ prompts = 0 /\ boots = 0 /\ nextId = 0

Work ==
  \/ EnsureSystem \/ Save \/ Leave \/ BeginPrompt \/ EndPrompt \/ Wait
  \/ OutOfIterations \/ Finalize \/ ManageContext \/ Ask \/ Respond
  \/ LoopFails \/ Dispatch \/ ExecuteTool \/ ShrinkTurn

Next == Boot \/ Work \/ Crash \/ CrashInSave \/ Panic

Spec == Init /\ [][Next]_vars

\* A started runner goes on; nobody has to start it, and nothing has to fail.
FairSpec == Spec /\ WF_vars(Work)

-----------------------------------------------------------------------------
(* Safety *)

Statuses == {"bootstrapping", "running", "interrupted", "ready", "waiting",
             "completed", "failed", "crashed"}
Message == [role : {"system", "user", "continuation", "assistant", "tool"},
            ids : SUBSET Nat]
State == [status : Statuses,
          turn : [phase : {"none", "awaiting_model", "executing_tools"}, calls : SUBSET Nat],
          messages : Seq(Message), transcript : Seq(Message), recoveries : Nat]

TypeOK ==
  /\ disk \in State \cup {Missing, Torn}
  /\ mem \in State
  /\ events \in [tools : SUBSET Nat, recoveries : Nat]
  /\ {pc, then} \subseteq
       {"down", "save", "system", "between", "turn", "ask", "model", "dispatch",
        "tools", "shrink", "return", "panicked", "failed", "finalized"}
  /\ mode \in Modes
  /\ calls \in Seq([id : Nat, tool : Tools])
  /\ iter \in 0 .. MaxIter
  /\ fired \subseteq DOMAIN Behaviors
  /\ changes \subseteq Tools
  /\ prompts \in 0 .. MaxPrompts /\ boots \in 0 .. MaxBoots /\ nextId \in Nat

\* The calls that the messages at the places ps make, or answer.
Of(role, ms, ps) == UNION {ms[i].ids : i \in {j \in ps : ms[j].role = role}}

\* What follows the last prompt.
SincePrompt(ms) == {i \in DOMAIN ms : \A j \in i .. Len(ms) : ms[j] # User}

Called(ms)   == Of("assistant", ms, SincePrompt(ms))
Answered(ms) == Of("tool", ms, SincePrompt(ms))

\* Whenever the process dies inside a turn, each tool call without a result
\* is in the checkpoint that recovery reports: at no point of the sequence
\* of saves has a call left the checkpoint before its result is saved.
CheckpointCoversCalls ==
  disk.status = "running" =>
    Called(disk.transcript) \ Answered(disk.transcript) \subseteq disk.turn.calls

\* Compaction, behaviors and crashes together: after the system prompt and
\* one continuation at most, the model is shown an end of the transcript, and
\* the transcript has lost nothing of it.
Fronts == {<<>>, <<System>>, <<System, Continuation>>}
End(ms, n) == SubSeq(ms, n + 1, Len(ms))
MessagesEndTranscript ==
  Proper(disk) =>
    \E front \in Fronts, n \in 0 .. Len(disk.transcript) :
      disk.messages = front \o End(disk.transcript, n)

\* events.jsonl answers "what happened" for all that state.json remembers:
\* each saved tool result and each counted recovery has its event.
EventsCoverState ==
  Proper(disk) =>
    /\ Of("tool", disk.transcript, DOMAIN disk.transcript) \subseteq events.tools
    /\ disk.recoveries <= events.recoveries

\* Within a prompt the model is asked again only when each tool call of it
\* has its result and each result has its call, whatever failed before.
TurnPaired ==
  pc = "model" => Called(mem.transcript) = Answered(mem.transcript)

-----------------------------------------------------------------------------
(* Liveness *)

\* A prompt ends: the loop and the behaviors' re-entries cannot go on for ever.
PromptEnds == (pc = "turn") ~> (pc \in {"between", "down"})
=============================================================================
