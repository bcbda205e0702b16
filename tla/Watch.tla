------------------------------- MODULE Watch -------------------------------
(***************************************************************************)
(* The event log of one session and those who look at it.  A native agent  *)
(* appends its events to events.jsonl itself.  Claude writes a log of its  *)
(* own, line by line and not a line at a time; its events reach            *)
(* events.jsonl through `toc watch`, which appends what it shows, and      *)
(* through `toc replay`, which parses the whole log and writes the file    *)
(* anew -- for every runtime, unless the session is active.  Nothing is    *)
(* locked.  Events are numbered as they happen; sizes are in half lines.   *)
(***************************************************************************)
EXTENDS Naturals, Sequences

CONSTANTS
  Observers,  \* toc processes that look at the session
  Runtimes,   \* native, claude: which are looked at
  MaxEvents,  \* bound: events the agent produces
  MaxUses,    \* bound: commands the observers begin
  Faults      \* crash, cancel, interrupt: which of them occur

ASSUME WatchAssumption ==
  /\ {MaxEvents, MaxUses} \subseteq Nat
  /\ Runtimes \subseteq {"native", "claude"}
  /\ Faults \subseteq {"crash", "cancel", "interrupt"}

VARIABLES
  runtime,   \* native or claude
  agent,     \* running, ended, finished (its output is there), dead, cancelled
  happened,  \* complete events of the agent
  half,      \* half lines beyond them at the end of Claude's log: 0 or 1
  events,    \* events.jsonl
  w,         \* the observers
  uses,      \* commands begun
  exists,    \* whether events.jsonl is there
  mishaps    \* history: what crossed a rewrite of events.jsonl

vars == <<runtime, agent, happened, half, events, w, uses, exists, mishaps>>

Finished  == 0                \* what tells a watcher that the session is over
Cancelled == MaxEvents + 1    \* the event `toc runtime cancel` appends
NotCounted == MaxEvents * MaxUses + 2

NewObserver ==
  [pc |-> "idle", offset |-> 0, partial |-> 0, queue |-> <<>>, cached |-> NotCounted,
   skipped |-> 0, shown |-> <<>>, parsed |-> <<>>]

\* The file an observer reads, line by line.
Lines == IF runtime = "native" THEN events ELSE [i \in 1 .. happened |-> i]
Size  == 2 * Len(Lines) + (IF runtime = "native" THEN 0 ELSE half)

\* ResolvedStatus
Status ==
  CASE agent = "finished"  -> "completed"
    [] agent = "cancelled" -> "cancelled"
    [] agent = "dead"      -> "zombie"
    [] OTHER               -> "active"
OutputThere == agent = "finished"

Went(what) == mishaps' = mishaps \cup what
\* An append between parsing and writing, a read of the truncated file.
Amid(where)   == IF \E o \in Observers : w[o].pc \in where THEN {"overlap"} ELSE {}
AppendCrosses == Amid({"create", "write"})
ReadCrosses   == Amid({"write"})

\* AppendEvent: one write with O_APPEND.
AppendEvent(e) ==
  /\ events' = Append(events, e)
  /\ exists' = TRUE

-----------------------------------------------------------------------------
(* The session *)

NativeEvent ==
  /\ runtime = "native" /\ agent = "running" /\ happened < MaxEvents
  /\ happened' = happened + 1
  /\ AppendEvent(happened + 1)
  /\ Went(AppendCrosses)
  /\ UNCHANGED <<runtime, agent, half, w, uses>>

ClaudeWrites ==
  /\ runtime = "claude" /\ agent = "running"
  /\ \/ half = 0 /\ happened < MaxEvents /\ half' = 1 /\ UNCHANGED happened
     \/ half = 1 /\ half' = 0 /\ happened' = happened + 1
  /\ UNCHANGED <<runtime, agent, events, w, uses, exists, mishaps>>

\* The agent exits or is killed, its wrapper moves the output into place;
\* or the wrapper is killed as well.
AgentEnds ==
  /\ \/ agent = "running" /\ agent' = "ended"
     \/ agent = "ended" /\ agent' = "finished"
     \/ agent \in {"running", "ended"} /\ "crash" \in Faults /\ agent' = "dead"
  /\ UNCHANGED <<runtime, happened, half, events, w, uses, exists, mishaps>>

\* `toc runtime cancel`, which appends an event for every runtime.
Cancel ==
  /\ agent = "running" /\ "cancel" \in Faults
  /\ agent' = "cancelled"
  /\ AppendEvent(Cancelled)
  /\ Went({"cancel"})
  /\ UNCHANGED <<runtime, happened, half, w, uses>>

-----------------------------------------------------------------------------
(* `toc watch` *)

Begin(o, new) ==
  /\ w[o].pc = "idle" /\ uses < MaxUses
  /\ uses' = uses + 1
  /\ w' = [w EXCEPT ![o] = new]

\* Two observers of Claude at a time: both bring its events to events.jsonl.
Joins(o) == IF runtime = "claude" /\ \E q \in Observers \ {o} : w[q].pc # "idle"
            THEN {"crowd"} ELSE {}

\* runWatch: a session that is over is replayed, any other one is tailed.
StartWatch(o) ==
  /\ Begin(o, [NewObserver EXCEPT !.pc =
       IF Status \in {"completed", "cancelled"} THEN "ensure" ELSE "poll"])
  /\ Went(Joins(o))
  /\ UNCHANGED <<runtime, agent, happened, half, events, exists>>

\* How many events are in events.jsonl when the watch begins: those are not
\* shown again.
CountCached(o) ==
  /\ w[o].pc \in {"poll", "check", "last", "drain"} /\ w[o].cached = NotCounted
  /\ w' = [w EXCEPT ![o].cached = Len(events)]
  /\ Went(ReadCrosses)
  /\ UNCHANGED <<runtime, agent, happened, half, events, uses, exists>>

\* Mutant: what is left of a read is dropped.
Ahead_NoPartial(o) == w[o].offset

\* readNewLines: the lines that are complete with what was left of the last
\* read, those whose first half is not before it; the rest is kept for the
\* next one.
Ahead(o) == w[o].offset - w[o].partial

NewLines(o) == SubSeq(Lines, (Ahead(o) + 1) \div 2 + 1, Len(Lines))
Read(o, further) ==
  IF Size <= w[o].offset THEN [w[o] EXCEPT !.queue = @ \o further]
  ELSE [w[o] EXCEPT !.queue = @ \o NewLines(o) \o further,
                    !.offset = Size, !.partial = Size % 2]

\* One tick of the tailer: read, look for the output, and if it is there
\* read a last time.
Poll(o) ==
  /\ w[o].pc = "poll"
  /\ w' = [w EXCEPT ![o] = [Read(o, <<>>) EXCEPT !.pc = "check"]]
  /\ UNCHANGED <<runtime, agent, happened, half, events, uses, exists, mishaps>>

Check(o) ==
  /\ w[o].pc = "check"
  /\ w' = [w EXCEPT ![o].pc = IF OutputThere THEN "last" ELSE "poll"]
  /\ UNCHANGED <<runtime, agent, happened, half, events, uses, exists, mishaps>>

\* Mutant: the output is taken to mean that everything has been read.
LastRead_None(o) ==
  /\ w[o].pc = "last"
  /\ w' = [w EXCEPT ![o].queue = Append(@, Finished), ![o].pc = "drain"]
  /\ Went(ReadCrosses)
  /\ UNCHANGED <<runtime, agent, happened, half, events, uses, exists>>

LastRead(o) ==
  /\ w[o].pc = "last"
  /\ w' = [w EXCEPT ![o] = [Read(o, <<Finished>>) EXCEPT !.pc = "drain"]]
  /\ Went(ReadCrosses)
  /\ UNCHANGED <<runtime, agent, happened, half, events, uses, exists>>

\* Mutant: cached events are shown and appended once more.
Skipping_Never(o) == FALSE

\* The loop of runWatch takes the events from the channel.
Skipping(o) == w[o].skipped < w[o].cached

Show(o) ==
  /\ w[o].queue # <<>> /\ w[o].cached # NotCounted
  /\ LET e == Head(w[o].queue)  rest == [w[o] EXCEPT !.queue = Tail(@)] IN
     \/ /\ e = Finished
        /\ w' = [w EXCEPT ![o] = [rest EXCEPT !.pc = "ensure"]]
        /\ UNCHANGED <<events, exists, mishaps>>
     \/ /\ e # Finished /\ Skipping(o)
        /\ w' = [w EXCEPT ![o] = [rest EXCEPT !.skipped = @ + 1]]
        /\ UNCHANGED <<events, exists, mishaps>>
     \/ /\ e # Finished /\ ~Skipping(o)
        /\ w' = [w EXCEPT ![o] = [rest EXCEPT !.shown = Append(@, e)]]
        /\ IF runtime = "native" THEN UNCHANGED <<events, exists, mishaps>>
           ELSE AppendEvent(e) /\ Went(AppendCrosses)
  /\ UNCHANGED <<runtime, agent, happened, half, uses>>

Interrupt(o) ==
  /\ w[o].pc # "idle" /\ "interrupt" \in Faults
  /\ w' = [w EXCEPT ![o] = NewObserver]
  /\ Went(IF w[o].pc = "write" THEN {"overlap"} ELSE {})
  /\ UNCHANGED <<runtime, agent, happened, half, events, uses, exists>>

-----------------------------------------------------------------------------
(* EnsureEventLog: the end of a watch, and `toc replay` *)

StartReplay(o) ==
  /\ Begin(o, [NewObserver EXCEPT !.pc = "ensure"])
  /\ Went(Joins(o))
  /\ UNCHANGED <<runtime, agent, happened, half, events, exists>>

\* Nothing to write: the session is active and events.jsonl there, or the
\* runtime's log is not.
LogThere == IF runtime = "native" THEN exists ELSE Size > 0
Loaded   == (Status = "active" /\ exists) \/ ~LogThere

\* Mutant: the last line is left out.
Parse_NoLast(o) ==
  /\ w[o].pc = "ensure"
  /\ IF Loaded THEN w' = [w EXCEPT ![o] = NewObserver]
     ELSE w' = [w EXCEPT ![o].pc = "create",
                         ![o].parsed = SubSeq(Lines, 1, Len(Lines) - 1)]
  /\ Went(ReadCrosses)
  /\ UNCHANGED <<runtime, agent, happened, half, events, uses, exists>>

\* events.jsonl of an active session is only read; otherwise the runtime's
\* log is parsed, which for a native session is events.jsonl itself.
Parse(o) ==
  /\ w[o].pc = "ensure"
  /\ IF Loaded THEN w' = [w EXCEPT ![o] = NewObserver]
     ELSE w' = [w EXCEPT ![o].pc = "create", ![o].parsed = Lines]
  /\ Went(ReadCrosses)
  /\ UNCHANGED <<runtime, agent, happened, half, events, uses, exists>>

\* SaveEventLog: os.Create, then one write from the start of the file over
\* whatever has been appended meanwhile.
CreateLog(o) ==
  /\ w[o].pc = "create"
  /\ events' = <<>>
  /\ exists' = TRUE
  /\ w' = [w EXCEPT ![o].pc = "write"]
  /\ UNCHANGED <<runtime, agent, happened, half, uses, mishaps>>

WriteLog(o) ==
  /\ w[o].pc = "write"
  /\ events' = w[o].parsed \o SubSeq(events, Len(w[o].parsed) + 1, Len(events))
  /\ w' = [w EXCEPT ![o] = NewObserver]
  /\ UNCHANGED <<runtime, agent, happened, half, exists, uses, mishaps>>

-----------------------------------------------------------------------------
Init ==
  /\ runtime \in Runtimes /\ agent = "running"
  /\ happened = 0 /\ half = 0 /\ events = <<>>
  /\ w = [o \in Observers |-> NewObserver] /\ uses = 0
  /\ exists = FALSE /\ mishaps = {}

Step(o) ==
  \/ CountCached(o) \/ Poll(o) \/ Check(o) \/ LastRead(o) \/ Show(o)
  \/ Parse(o) \/ CreateLog(o) \/ WriteLog(o)

Next ==
  \/ NativeEvent \/ ClaudeWrites \/ AgentEnds \/ Cancel
  \/ \E o \in Observers : Step(o) \/ StartWatch(o) \/ StartReplay(o) \/ Interrupt(o)

Spec == Init /\ [][Next]_vars

-----------------------------------------------------------------------------
(* Properties *)

\* Type invariant.
Logged == 1 .. Cancelled
Observer ==
  [pc : {"idle", "poll", "check", "last", "drain", "ensure", "create", "write"},
   offset : Nat, partial : 0 .. 1, queue : Seq(Logged \cup {Finished}), cached : Nat,
   skipped : Nat, shown : Seq(Logged), parsed : Seq(Logged)]

TypeOK ==
  /\ runtime \in Runtimes /\ agent \in {"running", "ended", "finished", "dead", "cancelled"}
  /\ happened \in 0 .. MaxEvents /\ half \in 0 .. 1
  /\ events \in Seq(Logged) /\ exists \in BOOLEAN
  /\ w \in [Observers -> Observer] /\ uses \in 0 .. MaxUses
  /\ mishaps \subseteq {"overlap", "cancel", "crowd"}

UpTo(n) == [i \in 1 .. n |-> i]

\* A watch that comes to the end of the session has shown every event that
\* was not in events.jsonl when it began, once and in order, however the
\* agent's half-written lines, its end and the ticks of the tailer fall; it
\* may miss events only when events.jsonl is rewritten under it or another
\* watch appends to it at the same time.
WatchComplete ==
  mishaps = {} => \A o \in Observers :
    w[o].pc = "ensure" /\ w[o].cached # NotCounted =>
      w[o].shown = SubSeq(UpTo(happened), w[o].cached + 1, happened)

\* events.jsonl never holds an event twice or out of order, nor misses one
\* before another, over any sequence of interrupted watches and replays; a
\* native session's holds all that has happened.
LogInOrder ==
  mishaps = {} /\ (\A o \in Observers : w[o].pc # "write") =>
    /\ events = UpTo(Len(events)) /\ Len(events) <= happened
    /\ runtime = "native" => Len(events) = happened
=============================================================================
