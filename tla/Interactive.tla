---------------------------- MODULE Interactive ----------------------------
(***************************************************************************)
(* An interactive toc-native session at a terminal (RunNativeSession): the *)
(* loop that waits for a line, a signal or a sub-agent's notification, the *)
(* goroutine that reads the line, the prompts it runs, whose calls Tools   *)
(* executes, and the Question tool, which reads the same terminal.         *)
(* What is typed is a line, together with the prompt it is meant for.      *)
(***************************************************************************)
EXTENDS Tools

CONSTANTS
  OnEnd,     \* the agent has an on_end prompt
  MaxLines,  \* bound: lines typed
  MaxNotes   \* bound: notifications that arrive

ASSUME InteractiveAssumption == OnEnd \in BOOLEAN /\ {MaxLines, MaxNotes} \subseteq Nat

VARIABLES
  raw,       \* the terminal is in raw mode: Enter sends CR, Ctrl+C a byte
  phase,     \* run, top (of the loop), wait (in its select), children (the wait
             \* of a session started with a prompt), finalize, ended
  origin,    \* what the prompt that runs was made of
  reading,   \* a goroutine of the loop reads a line (stdinReading)
  readCh,    \* the line it has read, or NoLine
  eof,       \* the line that is handled was ended by the end of the input
  notes,     \* notifications in the session's directory
  shown,     \* what the terminal shows: 0 for the loop's prompt, else the call
  typed,     \* lines typed
  arrived,   \* notifications that have arrived
  astray,    \* history: lines that reached another reader than they were for
  shared     \* history: a prompt that no line made, a notification's or on_end
             \* put a question while the loop was reading

terminal == <<raw, reading, readCh, shown, typed, astray, shared>>
loop     == <<phase, origin, eof, notes, arrived>>
vars     == <<toolVars, terminal, loop>>

NoLine == [for |-> 0, text |-> "none"]
Texts  == {"prompt", "blank", "exit", "eof", "lastLine"}

\* The questions that wait for a line, those whose call has timed out included.
Asking == {i \in DOMAIN calls : calls[i].pc = "asking"}

TypeOK ==
  /\ manifest \in Manifests
  /\ disk \in [Paths -> Seq(Marks) \cup {Absent}]
  /\ todos \in Marks \cup {Blank}
  /\ workingSet \in [FileTools -> Seq({c.path : c \in Calls})]
  /\ \A t \in FileTools : Len(workingSet[t]) <= MaxWorkingSet
  /\ calls \in Seq([call : Calls, data : Seq(Marks),
                   pc : {"called", "open", "write", "fetched", "asking", "done"},
                   outcome : {"none", "ok", "failed", "ioerror"},
                   result : {"none", "ok", "failed", "ioerror", "timeout"}])
  /\ Len(calls) <= MaxCalls /\ {current, shown} \subseteq 0 .. Len(calls)
  /\ phase \in {"top", "wait", "run", "children", "finalize", "ended"}
  /\ origin \in {"none", "given", "line", "note", "tick", "child", "end"}
  /\ {raw, reading, eof, shared} \subseteq BOOLEAN
  /\ readCh \in [for : 0 .. Len(calls), text : Texts \cup {"none", "interrupt"}]
  /\ arrived \in 0 .. MaxNotes /\ notes \in 0 .. arrived
  /\ typed \in 0 .. MaxLines /\ astray \subseteq 1 .. typed

-----------------------------------------------------------------------------
(* The terminal *)

\* nativeQuestion at a terminal: the question is printed, a reader of its own waits.
PutQuestion(i) ==
  /\ Proceeds(i, {"Question"})
  /\ Goes(i, "asking", <<>>)
  /\ shown' = i
  /\ shared' = (shared \/ (reading /\ origin \notin {"given", "line"}))
  /\ UNCHANGED <<manifest, disk, todos, workingSet, current>>
  /\ UNCHANGED <<raw, reading, readCh, typed, astray, loop>>

\* A line reaches whichever goroutine's read returns it.
Strays(reader) == astray' = (IF reader = shown THEN astray ELSE astray \cup {typed + 1})

\* The loop's goroutine: ReadLine in raw mode, which ends at CR or LF, else
\* ReadString.  lastLine has text and then the end of the input.
ReachesLoop ==
  /\ reading /\ readCh = NoLine
  /\ \E t \in Texts :
       /\ t = "lastLine" => ~raw
       /\ readCh' = [for |-> shown, text |-> t]
  /\ Strays(0)
  /\ UNCHANGED toolVars

\* A question's ReadString ends at LF alone, which Enter does not send in raw
\* mode: what was typed stays in its buffer.
ReachesQuestion(i) ==
  /\ i \in Asking
  /\ \/ Ends(i, "ok")
     \/ raw /\ UNCHANGED calls
  /\ Strays(i)
  /\ UNCHANGED <<manifest, disk, todos, workingSet, current, readCh>>

Type ==
  /\ typed < MaxLines /\ phase # "ended"
  /\ phase = "wait" \/ Asking # {}
  /\ ReachesLoop \/ \E i \in Asking : ReachesQuestion(i)
  /\ typed' = typed + 1
  /\ UNCHANGED <<raw, reading, shown, shared, loop>>

\* Ctrl+C in raw mode is a byte, which ReadLine turns into errInterrupt.
InterruptKey ==
  /\ raw /\ reading /\ readCh = NoLine /\ phase # "ended"
  /\ readCh' = [for |-> 0, text |-> "interrupt"]
  /\ UNCHANGED <<toolVars, raw, reading, shown, typed, astray, shared, loop>>

-----------------------------------------------------------------------------
(* The loop of RunNativeSession *)

RunPrompt(o) == phase' = "run" /\ origin' = o

\* drainSessionNotifications at the top, in a tick of the select and in
\* waitForSessionNotifications: one prompt for each notification.
Drainers == [top |-> "note", wait |-> "tick", children |-> "child"]

PopNotification ==
  /\ phase \in DOMAIN Drainers /\ notes > 0
  /\ notes' = notes - 1
  /\ RunPrompt(Drainers[phase])
  /\ UNCHANGED <<toolVars, terminal, eof, arrived>>

\* A session started with a prompt ends once no child is active.
ChildrenDone ==
  /\ phase = "children" /\ notes = 0
  /\ phase' = "finalize"
  /\ UNCHANGED <<toolVars, terminal, origin, eof, notes, arrived>>

\* Nothing to drain: a reader is started unless one is pending.
StartReading ==
  /\ phase = "top" /\ notes = 0
  /\ reading' = TRUE
  /\ shown' = IF reading THEN shown ELSE 0
  /\ phase' = "wait"
  /\ UNCHANGED <<toolVars, raw, readCh, typed, astray, shared>>
  /\ UNCHANGED <<origin, eof, notes, arrived>>

\* The select takes the line: it becomes a prompt, ends the session or is blank.
TakeLine ==
  /\ phase = "wait" /\ readCh # NoLine
  /\ readCh' = NoLine
  /\ reading' = FALSE
  /\ eof' = (readCh.text = "lastLine")
  /\ CASE readCh.text \in {"prompt", "lastLine"} -> RunPrompt("line")
       [] readCh.text = "blank" -> phase' = "top" /\ UNCHANGED origin
       [] OTHER -> phase' = "finalize" /\ UNCHANGED origin
  /\ UNCHANGED <<toolVars, raw, shown, typed, astray, shared, notes, arrived>>

\* SIGINT, which a terminal in raw mode does not send: finalizeNativeSession.
Interrupt ==
  /\ phase = "wait" /\ ~raw
  /\ phase' = "finalize"
  /\ UNCHANGED <<toolVars, terminal, origin, eof, notes, arrived>>

Finalize ==
  /\ phase = "finalize"
  /\ IF OnEnd THEN RunPrompt("end") ELSE phase' = "ended" /\ UNCHANGED origin
  /\ UNCHANGED <<toolVars, terminal, eof, notes, arrived>>

\* Out of iterations ends the session as an error does, unless the prompt was
\* the user's.
GoesOn(result) ==
  result = "ok" \/ (result = "maxIterations" /\ origin \in {"given", "line"})

\* Where the session goes on after a prompt.
After(result) ==
  CASE ~GoesOn(result) \/ origin = "end" -> "ended"
    [] origin = "line" /\ eof /\ result = "ok" -> "finalize"
    [] origin = "child" \/ (origin = "given" /\ result = "ok") -> "children"
    [] OTHER -> "top"

\* Mutant: the prompt returns while its call is executed.
PromptReturns_InBackground ==
  /\ phase = "run"
  /\ \E result \in {"ok", "maxIterations", "error"} :
       phase' = After(result)
  /\ origin' = "none"
  /\ shown' = IF origin = "tick" /\ raw THEN 0 ELSE shown
  /\ UNCHANGED <<toolVars, raw, reading, readCh, typed, astray, shared>>
  /\ UNCHANGED <<eof, notes, arrived>>

\* runNativePrompt returns, which it does between two calls.  After a tick the
\* loop shows its prompt again.
PromptReturns ==
  /\ phase = "run" /\ current = 0
  /\ \E result \in {"ok", "maxIterations", "error"} :
       phase' = After(result)
  /\ origin' = "none"
  /\ shown' = IF origin = "tick" /\ raw THEN 0 ELSE shown
  /\ UNCHANGED <<toolVars, raw, reading, readCh, typed, astray, shared>>
  /\ UNCHANGED <<eof, notes, arrived>>

Notify ==
  /\ arrived < MaxNotes /\ phase # "ended"
  /\ arrived' = arrived + 1
  /\ notes' = notes + 1
  /\ UNCHANGED <<toolVars, terminal, phase, origin, eof>>

-----------------------------------------------------------------------------

CallTool == phase = "run" /\ Call /\ UNCHANGED <<terminal, loop>>

Handler(i) ==
  \/ ToolStep(i) /\ phase # "ended" /\ UNCHANGED <<terminal, loop>>
  \/ PutQuestion(i) /\ phase # "ended"

TimeOut == Deadline /\ UNCHANGED <<terminal, loop>>
Receive == Collect /\ UNCHANGED <<terminal, loop>>

Init ==
  /\ ToolInit
  /\ raw \in BOOLEAN
  /\ \/ phase = "top" /\ origin = "none"
     \/ phase = "run" /\ origin = "given"
  /\ reading = FALSE /\ readCh = NoLine /\ eof = FALSE
  /\ notes = 0 /\ shown = 0 /\ typed = 0 /\ arrived = 0
  /\ astray = {} /\ shared = FALSE

User == Type \/ InterruptKey \/ Interrupt
Loop == PopNotification \/ ChildrenDone \/ StartReading \/ TakeLine \/ Finalize \/ PromptReturns

Next ==
  \/ User \/ Loop \/ Notify
  \/ CallTool \/ TimeOut \/ Receive
  \/ \E i \in DOMAIN calls : Handler(i)

\* The loop and the runner go on when they can, and deadlines pass; nobody has
\* to type, and a handler may hang.
Fairness == WF_vars(Loop) /\ WF_vars(TimeOut) /\ WF_vars(Receive)
            /\ \A i \in 1 .. MaxCalls :
                 WF_vars(/\ i \in DOMAIN calls
                         /\ calls[i].call.tool \notin CanHang \/ Refused(calls[i].call)
                         /\ Handler(i))
Spec == Init /\ [][Next]_vars /\ Fairness

-----------------------------------------------------------------------------

\* A line goes to the prompt the terminal shows, unless a prompt made of a
\* notification, or on_end, put a question while the loop was reading, or a
\* question that timed out still waits for its answer: a prompt made of a line
\* never competes with the loop (stdinReading, readCh, nativeQuestion).
LinesArrive ==
  astray # {} => shared \/ \E i \in DOMAIN calls : calls[i].result = "timeout"
                                                   /\ calls[i].call.tool = "Question"

\* Every prompt of the session returns, also when its tool hangs or nobody
\* answers its question: the deadline gives the runner a result
\* (executeNativeToolWithTimeout).
PromptsReturn == phase = "run" ~> phase # "run"
=============================================================================
