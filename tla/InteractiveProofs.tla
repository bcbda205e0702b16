------------------------- MODULE InteractiveProofs -------------------------
(***************************************************************************)
(* That a typed line reaches the prompt the terminal shows, and that the   *)
(* files of a session are what its transcript tells, for any number of     *)
(* calls, lines and notifications and any choice of faults.                *)
(***************************************************************************)
EXTENDS Interactive, SequenceTheorems, TLAPS

USE ToolsAssumption, InteractiveAssumption

Places   == {"called", "open", "write", "fetched", "asking", "done"}
Outcomes == {"none", "ok", "failed", "ioerror"}
Results  == {"none", "ok", "failed", "ioerror", "timeout"}
Goroutines == [call : Calls, data : Seq(Marks), pc : Places,
               outcome : Outcomes, result : Results]

-----------------------------------------------------------------------------
(* Types *)

Named == {c.path : c \in Calls}

ToolTypes ==
  /\ manifest \in Manifests
  /\ disk \in [Paths -> Seq(Marks) \cup {Absent}]
  /\ todos \in Marks \cup {Blank}
  /\ workingSet \in [FileTools -> Seq(Named)]
  /\ \A t \in FileTools : Len(workingSet[t]) <= MaxWorkingSet
  /\ calls \in Seq(Goroutines)
  /\ Len(calls) <= MaxCalls /\ current \in 0 .. Len(calls)

LoopTypes ==
  /\ shown \in 0 .. Len(calls)
  /\ phase \in {"top", "wait", "run", "children", "finalize", "ended"}
  /\ origin \in {"none", "given", "line", "note", "tick", "child", "end"}
  /\ raw \in BOOLEAN /\ reading \in BOOLEAN /\ eof \in BOOLEAN /\ shared \in BOOLEAN
  /\ readCh \in [for : 0 .. Len(calls), text : Texts \cup {"none", "interrupt"}]
  /\ arrived \in 0 .. MaxNotes /\ notes \in 0 .. arrived
  /\ typed \in 0 .. MaxLines /\ astray \subseteq 1 .. typed

\* The two halves are the type invariant.
LEMMA Halves == TypeOK <=> ToolTypes /\ LoopTypes
<1>1. {current, shown} \subseteq 0 .. Len(calls)
        <=> current \in 0 .. Len(calls) /\ shown \in 0 .. Len(calls)
  OBVIOUS
<1>2. {raw, reading, eof, shared} \subseteq BOOLEAN
        <=> raw \in BOOLEAN /\ reading \in BOOLEAN /\ eof \in BOOLEAN /\ shared \in BOOLEAN
  OBVIOUS
<1> QED
  BY <1>1, <1>2, Zenon DEF TypeOK, ToolTypes, LoopTypes, Goroutines, Places, Outcomes, Results,
     Named

\* What a step of a goroutine leaves as it is: its call, its result and the
\* other goroutines.
Kept(i) ==
  /\ calls' \in Seq(Goroutines)
  /\ Len(calls') = Len(calls)
  /\ \A j \in DOMAIN calls : /\ calls'[j].call = calls[j].call
                             /\ calls'[j].result = calls[j].result
                             /\ j # i => calls'[j] = calls[j]

\* A goroutine moves on.
LEMMA GoesKept ==
  ASSUME calls \in Seq(Goroutines), NEW i \in DOMAIN calls,
         NEW pc \in Places, NEW data \in Seq(Marks), Goes(i, pc, data)
  PROVE  /\ Kept(i)
         /\ calls'[i].pc = pc /\ calls'[i].data = data
         /\ calls'[i].outcome = calls[i].outcome
<1> DEFINE k == [calls[i] EXCEPT !.pc = pc, !.data = data]
<1>1. calls[i] \in Goroutines /\ i \in 1 .. Len(calls)
  BY ElementOfSeq
<1>2. k \in Goroutines /\ k.call = calls[i].call /\ k.result = calls[i].result
      /\ k.pc = pc /\ k.data = data /\ k.outcome = calls[i].outcome
  BY <1>1 DEF Goroutines
<1>3. calls' = [calls EXCEPT ![i] = k]
  BY DEF Goes
<1>4. calls' \in Seq(Goroutines) /\ Len(calls') = Len(calls)
  <2>1. \A x \in Goroutines : /\ [calls EXCEPT ![i] = x] \in Seq(Goroutines)
                              /\ Len([calls EXCEPT ![i] = x]) = Len(calls)
    BY <1>1, ExceptSeq
  <2> HIDE DEF k
  <2> QED  BY <1>2, <1>3, <2>1
<1>5. \A j \in DOMAIN calls : calls'[j] = IF j = i THEN k ELSE calls[j]
  BY <1>3
<1> QED
  BY <1>2, <1>4, <1>5 DEF Kept

\* A goroutine ends.
LEMMA EndsKept ==
  ASSUME calls \in Seq(Goroutines), NEW i \in DOMAIN calls,
         NEW outcome \in Outcomes, Ends(i, outcome)
  PROVE  Kept(i) /\ calls'[i].pc = "done" /\ calls'[i].outcome = outcome
<1> DEFINE k == [calls[i] EXCEPT !.pc = "done", !.data = <<>>, !.outcome = outcome]
<1>1. calls[i] \in Goroutines /\ i \in 1 .. Len(calls)
  BY ElementOfSeq
<1>2. k \in Goroutines /\ k.call = calls[i].call /\ k.result = calls[i].result
      /\ k.pc = "done" /\ k.outcome = outcome
  <2>1. <<>> \in Seq(Marks) /\ "done" \in Places
    BY DEF Places
  <2> QED  BY <1>1, <2>1 DEF Goroutines
<1>3. calls' = [calls EXCEPT ![i] = k]
  BY DEF Ends
<1>4. calls' \in Seq(Goroutines) /\ Len(calls') = Len(calls)
  <2>1. \A x \in Goroutines : /\ [calls EXCEPT ![i] = x] \in Seq(Goroutines)
                              /\ Len([calls EXCEPT ![i] = x]) = Len(calls)
    BY <1>1, ExceptSeq
  <2> HIDE DEF k
  <2> QED  BY <1>2, <1>3, <2>1
<1>5. \A j \in DOMAIN calls : calls'[j] = IF j = i THEN k ELSE calls[j]
  BY <1>3
<1> QED
  BY <1>2, <1>4, <1>5 DEF Kept

\* An edit turns content into content.
LEMMA ReplacedType ==
  ASSUME NEW s \in Seq(Marks), NEW c \in Calls PROVE Replaced(s, c) \in Seq(Marks)
<1>1. s \in [1 .. Len(s) -> Marks] /\ Len(s) \in Nat /\ DOMAIN s = 1 .. Len(s)
  OBVIOUS
<1>2. Replaced(s, c) \in [1 .. Len(s) -> Marks]
  BY <1>1 DEF Replaced
<1> QED
  BY <1>1, <1>2

\* What the handlers write: the same files, or those with one of them changed.
LEMMA WrittenType ==
  ASSUME disk \in [Paths -> Seq(Marks) \cup {Absent}], NEW p,
         NEW x \in Seq(Marks) \cup {Absent}
  PROVE  [disk EXCEPT ![p] = x] \in [Paths -> Seq(Marks) \cup {Absent}]
  OBVIOUS

\* A call that is executed names a file of the session, and what it writes is
\* content.
LEMMA Arguments ==
  ASSUME ToolTypes, NEW i \in DOMAIN calls
  PROVE  /\ calls[i].call \in Calls /\ calls[i].data \in Seq(Marks)
         /\ calls[i].call.new \in Marks
         /\ ~Refused(calls[i].call) /\ calls[i].call.tool \in FileTools
              => calls[i].call.path \in Paths
<1>1. calls[i] \in Goroutines
  BY ElementOfSeq DEF ToolTypes
<1>2. calls[i].call \in Calls /\ calls[i].data \in Seq(Marks)
  BY <1>1 DEF Goroutines
<1> QED
  BY <1>2 DEF Refused, BadArguments

\* Every step of a handler: only its goroutine, files and todos change.
LEMMA HandlerStep ==
  ASSUME ToolTypes, NEW i \in DOMAIN calls, ToolStep(i)
  PROVE  ToolTypes' /\ Kept(i) /\ current' = current
<1>1. calls[i].call.new \in Marks /\ calls[i].call \in Calls /\ calls[i].data \in Seq(Marks)
      /\ <<>> \in Seq(Marks)
  BY Arguments
<1>2. calls \in Seq(Goroutines)
  BY DEF ToolTypes
<1>3. Kept(i)
  <2> USE <1>2, EndsKept DEF Outcomes
  <2>1. CASE Refuse(i) \/ ReadFile(i) \/ Search(i) \/ Fill(i) \/ FillFails(i) \/ WriteTodos(i)
             \/ Summarize(i)
    <3>1. \E o \in Outcomes : Ends(i, o)
      BY <2>1 DEF Refuse, ReadFile, Search, Fill, FillFails, WriteTodos, Summarize
    <3> QED  BY <3>1
  <2>2. CASE ReadSkill(i) \/ RunCommand(i)
    <3>1. \E o \in Outcomes : Ends(i, o)
      BY <2>2 DEF ReadSkill, RunCommand
    <3> QED  BY <3>1
  <2>3. CASE WriteFile(i)
    <3>1. <<calls[i].call.new>> \in Seq(Marks)
      BY <1>1
    <3> QED  BY <2>3, <3>1, GoesKept DEF WriteFile, Places
  <2>4. CASE ReadForEdit(i)
    <3> DEFINE c == calls[i].call
    <3>1. CASE Ends(i, "failed")
      BY <3>1
    <3>2. CASE disk[c.path] # Absent /\ Goes(i, "open", Replaced(disk[c.path], c))
      <4>1. c.path \in Paths
        BY <2>4, Arguments DEF ReadForEdit, Proceeds, At, FileTools
      <4>2. disk[c.path] \in Seq(Marks)
        BY <3>2, <4>1 DEF ToolTypes
      <4>3. Replaced(disk[c.path], c) \in Seq(Marks)
        BY <1>1, <4>2, ReplacedType
      <4> QED  BY <3>2, <4>3, GoesKept DEF Places
    <3> QED  BY <2>4, <3>1, <3>2 DEF ReadForEdit
  <2>5. CASE Truncate(i)
    BY <1>1, <2>5, GoesKept DEF Truncate, Places
  <2>6. CASE Fetch(i)
    BY <1>1, <2>6, GoesKept DEF Fetch, Places
  <2> QED
    BY <2>1, <2>2, <2>3, <2>4, <2>5, <2>6 DEF ToolStep
<1>4. disk' \in [Paths -> Seq(Marks) \cup {Absent}]
  <2>1. CASE Truncate(i)
    BY <1>1, <2>1, WrittenType DEF ToolTypes, Truncate
  <2>2. CASE Fill(i)
    BY <1>1, <2>2, WrittenType DEF ToolTypes, Fill
  <2>3. CASE RunCommand(i)
    <3>1. <<calls[i].call.new>> \in Seq(Marks)
      BY <1>1
    <3> QED  BY <2>3, <3>1, WrittenType DEF ToolTypes, RunCommand
  <2>4. CASE UNCHANGED disk
    BY <2>4 DEF ToolTypes
  <2> QED
    BY <2>1, <2>2, <2>3, <2>4 DEF ToolStep, Refuse, ReadFile, Search, ReadSkill, WriteFile,
       ReadForEdit, FillFails, WriteTodos, Fetch, Summarize
<1>5. todos' \in Marks \cup {Blank}
  BY <1>1 DEF ToolTypes, ToolStep, Refuse, ReadFile, Search, ReadSkill, WriteFile, ReadForEdit,
     Truncate, Fill, FillFails, RunCommand, WriteTodos, Fetch, Summarize
<1>6. UNCHANGED <<manifest, workingSet, current>>
  BY DEF ToolStep, Refuse, ReadFile, Search, ReadSkill, WriteFile, ReadForEdit,
     Truncate, Fill, FillFails, RunCommand, WriteTodos, Fetch, Summarize
<1> QED
  BY <1>3, <1>4, <1>5, <1>6 DEF ToolTypes, Kept

\* What the runner reports of the call it waits for, as it goes on.
Reports(result) ==
  /\ calls' = [calls EXCEPT ![current].result = result]
  /\ current' = 0 /\ current # 0

\* Reporting a result changes nothing of the calls but the current one's result.
LEMMA ReportsKept ==
  ASSUME ToolTypes, NEW result \in Results, Reports(result)
  PROVE  /\ current \in DOMAIN calls
         /\ calls' \in Seq(Goroutines) /\ Len(calls') = Len(calls)
         /\ calls'[current] = [calls[current] EXCEPT !.result = result]
         /\ calls'[current].result = result
         /\ \A i \in DOMAIN calls : /\ calls'[i].call = calls[i].call
                                    /\ calls'[i].pc = calls[i].pc
                                    /\ calls'[i].outcome = calls[i].outcome
                                    /\ i # current => calls'[i] = calls[i]
<1> DEFINE k == [calls[current] EXCEPT !.result = result]
<1>1. calls \in Seq(Goroutines) /\ current \in DOMAIN calls /\ current \in 1 .. Len(calls)
  BY DEF ToolTypes, Reports
<1>2. calls[current] \in Goroutines
  BY <1>1, ElementOfSeq
<1>3. /\ k \in Goroutines /\ k.call = calls[current].call /\ k.result = result
      /\ k.pc = calls[current].pc /\ k.outcome = calls[current].outcome
  BY <1>2 DEF Goroutines
<1>4. calls' = [calls EXCEPT ![current] = k]
  BY DEF Reports
<1>5. calls' \in Seq(Goroutines) /\ Len(calls') = Len(calls)
  <2>1. \A x \in Goroutines : /\ [calls EXCEPT ![current] = x] \in Seq(Goroutines)
                              /\ Len([calls EXCEPT ![current] = x]) = Len(calls)
    BY <1>1, ExceptSeq
  <2> HIDE DEF k
  <2> QED  BY <1>3, <1>4, <2>1
<1>6. \A i \in DOMAIN calls : calls'[i] = IF i = current THEN k ELSE calls[i]
  BY <1>4
<1> QED
  BY <1>1, <1>3, <1>5, <1>6

\* The working set names files of calls, and never more than its limit.
LEMMA UniqueType ==
  ASSUME NEW s \in Seq(Named), NEW x \in Named, Len(s) <= MaxWorkingSet
  PROVE  AppendUnique(s, x) \in Seq(Named) /\ Len(AppendUnique(s, x)) <= MaxWorkingSet
<1>1. Append(s, x) \in Seq(Named) /\ Len(Append(s, x)) = Len(s) + 1 /\ Append(s, x) # <<>>
  OBVIOUS
<1>2. Tail(Append(s, x)) \in Seq(Named) /\ Len(Tail(Append(s, x))) = Len(s)
  BY <1>1
<1>3. Len(s) \in Nat
  OBVIOUS
<1> QED
  BY <1>1, <1>2, <1>3 DEF AppendUnique

\* The working set keeps its bound.
LEMMA WorkingSetType ==
  ASSUME ToolTypes, NEW c \in Calls, UpdateFromToolCall(c)
  PROVE  /\ workingSet' \in [FileTools -> Seq(Named)]
         /\ \A t \in FileTools : Len(workingSet'[t]) <= MaxWorkingSet
<1>1. c.path \in Named
  BY DEF Named
<1>2. \A t \in FileTools : /\ AppendUnique(workingSet[t], c.path) \in Seq(Named)
                           /\ Len(AppendUnique(workingSet[t], c.path)) <= MaxWorkingSet
  BY <1>1, UniqueType DEF ToolTypes
<1>3. CASE c.tool \in FileTools /\ c.path # Blank
  BY <1>2, <1>3 DEF UpdateFromToolCall, ToolTypes
<1>4. CASE ~(c.tool \in FileTools /\ c.path # Blank)
  BY <1>4 DEF UpdateFromToolCall, ToolTypes
<1> QED
  BY <1>3, <1>4

\* The runner reports what the handler returns, or a timeout.
LEMMA ResultStep ==
  ASSUME ToolTypes, Collect \/ Deadline
  PROVE  /\ ToolTypes' /\ disk' = disk
         /\ \E result \in Results :
              /\ Reports(result)
              /\ \/ result = calls[current].outcome /\ calls[current].pc = "done"
                 \/ result = "timeout" /\ calls[current].pc # "done"
<1>1. current # 0 /\ current \in DOMAIN calls
  BY DEF ToolTypes, Collect, Deadline
<1>2. calls[current] \in Goroutines
  BY <1>1, ElementOfSeq DEF ToolTypes
<1>3. calls[current].outcome \in Results /\ "timeout" \in Results
      /\ calls[current].call \in Calls
  BY <1>2 DEF Goroutines, Outcomes, Results
<1>4. \E result \in Results :
        /\ Reports(result)
        /\ \/ result = calls[current].outcome /\ calls[current].pc = "done"
           \/ result = "timeout" /\ calls[current].pc # "done"
  BY <1>1, <1>3 DEF Collect, Deadline, Reports
<1>5. calls' \in Seq(Goroutines) /\ Len(calls') = Len(calls)
  BY <1>4, ReportsKept
<1>6. UpdateFromToolCall(calls[current].call) /\ UNCHANGED <<manifest, disk, todos>>
      /\ current' = 0
  BY DEF Collect, Deadline
<1>7. ToolTypes'
  <2>1. current' \in 0 .. Len(calls') /\ Len(calls') <= MaxCalls
    BY <1>5, <1>6 DEF ToolTypes
  <2> QED  BY <1>3, <1>5, <1>6, <2>1, WorkingSetType DEF ToolTypes
<1> QED
  BY <1>4, <1>6, <1>7

\* The runner starts a call.
LEMMA CallStep ==
  ASSUME ToolTypes, Call
  PROVE  /\ ToolTypes' /\ disk' = disk /\ current = 0
         /\ Len(calls') = Len(calls) + 1 /\ current' = Len(calls')
         /\ \A i \in DOMAIN calls : calls'[i] = calls[i]
         /\ \E c \in Calls : calls'[current'] = Goroutine(c)
<1>1. calls \in Seq(Goroutines) /\ Len(calls) \in Nat /\ Len(calls) < MaxCalls
      /\ MaxCalls \in Nat
  BY DEF ToolTypes, Call
<1>2. PICK c \in Calls : calls' = Append(calls, Goroutine(c))
  BY DEF Call
<1>3. Goroutine(c) \in Goroutines
  <2>1. <<>> \in Seq(Marks)
    OBVIOUS
  <2> QED  BY <2>1 DEF Goroutine, Goroutines, Places, Outcomes, Results
<1>4. /\ calls' \in Seq(Goroutines) /\ Len(calls') = Len(calls) + 1
      /\ \A i \in DOMAIN calls : calls'[i] = calls[i]
      /\ calls'[Len(calls) + 1] = Goroutine(c)
  <2> HIDE DEF Goroutine
  <2> QED  BY <1>1, <1>2, <1>3
<1>5. current' = Len(calls') /\ current = 0 /\ Len(calls') <= MaxCalls
      /\ current' \in 0 .. Len(calls')
  BY <1>1, <1>4 DEF Call
<1>6. UNCHANGED <<manifest, disk, todos, workingSet>>
  BY DEF Call
<1> QED
  BY <1>4, <1>5, <1>6 DEF ToolTypes

\* A line that reaches a question ends its goroutine, or changes none.
LEMMA AnswerStep ==
  ASSUME ToolTypes, Type
  PROVE  /\ ToolTypes' /\ UNCHANGED <<disk, current>>
         /\ \/ UNCHANGED calls
            \/ \E i \in Asking : Ends(i, "ok") /\ Kept(i)
<1>1. UNCHANGED <<manifest, disk, todos, workingSet, current>>
  BY DEF Type, ReachesLoop, ReachesQuestion, toolVars
<1>2. UNCHANGED calls \/ \E i \in Asking : Ends(i, "ok")
  BY DEF Type, ReachesLoop, ReachesQuestion, toolVars
<1>3. \A i \in Asking : Ends(i, "ok") => Kept(i)
  BY EndsKept DEF Asking, Outcomes, ToolTypes
<1> QED
  BY <1>1, <1>2, <1>3 DEF ToolTypes, Kept

\* A question that is shown changes no file, and its goroutine waits.
LEMMA PutStep ==
  ASSUME ToolTypes, NEW i \in DOMAIN calls, PutQuestion(i)
  PROVE  /\ ToolTypes' /\ UNCHANGED <<disk, current>> /\ Kept(i)
         /\ calls'[i].pc = "asking" /\ calls'[i].outcome = calls[i].outcome
         /\ calls[i].pc = "called" /\ calls[i].call.tool = "Question"
<1>1. UNCHANGED <<manifest, disk, todos, workingSet, current>>
  BY DEF PutQuestion
<1>2. /\ Kept(i)
      /\ calls'[i].pc = "asking" /\ calls'[i].outcome = calls[i].outcome
  <2>1. <<>> \in Seq(Marks)
    OBVIOUS
  <2> QED  BY <2>1, GoesKept DEF PutQuestion, ToolTypes, Places
<1>3. calls[i].pc = "called" /\ calls[i].call.tool = "Question"
  BY DEF PutQuestion, Proceeds, At
<1> QED
  BY <1>1, <1>2, <1>3 DEF ToolTypes, Kept

\* The first state is well typed.
LEMMA TypeInit == Init => TypeOK
<1> SUFFICES ASSUME Init PROVE TypeOK
  OBVIOUS
<1>1. ToolTypes
  <2>1. \A t \in FileTools : workingSet[t] = <<>>
    BY DEF Init, ToolInit
  <2>2. <<>> \in Seq(Named) /\ <<>> \in Seq(Goroutines) /\ Len(<<>>) = 0
    OBVIOUS
  <2> QED
    BY <2>1, <2>2 DEF Init, ToolInit, ToolTypes
<1>2. LoopTypes
  <2>1. Len(calls) = 0 /\ 0 \in 0 .. Len(calls)
    BY DEF Init, ToolInit
  <2>2. readCh \in [for : 0 .. Len(calls), text : Texts \cup {"none", "interrupt"}]
    BY <2>1 DEF Init, NoLine
  <2>3. /\ shown = 0 /\ typed = 0 /\ arrived = 0 /\ notes = 0 /\ astray = {}
        /\ raw \in BOOLEAN /\ reading = FALSE /\ eof = FALSE /\ shared = FALSE
    BY DEF Init
  <2>4. phase \in {"top", "run"} /\ origin \in {"none", "given"}
    BY DEF Init
  <2> QED
    <3>1. 0 \in 0 .. MaxNotes /\ 0 \in 0 .. 0 /\ 0 \in 0 .. MaxLines
          /\ {} \subseteq 1 .. 0
      OBVIOUS
    <3>2. shown \in 0 .. Len(calls) /\ arrived \in 0 .. MaxNotes /\ notes \in 0 .. arrived
          /\ typed \in 0 .. MaxLines /\ astray \subseteq 1 .. typed
      BY <2>1, <2>3, <3>1, Zenon
    <3> QED  BY <2>2, <2>3, <2>4, <3>2 DEF LoopTypes
<1> QED
  BY <1>1, <1>2, Halves

\* Where no call is added or lost, the loop's variables keep their types.
LEMMA LoopKept ==
  ASSUME LoopTypes, ToolTypes, ToolTypes', Len(calls') >= Len(calls),
         UNCHANGED <<terminal, loop>>
  PROVE  LoopTypes'
<1>1. Len(calls) \in Nat /\ Len(calls') \in Nat
  BY DEF ToolTypes
<1>2. 0 .. Len(calls) \subseteq 0 .. Len(calls')
  BY <1>1
<1> QED
  BY <1>2 DEF LoopTypes, terminal, loop

\* Calling a tool, giving it up and receiving its result keep the types.
LEMMA ToolsStep ==
  ASSUME ToolTypes, LoopTypes, CallTool \/ TimeOut \/ Receive
  PROVE  ToolTypes' /\ LoopTypes'
<1>1. Len(calls) \in Nat
  BY DEF ToolTypes
<1>2. CASE CallTool
  BY <1>1, <1>2, CallStep, LoopKept DEF CallTool
<1>3. CASE TimeOut \/ Receive
  <2>1. Collect \/ Deadline
    BY <1>3 DEF TimeOut, Receive
  <2>2. ToolTypes' /\ Len(calls') = Len(calls)
    BY <2>1, ResultStep, ReportsKept
  <2> QED  BY <1>1, <1>3, <2>2, LoopKept DEF TimeOut, Receive
<1> QED
  BY <1>2, <1>3

\* So does each step of a goroutine.
LEMMA HandlerTypes ==
  ASSUME ToolTypes, LoopTypes, NEW i \in DOMAIN calls, Handler(i)
  PROVE  ToolTypes' /\ LoopTypes'
<1>1. Len(calls) \in Nat
  BY DEF ToolTypes
<1>2. CASE ToolStep(i) /\ UNCHANGED <<terminal, loop>>
  BY <1>1, <1>2, HandlerStep, LoopKept DEF Kept
<1>3. CASE PutQuestion(i)
  <2>1. ToolTypes' /\ Len(calls') = Len(calls)
    BY <1>3, PutStep DEF Kept
  <2>2. UNCHANGED <<raw, reading, readCh, typed, astray, loop>> /\ shown' = i
        /\ shared' \in BOOLEAN
    BY <1>3 DEF PutQuestion, LoopTypes
  <2>3. i \in 0 .. Len(calls)
    BY DEF ToolTypes
  <2> QED  BY <2>1, <2>2, <2>3 DEF LoopTypes, loop
<1> QED
  BY <1>2, <1>3 DEF Handler

\* So do the user and the notifier.
LEMMA UserTypes ==
  ASSUME ToolTypes, LoopTypes, User \/ Notify
  PROVE  ToolTypes' /\ LoopTypes'
<1>1. CASE Type
  <2>1. ToolTypes' /\ Len(calls') = Len(calls)
    BY <1>1, AnswerStep DEF Kept
  <2>2. UNCHANGED <<raw, reading, shown, shared, loop>>
    BY <1>1 DEF Type
  <2>3. typed' = typed + 1 /\ typed' \in 0 .. MaxLines
    BY <1>1 DEF Type, LoopTypes
  <2>4. astray' \subseteq 1 .. typed'
    <3>1. astray' = astray \/ astray' = astray \cup {typed + 1}
      BY <1>1 DEF Type, ReachesLoop, ReachesQuestion, Strays
    <3>2. astray \subseteq 1 .. typed /\ typed \in Nat
      BY DEF LoopTypes
    <3>3. \A n \in Nat : 1 .. n \subseteq 1 .. (n + 1) /\ {n + 1} \subseteq 1 .. (n + 1)
      OBVIOUS
    <3> QED  BY <2>3, <3>1, <3>2, <3>3
  <2>5. readCh' \in [for : 0 .. Len(calls), text : Texts \cup {"none", "interrupt"}]
    BY <1>1 DEF Type, LoopTypes, ReachesLoop, ReachesQuestion
  <2> QED
    BY <2>1, <2>2, <2>3, <2>4, <2>5 DEF LoopTypes, loop
<1>2. CASE InterruptKey
  BY <1>2 DEF InterruptKey, ToolTypes, LoopTypes, toolVars, loop
<1>3. CASE Interrupt
  BY <1>3 DEF Interrupt, ToolTypes, LoopTypes, toolVars, terminal
<1>4. CASE Notify
  BY <1>4 DEF Notify, ToolTypes, LoopTypes, toolVars, terminal
<1> QED
  BY <1>1, <1>2, <1>3, <1>4 DEF User

\* So does the loop of the session.
LEMMA LoopStepTypes ==
  ASSUME ToolTypes, LoopTypes, Loop
  PROVE  ToolTypes' /\ LoopTypes'
<1>1. UNCHANGED toolVars
  BY DEF Loop, PopNotification, ChildrenDone, StartReading, TakeLine, Finalize, PromptReturns
<1>2. ToolTypes' /\ Len(calls') = Len(calls)
  BY <1>1 DEF ToolTypes, toolVars
<1>3. Len(calls) \in Nat
  BY DEF ToolTypes
<1>4. LoopTypes'
  <2> USE <1>1, <1>3 DEF LoopTypes, toolVars
  <2>1. CASE PopNotification
    <3>1. Drainers[phase] \in {"note", "tick", "child"}
      BY <2>1 DEF PopNotification, Drainers
    <3> QED  BY <2>1, <3>1 DEF PopNotification, RunPrompt, terminal
  <2>2. CASE ChildrenDone
    BY <2>2 DEF ChildrenDone, terminal
  <2>3. CASE StartReading
    BY <2>3 DEF StartReading
  <2>4. CASE TakeLine
    <3>1. NoLine \in [for : 0 .. Len(calls), text : Texts \cup {"none", "interrupt"}]
      BY DEF NoLine
    <3>2. eof' \in BOOLEAN /\ readCh' = NoLine /\ reading' = FALSE
          /\ UNCHANGED <<raw, shown, typed, astray, shared, notes, arrived>>
      BY <2>4 DEF TakeLine
    <3>3. phase' \in {"run", "top", "finalize"} /\ origin' \in {"line", origin}
      BY <2>4 DEF TakeLine, RunPrompt
    <3> QED  BY <3>1, <3>2, <3>3
  <2>5. CASE Finalize
    BY <2>5 DEF Finalize, RunPrompt, terminal
  <2>6. CASE PromptReturns
    BY <2>6 DEF PromptReturns, After
  <2> QED
    BY <2>1, <2>2, <2>3, <2>4, <2>5, <2>6 DEF Loop
<1> QED
  BY <1>2, <1>4

\* Every step keeps the types.
LEMMA TypeStep == TypeOK /\ [Next]_vars => TypeOK'
<1> SUFFICES ASSUME ToolTypes, LoopTypes, [Next]_vars PROVE ToolTypes' /\ LoopTypes'
  <2>1. TypeOK' <=> ToolTypes' /\ LoopTypes'
    BY Halves, PTL
  <2> QED  BY <2>1, Halves
<1>1. CASE UNCHANGED vars
  BY <1>1 DEF vars, toolVars, terminal, loop, ToolTypes, LoopTypes
<1> QED
  BY <1>1, ToolsStep, HandlerTypes, UserTypes, LoopStepTypes DEF Next

\* Every reachable state of an interactive session is well typed.
THEOREM TypeCorrect == Spec => []TypeOK
  BY TypeInit, TypeStep, PTL DEF Spec

-----------------------------------------------------------------------------
(* Calls and their results *)

\* Where a goroutine can be, by its call and by what was reported of it: only
\* one that timed out works on when the runner does not wait for it.
Sound(i) ==
  /\ calls[i].result = "none" <=> i = current
  /\ calls[i].outcome = "none" <=> calls[i].pc # "done"
  /\ calls[i].result \notin {"none", "timeout"} => calls[i].pc = "done"
  /\ calls[i].pc = "asking" => calls[i].call.tool = "Question"

\* The call the runner waits for is the last one, and belongs to a prompt.
CallInv ==
  /\ current # 0 => current = Len(calls) /\ phase = "run"
  /\ \A i \in DOMAIN calls : Sound(i)

\* No tool has been called at the start.
LEMMA CallInit == Init => CallInv
  BY DEF Init, ToolInit, CallInv

\* A handler at work goes on to a place in its code or ends with an outcome.
LEMMA HandlerEnds ==
  ASSUME ToolTypes, NEW i \in DOMAIN calls, ToolStep(i)
  PROVE  /\ calls[i].pc # "done"
         /\ \/ calls'[i].pc \in {"open", "write", "fetched"}
               /\ calls'[i].outcome = calls[i].outcome
            \/ calls'[i].pc = "done" /\ calls'[i].outcome # "none"
<1>1. calls \in Seq(Goroutines)
  BY DEF ToolTypes
<1>2. calls[i].data \in Seq(Marks) /\ <<>> \in Seq(Marks) /\ calls[i].call.new \in Marks
  BY Arguments
<1>3. calls[i].pc # "done"
  BY DEF ToolStep, Refuse, ReadFile, Search, ReadSkill, WriteFile, ReadForEdit, Truncate, Fill,
     FillFails, RunCommand, WriteTodos, Fetch, Summarize, Proceeds, At
<1>4. ASSUME NEW o \in Outcomes \ {"none"}, Ends(i, o)
      PROVE  calls'[i].pc = "done" /\ calls'[i].outcome # "none"
  BY <1>1, <1>4, EndsKept
<1>5. ASSUME NEW pc \in {"open", "write", "fetched"}, NEW data, Goes(i, pc, data)
      PROVE  calls'[i].pc = pc /\ calls'[i].outcome = calls[i].outcome
  <2>1. calls[i] \in Goroutines
    BY <1>1, ElementOfSeq
  <2>2. calls'[i] = [calls[i] EXCEPT !.pc = pc, !.data = data]
    BY <1>5 DEF Goes
  <2> QED  BY <2>1, <2>2 DEF Goroutines
<1>6. \/ \E o \in Outcomes \ {"none"} : Ends(i, o)
      \/ \E pc \in {"open", "write", "fetched"}, data \in {calls'[i].data} : Goes(i, pc, data)
  <2>1. CASE Refuse(i) \/ ReadFile(i) \/ Search(i) \/ ReadSkill(i) \/ Fill(i) \/ FillFails(i)
             \/ RunCommand(i) \/ WriteTodos(i) \/ Summarize(i)
    BY <2>1 DEF Refuse, ReadFile, Search, ReadSkill, Fill, FillFails, RunCommand, WriteTodos,
       Summarize, Outcomes
  <2>2. ASSUME NEW pc \in {"open", "write", "fetched"}, NEW data, Goes(i, pc, data)
        PROVE  Goes(i, pc, calls'[i].data)
    <3>1. calls[i] \in Goroutines
      BY <1>1, ElementOfSeq
    <3>2. calls'[i] = [calls[i] EXCEPT !.pc = pc, !.data = data]
      BY <2>2 DEF Goes
    <3>3. calls'[i].data = data
      BY <3>1, <3>2 DEF Goroutines
    <3> QED  BY <2>2, <3>3
  <2>3. CASE WriteFile(i) \/ ReadForEdit(i) \/ Truncate(i) \/ Fetch(i)
    BY <2>2, <2>3 DEF WriteFile, ReadForEdit, Truncate, Fetch, Outcomes
  <2> QED
    BY <2>1, <2>3 DEF ToolStep
<1> QED
  BY <1>3, <1>4, <1>5, <1>6

\* A new call is the current one, and its goroutine begins.
LEMMA CallStepInv ==
  ASSUME ToolTypes, CallInv, CallTool PROVE CallInv'
<1>1. /\ Len(calls) \in Nat /\ calls \in Seq(Goroutines) /\ DOMAIN calls = 1 .. Len(calls)
  BY DEF ToolTypes
<1>2. /\ Len(calls') = Len(calls) + 1 /\ current' = Len(calls') /\ current = 0
      /\ \A i \in DOMAIN calls : calls'[i] = calls[i]
      /\ ToolTypes'
  BY CallStep DEF CallTool
<1>3. PICK c \in Calls : calls'[current'] = Goroutine(c)
  BY CallStep DEF CallTool
<1>4. phase' = "run"
  BY DEF CallTool, loop
<1>5. DOMAIN calls' = 1 .. Len(calls) + 1
  BY <1>2 DEF ToolTypes
<1>6. ASSUME NEW i \in DOMAIN calls PROVE Sound(i)'
  BY <1>1, <1>2, <1>6 DEF CallInv, Sound
<1>7. ASSUME NEW i, i = current' PROVE Sound(i)'
  BY <1>3, <1>7 DEF Sound, Goroutine
<1>8. \A i \in DOMAIN calls' : i \in DOMAIN calls \/ i = current'
  BY <1>1, <1>2, <1>5
<1> QED
  BY <1>2, <1>4, <1>6, <1>7, <1>8 DEF CallInv

\* Only a time-out leaves a goroutine at work behind a result.
LEMMA ResultStepInv ==
  ASSUME ToolTypes, CallInv, TimeOut \/ Receive PROVE CallInv'
<1>1. PICK result \in Results :
        /\ Reports(result)
        /\ \/ result = calls[current].outcome /\ calls[current].pc = "done"
           \/ result = "timeout" /\ calls[current].pc # "done"
  BY ResultStep DEF TimeOut, Receive
<1>2. /\ current \in DOMAIN calls
      /\ calls'[current].result = result
      /\ \A i \in DOMAIN calls : /\ calls'[i].call = calls[i].call
                                 /\ calls'[i].pc = calls[i].pc
                                 /\ calls'[i].outcome = calls[i].outcome
                                 /\ i # current => calls'[i] = calls[i]
  BY <1>1, ReportsKept
<1>3. Len(calls') = Len(calls) /\ calls' \in Seq(Goroutines) /\ calls \in Seq(Goroutines)
  BY <1>1, ReportsKept DEF ToolTypes
<1>4. DOMAIN calls' = DOMAIN calls /\ 0 \notin DOMAIN calls
  BY <1>3
<1>5. current' = 0 /\ current # 0
  BY <1>1 DEF Reports
<1>6. ASSUME NEW i \in DOMAIN calls, i # current PROVE Sound(i)'
  BY <1>2, <1>4, <1>5, <1>6 DEF CallInv, Sound
<1>7. Sound(current)
  BY <1>2 DEF CallInv
<1>8. calls'[current].result # "none"
  BY <1>1, <1>2, <1>7 DEF Sound
<1>9. ASSUME NEW i \in DOMAIN calls, i = current PROVE Sound(i)'
  BY <1>1, <1>2, <1>5, <1>7, <1>8, <1>9 DEF Sound
<1> QED
  BY <1>4, <1>5, <1>6, <1>9 DEF CallInv

\* A goroutine's step, whoever's it is, keeps what is reported of all.
LEMMA KeptSound ==
  ASSUME ToolTypes, CallInv, NEW i \in DOMAIN calls, Kept(i), current' = current,
         Sound(i)', phase' = phase
  PROVE  CallInv'
<1>1. /\ Len(calls') = Len(calls) /\ calls' \in Seq(Goroutines) /\ calls \in Seq(Goroutines)
      /\ \A j \in DOMAIN calls : j # i => calls'[j] = calls[j]
  BY DEF ToolTypes, Kept
<1>2. DOMAIN calls' = DOMAIN calls
  BY <1>1
<1>3. ASSUME NEW j \in DOMAIN calls, j # i PROVE Sound(j)'
  BY <1>1, <1>3 DEF CallInv, Sound
<1> QED
  BY <1>1, <1>2, <1>3 DEF CallInv

\* A goroutine moves along the steps of its own call.
LEMMA HandlerInv ==
  ASSUME ToolTypes, CallInv, NEW i \in DOMAIN calls, Handler(i) PROVE CallInv'
<1>1. Sound(i)
  BY DEF CallInv
<1>2. CASE ToolStep(i) /\ UNCHANGED <<terminal, loop>>
  <2>1. Kept(i) /\ current' = current
    BY <1>2, HandlerStep
  <2>2. /\ calls[i].pc # "done"
        /\ \/ calls'[i].pc \in {"open", "write", "fetched"}
              /\ calls'[i].outcome = calls[i].outcome
           \/ calls'[i].pc = "done" /\ calls'[i].outcome # "none"
    BY <1>2, HandlerEnds
  <2>3. calls'[i].result = calls[i].result
    BY <2>1 DEF Kept
  <2>4. Sound(i)'
    BY <1>1, <2>1, <2>2, <2>3 DEF Sound
  <2> QED
    BY <1>2, <2>1, <2>4, KeptSound DEF loop
<1>3. CASE PutQuestion(i)
  <2>1. /\ Kept(i) /\ current' = current
        /\ calls'[i].pc = "asking" /\ calls'[i].outcome = calls[i].outcome
        /\ calls[i].pc = "called" /\ calls[i].call.tool = "Question"
    BY <1>3, PutStep
  <2>2. calls'[i].result = calls[i].result /\ calls'[i].call = calls[i].call
    BY <2>1 DEF Kept
  <2>3. Sound(i)'
    BY <1>1, <2>1, <2>2 DEF Sound
  <2> QED
    BY <1>3, <2>1, <2>3, KeptSound DEF PutQuestion, loop
<1> QED
  BY <1>2, <1>3 DEF Handler

\* A line typed moves no goroutine that does not wait for it.
LEMMA TypeStepInv ==
  ASSUME ToolTypes, CallInv, Type PROVE CallInv'
<1>1. UNCHANGED <<current, phase>>
  BY AnswerStep DEF Type, loop
<1>2. CASE UNCHANGED calls
  BY <1>1, <1>2 DEF CallInv, Sound
<1>3. CASE \E i \in Asking : Ends(i, "ok") /\ Kept(i)
  <2>1. PICK i \in Asking : Ends(i, "ok") /\ Kept(i)
    BY <1>3
  <2>2. i \in DOMAIN calls /\ Sound(i) /\ calls[i].pc = "asking"
    BY DEF Asking, CallInv
  <2>3. calls'[i].pc = "done" /\ calls'[i].outcome = "ok"
    BY <2>1, <2>2, EndsKept DEF ToolTypes, Outcomes
  <2>4. calls'[i].result = calls[i].result
    BY <2>1, <2>2 DEF Kept
  <2>5. Sound(i)'
    BY <1>1, <2>2, <2>3, <2>4 DEF Sound
  <2> QED
    BY <1>1, <2>1, <2>2, <2>5, KeptSound
<1> QED
  BY <1>2, <1>3, AnswerStep

\* Each step keeps what is known of the goroutines.
LEMMA CallInvStep == ToolTypes /\ CallInv /\ [Next]_vars => CallInv'
<1> SUFFICES ASSUME ToolTypes, CallInv, [Next]_vars PROVE CallInv'
  OBVIOUS
<1>1. CASE UNCHANGED toolVars /\ (phase' = phase \/ current = 0)
  BY <1>1 DEF toolVars, CallInv, Sound
<1>2. CASE UNCHANGED vars
  BY <1>1, <1>2 DEF vars, loop
<1>3. CASE InterruptKey \/ Interrupt \/ Notify
  <2>1. phase' = phase \/ phase = "wait"
    BY <1>3 DEF InterruptKey, Interrupt, Notify, loop
  <2> QED
    BY <1>1, <1>3, <2>1 DEF InterruptKey, Interrupt, Notify, CallInv
<1>4. CASE Loop
  <2>1. UNCHANGED toolVars
    BY <1>4 DEF Loop, PopNotification, ChildrenDone, StartReading, TakeLine, Finalize,
       PromptReturns
  <2>2. phase # "run" \/ current = 0
    BY <1>4 DEF Loop, PopNotification, ChildrenDone, StartReading, TakeLine, Finalize,
       PromptReturns, Drainers
  <2> QED
    BY <1>1, <2>1, <2>2 DEF CallInv
<1> QED
  BY <1>2, <1>3, <1>4, CallStepInv, ResultStepInv, HandlerInv, TypeStepInv DEF Next, User

-----------------------------------------------------------------------------
(* Who reads the terminal *)

\* No prompt but that of a line or of the command line has put a question while
\* the loop was reading, and no question has timed out.
Alone ==
  /\ ~shared
  /\ \A i \in DOMAIN calls :
       ~(calls[i].result = "timeout" /\ calls[i].call.tool = "Question")

\* Who reads a line is who the terminal shows: a prompt that is made of a line
\* has taken the loop's reader with it, and a question that is answered or
\* waits belongs to the call the runner waits for.
LineInv ==
  /\ reading /\ phase = "run" => origin \notin {"given", "line"}
  /\ Alone =>
       /\ astray = {}
       /\ reading => shown = 0
       /\ \A i \in Asking : i = current /\ i = shown

\* Nobody reads a line at the start.
LEMMA LineInit == Init => LineInv
  BY DEF Init, ToolInit, LineInv, Asking

\* A question that waits is the one the runner waits for, unless it timed out.
LEMMA AskingCurrent ==
  ASSUME ToolTypes, CallInv, Alone, NEW i \in DOMAIN calls, calls[i].pc # "done",
         calls[i].call.tool = "Question"
  PROVE  i = current /\ phase = "run"
<1>1. Sound(i)
  BY DEF CallInv
<1>2. calls[i].result # "timeout"
  BY DEF Alone
<1>3. i = current
  BY <1>1, <1>2 DEF Sound
<1>4. i # 0
  BY DEF ToolTypes
<1> QED
  BY <1>3, <1>4 DEF CallInv

\* A question that times out stays one that has timed out.
LEMMA AloneBefore ==
  ASSUME CallInv, Alone', shared => shared', DOMAIN calls \subseteq DOMAIN calls',
         \A i \in DOMAIN calls : /\ calls'[i].call = calls[i].call
                                 /\ calls[i].result = "timeout" => calls'[i].result = "timeout"
  PROVE  Alone
  BY DEF Alone

\* What the handlers do, the terminal aside.
LEMMA HandlerLines ==
  ASSUME ToolTypes, CallInv, LineInv, NEW i \in DOMAIN calls, Handler(i) PROVE LineInv'
<1>1. Kept(i) /\ UNCHANGED <<current, phase, origin, reading, astray>> /\ (shared => shared')
  <2>1. CASE ToolStep(i) /\ UNCHANGED <<terminal, loop>>
    BY <2>1, HandlerStep DEF terminal, loop
  <2>2. CASE PutQuestion(i)
    <3>1. Kept(i) /\ current' = current
      BY <2>2, PutStep
    <3> QED  BY <2>2, <3>1 DEF PutQuestion, loop
  <2> QED
    BY <2>1, <2>2 DEF Handler
<1>2. /\ Len(calls') = Len(calls) /\ calls' \in Seq(Goroutines) /\ calls \in Seq(Goroutines)
      /\ \A j \in DOMAIN calls : /\ calls'[j].call = calls[j].call
                                 /\ calls'[j].result = calls[j].result
                                 /\ j # i => calls'[j] = calls[j]
  BY <1>1 DEF ToolTypes, Kept
<1>3. DOMAIN calls' = DOMAIN calls
  BY <1>2
<1>4. SUFFICES ASSUME Alone'
               PROVE  /\ reading => shown' = 0
                      /\ \A j \in Asking' : j = current /\ j = shown'
  <2>1. Alone' => Alone
    BY <1>1, <1>2, <1>3, AloneBefore
  <2> QED
    BY <1>1, <2>1 DEF LineInv
<1>5. Alone
  BY <1>1, <1>2, <1>3, <1>4, AloneBefore
<1>6. CASE ToolStep(i) /\ UNCHANGED <<terminal, loop>>
  <2>1. calls'[i].pc # "asking"
    BY <1>6, HandlerEnds
  <2>2. Asking' \subseteq Asking
    BY <1>2, <1>3, <2>1 DEF Asking
  <2> QED
    BY <1>5, <1>6, <2>2 DEF LineInv, terminal
<1>7. CASE PutQuestion(i)
  <2>1. calls[i].pc = "called" /\ calls[i].call.tool = "Question" /\ shown' = i
    BY <1>7, PutStep DEF PutQuestion
  <2>2. i = current /\ phase = "run"
    BY <1>5, <2>1, AskingCurrent
  <2>3. ~reading
    <3>1. reading => origin \notin {"given", "line"}
      BY <2>2 DEF LineInv
    <3>2. ~shared'
      BY <1>4 DEF Alone
    <3> QED  BY <1>7, <3>1, <3>2 DEF PutQuestion
  <2>4. \A j \in Asking : j = i
    BY <1>5, <2>2 DEF LineInv
  <2>5. \A j \in Asking' : j = i
    BY <1>2, <1>3, <2>4 DEF Asking
  <2> QED
    BY <2>1, <2>2, <2>3, <2>5
<1> QED
  BY <1>6, <1>7 DEF Handler

\* The runner's own steps.
LEMMA RunnerLines ==
  ASSUME ToolTypes, CallInv, LineInv, CallTool \/ TimeOut \/ Receive PROVE LineInv'
<1>1. UNCHANGED <<terminal, loop>>
  BY DEF CallTool, TimeOut, Receive
<1>2. SUFFICES ASSUME Alone'
               PROVE  Alone /\ \A j \in Asking' : j \in Asking /\ j = current'
  BY <1>1, <1>2 DEF LineInv, terminal, loop
<1>3. CASE CallTool
  <2>1. /\ Len(calls') = Len(calls) + 1 /\ current' = Len(calls') /\ current = 0
        /\ \A i \in DOMAIN calls : calls'[i] = calls[i]
        /\ ToolTypes'
    BY <1>3, CallStep DEF CallTool
  <2>2. PICK c \in Calls : calls'[current'] = Goroutine(c)
    BY <1>3, CallStep DEF CallTool
  <2>3. /\ DOMAIN calls = 1 .. Len(calls) /\ DOMAIN calls' = 1 .. Len(calls) + 1
        /\ Len(calls) \in Nat
    BY <2>1 DEF ToolTypes
  <2>4. Alone
    BY <1>1, <1>2, <2>1, <2>3, AloneBefore DEF terminal
  <2>5. ASSUME NEW j \in Asking PROVE FALSE
    <3>1. j = current /\ j \in DOMAIN calls
      BY <2>4, <2>5 DEF LineInv, Asking
    <3> QED  BY <2>1, <2>3, <3>1
  <2>6. \A j \in DOMAIN calls' : j \in DOMAIN calls \/ j = current'
    BY <2>1, <2>3
  <2>7. calls'[current'].pc # "asking"
    BY <2>2 DEF Goroutine
  <2> QED
    BY <2>1, <2>4, <2>5, <2>6, <2>7 DEF Asking
<1>4. CASE TimeOut \/ Receive
  <2>1. PICK result \in Results :
          /\ Reports(result)
          /\ \/ result = calls[current].outcome /\ calls[current].pc = "done"
             \/ result = "timeout" /\ calls[current].pc # "done"
    BY <1>4, ResultStep DEF TimeOut, Receive
  <2>2. /\ current \in DOMAIN calls /\ calls'[current].result = result
        /\ calls' \in Seq(Goroutines) /\ Len(calls') = Len(calls)
        /\ \A i \in DOMAIN calls : /\ calls'[i].call = calls[i].call
                                   /\ calls'[i].pc = calls[i].pc
                                   /\ i # current => calls'[i] = calls[i]
    BY <2>1, ReportsKept
  <2>3. DOMAIN calls' = DOMAIN calls
    BY <2>2 DEF ToolTypes
  <2>4. calls[current].result = "none"
    BY <2>2 DEF CallInv, Sound
  <2>5. Alone
    BY <1>1, <1>2, <2>2, <2>3, <2>4, AloneBefore DEF terminal
  <2>6. Asking' = Asking
    BY <2>2, <2>3 DEF Asking
  <2>7. ASSUME NEW j \in Asking PROVE FALSE
    <3>1. j = current /\ calls[j].pc = "asking" /\ j \in DOMAIN calls
      BY <2>5, <2>7 DEF LineInv, Asking
    <3>2. calls[j].call.tool = "Question"
      BY <3>1 DEF CallInv, Sound
    <3>3. result = "timeout"
      BY <2>1, <3>1
    <3> QED
      BY <1>2, <2>2, <2>3, <3>1, <3>2, <3>3 DEF Alone
  <2> QED
    BY <2>5, <2>6, <2>7
<1> QED
  BY <1>3, <1>4

\* What is typed.
LEMMA UserLines ==
  ASSUME ToolTypes, CallInv, LineInv, User \/ Notify PROVE LineInv'
<1>1. CASE Type
  <2>1. UNCHANGED <<reading, shown, shared, loop, current>>
    BY <1>1, AnswerStep DEF Type
  <2>2. /\ DOMAIN calls' = DOMAIN calls /\ Asking' \subseteq Asking
        /\ \A i \in DOMAIN calls : /\ calls'[i].call = calls[i].call
                                   /\ calls'[i].result = calls[i].result
    <3>1. CASE UNCHANGED calls
      BY <3>1 DEF Asking
    <3>2. CASE \E i \in Asking : Ends(i, "ok") /\ Kept(i)
      <4>1. PICK i \in Asking : Ends(i, "ok") /\ Kept(i)
        BY <3>2
      <4>2. calls'[i].pc = "done"
        BY <4>1, EndsKept DEF ToolTypes, Outcomes, Asking
      <4>3. Len(calls') = Len(calls) /\ calls' \in Seq(Goroutines) /\ calls \in Seq(Goroutines)
        BY <4>1 DEF ToolTypes, Kept
      <4>4. DOMAIN calls' = DOMAIN calls
        BY <4>3
      <4> QED
        BY <4>1, <4>2, <4>4 DEF Kept, Asking
    <3> QED
      BY <1>1, <3>1, <3>2, AnswerStep
  <2>3. ASSUME Alone' PROVE Alone /\ astray' = {}
    <3>1. Alone
      BY <2>1, <2>2, <2>3, AloneBefore
    <3>2. astray = {} /\ (reading => shown = 0) /\ \A i \in Asking : i = shown
      BY <3>1 DEF LineInv
    <3>3. astray' = astray
      BY <1>1, <3>2 DEF Type, ReachesLoop, ReachesQuestion, Strays
    <3> QED
      BY <3>1, <3>2, <3>3
  <2> QED
    BY <2>1, <2>2, <2>3 DEF LineInv, loop
<1>2. CASE InterruptKey \/ Interrupt \/ Notify
  <2>1. UNCHANGED <<toolVars, reading, shown, astray, shared, origin>>
        /\ (phase' = "run" => phase = "run")
    BY <1>2 DEF InterruptKey, Interrupt, Notify, loop, terminal
  <2> QED
    BY <2>1 DEF LineInv, Alone, Asking, toolVars
<1> QED
  BY <1>1, <1>2 DEF User

\* The loop.
LEMMA LoopLines ==
  ASSUME ToolTypes, CallInv, LineInv, Loop PROVE LineInv'
<1>1. UNCHANGED <<toolVars, shared, astray>>
  BY DEF Loop, PopNotification, ChildrenDone, StartReading, TakeLine, Finalize, PromptReturns,
     terminal
<1>2. Alone' = Alone /\ Asking' = Asking
  BY <1>1 DEF Alone, Asking, toolVars
<1>3. Alone /\ current = 0 => Asking = {}
  <2>1. 0 \notin DOMAIN calls
    BY DEF ToolTypes
  <2> QED
    BY <2>1 DEF LineInv, Asking
<1>4. phase # "run" => current = 0
  BY DEF CallInv
<1>5. reading' /\ phase' = "run" => origin' \notin {"given", "line"}
  <2>1. CASE PopNotification
    <3>1. Drainers[phase] \in {"note", "tick", "child"}
      BY <2>1 DEF PopNotification, Drainers
    <3> QED  BY <2>1, <3>1 DEF PopNotification, RunPrompt
  <2>2. CASE TakeLine
    BY <2>2 DEF TakeLine
  <2>3. CASE ChildrenDone \/ StartReading \/ Finalize
    BY <2>3 DEF ChildrenDone, StartReading, Finalize, RunPrompt
  <2>4. CASE PromptReturns
    BY <2>4 DEF PromptReturns
  <2> QED
    BY <2>1, <2>2, <2>3, <2>4 DEF Loop
<1>6. shown' = shown \/ (shown' = 0 /\ current = 0)
  BY <1>4 DEF Loop, PopNotification, ChildrenDone, StartReading, TakeLine, Finalize,
     PromptReturns, terminal
<1>7. reading' => reading \/ shown' = 0
  BY DEF Loop, PopNotification, ChildrenDone, StartReading, TakeLine, Finalize,
     PromptReturns, terminal
<1> QED
  BY <1>1, <1>2, <1>3, <1>5, <1>6, <1>7 DEF LineInv, toolVars

\* Each step keeps whoever reads a line the one whose prompt is shown.
LEMMA LineStep == ToolTypes /\ CallInv /\ LineInv /\ [Next]_vars => LineInv'
<1> SUFFICES ASSUME ToolTypes, CallInv, LineInv, [Next]_vars PROVE LineInv'
  OBVIOUS
<1>1. CASE UNCHANGED vars
  BY <1>1 DEF vars, toolVars, terminal, loop, LineInv, Alone, Asking
<1> QED
  BY <1>1, HandlerLines, RunnerLines, UserLines, LoopLines DEF Next

\* A line goes to the prompt the terminal shows, for any number of lines, calls
\* and notifications, unless a prompt that no line made put a question while the
\* loop was reading, or a question has timed out.
THEOREM LinesGoWhereShown == Spec => []LinesArrive
<1>1. TypeOK => ToolTypes
  BY Halves
<1>2. LineInv => LinesArrive
  BY DEF LineInv, LinesArrive, Alone
<1> QED
  BY TypeInit, TypeStep, CallInit, CallInvStep, LineInit, LineStep, <1>1, <1>2, PTL DEF Spec

-----------------------------------------------------------------------------
(* What a transcript tells of a file *)

\* What one more result tells of p, when those before it told s.
Tell(g, p, s) == IF g.result = "ok" /\ g.call.path = p THEN Effect(g.call, s) ELSE s

\* What the first k results tell of p: the recursion of Told, as a relation, so
\* that it can be followed from one state to the next.
History(after, cs, p, k) ==
  after = [n \in 0 .. k |-> IF n = 0 THEN InitialDisk[p] ELSE Tell(cs[n], p, after[n - 1])]
Tells(cs, p, k, s) == \E after : History(after, cs, p, k) /\ after[k] = s

\* No calls tell of a file what it was at the start.
LEMMA TellsNothing == ASSUME NEW cs, NEW p, NEW s PROVE Tells(cs, p, 0, s) <=> s = InitialDisk[p]
<1> DEFINE first == [n \in 0 .. 0 |-> InitialDisk[p]]
<1>1. History(first, cs, p, 0) /\ first[0] = InitialDisk[p]
  BY DEF History
<1>2. ASSUME NEW after, History(after, cs, p, 0) PROVE after[0] = InitialDisk[p]
  BY <1>2 DEF History
<1> QED
  BY <1>1, <1>2 DEF Tells

\* Histories of the same results are the same.
LEMMA TellsSame ==
  ASSUME NEW cs, NEW ds, NEW p, NEW k \in Nat, NEW s,
         \A n \in 1 .. k : cs[n].result = ds[n].result /\ cs[n].call = ds[n].call
  PROVE  Tells(cs, p, k, s) <=> Tells(ds, p, k, s)
<1>1. \A t : \A n \in 1 .. k : Tell(cs[n], p, t) = Tell(ds[n], p, t)
  BY DEF Tell
<1>2. ASSUME NEW after PROVE History(after, cs, p, k) <=> History(after, ds, p, k)
  <2>1. [n \in 0 .. k |-> IF n = 0 THEN InitialDisk[p] ELSE Tell(cs[n], p, after[n - 1])]
        = [n \in 0 .. k |-> IF n = 0 THEN InitialDisk[p] ELSE Tell(ds[n], p, after[n - 1])]
    <3>1. ASSUME NEW n \in 0 .. k, n # 0
          PROVE  Tell(cs[n], p, after[n - 1]) = Tell(ds[n], p, after[n - 1])
      <4>1. n \in 1 .. k
        BY <3>1
      <4> QED  BY <1>1, <4>1, Zenon
    <3> QED  BY <3>1
  <2> QED
    BY <2>1, Zenon DEF History
<1> QED
  BY <1>2 DEF Tells

\* What the last result is told after.
LEMMA TellsBefore ==
  ASSUME NEW cs, NEW p, NEW k \in Nat, NEW s, Tells(cs, p, k + 1, s)
  PROVE  \E t : Tells(cs, p, k, t) /\ s = Tell(cs[k + 1], p, t)
<1>1. ASSUME NEW after, History(after, cs, p, k + 1)
      PROVE  Tells(cs, p, k, after[k]) /\ after[k + 1] = Tell(cs[k + 1], p, after[k])
  <2> DEFINE before == [n \in 0 .. k |-> after[n]]
  <2>1. \A n \in 0 .. k + 1 :
          after[n] = IF n = 0 THEN InitialDisk[p] ELSE Tell(cs[n], p, after[n - 1])
    BY <1>1 DEF History
  <2>2. \A n \in 0 .. k : n \in 0 .. k + 1 /\ (n # 0 => n - 1 \in 0 .. k)
    OBVIOUS
  <2>3. \A n \in 0 .. k :
          before[n] = IF n = 0 THEN InitialDisk[p] ELSE Tell(cs[n], p, before[n - 1])
    BY <2>1, <2>2
  <2>4. History(before, cs, p, k)
    BY <2>3 DEF History
  <2>5. k + 1 # 0 /\ k + 1 \in 0 .. k + 1 /\ k + 1 - 1 = k /\ k \in 0 .. k
    OBVIOUS
  <2> QED
    <3>1. before[k] = after[k]
      BY <2>5
    <3>2. Tells(cs, p, k, before[k])
      <4> HIDE DEF before
      <4> QED  BY <2>4 DEF Tells
    <3>3. after[k + 1] = Tell(cs[k + 1], p, after[k])
      BY <2>1, <2>5
    <3> QED
      BY <3>1, <3>2, <3>3, Zenon
<1>2. PICK after : History(after, cs, p, k + 1) /\ after[k + 1] = s
  BY DEF Tells
<1> QED
  BY <1>1, <1>2

\* One more result.
LEMMA TellsAfter ==
  ASSUME NEW cs, NEW p, NEW k \in Nat, NEW t, Tells(cs, p, k, t)
  PROVE  Tells(cs, p, k + 1, Tell(cs[k + 1], p, t))
<1>1. ASSUME NEW before, History(before, cs, p, k)
      PROVE  Tells(cs, p, k + 1, Tell(cs[k + 1], p, before[k]))
  <2> DEFINE after == [n \in 0 .. k + 1 |-> IF n = k + 1 THEN Tell(cs[k + 1], p, before[k])
                                            ELSE before[n]]
  <2>1. \A n \in 0 .. k :
          before[n] = IF n = 0 THEN InitialDisk[p] ELSE Tell(cs[n], p, before[n - 1])
    BY <1>1 DEF History
  <2>2. \A n \in 0 .. k + 1 :
          after[n] = IF n = 0 THEN InitialDisk[p] ELSE Tell(cs[n], p, after[n - 1])
    <3>1. \A n \in 0 .. k : after[n] = before[n]
      OBVIOUS
    <3>2. \A n \in 0 .. k + 1 : n = k + 1 \/ n \in 0 .. k
      OBVIOUS
    <3>3. after[k + 1] = Tell(cs[k + 1], p, before[k])
      OBVIOUS
    <3>4. k + 1 # 0 /\ k + 1 - 1 = k /\ k \in 0 .. k
      OBVIOUS
    <3>5. \A n \in 0 .. k : n # 0 => n - 1 \in 0 .. k
      OBVIOUS
    <3> HIDE DEF after
    <3> QED
      BY <2>1, <3>1, <3>2, <3>3, <3>4, <3>5
  <2>3. History(after, cs, p, k + 1)
    BY <2>2 DEF History
  <2>4. after[k + 1] = Tell(cs[k + 1], p, before[k])
    OBVIOUS
  <2> HIDE DEF after
  <2> QED
    BY <2>3, <2>4 DEF Tells
<1>2. PICK before : History(before, cs, p, k) /\ before[k] = t
  BY DEF Tells
<1> QED
  BY <1>1, <1>2

\* Told is what the whole transcript tells, where it tells anything.
LEMMA ToldTells ==
  ASSUME NEW p, NEW s, Tells(calls, p, Len(calls), s)
  PROVE  Tells(calls, p, Len(calls), Told(p))
<1>1. PICK h : History(h, calls, p, Len(calls))
  BY DEF Tells
<1> DEFINE told == CHOOSE after : History(after, calls, p, Len(calls))
<1>2. History(told, calls, p, Len(calls))
  BY <1>1
<1>3. Told(p) = told[Len(calls)]
  BY DEF Told, History, Tell
<1> QED
  BY <1>2, <1>3 DEF Tells

-----------------------------------------------------------------------------
(* The files and the transcript *)

Writes(c, p) == c.tool \in {"Write", "Edit", "Bash"} /\ c.path = p

\* A call on p timed out, or failed while it wrote: p may hold anything.
Doubtful(p) == \E i \in DOMAIN calls : /\ Writes(calls[i].call, p)
                                       /\ calls[i].result \in {"timeout", "ioerror"}

\* What goroutine i, which writes p, has made of s, which the results tell of p.
MadeOf(i, p, s) ==
  /\ calls[i].pc = "called" => disk[p] = s
  /\ calls[i].pc = "open"   => disk[p] = s /\ calls[i].data = Effect(calls[i].call, s)
  /\ calls[i].pc = "write"  => calls[i].data = Effect(calls[i].call, s)
  /\ calls[i].pc = "done" /\ calls[i].outcome = "ok" => disk[p] = Effect(calls[i].call, s)
  /\ calls[i].pc = "done" /\ calls[i].outcome = "failed" => disk[p] = s

Agrees(p, s) ==
  IF current # 0 /\ Writes(calls[current].call, p) THEN MadeOf(current, p, s) ELSE disk[p] = s

\* A file is what the results tell of it, but for what the call at work, of which
\* nothing is told yet, has made of it.
FileInv ==
  \A p \in Paths :
    /\ \E s : Tells(calls, p, Len(calls), s)
    /\ Doubtful(p) \/ \A s : Tells(calls, p, Len(calls), s) => Agrees(p, s)

\* The files are at first what no call has told of.
LEMMA FileInit == Init => FileInv
<1> SUFFICES ASSUME Init, NEW p \in Paths
             PROVE  /\ \E s : Tells(calls, p, Len(calls), s)
                    /\ Doubtful(p) \/ \A s : Tells(calls, p, Len(calls), s) => Agrees(p, s)
  BY DEF FileInv
<1>1. Len(calls) = 0 /\ current = 0 /\ disk[p] = InitialDisk[p]
  BY DEF Init, ToolInit
<1> QED
  BY <1>1, TellsNothing DEF Agrees

\* A handler changes the file it writes and no other.
LEMMA OthersUntouched ==
  ASSUME ToolTypes, NEW i \in DOMAIN calls, ToolStep(i), NEW p \in Paths,
         ~Writes(calls[i].call, p)
  PROVE  disk'[p] = disk[p]
<1>1. CASE Truncate(i) \/ Fill(i)
  BY <1>1 DEF Truncate, Fill, At, Writes, ToolTypes
<1>2. CASE RunCommand(i)
  BY <1>2 DEF RunCommand, Proceeds, At, Writes, ToolTypes
<1> QED
  BY <1>1, <1>2 DEF ToolStep, Refuse, ReadFile, Search, ReadSkill, WriteFile, ReadForEdit,
     FillFails, WriteTodos, Fetch, Summarize

\* A handler that writes p goes on making of it what the call is to.
LEMMA HandlerMakes ==
  ASSUME ToolTypes, NEW i \in DOMAIN calls, ToolStep(i), NEW p \in Paths,
         Writes(calls[i].call, p), NEW s, MadeOf(i, p, s)
  PROVE  MadeOf(i, p, s)'
<1> DEFINE c == calls[i].call
<1>1. calls \in Seq(Goroutines) /\ p \in DOMAIN disk /\ c.path = p
      /\ c.tool \in {"Write", "Edit", "Bash"} /\ calls'[i].call = c
  BY HandlerStep DEF ToolTypes, Writes, Kept
<1>2. c.new \in Marks /\ calls[i].data \in Seq(Marks)
  BY Arguments
<1>3. ASSUME NEW o \in Outcomes, Ends(i, o) PROVE calls'[i].pc = "done" /\ calls'[i].outcome = o
  BY <1>1, <1>3, EndsKept
<1>4. ASSUME NEW pc \in {"open", "write"}, NEW data, Goes(i, pc, data)
      PROVE  calls'[i].pc = pc /\ calls'[i].data = data
  <2>1. calls[i] \in Goroutines
    BY <1>1, ElementOfSeq
  <2>2. calls'[i] = [calls[i] EXCEPT !.pc = pc, !.data = data]
    BY <1>4 DEF Goes
  <2> QED  BY <2>1, <2>2 DEF Goroutines
<1>5. CASE Refuse(i)
  <2>1. calls[i].pc = "called" /\ disk' = disk /\ Ends(i, "failed")
    BY <1>5 DEF Refuse
  <2>2. calls'[i].pc = "done" /\ calls'[i].outcome = "failed"
    BY <1>3, <2>1 DEF Outcomes
  <2> QED  BY <2>1, <2>2 DEF MadeOf
<1>6. CASE WriteFile(i)
  <2>1. calls[i].pc = "called" /\ disk' = disk /\ Goes(i, "open", <<c.new>>) /\ c.tool = "Write"
    BY <1>6 DEF WriteFile, Proceeds, At
  <2>2. calls'[i].pc = "open" /\ calls'[i].data = <<c.new>>
    BY <1>4, <2>1
  <2>3. Effect(c, s) = <<c.new>>
    BY <2>1 DEF Effect
  <2> QED  BY <1>1, <2>1, <2>2, <2>3 DEF MadeOf
<1>7. CASE ReadForEdit(i)
  <2>1. calls[i].pc = "called" /\ disk' = disk /\ c.tool = "Edit"
        /\ (Ends(i, "failed") \/ Goes(i, "open", Replaced(disk[p], c)))
    BY <1>1, <1>7 DEF ReadForEdit, Proceeds, At
  <2>2. disk[p] = s
    BY <2>1 DEF MadeOf
  <2>3. CASE Ends(i, "failed")
    <3>1. calls'[i].pc = "done" /\ calls'[i].outcome = "failed"
      BY <1>3, <2>3 DEF Outcomes
    <3> QED  BY <2>1, <2>2, <3>1 DEF MadeOf
  <2>4. CASE Goes(i, "open", Replaced(disk[p], c))
    <3>1. calls'[i].pc = "open" /\ calls'[i].data = Replaced(s, c)
      BY <1>4, <2>2, <2>4
    <3>2. Effect(c, s) = Replaced(s, c)
      BY <2>1 DEF Effect
    <3> QED  BY <1>1, <2>1, <2>2, <3>1, <3>2 DEF MadeOf
  <2> QED  BY <2>1, <2>3, <2>4
<1>8. CASE Truncate(i)
  <2>1. calls[i].pc = "open" /\ Goes(i, "write", calls[i].data)
    BY <1>8 DEF Truncate, At
  <2>2. calls'[i].pc = "write" /\ calls'[i].data = calls[i].data
    BY <1>4, <2>1
  <2> QED  BY <1>1, <2>1, <2>2 DEF MadeOf
<1>9. CASE Fill(i)
  <2>1. calls[i].pc = "write" /\ Ends(i, "ok") /\ disk'[p] = calls[i].data
    BY <1>1, <1>9 DEF Fill, At
  <2>2. calls'[i].pc = "done" /\ calls'[i].outcome = "ok"
    BY <1>3, <2>1 DEF Outcomes
  <2> QED  BY <1>1, <2>1, <2>2 DEF MadeOf
<1>10. CASE FillFails(i)
  <2>1. calls'[i].pc = "done" /\ calls'[i].outcome = "ioerror"
    BY <1>3, <1>10 DEF FillFails, Outcomes
  <2> QED  BY <2>1 DEF MadeOf
<1>11. CASE RunCommand(i)
  <2>1. c.tool = "Bash"
    BY <1>11 DEF RunCommand, Proceeds, At
  <2>2. Effect(c, s) = IF c.new = Blank THEN Absent ELSE <<c.new>>
    BY <2>1 DEF Effect
  <2>3. \/ Ends(i, "ioerror")
        \/ Ends(i, "ok") /\ disk'[p] = IF c.new = Blank THEN Absent ELSE <<c.new>>
    BY <1>1, <1>11 DEF RunCommand
  <2>4. CASE Ends(i, "ioerror")
    <3>1. calls'[i].pc = "done" /\ calls'[i].outcome = "ioerror"
      BY <1>3, <2>4 DEF Outcomes
    <3> QED  BY <3>1 DEF MadeOf
  <2>5. CASE Ends(i, "ok") /\ disk'[p] = Effect(c, s)
    <3>1. calls'[i].pc = "done" /\ calls'[i].outcome = "ok"
      BY <1>3, <2>5 DEF Outcomes
    <3> QED  BY <1>1, <2>5, <3>1 DEF MadeOf
  <2> QED  BY <2>2, <2>3, <2>4, <2>5
<1>12. ~(ReadFile(i) \/ Search(i) \/ ReadSkill(i) \/ WriteTodos(i) \/ Fetch(i) \/ Summarize(i))
  BY <1>1 DEF ReadFile, Search, ReadSkill, WriteTodos, Fetch, Summarize, Proceeds, At
<1> QED
  BY <1>5, <1>6, <1>7, <1>8, <1>9, <1>10, <1>11, <1>12 DEF ToolStep

\* Where no result is new, the results tell what they told.
LEMMA TellsKept ==
  ASSUME ToolTypes, NEW i \in DOMAIN calls, Kept(i), NEW p, NEW s
  PROVE  Tells(calls', p, Len(calls'), s) <=> Tells(calls, p, Len(calls), s)
<1>1. Len(calls') = Len(calls) /\ Len(calls) \in Nat
      /\ \A n \in 1 .. Len(calls) : /\ calls'[n].result = calls[n].result
                                    /\ calls'[n].call = calls[n].call
  BY DEF ToolTypes, Kept
<1> QED
  BY <1>1, TellsSame

\* A goroutine's step: if it writes p and is not the one the runner waits for, it
\* has timed out.
LEMMA HandlerFiles ==
  ASSUME ToolTypes, CallInv, FileInv, NEW i \in DOMAIN calls, ToolStep(i) PROVE FileInv'
<1> SUFFICES ASSUME NEW p \in Paths
             PROVE  /\ \E s : Tells(calls', p, Len(calls'), s)
                    /\ Doubtful(p)' \/ \A s : Tells(calls', p, Len(calls'), s) => Agrees(p, s)'
  BY DEF FileInv
<1>1. Kept(i) /\ current' = current
  BY HandlerStep
<1>2. \A s : Tells(calls', p, Len(calls'), s) <=> Tells(calls, p, Len(calls), s)
  BY <1>1, TellsKept
<1>3. /\ DOMAIN calls' = DOMAIN calls
      /\ \A j \in DOMAIN calls : /\ calls'[j].call = calls[j].call
                                 /\ calls'[j].result = calls[j].result
                                 /\ j # i => calls'[j] = calls[j]
  BY <1>1 DEF ToolTypes, Kept
<1>4. Doubtful(p) => Doubtful(p)'
  BY <1>3 DEF Doubtful
<1>5. calls[i].pc # "done" /\ Sound(i)
  BY HandlerEnds DEF CallInv
<1>6. current # 0 => current \in DOMAIN calls
  BY DEF ToolTypes
<1>7. ASSUME NEW s, Agrees(p, s), ~Doubtful(p) PROVE Agrees(p, s)'
  <2>1. CASE i = current
    <3>1. CASE Writes(calls[i].call, p)
      <4>1. current # 0
        BY <2>1 DEF ToolTypes
      <4>2. MadeOf(i, p, s)
        BY <1>7, <2>1, <3>1, <4>1 DEF Agrees
      <4>3. MadeOf(i, p, s)'
        BY <3>1, <4>2, HandlerMakes
      <4>4. calls'[current'].call = calls[i].call /\ current' = i
        BY <1>1, <1>3, <2>1
      <4> QED  BY <3>1, <4>1, <4>3, <4>4, <2>1 DEF Agrees, Writes
    <3>2. CASE ~Writes(calls[i].call, p)
      <4>1. disk'[p] = disk[p]
        BY <3>2, OthersUntouched
      <4> QED  BY <1>1, <1>3, <1>7, <2>1, <3>2, <4>1 DEF Agrees, Writes
    <3> QED  BY <3>1, <3>2
  <2>2. CASE i # current
    <3>1. calls[i].result = "timeout"
      BY <1>5, <2>2 DEF Sound
    <3>2. ~Writes(calls[i].call, p)
      BY <1>7, <3>1 DEF Doubtful
    <3>3. disk'[p] = disk[p]
      BY <3>2, OthersUntouched
    <3>4. current # 0 => calls'[current] = calls[current]
      BY <1>3, <1>6, <2>2
    <3> QED  BY <1>1, <1>7, <3>3, <3>4 DEF Agrees, MadeOf
  <2> QED  BY <2>1, <2>2
<1> QED
  BY <1>2, <1>4, <1>7 DEF FileInv

\* A question touches no file.
LEMMA QuestionFiles ==
  ASSUME ToolTypes, CallInv, FileInv, NEW i \in DOMAIN calls, Kept(i),
         calls[i].call.tool = "Question", UNCHANGED <<disk, current>>
  PROVE  FileInv'
<1> SUFFICES ASSUME NEW p \in Paths
             PROVE  /\ \E s : Tells(calls', p, Len(calls'), s)
                    /\ Doubtful(p)' \/ \A s : Tells(calls', p, Len(calls'), s) => Agrees(p, s)'
  BY DEF FileInv
<1>1. \A s : Tells(calls', p, Len(calls'), s) <=> Tells(calls, p, Len(calls), s)
  BY TellsKept
<1>2. /\ DOMAIN calls' = DOMAIN calls
      /\ \A j \in DOMAIN calls : /\ calls'[j].call = calls[j].call
                                 /\ calls'[j].result = calls[j].result
                                 /\ j # i => calls'[j] = calls[j]
  BY DEF ToolTypes, Kept
<1>3. Doubtful(p) => Doubtful(p)'
  BY <1>2 DEF Doubtful
<1>4. current # 0 => current \in DOMAIN calls
  BY DEF ToolTypes
<1>5. ~Writes(calls[i].call, p)
  BY DEF Writes
<1>6. ASSUME NEW s, Agrees(p, s) PROVE Agrees(p, s)'
  <2>1. CASE i = current
    BY <1>2, <1>5, <1>6, <2>1 DEF Agrees, Writes
  <2>2. CASE i # current
    BY <1>2, <1>4, <1>6, <2>2 DEF Agrees, MadeOf
  <2> QED  BY <2>1, <2>2
<1> QED
  BY <1>1, <1>3, <1>6 DEF FileInv

\* A new call: nothing is told of it, and it has made nothing yet.
LEMMA CallFiles ==
  ASSUME ToolTypes, CallInv, FileInv, CallTool PROVE FileInv'
<1> SUFFICES ASSUME NEW p \in Paths
             PROVE  /\ \E s : Tells(calls', p, Len(calls'), s)
                    /\ Doubtful(p)' \/ \A s : Tells(calls', p, Len(calls'), s) => Agrees(p, s)'
  BY DEF FileInv
<1> DEFINE k == Len(calls)
<1>1. /\ k \in Nat /\ Len(calls') = k + 1 /\ current' = k + 1 /\ current = 0
      /\ DOMAIN calls = 1 .. k /\ DOMAIN calls' = 1 .. k + 1 /\ disk' = disk
      /\ \A i \in 1 .. k : calls'[i] = calls[i]
  BY CallStep DEF CallTool, ToolTypes
<1>2. PICK c \in Calls : calls'[k + 1] = Goroutine(c)
  BY <1>1, CallStep DEF CallTool
<1>3. calls'[k + 1].result = "none" /\ calls'[k + 1].pc = "called"
  BY <1>2 DEF Goroutine
<1>4. \A t : Tells(calls', p, k, t) <=> Tells(calls, p, k, t)
  BY <1>1, TellsSame
<1>5. \A s : Tells(calls', p, k + 1, s) <=> Tells(calls, p, k, s)
  <2>1. \A t : Tell(calls'[k + 1], p, t) = t
    BY <1>3 DEF Tell
  <2> HIDE DEF k
  <2>2. ASSUME NEW s, Tells(calls', p, k + 1, s) PROVE Tells(calls, p, k, s)
    <3>1. k \in Nat
      BY <1>1
    <3>2. PICK t : Tells(calls', p, k, t) /\ s = Tell(calls'[k + 1], p, t)
      BY <2>2, <3>1, TellsBefore
    <3> QED  BY <1>4, <2>1, <3>2
  <2>3. ASSUME NEW s, Tells(calls, p, k, s) PROVE Tells(calls', p, k + 1, s)
    <3>1. k \in Nat /\ Tells(calls', p, k, s)
      BY <1>1, <1>4, <2>3
    <3>2. Tells(calls', p, k + 1, Tell(calls'[k + 1], p, s))
      BY <3>1, TellsAfter
    <3> QED  BY <2>1, <3>2
  <2> QED  BY <2>2, <2>3
<1>6. Doubtful(p) => Doubtful(p)'
  BY <1>1 DEF Doubtful
<1>7. ASSUME NEW s, Agrees(p, s) PROVE Agrees(p, s)'
  <2>1. disk'[p] = s
    BY <1>1, <1>7 DEF Agrees
  <2> HIDE DEF k
  <2> QED  BY <1>1, <1>3, <2>1 DEF Agrees, MadeOf
<1> QED
  BY <1>1, <1>5, <1>6, <1>7 DEF FileInv

\* A result tells what the call has made of the file, or that it is in doubt.
LEMMA ResultFiles ==
  ASSUME ToolTypes, CallInv, FileInv, TimeOut \/ Receive PROVE FileInv'
<1> SUFFICES ASSUME NEW p \in Paths
             PROVE  /\ \E s : Tells(calls', p, Len(calls'), s)
                    /\ Doubtful(p)' \/ \A s : Tells(calls', p, Len(calls'), s) => Agrees(p, s)'
  BY DEF FileInv
<1>1. PICK result \in Results :
        /\ Reports(result)
        /\ \/ result = calls[current].outcome /\ calls[current].pc = "done"
           \/ result = "timeout" /\ calls[current].pc # "done"
  BY ResultStep DEF TimeOut, Receive
<1>2. disk' = disk /\ current' = 0
  BY <1>1, ResultStep DEF TimeOut, Receive, Reports
<1>3. /\ current \in DOMAIN calls /\ calls'[current].result = result
      /\ Len(calls') = Len(calls)
      /\ \A i \in DOMAIN calls : /\ calls'[i].call = calls[i].call
                                 /\ i # current => calls'[i] = calls[i]
  BY <1>1, ReportsKept
<1>4. DOMAIN calls = 1 .. Len(calls) /\ DOMAIN calls' = 1 .. Len(calls) /\ Len(calls) \in Nat
  BY <1>1, <1>3, ReportsKept DEF ToolTypes
<1>5. current = Len(calls) /\ Sound(current)
  BY <1>3, <1>4 DEF CallInv
<1>6. PICK k \in Nat : current = k + 1 /\ Len(calls) = k + 1
  <2>1. current \in Nat /\ current >= 1
    BY <1>3, <1>4
  <2>2. current - 1 \in Nat /\ current = (current - 1) + 1
    BY <2>1
  <2> QED  BY <1>5, <2>2
<1> DEFINE g == calls[current]
           h == calls'[current]
<1>7. g.result = "none" /\ h.call = g.call /\ h.result = result
  BY <1>3, <1>5 DEF Sound
<1>8. \A t : Tells(calls', p, k, t) <=> Tells(calls, p, k, t)
  <2>1. ASSUME NEW n \in 1 .. k PROVE calls'[n] = calls[n]
    BY <1>3, <1>4, <1>6
  <2> QED
    BY <2>1, TellsSame
<1>9. \A t : Tells(calls, p, k + 1, t) <=> Tells(calls, p, k, t)
  <2>1. \A t : Tell(calls[k + 1], p, t) = t
    BY <1>6, <1>7 DEF Tell
  <2>2. ASSUME NEW s, Tells(calls, p, k + 1, s) PROVE Tells(calls, p, k, s)
    <3>1. PICK t : Tells(calls, p, k, t) /\ s = Tell(calls[k + 1], p, t)
      BY <2>2, TellsBefore
    <3> QED  BY <2>1, <3>1
  <2>3. ASSUME NEW s, Tells(calls, p, k, s) PROVE Tells(calls, p, k + 1, s)
    <3>1. Tells(calls, p, k + 1, Tell(calls[k + 1], p, s))
      BY <2>3, TellsAfter
    <3> QED  BY <2>1, <3>1
  <2> QED  BY <2>2, <2>3
<1>10. ASSUME NEW s, Tells(calls', p, k + 1, s)
       PROVE  \E t : Tells(calls, p, k + 1, t) /\ s = Tell(h, p, t)
  <2>1. PICK t : Tells(calls', p, k, t) /\ s = Tell(calls'[k + 1], p, t)
    BY <1>10, TellsBefore
  <2> QED  BY <1>6, <1>8, <1>9, <2>1
<1>11. Doubtful(p) => Doubtful(p)'
  BY <1>3, <1>4, <1>7 DEF Doubtful
<1>12. ASSUME NEW t, Agrees(p, t), ~Doubtful(p)' PROVE disk[p] = Tell(h, p, t)
  <2>1. CASE Writes(g.call, p)
    <3>1. result \notin {"timeout", "ioerror"}
      BY <1>3, <1>4, <1>7, <1>12, <2>1 DEF Doubtful
    <3>2. g.pc = "done" /\ result = g.outcome /\ result # "none" /\ result # "ioerror"
      BY <1>1, <1>5, <3>1 DEF Sound
    <3>3. MadeOf(current, p, t)
      BY <1>6, <1>12, <2>1 DEF Agrees
    <3>4. CASE result = "ok"
      BY <1>7, <2>1, <3>2, <3>3, <3>4 DEF MadeOf, Tell, Writes
    <3>5. CASE result = "failed"
      BY <1>7, <3>2, <3>3, <3>5 DEF MadeOf, Tell
    <3> QED
      BY <3>1, <3>2, <3>4, <3>5 DEF Results
  <2>2. CASE ~Writes(g.call, p)
    <3>1. disk[p] = t
      BY <1>12, <2>2 DEF Agrees
    <3>2. Tell(h, p, t) = t
      BY <1>7, <2>2 DEF Tell, Effect, Writes
    <3> QED  BY <3>1, <3>2
  <2> QED  BY <2>1, <2>2
<1>13. \E s : Tells(calls', p, Len(calls'), s)
  <2>1. PICK t : Tells(calls, p, k + 1, t)
    BY <1>6 DEF FileInv
  <2>2. Tells(calls', p, k, t)
    BY <1>8, <1>9, <2>1
  <2>3. Tells(calls', p, k + 1, Tell(calls'[k + 1], p, t))
    BY <2>2, TellsAfter
  <2> QED  BY <1>3, <1>6, <2>3
<1>14. ASSUME NEW s, Tells(calls', p, Len(calls'), s), ~Doubtful(p)' PROVE Agrees(p, s)'
  <2>1. PICK t : Tells(calls, p, k + 1, t) /\ s = Tell(h, p, t)
    BY <1>3, <1>6, <1>10, <1>14
  <2>2. Agrees(p, t)
    BY <1>6, <1>11, <1>14, <2>1 DEF FileInv
  <2>3. disk[p] = s
    BY <1>12, <1>14, <2>1, <2>2
  <2> QED
    BY <1>2, <2>3 DEF Agrees
<1> QED
  BY <1>13, <1>14

\* Each step keeps the files what the reported calls, and the running one, tell.
LEMMA FileStep == ToolTypes /\ CallInv /\ FileInv /\ [Next]_vars => FileInv'
<1> SUFFICES ASSUME ToolTypes, CallInv, FileInv, [Next]_vars PROVE FileInv'
  OBVIOUS
<1>1. CASE UNCHANGED <<disk, calls, current>>
  BY <1>1 DEF FileInv, Doubtful, Agrees, MadeOf
<1>2. CASE UNCHANGED vars
  BY <1>1, <1>2 DEF vars, toolVars
<1>3. CASE Loop \/ InterruptKey \/ Interrupt \/ Notify
  BY <1>1, <1>3 DEF Loop, PopNotification, ChildrenDone, StartReading, TakeLine, Finalize,
     PromptReturns, InterruptKey, Interrupt, Notify, toolVars
<1>4. CASE Type
  <2>1. UNCHANGED <<disk, current>>
    BY <1>4, AnswerStep
  <2>2. ASSUME NEW i \in Asking, Kept(i) PROVE FileInv'
    <3>1. i \in DOMAIN calls /\ calls[i].call.tool = "Question"
      BY DEF Asking, CallInv, Sound
    <3> QED  BY <2>1, <2>2, <3>1, QuestionFiles
  <2> QED
    BY <1>1, <1>4, <2>1, <2>2, AnswerStep
<1>5. ASSUME NEW i \in DOMAIN calls, Handler(i) PROVE FileInv'
  <2>1. CASE PutQuestion(i)
    BY <2>1, PutStep, QuestionFiles
  <2>2. CASE ToolStep(i)
    BY <2>2, HandlerFiles
  <2> QED
    BY <1>5, <2>1, <2>2 DEF Handler
<1> QED
  BY <1>2, <1>3, <1>4, <1>5, CallFiles, ResultFiles DEF Next, User

\* For any number of calls, of any files, the files are what the results in the
\* transcript tell, unless one of them is a timeout or an error of the write.
THEOREM TranscriptIsTrue == Spec => []TranscriptTellsFiles
<1>1. TypeOK => ToolTypes
  BY Halves
<1>2. ToolTypes /\ CallInv /\ FileInv => TranscriptTellsFiles
  <2> SUFFICES ASSUME ToolTypes, CallInv, FileInv, NEW p \in Paths, ~InDoubt(p)
               PROVE  disk[p] = Told(p)
    BY DEF TranscriptTellsFiles
  <2>1. ~Doubtful(p)
    BY DEF Doubtful, InDoubt, Writes
  <2>2. Agrees(p, Told(p))
    BY <2>1, ToldTells DEF FileInv
  <2>3. ~(current # 0 /\ Writes(calls[current].call, p))
    BY DEF ToolTypes, CallInv, Sound, InDoubt, Writes
  <2> QED
    BY <2>2, <2>3, Zenon DEF Agrees
<1> QED
  BY TypeInit, TypeStep, CallInit, CallInvStep, FileInit, FileStep, <1>1, <1>2, PTL DEF Spec
=============================================================================
