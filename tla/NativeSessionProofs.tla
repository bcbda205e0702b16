------------------------- MODULE NativeSessionProofs -------------------------
(***************************************************************************)
(* Proofs about one toc-native session: types, what the checkpoint covers, *)
(* what the events cover, which messages the model is shown, and that each *)
(* call has its result when the model is asked again -- for any number of  *)
(* prompts, starts, tools and behaviors, and any choice of faults.         *)
(***************************************************************************)
EXTENDS NativeSession, SequenceTheorems, TLAPS

Places == {"down", "save", "system", "between", "turn", "ask", "model", "dispatch",
           "tools", "shrink", "return", "panicked", "failed", "finalized"}
CallSeq == Seq([id : Nat, tool : Tools])

\* Where the runner is, or will be when its save has ended.
Stage == IF pc = "save" THEN then ELSE pc

\* The stages of one iteration of the loop, after its beginning.
Iterating == {"ask", "model", "dispatch", "tools", "shrink"}

TypeInv == 
  /\ TypeOK
  /\ Stage \in Iterating => iter < MaxIter
  /\ Stage \in {"tools", "shrink"} => calls # <<>>

\* The bounds are numbers.
LEMMA Bounds ==
  /\ KeepRecent \in Nat \ {0} /\ MaxIter \in Nat \ {0} /\ MaxBoots \in Nat \ {0}
  /\ MaxCalls \in Nat /\ MaxPrompts \in Nat
  BY NativeSessionAssumption DEF NativeSessionAssumption

-----------------------------------------------------------------------------
(* Types *)

\* The messages of the runner are messages, and empty ids are ids.
LEMMA MessageTypes ==
  /\ System \in Message /\ User \in Message /\ Continuation \in Message
  /\ \A ids \in SUBSET Nat : Msg("assistant", ids) \in Message /\ Msg("tool", ids) \in Message
  BY DEF Message, Msg, System, User, Continuation

\* A fresh state is a state.
LEMMA FreshType == Fresh \in State
  BY DEF Fresh, State, Statuses, NoTurn

Turns == [phase : {"none", "awaiting_model", "executing_tools"}, calls : SUBSET Nat]

\* The fields of a state, one by one.
LEMMA StateFields ==
  ASSUME NEW s \in State
  PROVE  /\ s.status \in Statuses /\ s.turn \in Turns
         /\ s.messages \in Seq(Message) /\ s.transcript \in Seq(Message)
         /\ s.recoveries \in Nat
         /\ s = [status |-> s.status, turn |-> s.turn, messages |-> s.messages,
                 transcript |-> s.transcript, recoveries |-> s.recoveries]
  BY DEF State, Turns

\* What a state is made of.
LEMMA StateOf ==
  ASSUME NEW x \in Statuses, NEW t \in Turns, NEW ms \in Seq(Message),
         NEW tr \in Seq(Message), NEW r \in Nat
  PROVE  [status |-> x, turn |-> t, messages |-> ms, transcript |-> tr,
          recoveries |-> r] \in State
  BY DEF State, Turns

\* The turns the loop makes are turns.
LEMMA TurnTypes ==
  /\ NoTurn \in Turns
  /\ \A ids \in SUBSET Nat :
       Turn("executing_tools", ids) \in Turns /\ Turn("awaiting_model", ids) \in Turns
  BY DEF Turns, NoTurn, Turn

\* A changed field of its type leaves a state.
LEMMA StateExcept ==
  ASSUME NEW s \in State
  PROVE  /\ \A x \in Statuses : [s EXCEPT !.status = x] \in State
         /\ \A t \in Turns : [s EXCEPT !.turn = t] \in State
         /\ \A ms \in Seq(Message) : [s EXCEPT !.messages = ms] \in State
         /\ \A ms \in Seq(Message) : [s EXCEPT !.transcript = ms] \in State
         /\ \A r \in Nat : [s EXCEPT !.recoveries = r] \in State
  BY DEF State, Turns

\* A state with one message more is a state.
LEMMA SayType ==
  ASSUME NEW s \in State, NEW m \in Message
  PROVE  Say(s, m) \in State
<1>1. Append(s.messages, m) \in Seq(Message) /\ Append(s.transcript, m) \in Seq(Message)
  BY StateFields, AppendProperties
<1> QED  BY <1>1, StateExcept DEF Say, State

\* A recovered state is a state.
LEMMA RecoverType ==
  ASSUME NEW s \in State
  PROVE  Recover(s) \in State
<1>1. CASE s.turn = NoTurn
  BY <1>1 DEF Recover
<1>2. CASE s.turn # NoTurn
  <2> DEFINE x == IF s.status \in {"running", "bootstrapping"} THEN "interrupted" ELSE s.status
  <2>1. x \in Statuses
    BY StateFields DEF Statuses
  <2>2. s.recoveries + 1 \in Nat
    BY StateFields
  <2>3. Recover(s) = [status |-> x, turn |-> NoTurn, messages |-> s.messages,
                      transcript |-> s.transcript, recoveries |-> s.recoveries + 1]
    BY <1>2 DEF Recover, State
  <2> HIDE DEF x
  <2> QED  BY <2>1, <2>2, <2>3, StateFields, StateOf, TurnTypes
<1> QED  BY <1>1, <1>2

\* What a start finds in state.json is a state.
LEMMA LoadType ==
  ASSUME TypeOK, disk # Torn
  PROVE  LoadState \in State
  BY FreshType DEF TypeOK, LoadState

\* Compacted messages are messages.
LEMMA CompactType ==
  ASSUME NEW ms \in Seq(Message), Compactable(ms)
  PROVE  Compact(ms) \in Seq(Message)
<1>1. Start(ms) \in 0 .. Len(ms) /\ Len(ms) \in Nat
  BY DEF Start
<1>2. SubSeq(ms, 1, Start(ms)) \in Seq(Message)
  BY <1>1, SubSeqProperties
<1>3. SubSeq(ms, Len(ms) - KeepRecent + 1, Len(ms)) \in Seq(Message)
  <2>1. Len(ms) - KeepRecent + 1 \in 1 .. Len(ms) + 1
    BY <1>1, Bounds DEF Compactable
  <2> QED  BY <1>1, <2>1, SubSeqProperties
<1>4. <<Continuation>> \in Seq(Message)
  BY MessageTypes
<1> QED  BY <1>2, <1>3, <1>4, ConcatProperties DEF Compact

\* The runner's state after a compaction is a state.
LEMMA CompactedType ==
  ASSUME TypeOK, Compactable(mem.messages)
  PROVE  Compacted \in State
<1>1. mem \in State /\ mem.messages \in Seq(Message)
  BY StateFields DEF TypeOK
<1>2. Compact(mem.messages) \in Seq(Message)
  BY <1>1, CompactType
<1> QED  BY <1>1, <1>2, StateExcept DEF Compacted

\* An error leaves a failed state.
LEMMA FailType ==
  ASSUME NEW s \in State, Fail(s)
  PROVE  mem' \in State /\ pc' = "save" /\ then' = "failed"
<1>1. [s EXCEPT !.status = "failed"] \in State
  BY StateExcept DEF Statuses
<1>2. [[s EXCEPT !.status = "failed"] EXCEPT !.turn = NoTurn] \in State
  BY <1>1, StateExcept, TurnTypes
<1>3. [s EXCEPT !.status = "failed", !.turn = NoTurn]
      = [[s EXCEPT !.status = "failed"] EXCEPT !.turn = NoTurn]
  BY DEF State
<1> QED  BY <1>2, <1>3 DEF Fail, SaveThen

\* Both fields at once.
LEMMA StatusAndTurn ==
  ASSUME NEW s \in State, NEW x \in Statuses, NEW t \in Turns
  PROVE  /\ [s EXCEPT !.status = x, !.turn = t] \in State
         /\ [s EXCEPT !.turn = t, !.status = x] \in State
<1>1. [s EXCEPT !.status = x] \in State
  BY StateExcept
<1>2. [[s EXCEPT !.status = x] EXCEPT !.turn = t] \in State
  BY <1>1, StateExcept
<1>3. [s EXCEPT !.turn = t] \in State
  BY StateExcept
<1>4. [[s EXCEPT !.turn = t] EXCEPT !.status = x] \in State
  BY <1>3, StateExcept
<1>5. [s EXCEPT !.status = x, !.turn = t] = [[s EXCEPT !.status = x] EXCEPT !.turn = t]
  BY DEF State
<1>6. [s EXCEPT !.turn = t, !.status = x] = [[s EXCEPT !.turn = t] EXCEPT !.status = x]
  BY DEF State
<1> QED  BY <1>2, <1>4, <1>5, <1>6

\* A response: its calls, with fresh ids.
LEMMA ResponseTypes ==
  ASSUME NEW n \in 0 .. MaxCalls, NEW ts \in [1 .. n -> Tools], NEW k \in Nat
  PROVE  LET cs == [i \in DOMAIN ts |-> [id |-> k + i, tool |-> ts[i]]] IN
           cs \in CallSeq /\ Ids(cs) \in SUBSET Nat /\ Len(cs) = n
<1> DEFINE cs == [i \in DOMAIN ts |-> [id |-> k + i, tool |-> ts[i]]]
<1>1. n \in Nat /\ DOMAIN ts = 1 .. n /\ DOMAIN cs = 1 .. n
  BY Bounds
<1>2. \A i \in 1 .. n : cs[i] = [id |-> k + i, tool |-> ts[i]]
  BY <1>1
<1>3. \A i \in 1 .. n : cs[i] \in [id : Nat, tool : Tools] /\ cs[i].id \in Nat
  BY <1>1, <1>2
<1>4. cs \in [1 .. n -> [id : Nat, tool : Tools]]
  BY <1>1, <1>3
<1>5. cs \in CallSeq /\ Len(cs) = n
  BY <1>1, <1>4, SeqDef, LenProperties DEF CallSeq
<1>6. Ids(cs) \in SUBSET Nat
  BY <1>1, <1>3 DEF Ids
<1> QED  BY <1>5, <1>6

\* A call sequence that is not empty has a head and a tail.
LEMMA CallsType ==
  ASSUME calls \in CallSeq, calls # <<>>
  PROVE  /\ Head(calls) \in [id : Nat, tool : Tools]
         /\ Head(calls).id \in Nat /\ Head(calls).tool \in Tools
         /\ Tail(calls) \in CallSeq
<1>1. Head(calls) \in [id : Nat, tool : Tools] /\ Tail(calls) \in CallSeq
  BY HeadTailProperties DEF CallSeq
<1> QED  BY <1>1

\* The parts of TypeInv that most steps leave alone or set to a constant.
LEMMA TypeInit == Init => TypeInv
<1> SUFFICES ASSUME Init PROVE TypeInv
  OBVIOUS
<1>1. <<>> \in Seq([id : Nat, tool : Tools])
  BY EmptySeq
<1> QED  BY <1>1, Bounds, FreshType DEF Init, TypeInv, TypeOK, Stage, Iterating

\* Each step keeps the types and the bound on iterations.
LEMMA TypeStep == TypeInv /\ [Next]_vars => TypeInv'
<1> SUFFICES ASSUME TypeInv, [Next]_vars PROVE TypeInv'
  OBVIOUS
<1>0. /\ mem \in State /\ calls \in CallSeq /\ iter \in 0 .. MaxIter /\ nextId \in Nat
      /\ events \in [tools : SUBSET Nat, recoveries : Nat]
      /\ mem.turn \in Turns /\ mem.messages \in Seq(Message)
  BY StateFields DEF TypeInv, TypeOK, CallSeq
<1> USE DEF SaveThen, local
<1>1. CASE Boot
  <2>1. LoadState \in State
    BY <1>1, LoadType DEF Boot, TypeInv
  <2>2. mem' \in State
    BY <1>1, <2>1, RecoverType DEF Boot
  <2>3. boots' \in 0 .. MaxBoots
    BY <1>1, Bounds DEF Boot, TypeInv, TypeOK
  <2>4. events' \in [tools : SUBSET Nat, recoveries : Nat]
    BY <1>0, <1>1 DEF Boot
  <2> QED  BY <1>1, <2>2, <2>3, <2>4 DEF Boot, TypeInv, TypeOK, Stage, Iterating
<1>2. CASE EnsureSystem
  <2>1. <<System>> \o mem.messages \in Seq(Message)
    <3>1. <<System>> \in Seq(Message)  BY MessageTypes
    <3> QED  BY <1>0, <3>1, ConcatProperties
  <2>2. mem' \in State
    BY <1>0, <1>2, <2>1, StateExcept DEF EnsureSystem
  <2> QED  BY <1>2, <2>2 DEF EnsureSystem, TypeInv, TypeOK, Stage, Iterating
<1>3. CASE Save
  BY <1>3 DEF Save, TypeInv, TypeOK, Stage, Iterating
<1>4. ASSUME Die, UNCHANGED <<events, prompts, mode, boots, nextId>>,
             disk' \in {disk, Torn}
      PROVE  TypeInv'
  <2>1. <<>> \in Seq([id : Nat, tool : Tools])
    BY EmptySeq
  <2> QED  BY <1>4, <2>1, Bounds, FreshType DEF Die, TypeInv, TypeOK, Stage, Iterating
<1>5. CASE Crash \/ CrashInSave \/ Leave
  BY <1>4, <1>5 DEF Crash, CrashInSave, Leave
<1>6. CASE Panic
  <2>1. mem' \in State
    BY <1>0, <1>6, StatusAndTurn, TurnTypes DEF Panic, Statuses
  <2> QED  BY SMTT(60), <1>6, <2>1 DEF Panic, TypeInv, TypeOK, Stage, Iterating
<1>7. CASE BeginPrompt
  <2>1. Say(mem, User) \in State
    BY SMTT(60), <1>0, SayType, MessageTypes
  <2>2. mem' \in State
    BY <1>7, <2>1, StatusAndTurn, TurnTypes DEF BeginPrompt, Statuses
  <2>3. <<>> \in Seq([id : Nat, tool : Tools])
    BY EmptySeq
  <2>4. prompts' \in 0 .. MaxPrompts
    BY SMTT(60), <1>7, Bounds DEF BeginPrompt, TypeInv, TypeOK
  <2> QED  BY <1>7, <2>2, <2>3, <2>4, Bounds DEF BeginPrompt, TypeInv, TypeOK, Stage, Iterating
<1>8. CASE EndPrompt
  <2>1. (IF mode = "detached" THEN "completed" ELSE "ready") \in Statuses
    BY DEF Statuses
  <2>2. mem' \in State
    BY <1>0, <1>8, <2>1, StatusAndTurn, TurnTypes DEF EndPrompt
  <2> QED  BY <1>8, <2>2 DEF EndPrompt, TypeInv, TypeOK, Stage, Iterating
<1>9. CASE OutOfIterations
  <2>3. [mem EXCEPT !.status = "ready", !.turn = NoTurn] \in State
    BY <1>0, StatusAndTurn, TurnTypes DEF Statuses
  <2>1. mem' \in State
    BY <1>0, <1>9, <2>3, FailType DEF OutOfIterations
  <2>2. pc' = "save" /\ then' \in {"failed", "between"}
    BY <1>0, <1>9, FailType DEF OutOfIterations
  <2> QED  BY SMTT(60), <1>9, <2>1, <2>2 DEF OutOfIterations, TypeInv, TypeOK, Stage, Iterating
<1>10. CASE Wait
  <2>1. mem' \in State
    BY <1>0, <1>10, StateExcept DEF Wait, Statuses
  <2> QED  BY <1>10, <2>1 DEF Wait, TypeInv, TypeOK, Stage, Iterating
<1>11. CASE Finalize
  <2>1. mem' \in State
    BY <1>0, <1>11, StateExcept DEF Finalize, Statuses
  <2> QED  BY <1>11, <2>1 DEF Finalize, TypeInv, TypeOK, Stage, Iterating
<1>12. CASE ManageContext
  <2>1. Compactable(mem.messages) => Compacted \in State
    BY CompactedType DEF TypeInv
  <2>2. mem' \in State
    BY <1>0, <1>12, <2>1, FailType DEF ManageContext
  <2>3. \/ pc' = "ask" /\ then' = then
        \/ pc' = "save" /\ then' \in {"ask", "failed"}
    BY <1>0, <1>12, <2>1, FailType DEF ManageContext
  <2>4. iter < MaxIter /\ UNCHANGED <<disk, events, calls, iter, fired, changes, prompts, mode, boots, nextId>>
    BY <1>12 DEF ManageContext
  <2> QED  BY <2>2, <2>3, <2>4 DEF TypeInv, TypeOK, Stage, Iterating
<1>13. CASE Ask
  <2>1. mem' \in State
    BY <1>0, <1>13, StateExcept, TurnTypes DEF Ask
  <2> QED  BY <1>13, <2>1 DEF Ask, TypeInv, TypeOK, Stage, Iterating
<1>14. CASE Respond
  <2>1. PICK ts \in UNION {[1 .. n -> Tools] : n \in 0 .. MaxCalls} :
          LET cs == [i \in DOMAIN ts |-> [id |-> nextId + i, tool |-> ts[i]]] IN
            /\ calls' = cs
            /\ nextId' = nextId + Len(cs)
            /\ mem' = [Say(mem, Msg("assistant", Ids(cs))) EXCEPT
                 !.turn = IF cs = <<>> THEN NoTurn ELSE Turn("executing_tools", Ids(cs))]
    BY <1>14 DEF Respond
  <2>9. PICK n \in 0 .. MaxCalls : ts \in [1 .. n -> Tools]
    BY <2>1
  <2> DEFINE cs == [i \in DOMAIN ts |-> [id |-> nextId + i, tool |-> ts[i]]]
  <2>8. cs \in CallSeq /\ Ids(cs) \in SUBSET Nat /\ Len(cs) = n
    BY <1>0, <2>9, ResponseTypes
  <2>7. calls' = cs
    BY <2>1
  <2>2. calls' \in CallSeq /\ Ids(calls') \in SUBSET Nat /\ Len(calls') = n
    BY <2>7, <2>8
  <2>3. Say(mem, Msg("assistant", Ids(calls'))) \in State
    BY <1>0, <2>2, SayType, MessageTypes
  <2>4. mem' \in State
    BY <2>1, <2>2, <2>3, StateExcept, TurnTypes
  <2>5. nextId' \in Nat
    BY <1>0, <2>1, <2>2
  <2> QED  BY <1>14, <2>2, <2>4, <2>5 DEF Respond, TypeInv, TypeOK, Stage, Iterating, CallSeq
<1>15. CASE LoopFails
  <2>1. mem' \in State /\ pc' = "save" /\ then' = "failed"
    BY <1>0, <1>15, FailType DEF LoopFails
  <2> QED  BY <1>15, <2>1 DEF LoopFails, TypeInv, TypeOK, Stage, Iterating
<1>16. CASE Dispatch
  <2>1. mem' \in State
    BY <1>0, <1>16, SayType, MessageTypes DEF Dispatch
  <2>2. fired' \subseteq DOMAIN Behaviors /\ changes' \subseteq Tools
    BY <1>16 DEF Dispatch, Matching, TypeInv, TypeOK
  <2>3. \/ pc' = "tools" /\ then' = then /\ calls # <<>>
        \/ pc' = "return" /\ then' = then
        \/ pc' = "save" /\ then' = "turn"
    BY <1>16 DEF Dispatch
  <2> QED  BY <1>16, <2>1, <2>2, <2>3 DEF Dispatch, TypeInv, TypeOK, Stage, Iterating
<1>17. CASE ExecuteTool
  <2>1. Head(calls).id \in Nat /\ Head(calls).tool \in Tools
    BY <1>0, <1>17, CallsType DEF ExecuteTool, TypeInv, Stage
  <2>2. mem' \in State
    BY <1>0, <1>17, <2>1, SayType, MessageTypes DEF ExecuteTool
  <2>3. events' \in [tools : SUBSET Nat, recoveries : Nat]
    BY <1>0, <1>17, <2>1 DEF ExecuteTool, AppendEvent
  <2> QED  BY <1>17, <2>1, <2>2, <2>3 DEF ExecuteTool, TypeInv, TypeOK, Stage, Iterating
<1>18. CASE ShrinkTurn
  <2>1. Head(calls).id \in Nat /\ Tail(calls) \in CallSeq
    BY <1>0, <1>18, CallsType DEF ShrinkTurn, TypeInv, Stage
  <2>2. mem.turn.calls \ {Head(calls).id} \in SUBSET Nat
    BY <1>0 DEF Turns
  <2>3. mem' \in State
    BY <1>0, <1>18, <2>2, StateExcept, TurnTypes DEF ShrinkTurn
  <2>4. iter < MaxIter /\ iter + 1 \in 0 .. MaxIter
    BY SMTT(60), <1>0, <1>18, Bounds DEF ShrinkTurn, TypeInv, Stage, Iterating
  <2>5. \/ pc' = "save" /\ then' = "turn" /\ iter' = iter + 1
        \/ pc' = "save" /\ then' = "tools" /\ iter' = iter /\ Tail(calls) # <<>>
    BY <1>18 DEF ShrinkTurn
  <2> QED  BY <1>18, <2>1, <2>3, <2>4, <2>5 DEF ShrinkTurn, TypeInv, TypeOK, Stage, Iterating, CallSeq
<1>19. CASE UNCHANGED vars
  BY <1>19 DEF vars, TypeInv, TypeOK, Stage, Iterating
<1> QED
  BY <1>1, <1>2, <1>3, <1>5, <1>6, <1>7, <1>8, <1>9, <1>10, <1>11, <1>12, <1>13,
     <1>14, <1>15, <1>16, <1>17, <1>18, <1>19 DEF Next, Work

\* The state, the two files and the position of the runner have their types.
THEOREM TypeCorrect == Spec => []TypeOK
<1>1. TypeInv => TypeOK
  BY DEF TypeInv
<1> QED  BY TypeInit, TypeStep, <1>1, PTL DEF Spec

-----------------------------------------------------------------------------
(* The calls of a transcript *)

\* What Append does to a sequence of messages, place by place.
LEMMA Appended ==
  ASSUME NEW ms \in Seq(Message), NEW m \in Message
  PROVE  /\ Len(ms) \in Nat /\ Len(Append(ms, m)) = Len(ms) + 1
         /\ DOMAIN ms = 1 .. Len(ms) /\ DOMAIN Append(ms, m) = DOMAIN ms \cup {Len(ms) + 1}
         /\ Append(ms, m)[Len(ms) + 1] = m
         /\ \A i \in DOMAIN ms : Append(ms, m)[i] = ms[i]
<1>1. Append(ms, m) \in Seq(Message) /\ Len(Append(ms, m)) = Len(ms) + 1 /\ Len(ms) \in Nat
  BY AppendProperties
<1>2. DOMAIN ms = 1 .. Len(ms) /\ DOMAIN Append(ms, m) = 1 .. Len(ms) + 1
  BY <1>1
<1> QED  BY <1>1, <1>2

\* One more message adds its own calls.
LEMMA OfAppend ==
  ASSUME NEW ms \in Seq(Message), NEW m \in Message, NEW role,
         NEW ps \in SUBSET DOMAIN ms
  PROVE  Of(role, Append(ms, m), ps \cup {Len(ms) + 1})
           = Of(role, ms, ps) \cup (IF m.role = role THEN m.ids ELSE {})
<1> DEFINE ns == Append(ms, m)
<1>1. \A i \in ps : ns[i] = ms[i]
  BY Appended
<1>2. ns[Len(ms) + 1] = m
  BY Appended
<1> HIDE DEF ns
<1>3. {j \in ps \cup {Len(ms) + 1} : ns[j].role = role}
      = {j \in ps : ms[j].role = role} \cup (IF m.role = role THEN {Len(ms) + 1} ELSE {})
  BY <1>1, <1>2
<1>4. \A i \in {j \in ps : ms[j].role = role} : ns[i].ids = ms[i].ids
  BY <1>1
<1>5. Of(role, ns, ps \cup {Len(ms) + 1})
      = Of(role, ms, ps) \cup (IF m.role = role THEN m.ids ELSE {})
  BY <1>2, <1>3, <1>4 DEF Of
<1> QED  BY <1>5 DEF ns

\* A message that is no prompt follows the last prompt, as those before it do.
LEMMA SinceAppend ==
  ASSUME NEW ms \in Seq(Message), NEW m \in Message, m # User
  PROVE  SincePrompt(Append(ms, m)) = SincePrompt(ms) \cup {Len(ms) + 1}
<1> DEFINE ns == Append(ms, m)
           k == Len(ms)
<1>1. /\ k \in Nat /\ Len(ns) = k + 1
      /\ DOMAIN ms = 1 .. k /\ DOMAIN ns = DOMAIN ms \cup {k + 1}
      /\ ns[k + 1] = m
      /\ \A i \in DOMAIN ms : ns[i] = ms[i]
  BY Appended
<1> HIDE DEF ns, k
<1>2. ASSUME NEW i \in DOMAIN ms
      PROVE  (\A j \in i .. Len(ns) : ns[j] # User) <=> (\A j \in i .. k : ms[j] # User)
  <2>1. \A j \in i .. k + 1 : j = k + 1 \/ j \in i .. k
    BY <1>1
  <2>2. \A j \in i .. k : j \in i .. k + 1 /\ j \in DOMAIN ms
    BY <1>1
  <2> QED  BY <1>1, <2>1, <2>2
<1>3. \A j \in k + 1 .. Len(ns) : ns[j] # User
  BY <1>1
<1>4. SincePrompt(ns) = SincePrompt(ms) \cup {k + 1}
  BY <1>1, <1>2, <1>3 DEF SincePrompt, k
<1> QED  BY <1>4 DEF ns, k

\* After a prompt nothing has been called or answered.
LEMMA SincePromptEmpty ==
  ASSUME NEW ms \in Seq(Message)
  PROVE  SincePrompt(Append(ms, User)) = {}
<1> DEFINE ns == Append(ms, User)
           k == Len(ms)
<1>1. /\ k \in Nat /\ Len(ns) = k + 1
      /\ DOMAIN ms = 1 .. k /\ DOMAIN ns = DOMAIN ms \cup {k + 1}
      /\ ns[k + 1] = User
  BY Appended, MessageTypes
<1> HIDE DEF ns, k
<1>2. \A i \in DOMAIN ns : k + 1 \in i .. Len(ns)
  BY <1>1
<1> QED  BY <1>1, <1>2 DEF SincePrompt, ns

\* What a message of the runner changes of what is called and answered.
LEMMA Paired ==
  ASSUME NEW ms \in Seq(Message), NEW ids \in SUBSET Nat
  PROVE  /\ Called(Append(ms, Msg("assistant", ids))) = Called(ms) \cup ids
         /\ Answered(Append(ms, Msg("assistant", ids))) = Answered(ms)
         /\ Called(Append(ms, Msg("tool", ids))) = Called(ms)
         /\ Answered(Append(ms, Msg("tool", ids))) = Answered(ms) \cup ids
         /\ Called(Append(ms, User)) = {}
         /\ Answered(Append(ms, User)) = {}
<1>1. ASSUME NEW role \in {"assistant", "tool"}
      PROVE  /\ Called(Append(ms, Msg(role, ids)))
                  = Called(ms) \cup (IF role = "assistant" THEN ids ELSE {})
             /\ Answered(Append(ms, Msg(role, ids)))
                  = Answered(ms) \cup (IF role = "tool" THEN ids ELSE {})
  <2> DEFINE m == Msg(role, ids)
  <2>1. m \in Message /\ m # User /\ m.role = role /\ m.ids = ids
    BY DEF Msg, User, Message
  <2> HIDE DEF m
  <2>2. SincePrompt(Append(ms, m)) = SincePrompt(ms) \cup {Len(ms) + 1}
    BY <2>1, SinceAppend
  <2>3. SincePrompt(ms) \in SUBSET DOMAIN ms
    BY DEF SincePrompt
  <2>6. ASSUME NEW r \in {"assistant", "tool"}
        PROVE  Of(r, Append(ms, m), SincePrompt(Append(ms, m)))
                 = Of(r, ms, SincePrompt(ms)) \cup (IF r = role THEN ids ELSE {})
    <3>1. Of(r, Append(ms, m), SincePrompt(ms) \cup {Len(ms) + 1})
            = Of(r, ms, SincePrompt(ms)) \cup (IF m.role = r THEN m.ids ELSE {})
      BY <2>1, <2>3, OfAppend
    <3> QED  BY <2>1, <2>2, <3>1
  <2>4. Called(Append(ms, m)) = Called(ms) \cup (IF role = "assistant" THEN ids ELSE {})
    BY <2>6 DEF Called
  <2>5. Answered(Append(ms, m)) = Answered(ms) \cup (IF role = "tool" THEN ids ELSE {})
    BY <2>6 DEF Answered
  <2> QED  BY <2>4, <2>5 DEF m
<1>2. Called(Append(ms, User)) = {} /\ Answered(Append(ms, User)) = {}
  BY SincePromptEmpty DEF Called, Answered, Of
<1> QED  BY <1>1, <1>2

\* Calls have ids.
LEMMA IdsType ==
  ASSUME NEW cs \in CallSeq
  PROVE  Ids(cs) \in SUBSET Nat
<1>1. \A i \in DOMAIN cs : cs[i] \in [id : Nat, tool : Tools]
  <2>1. DOMAIN cs = 1 .. Len(cs)
    BY LenProperties DEF CallSeq
  <2> QED  BY <2>1, ElementOfSeq DEF CallSeq
<1>2. \A i \in DOMAIN cs : cs[i].id \in Nat
  BY <1>1
<1> QED  BY <1>2 DEF Ids

\* No calls have no ids.
LEMMA NoIds == Ids(<<>>) = {}
  BY DEF Ids

\* The ids of a sequence of calls are that of its head and those of its tail.
LEMMA IdsOfCalls ==
  ASSUME NEW cs \in CallSeq
  PROVE  /\ Ids(<<>>) = {}
         /\ cs # <<>> => Ids(cs) = {Head(cs).id} \cup Ids(Tail(cs))
         /\ Ids(cs) = {} => cs = <<>>
<1> USE DEF CallSeq
<1>1. Ids(<<>>) = {}
  BY DEF Ids
<1>2. ASSUME cs # <<>> PROVE Ids(cs) = {Head(cs).id} \cup Ids(Tail(cs))
  <2>1. /\ Len(cs) \in Nat /\ Len(cs) >= 1 /\ DOMAIN cs = 1 .. Len(cs)
        /\ Tail(cs) \in CallSeq /\ Len(Tail(cs)) = Len(cs) - 1
        /\ DOMAIN Tail(cs) = 1 .. Len(cs) - 1
        /\ Head(cs) = cs[1]
        /\ \A i \in 1 .. Len(cs) - 1 : Tail(cs)[i] = cs[i + 1]
    BY <1>2, HeadTailProperties
  <2>2. ASSUME NEW x \in Ids(cs) PROVE x \in {Head(cs).id} \cup Ids(Tail(cs))
    <3>1. PICK i \in 1 .. Len(cs) : x = cs[i].id
      BY <2>1, <2>2 DEF Ids
    <3>2. CASE i = 1
      BY <2>1, <3>1, <3>2
    <3>3. CASE i # 1
      <4>1. i - 1 \in 1 .. Len(cs) - 1 /\ Tail(cs)[i - 1] = cs[i]
        BY <2>1, <3>3
      <4> QED  BY <2>1, <3>1, <4>1 DEF Ids
    <3> QED  BY <3>2, <3>3
  <2>3. ASSUME NEW x \in Ids(Tail(cs)) PROVE x \in Ids(cs)
    <3>1. PICK i \in 1 .. Len(cs) - 1 : x = Tail(cs)[i].id
      BY <2>1, <2>3 DEF Ids
    <3>2. i + 1 \in 1 .. Len(cs) /\ x = cs[i + 1].id
      BY <2>1, <3>1
    <3> QED  BY <2>1, <3>2 DEF Ids
  <2>4. Head(cs).id \in Ids(cs)
    BY <2>1 DEF Ids
  <2> QED  BY <2>2, <2>3, <2>4
<1> QED  BY <1>1, <1>2

\* Saying a message leaves status, turn and recoveries alone.
LEMMA SayFields ==
  ASSUME NEW s \in State, NEW m
  PROVE  /\ Say(s, m).transcript = Append(s.transcript, m)
         /\ Say(s, m).messages = Append(s.messages, m)
         /\ Say(s, m).status = s.status /\ Say(s, m).turn = s.turn
         /\ Say(s, m).recoveries = s.recoveries
  BY DEF Say, State

-----------------------------------------------------------------------------
(* What the checkpoint covers *)

\* A state that says "running" has each open call in its checkpoint.
Covers(s) ==
  s.status = "running" =>
    Called(s.transcript) \ Answered(s.transcript) \subseteq s.turn.calls

\* The calls of a prompt are those that have been answered and those that
\* the runner still has to execute.
CallInv ==
  /\ Covers(mem) /\ (Proper(disk) => Covers(disk))
  /\ Stage \in Iterating \cup {"turn"} =>
       Called(mem.transcript) = Answered(mem.transcript) \cup Ids(calls)
  /\ Stage \in {"turn", "ask", "model"} => calls = <<>>
  /\ Stage = "shrink" => Head(calls).id \in Answered(mem.transcript)

\* The disk holds a state, or it is missing or torn; the memory holds one.
LEMMA ProperStates ==
  ASSUME TypeOK
  PROVE  /\ Proper(disk) <=> disk \in State
         /\ Proper(mem) /\ ~Proper(Missing) /\ ~Proper(Torn)
  BY DEF TypeOK, Proper, State, Statuses, Missing, Torn

\* What recovery leaves covers its calls when what it found did.
LEMMA RecoverCovers ==
  ASSUME NEW s \in State, Covers(s)
  PROVE  Covers(Recover(s))
<1>1. CASE s.turn = NoTurn
  BY <1>1 DEF Recover
<1>2. CASE s.turn # NoTurn
  <2>1. Recover(s).status # "running"
    BY <1>2 DEF Recover, State
  <2> QED  BY <2>1 DEF Covers
<1> QED  BY <1>1, <1>2

\* At first no call is made, answered or left to do.
LEMMA CallInit == Init => CallInv
<1> SUFFICES ASSUME Init PROVE CallInv
  OBVIOUS
<1>1. Covers(mem) /\ ~Proper(disk)
  BY DEF Init, Covers, Fresh, Proper, Missing
<1> QED  BY <1>1 DEF Init, CallInv, Stage, Iterating

\* The position, calls and transcript that a step leaves alone keep what
\* CallInv says of them.
LEMMA CallStep == TypeInv /\ CallInv /\ [Next]_vars => CallInv'
<1> SUFFICES ASSUME TypeInv, CallInv, [Next]_vars PROVE CallInv'
  OBVIOUS
<1>0. /\ mem \in State /\ calls \in CallSeq
      /\ mem.transcript \in Seq(Message) /\ Covers(mem) /\ (Proper(disk) => Covers(disk))
  BY StateFields DEF TypeInv, TypeOK, CallSeq, CallInv
<1> USE DEF SaveThen, local
\* A step that ends, fails or suspends the prompt.
<1>1. ASSUME mem'.status # "running", disk' \in {disk, Missing, Torn},
             Stage' \in Places \ (Iterating \cup {"turn"})
      PROVE  CallInv'
  <2>1. Covers(mem)'
    BY <1>1 DEF Covers
  <2>2. (Proper(disk) => Covers(disk))'
    BY <1>0, <1>1 DEF Proper, Missing, Torn
  <2> QED  BY <1>1, <2>1, <2>2 DEF CallInv, Iterating
\* A step within the prompt.
<1>2. ASSUME Covers(mem)', disk' = disk,
             Called(mem'.transcript) = Answered(mem'.transcript) \cup Ids(calls'),
             Stage' \in {"turn", "ask", "model"} => calls' = <<>>,
             Stage' = "shrink" => Head(calls').id \in Answered(mem'.transcript)
      PROVE  CallInv'
  BY <1>0, <1>2 DEF CallInv
<1>3. CASE Boot
  <2>1. LoadState \in State
    BY <1>3, LoadType DEF Boot, TypeInv
  <2>2. Covers(LoadState)
    BY <1>0, <1>3, ProperStates DEF Boot, TypeInv, TypeOK, LoadState, Covers, Fresh
  <2>3. Covers(mem)'
    BY <1>3, <2>1, <2>2, RecoverCovers DEF Boot, Covers
  <2>4. Stage' = "system" /\ disk' = disk
    BY <1>3 DEF Boot, Stage
  <2> QED  BY <1>0, <2>3, <2>4 DEF CallInv, Iterating
<1>4. CASE EnsureSystem
  <2>1. mem'.status = mem.status /\ mem'.turn = mem.turn /\ mem'.transcript = mem.transcript
    BY <1>0, <1>4 DEF EnsureSystem, State
  <2>2. Covers(mem)'
    BY <1>0, <2>1 DEF Covers
  <2>3. Stage' = "between" /\ disk' = disk
    BY <1>4 DEF EnsureSystem, Stage
  <2> QED  BY <1>0, <2>2, <2>3 DEF CallInv, Iterating
<1>5. CASE Save
  <2>1. disk' = mem /\ mem' = mem /\ calls' = calls /\ Stage' = Stage
    BY <1>5 DEF Save, Stage, TypeInv, TypeOK
  <2> QED  BY <1>0, <2>1 DEF CallInv, Covers
<1>6. CASE Crash \/ CrashInSave \/ Leave
  <2>1. mem' = Fresh /\ Stage' = "down" /\ disk' \in {disk, Torn}
    BY <1>6 DEF Crash, CrashInSave, Leave, Die, Stage
  <2> QED  BY <1>1, <2>1 DEF Fresh, Places, Iterating
<1>7. CASE Panic \/ EndPrompt \/ OutOfIterations \/ Wait \/ Finalize \/ LoopFails
  <2>1. mem'.status # "running"
    BY <1>0, <1>7 DEF Panic, EndPrompt, OutOfIterations, Wait, Finalize, LoopFails, Fail, State
  <2>2. disk' = disk /\ Stage' \in {"panicked", "between", "failed", "finalized"}
    BY <1>7 DEF Panic, EndPrompt, OutOfIterations, Wait, Finalize, LoopFails, Fail, Stage
  <2> QED  BY <1>1, <2>1, <2>2 DEF Places, Iterating
<1>8. CASE BeginPrompt
  <2>1. mem'.transcript = Append(mem.transcript, User)
    BY <1>0, <1>8, SayFields DEF BeginPrompt, Say, State
  <2>2. Called(mem'.transcript) = {} /\ Answered(mem'.transcript) = {}
    BY <1>0, <2>1, Paired
  <2>3. calls' = <<>> /\ Ids(calls') = {} /\ Stage' = "turn" /\ disk' = disk
    BY <1>8 DEF BeginPrompt, Stage, Ids
  <2> QED  BY <1>2, <2>2, <2>3 DEF Covers
<1>9. CASE ManageContext
  <2>1. calls = <<>> /\ Called(mem.transcript) = Answered(mem.transcript) \cup Ids(calls)
    BY <1>9 DEF ManageContext, CallInv, Stage
  <2>2. CASE Stage' = "failed"
    <3>1. mem'.status # "running"
      <4>1. CASE Fail(mem)
        BY <1>0, <4>1 DEF Fail, State
      <4>2. CASE Fail(Compacted)
        BY <1>0, <4>2 DEF Fail, Compacted, State
      <4> QED  BY <1>9, <2>2, <4>1, <4>2 DEF ManageContext, Stage
    <3> QED  BY <1>1, <1>9, <2>2, <3>1 DEF ManageContext, Places, Iterating
  <2>3. CASE Stage' # "failed"
    <3>1. mem' = mem \/ mem' = Compacted
      BY <1>9, <2>3 DEF ManageContext, Fail, Stage
    <3>2. mem'.status = mem.status /\ mem'.turn = mem.turn /\ mem'.transcript = mem.transcript
      BY <1>0, <3>1 DEF Compacted, State
    <3>3. Stage' = "ask" /\ calls' = calls /\ disk' = disk
      BY <1>9, <2>3 DEF ManageContext, Fail, Stage
    <3>4. Covers(mem)'
      BY <1>0, <3>2 DEF Covers
    <3> QED  BY <1>2, <2>1, <3>2, <3>3, <3>4
  <2> QED  BY <2>2, <2>3
<1>10. CASE Ask
  <2>1. calls = <<>> /\ Called(mem.transcript) = Answered(mem.transcript) \cup Ids(calls)
    BY <1>10 DEF Ask, CallInv, Stage, Iterating
  <2>2. mem'.transcript = mem.transcript /\ Stage' = "model" /\ calls' = calls /\ disk' = disk
    BY <1>0, <1>10 DEF Ask, State, Stage
  <2>3. Covers(mem)'
    BY <2>1, <2>2 DEF Covers, Ids
  <2> QED  BY <1>2, <2>1, <2>2, <2>3
<1>11. CASE Respond
  <2>1. PICK ts \in UNION {[1 .. n -> Tools] : n \in 0 .. MaxCalls} :
          LET cs == [i \in DOMAIN ts |-> [id |-> nextId + i, tool |-> ts[i]]] IN
            /\ calls' = cs
            /\ mem' = [Say(mem, Msg("assistant", Ids(cs))) EXCEPT
                 !.turn = IF cs = <<>> THEN NoTurn ELSE Turn("executing_tools", Ids(cs))]
    BY <1>11 DEF Respond
  <2>2. mem' = [Say(mem, Msg("assistant", Ids(calls'))) EXCEPT
                 !.turn = IF calls' = <<>> THEN NoTurn ELSE Turn("executing_tools", Ids(calls'))]
    BY <2>1
  <2>3. calls' \in CallSeq
    BY TypeStep DEF TypeInv, TypeOK, CallSeq
  <2>4. Ids(calls') \in SUBSET Nat
    BY <2>3, IdsType
  <2>5. /\ mem'.transcript = Append(mem.transcript, Msg("assistant", Ids(calls')))
        /\ mem'.turn.calls = Ids(calls')
    <3>1. calls' = <<>> => Ids(calls') = {}
      BY DEF Ids
    <3>2. Say(mem, Msg("assistant", Ids(calls'))) \in State
      BY <1>0, <2>4, SayType, MessageTypes
    <3>3. mem'.turn = IF calls' = <<>> THEN NoTurn ELSE Turn("executing_tools", Ids(calls'))
      BY <2>2, <3>2 DEF State
    <3>4. mem'.transcript = Say(mem, Msg("assistant", Ids(calls'))).transcript
      BY <2>2, <3>2 DEF State
    <3> QED  BY <1>0, <3>1, <3>3, <3>4, SayFields DEF NoTurn, Turn
  <2>6. Called(mem.transcript) = Answered(mem.transcript)
    BY <1>11, IdsOfCalls, <1>0 DEF Respond, CallInv, Stage, Iterating
  <2>7. /\ Called(mem'.transcript) = Called(mem.transcript) \cup Ids(calls')
        /\ Answered(mem'.transcript) = Answered(mem.transcript)
    BY <1>0, <2>4, <2>5, Paired
  <2>8. Covers(mem)'
    BY <2>5, <2>6, <2>7 DEF Covers
  <2>9. Stage' = "dispatch" /\ disk' = disk
    BY <1>11 DEF Respond, Stage
  <2> QED  BY <1>2, <2>6, <2>7, <2>8, <2>9
<1>12. CASE Dispatch
  <2>1. calls' = calls /\ disk' = disk
        /\ Called(mem.transcript) = Answered(mem.transcript) \cup Ids(calls)
    BY <1>12 DEF Dispatch, CallInv, Stage, Iterating
  <2>2. CASE pc' = "tools"
    BY <1>0, <1>2, <1>12, <2>1, <2>2 DEF Dispatch, Stage, Covers
  <2>3. CASE pc' = "return"
    BY <1>0, <1>12, <2>1, <2>3 DEF Dispatch, Stage, Covers, CallInv, Iterating
  <2>4. CASE pc' = "save"
    <3>1. mem'.transcript = Append(mem.transcript, User)
      BY <1>0, <1>12, <2>4, SayFields DEF Dispatch
    <3>2. Called(mem'.transcript) = {} /\ Answered(mem'.transcript) = {}
      BY <1>0, <3>1, Paired
    <3>3. calls' = <<>> /\ Ids(calls') = {} /\ Stage' = "turn"
      BY <1>12, <2>4 DEF Dispatch, Stage, Ids
    <3> QED  BY <1>2, <2>1, <3>2, <3>3 DEF Covers
  <2> QED  BY <1>12, <2>2, <2>3, <2>4 DEF Dispatch
<1>13. CASE ExecuteTool
  <2>1. Head(calls).id \in Nat
    BY <1>0, <1>13, CallsType DEF ExecuteTool, TypeInv, Stage
  <2>2. /\ mem'.transcript = Append(mem.transcript, Msg("tool", {Head(calls).id}))
        /\ mem'.turn = mem.turn /\ mem'.status = mem.status
    BY <1>0, <1>13, SayFields DEF ExecuteTool
  <2>3. /\ Called(mem'.transcript) = Called(mem.transcript)
        /\ Answered(mem'.transcript) = Answered(mem.transcript) \cup {Head(calls).id}
    BY <1>0, <2>1, <2>2, Paired
  <2>4. Called(mem.transcript) = Answered(mem.transcript) \cup Ids(calls)
    BY <1>13 DEF ExecuteTool, CallInv, Stage, Iterating
  <2>5. Head(calls).id \in Ids(calls)
    BY <1>0, <1>13, IdsOfCalls DEF ExecuteTool, TypeInv, Stage
  <2>6. Covers(mem)'
    BY <1>0, <2>2, <2>3 DEF Covers
  <2>7. Stage' = "shrink" /\ calls' = calls /\ disk' = disk
    BY <1>13 DEF ExecuteTool, Stage
  <2> QED  BY <1>2, <2>3, <2>4, <2>5, <2>6, <2>7
<1>14. CASE ShrinkTurn
  <2> DEFINE left == mem.turn.calls \ {Head(calls).id}
  <2>1. mem' = [mem EXCEPT !.turn = IF left = {} THEN NoTurn ELSE Turn("executing_tools", left)]
    BY <1>14 DEF ShrinkTurn
  <2> HIDE DEF left
  <2>2. mem'.transcript = mem.transcript /\ mem'.status = mem.status /\ mem'.turn.calls = left
    BY <1>0, <2>1 DEF State, NoTurn, Turn
  <2>3. /\ Called(mem.transcript) = Answered(mem.transcript) \cup Ids(calls)
        /\ Head(calls).id \in Answered(mem.transcript)
    BY <1>14 DEF ShrinkTurn, CallInv, Stage, Iterating
  <2>4. Ids(calls) = {Head(calls).id} \cup Ids(Tail(calls))
    BY <1>0, <1>14, IdsOfCalls DEF ShrinkTurn, TypeInv, Stage
  <2>5. Covers(mem)'
    BY <1>0, <2>2, <2>3 DEF Covers, left
  <2>6. calls' = Tail(calls) /\ disk' = disk
        /\ Stage' = IF Tail(calls) = <<>> THEN "turn" ELSE "tools"
    BY <1>14 DEF ShrinkTurn, Stage
  <2> QED  BY <1>2, <2>2, <2>3, <2>4, <2>5, <2>6
<1>15. CASE UNCHANGED vars
  BY <1>15 DEF vars, CallInv, Stage, Covers
<1> QED
  BY <1>3, <1>4, <1>5, <1>6, <1>7, <1>8, <1>9, <1>10, <1>11, <1>12, <1>13, <1>14, <1>15
  DEF Next, Work

\* Whenever the process dies inside a turn, the calls without a result are
\* in the checkpoint that recovery reports.
THEOREM InterruptedTurnCovered == Spec => []CheckpointCoversCalls
<1>1. TypeInv /\ CallInv => CheckpointCoversCalls
  BY DEF CallInv, Covers, CheckpointCoversCalls, Proper
<1> QED  BY TypeInit, TypeStep, CallInit, CallStep, <1>1, PTL DEF Spec

\* The model is asked again only when each call of the prompt has its result
\* and each result its call.
THEOREM TurnsPaired == Spec => []TurnPaired
<1>1. TypeInv /\ CallInv => TurnPaired
  BY NoIds DEF CallInv, TurnPaired, Stage, Iterating
<1> QED  BY TypeInit, TypeStep, CallInit, CallStep, <1>1, PTL DEF Spec

-----------------------------------------------------------------------------
(* What a step does to the messages, the transcript and the files *)

\* Nothing but status and turn of the state changes, and no file.
Quiet ==
  /\ mem'.messages = mem.messages /\ mem'.transcript = mem.transcript
  /\ mem'.recoveries = mem.recoveries
  /\ disk' = disk /\ events' = events

Shortened ==
  /\ Compactable(mem.messages) /\ mem'.messages = Compact(mem.messages)
  /\ mem'.transcript = mem.transcript /\ mem'.recoveries = mem.recoveries
  /\ disk' = disk /\ events' = events

Said(m) ==
  /\ m \in Message
  /\ mem'.messages = Append(mem.messages, m)
  /\ mem'.transcript = Append(mem.transcript, m)
  /\ mem'.recoveries = mem.recoveries
  /\ disk' = disk

Saved == disk' = mem /\ mem' = mem /\ events' = events
Gone  == mem' = Fresh /\ disk' \in {disk, Torn} /\ events' = events

Effect ==
  \/ Quiet /\ (Stage \in {"down", "system"} => Stage' = Stage)
  \/ Boot
  \/ EnsureSystem
  \/ Saved /\ Stage' = Stage
  \/ Gone /\ Stage' = "down"
  \/ Shortened /\ Stage = "turn"
  \/ /\ \E m \in Message : Said(m) /\ m.role # "tool"
     /\ events' = events /\ Stage \notin {"down", "system"}
  \/ /\ \E id \in Nat : Said(Msg("tool", {id})) /\ AppendEvent(id)
     /\ Stage \notin {"down", "system"}

\* Each step does one of these.
LEMMA Effects ==
  ASSUME TypeInv, [Next]_vars
  PROVE  Effect
<1>0. mem \in State /\ calls \in CallSeq
  BY DEF TypeInv, TypeOK, CallSeq
<1> USE DEF SaveThen
<1>1. CASE Save
  BY <1>1 DEF Effect, Save, Saved, Stage, TypeInv, TypeOK
<1>2. CASE Crash \/ CrashInSave \/ Leave
  BY <1>2 DEF Effect, Crash, CrashInSave, Leave, Die, Gone, Stage
<1>3. CASE Panic \/ EndPrompt \/ OutOfIterations \/ Wait \/ Finalize \/ LoopFails \/ Ask \/ ShrinkTurn
  <2>1. Quiet
    BY <1>0, <1>3 DEF Panic, EndPrompt, OutOfIterations, Wait, Finalize, LoopFails, Ask,
       ShrinkTurn, Fail, State, Quiet
  <2>2. Stage \notin {"down", "system"}
    BY <1>3 DEF Panic, EndPrompt, OutOfIterations, Wait, Finalize, LoopFails, Ask,
       ShrinkTurn, InLoop, Stage
  <2> QED  BY <2>1, <2>2 DEF Effect
<1>4. CASE ManageContext
  <2>1. Stage = "turn" /\ disk' = disk /\ events' = events
    BY <1>4 DEF ManageContext, Stage
  <2>2. Stage \notin {"down", "system"}
    BY <2>1
  <2>3. CASE mem' = mem
    BY <2>1, <2>2, <2>3 DEF Effect, Quiet
  <2>4. CASE Fail(mem)
    BY <1>0, <2>1, <2>2, <2>4 DEF Effect, Quiet, Fail, State
  <2>5. CASE Compactable(mem.messages) /\ (mem' = Compacted \/ Fail(Compacted))
    BY <1>0, <2>1, <2>5 DEF Effect, Shortened, Compacted, Fail, State
  <2> QED  BY <1>4, <2>3, <2>4, <2>5 DEF ManageContext
<1>5. CASE BeginPrompt
  <2>1. Said(User)
    BY <1>0, <1>5, SayFields, MessageTypes DEF BeginPrompt, Say, State, Said
  <2>2. events' = events /\ Stage \notin {"down", "system"} /\ User.role # "tool"
    BY <1>5 DEF BeginPrompt, Stage, User, Msg
  <2> QED  BY <2>1, <2>2, MessageTypes DEF Effect
<1>6. CASE Respond
  <2>1. PICK ts \in UNION {[1 .. n -> Tools] : n \in 0 .. MaxCalls} :
          LET cs == [i \in DOMAIN ts |-> [id |-> nextId + i, tool |-> ts[i]]] IN
            /\ calls' = cs
            /\ mem' = [Say(mem, Msg("assistant", Ids(cs))) EXCEPT
                 !.turn = IF cs = <<>> THEN NoTurn ELSE Turn("executing_tools", Ids(cs))]
    BY <1>6 DEF Respond
  <2> DEFINE m == Msg("assistant", Ids(calls'))
             t == IF calls' = <<>> THEN NoTurn ELSE Turn("executing_tools", Ids(calls'))
  <2>2. mem' = [Say(mem, m) EXCEPT !.turn = t]
    BY <2>1
  <2>3. calls' \in CallSeq
    BY TypeStep DEF TypeInv, TypeOK, CallSeq
  <2>4. m \in Message /\ m.role # "tool"
    BY <2>3, IdsType, MessageTypes DEF Msg
  <2> HIDE DEF m, t
  <2>5. Say(mem, m) \in State
    BY <1>0, <2>4, SayType
  <2>6. /\ mem'.transcript = Say(mem, m).transcript /\ mem'.messages = Say(mem, m).messages
        /\ mem'.recoveries = Say(mem, m).recoveries
    BY <2>2, <2>5 DEF State
  <2>7. Said(m)
    BY <1>0, <1>6, <2>4, <2>6, SayFields DEF Said, Respond
  <2> QED  BY <1>6, <2>4, <2>7 DEF Effect, Respond, Stage
<1>7. CASE Dispatch
  <2>1. Stage = "dispatch" /\ disk' = disk /\ events' = events
    BY <1>7 DEF Dispatch, Stage
  <2>2. CASE mem' = mem
    BY <2>1, <2>2 DEF Effect, Quiet
  <2>3. CASE mem' = Say(mem, User)
    <3>1. Said(User)
      BY <1>0, <2>1, <2>3, SayFields, MessageTypes DEF Said
    <3> QED  BY <2>1, <3>1, MessageTypes DEF Effect, User, Msg
  <2> QED  BY <1>7, <2>2, <2>3 DEF Dispatch
<1>8. CASE ExecuteTool
  <2>1. Head(calls).id \in Nat
    BY <1>0, <1>8, CallsType DEF ExecuteTool, TypeInv, Stage
  <2>2. Said(Msg("tool", {Head(calls).id}))
    BY <1>0, <1>8, <2>1, SayFields, MessageTypes DEF ExecuteTool, Said
  <2> QED  BY <1>8, <2>1, <2>2 DEF Effect, ExecuteTool, Stage
<1>9. CASE UNCHANGED vars
  BY <1>9 DEF Effect, vars, Quiet, Stage
<1>10. CASE Boot \/ EnsureSystem
  BY <1>10 DEF Effect
<1> QED  BY <1>1, <1>2, <1>3, <1>4, <1>5, <1>6, <1>7, <1>8, <1>9, <1>10 DEF Next, Work

-----------------------------------------------------------------------------
(* What the events cover *)

ToolIds(ms) == Of("tool", ms, DOMAIN ms)

\* The events hold what a state remembers.
Recorded(s) == ToolIds(s.transcript) \subseteq events.tools /\ s.recoveries <= events.recoveries

EventInv == Recorded(mem) /\ (Proper(disk) => Recorded(disk))

\* A message adds the results it carries.
LEMMA ToolIdsAppend ==
  ASSUME NEW ms \in Seq(Message), NEW m \in Message
  PROVE  ToolIds(Append(ms, m)) = ToolIds(ms) \cup (IF m.role = "tool" THEN m.ids ELSE {})
<1>1. DOMAIN Append(ms, m) = DOMAIN ms \cup {Len(ms) + 1}
  BY Appended
<1>2. Of("tool", Append(ms, m), DOMAIN ms \cup {Len(ms) + 1})
      = Of("tool", ms, DOMAIN ms) \cup (IF m.role = "tool" THEN m.ids ELSE {})
  <2>1. DOMAIN ms \in SUBSET DOMAIN ms
    OBVIOUS
  <2>2. \A ps \in SUBSET DOMAIN ms :
          Of("tool", Append(ms, m), ps \cup {Len(ms) + 1})
            = Of("tool", ms, ps) \cup (IF m.role = "tool" THEN m.ids ELSE {})
    BY OfAppend
  <2> QED  BY <2>1, <2>2
<1> QED  BY <1>1, <1>2 DEF ToolIds

\* A fresh state needs no event.
LEMMA FreshRecorded ==
  ASSUME TypeOK
  PROVE  ToolIds(Fresh.transcript) \subseteq events.tools /\ Fresh.recoveries <= events.recoveries
  BY DEF TypeOK, ToolIds, Of, Fresh

\* At first nothing is to be recorded.
LEMMA EventInit == Init => EventInv
<1> SUFFICES ASSUME Init PROVE EventInv
  OBVIOUS
<1>1. ToolIds(Fresh.transcript) = {} /\ Fresh.recoveries = 0 /\ ~Proper(disk)
  BY DEF Init, Fresh, ToolIds, Of, Proper, Missing
<1> QED  BY <1>1 DEF Init, EventInv, Recorded

\* Each step keeps memory and disk within what the events record.
LEMMA EventStep == TypeInv /\ EventInv /\ [Next]_vars => EventInv'
<1> SUFFICES ASSUME TypeInv, EventInv, [Next]_vars PROVE EventInv'
  OBVIOUS
<1>0. /\ mem \in State /\ mem.transcript \in Seq(Message) /\ mem.recoveries \in Nat
      /\ events \in [tools : SUBSET Nat, recoveries : Nat]
      /\ Recorded(mem) /\ (Proper(disk) => Recorded(disk))
  BY StateFields DEF TypeInv, TypeOK, EventInv
<1>1. CASE Quiet \/ Shortened
  BY <1>0, <1>1 DEF Quiet, Shortened, EventInv, Recorded
<1>2. CASE Boot
  <2>1. LoadState \in State /\ LoadState.recoveries \in Nat
    BY <1>2, LoadType, StateFields DEF Boot, TypeInv
  <2>2. Recorded(LoadState)
    BY <1>0, <1>2, ProperStates, FreshRecorded DEF Boot, TypeInv, TypeOK, LoadState, Recorded
  <2>3. /\ mem'.transcript = LoadState.transcript
        /\ mem'.recoveries = IF LoadState.turn = NoTurn THEN LoadState.recoveries
                             ELSE LoadState.recoveries + 1
    BY <1>2, <2>1 DEF Boot, Recover, State
  <2>4. /\ events'.tools = events.tools
        /\ events'.recoveries = IF LoadState.turn = NoTurn THEN events.recoveries
                                ELSE events.recoveries + 1
    BY <1>0, <1>2 DEF Boot
  <2>5. disk' = disk /\ events.recoveries \in Nat
    BY <1>0, <1>2 DEF Boot
  <2>6. Recorded(mem)'
    BY <2>1, <2>2, <2>3, <2>4, <2>5 DEF Recorded
  <2>7. (Proper(disk) => Recorded(disk))'
    <3>1. ASSUME Proper(disk) PROVE disk.recoveries \in Nat
      BY <3>1, ProperStates, StateFields DEF TypeInv
    <3> QED  BY <1>0, <2>4, <2>5, <3>1 DEF Recorded
  <2> QED  BY <2>6, <2>7 DEF EventInv
<1>3. CASE EnsureSystem
  BY <1>0, <1>3 DEF EnsureSystem, State, EventInv, Recorded
<1>4. CASE Saved
  BY <1>0, <1>4 DEF Saved, EventInv, Recorded
<1>5. CASE Gone
  BY <1>0, <1>5, FreshRecorded, ProperStates
  DEF Gone, EventInv, Recorded, TypeInv, Proper, Torn
<1>6. CASE events' = events /\ \E m \in Message : Said(m) /\ m.role # "tool"
  <2>1. PICK m \in Message : Said(m) /\ m.role # "tool"
    BY <1>6
  <2>2. ToolIds(mem'.transcript) = ToolIds(mem.transcript)
    BY <1>0, <2>1, ToolIdsAppend DEF Said
  <2> QED  BY <1>0, <1>6, <2>1, <2>2 DEF Said, EventInv, Recorded
<1>7. CASE \E id \in Nat : Said(Msg("tool", {id})) /\ AppendEvent(id)
  <2>1. PICK id \in Nat : Said(Msg("tool", {id})) /\ AppendEvent(id)
    BY <1>7
  <2>2. ToolIds(mem'.transcript) = ToolIds(mem.transcript) \cup {id}
    BY <1>0, <2>1, ToolIdsAppend DEF Said, Msg
  <2>3. events'.tools = events.tools \cup {id} /\ events'.recoveries = events.recoveries
    BY <1>0, <2>1 DEF AppendEvent
  <2> QED  BY <1>0, <2>1, <2>2, <2>3 DEF Said, EventInv, Recorded
<1> QED  BY Effects, <1>1, <1>2, <1>3, <1>4, <1>5, <1>6, <1>7 DEF Effect

\* Each tool result and each recovery that state.json remembers has its event
\* in events.jsonl.
THEOREM EventsTellState == Spec => []EventsCoverState
<1>1. EventInv => EventsCoverState
  BY DEF EventInv, Recorded, ToolIds, EventsCoverState
<1> QED  BY TypeInit, TypeStep, EventInit, EventStep, <1>1, PTL DEF Spec

-----------------------------------------------------------------------------
(* What the model is shown *)

\* A suffix of the messages.
LEMMA Suffix ==
  ASSUME NEW ms \in Seq(Message), NEW a \in 1 .. Len(ms) + 1
  PROVE  /\ SubSeq(ms, a, Len(ms)) \in Seq(Message)
         /\ Len(SubSeq(ms, a, Len(ms))) = Len(ms) - a + 1
         /\ \A i \in 1 .. Len(ms) - a + 1 : SubSeq(ms, a, Len(ms))[i] = ms[a + i - 1]
<1>1. Len(ms) \in Int /\ a \in Int /\ \A i \in a .. Len(ms) : ms[i] \in Message
  <2>1. \A i \in a .. Len(ms) : i \in 1 .. Len(ms)
    OBVIOUS
  <2> QED  BY <2>1, ElementOfSeq
<1>2. Len(SubSeq(ms, a, Len(ms))) = IF a <= Len(ms) THEN Len(ms) - a + 1 ELSE 0
  BY <1>1, SubSeqProperties
<1>3. /\ SubSeq(ms, a, Len(ms)) \in Seq(Message)
      /\ \A i \in 1 .. Len(ms) - a + 1 : SubSeq(ms, a, Len(ms))[i] = ms[a + i - 1]
  BY <1>1, SubSeqProperties
<1> QED  BY <1>2, <1>3

\* Two sequences of messages, one after the other.
LEMMA Joined ==
  ASSUME NEW s1 \in Seq(Message), NEW s2 \in Seq(Message)
  PROVE  /\ s1 \o s2 \in Seq(Message)
         /\ Len(s1) \in Nat /\ Len(s2) \in Nat /\ Len(s1 \o s2) = Len(s1) + Len(s2)
         /\ \A i \in 1 .. Len(s1) : (s1 \o s2)[i] = s1[i]
         /\ \A i \in 1 .. Len(s2) : (s1 \o s2)[Len(s1) + i] = s2[i]
<1>1. /\ s1 \o s2 \in Seq(Message) /\ Len(s1 \o s2) = Len(s1) + Len(s2)
      /\ Len(s1) \in Nat /\ Len(s2) \in Nat
      /\ \A i \in 1 .. Len(s1) + Len(s2) :
           (s1 \o s2)[i] = IF i <= Len(s1) THEN s1[i] ELSE s2[i - Len(s1)]
  BY ConcatProperties
<1>2. \A i \in 1 .. Len(s1) : i \in 1 .. Len(s1) + Len(s2)
  BY <1>1
<1>3. \A i \in 1 .. Len(s2) :
        /\ Len(s1) + i \in 1 .. Len(s1) + Len(s2)
        /\ ~(Len(s1) + i <= Len(s1))
        /\ (Len(s1) + i) - Len(s1) = i
  BY <1>1
<1> QED  BY <1>1, <1>2, <1>3

\* The messages ms are k of system prompt and continuation, then the
\* transcript tr from n + 1 on.
Shows(ms, tr, k, n) ==
  /\ Len(ms) = k + Len(tr) - n
  /\ k >= 1 => ms[1] = System
  /\ k = 2 => ms[2] = Continuation
  /\ \A i \in 1 .. Len(tr) - n : ms[k + i] = tr[n + i]
  /\ k = 0 => ms = <<>>

Ends(ms, tr) == \E k \in 0 .. 2, n \in 0 .. Len(tr) : Shows(ms, tr, k, n)

\* From the system prompt on there is something to show.
MessageInv ==
  /\ Ends(mem.messages, mem.transcript)
  /\ Proper(disk) => Ends(disk.messages, disk.transcript)
  /\ Stage \notin {"down", "system"} => mem.messages # <<>>

\* A message said at the end of both keeps the messages an end of the transcript.
LEMMA ShowsAppend ==
  ASSUME NEW ms \in Seq(Message), NEW tr \in Seq(Message), NEW m \in Message,
         ms # <<>>, Ends(ms, tr)
  PROVE  Ends(Append(ms, m), Append(tr, m)) /\ Append(ms, m) # <<>>
<1>1. PICK k \in 0 .. 2, n \in 0 .. Len(tr) : Shows(ms, tr, k, n)
  BY DEF Ends
<1>2. k \in 1 .. 2
  BY <1>1 DEF Shows
<1> DEFINE ms2 == Append(ms, m)
           tr2 == Append(tr, m)
<1>3. /\ Len(ms) \in Nat /\ Len(ms2) = Len(ms) + 1 /\ ms2[Len(ms) + 1] = m
      /\ \A i \in 1 .. Len(ms) : ms2[i] = ms[i]
  BY Appended
<1>4. /\ Len(tr) \in Nat /\ Len(tr2) = Len(tr) + 1 /\ tr2[Len(tr) + 1] = m
      /\ \A i \in 1 .. Len(tr) : tr2[i] = tr[i]
  BY Appended
<1> HIDE DEF ms2, tr2
<1>5. /\ Len(ms) = k + Len(tr) - n
      /\ k >= 1 => ms[1] = System
      /\ k = 2 => ms[2] = Continuation
      /\ \A i \in 1 .. Len(tr) - n : ms[k + i] = tr[n + i]
  BY <1>1 DEF Shows
<1>6. ASSUME NEW i \in 1 .. Len(tr2) - n PROVE ms2[k + i] = tr2[n + i]
  <2>1. CASE i = Len(tr) + 1 - n
    BY <1>2, <1>3, <1>4, <1>5, <2>1
  <2>2. CASE i # Len(tr) + 1 - n
    <3>1. i \in 1 .. Len(tr) - n
      BY <1>4, <2>2
    <3>2. k + i \in 1 .. Len(ms) /\ n + i \in 1 .. Len(tr)
      BY <1>2, <1>4, <1>5, <3>1
    <3> QED  BY <1>3, <1>4, <1>5, <3>1, <3>2
  <2> QED  BY <2>1, <2>2
<1>7. ms2[1] = System /\ (k = 2 => ms2[2] = Continuation)
  <2>1. 1 \in 1 .. Len(ms)
    BY <1>2, <1>4, <1>5
  <2>2. k = 2 => 2 \in 1 .. Len(ms)
    BY <1>4, <1>5
  <2> QED  BY <1>2, <1>3, <1>5, <2>1, <2>2
<1>8. Len(ms2) = k + Len(tr2) - n
  BY <1>2, <1>3, <1>4, <1>5
<1>9. Shows(ms2, tr2, k, n) /\ n \in 0 .. Len(tr2) /\ k \in 0 .. 2
  BY <1>2, <1>4, <1>6, <1>7, <1>8 DEF Shows
<1>10. ms2 # <<>>
  BY <1>3
<1> QED  BY <1>9, <1>10 DEF Ends, ms2, tr2

\* So does the system prompt, put in front of messages that lack it.
LEMMA ShowsSystem ==
  ASSUME NEW ms \in Seq(Message), NEW tr \in Seq(Message), Ends(ms, tr),
         ~(ms # <<>> /\ Head(ms) = System)
  PROVE  Ends(<<System>> \o ms, tr) /\ <<System>> \o ms # <<>>
<1>1. PICK k \in 0 .. 2, n \in 0 .. Len(tr) : Shows(ms, tr, k, n)
  BY DEF Ends
<1>2. ms = <<>>
  <2>1. ASSUME k >= 1 PROVE ms # <<>> /\ Head(ms) = System
    <3>1. Len(ms) >= 1 /\ ms[1] = System
      BY <1>1, <2>1 DEF Shows
    <3>2. ms # <<>>
      BY <3>1
    <3> QED  BY <3>1, <3>2, HeadTailProperties
  <2> QED  BY <1>1, <2>1 DEF Shows
<1> DEFINE ms2 == <<System>> \o ms
<1>3. Len(ms2) = 1 /\ ms2[1] = System
  BY <1>2, MessageTypes
<1> HIDE DEF ms2
<1>4. Shows(ms2, tr, 1, Len(tr)) /\ Len(tr) \in 0 .. Len(tr)
  BY <1>3 DEF Shows
<1>5. ms2 # <<>>
  <2>1. Len(<<>>) # 1
    BY EmptySeq
  <2> QED
    BY <1>3, <2>1, Zenon
<1> QED  BY <1>4, <1>5 DEF Ends, ms2

\* So does a compaction.
LEMMA ShowsCompact ==
  ASSUME NEW ms \in Seq(Message), NEW tr \in Seq(Message), Ends(ms, tr),
         Compactable(ms)
  PROVE  Ends(Compact(ms), tr) /\ Compact(ms) # <<>>
<1>1. PICK k \in 0 .. 2, n \in 0 .. Len(tr) : Shows(ms, tr, k, n)
  BY DEF Ends
<1>2. /\ Len(ms) = k + Len(tr) - n /\ Len(ms) \in Nat /\ Len(tr) \in Nat
      /\ k >= 1 => ms[1] = System
      /\ \A i \in 1 .. Len(tr) - n : ms[k + i] = tr[n + i]
      /\ k = 0 => ms = <<>>
  BY <1>1 DEF Shows
<1>3. k \in 1 .. 2
  <2>1. k = 0 => Len(ms) = 0 /\ Start(ms) = 0
    BY <1>2 DEF Start
  <2> QED  BY <2>1, Bounds DEF Compactable
<1>4. Start(ms) = 1
  BY <1>2, <1>3 DEF Start, System, Msg
<1>5. KeepRecent \in Nat /\ KeepRecent >= 1 /\ Len(ms) - 1 > KeepRecent
  BY <1>4, Bounds DEF Compactable
<1> DEFINE front == SubSeq(ms, 1, 1)
           first == Len(ms) - KeepRecent + 1
           back  == SubSeq(ms, first, Len(ms))
           ms2   == (front \o <<Continuation>>) \o back
<1>6. ms2 = Compact(ms)
  BY <1>4 DEF Compact
<1>7. front \in Seq(Message) /\ Len(front) = 1 /\ front[1] = System
  BY <1>2, <1>3, <1>5
<1>8. /\ back \in Seq(Message) /\ Len(back) = KeepRecent
      /\ \A i \in 1 .. KeepRecent : back[i] = ms[first + i - 1]
  <2>1. first \in 1 .. Len(ms) + 1 /\ Len(ms) - first + 1 = KeepRecent
    BY <1>2, <1>5
  <2> HIDE DEF first
  <2>2. Len(ms) - first + 1 = KeepRecent
    BY <2>1
  <2> QED  BY <2>1, <2>2, Suffix
<1> HIDE DEF front, back
<1> DEFINE head == front \o <<Continuation>>
<1>9. head \in Seq(Message) /\ Len(head) = 2 /\ head[1] = System /\ head[2] = Continuation
  <2> DEFINE c == <<Continuation>>
  <2>1. c \in Seq(Message) /\ Len(c) = 1 /\ c[1] = Continuation
    BY MessageTypes
  <2> HIDE DEF c
  <2>2. /\ front \o c \in Seq(Message) /\ Len(front \o c) = Len(front) + Len(c)
        /\ \A i \in 1 .. Len(front) : (front \o c)[i] = front[i]
        /\ \A i \in 1 .. Len(c) : (front \o c)[Len(front) + i] = c[i]
    BY <1>7, <2>1, Joined
  <2>3. Len(front \o c) = 2 /\ (front \o c)[1] = System /\ (front \o c)[2] = Continuation
    BY <1>7, <2>1, <2>2
  <2> QED  BY <2>2, <2>3 DEF c
<1>10. /\ Len(ms2) = 2 + KeepRecent /\ ms2[1] = System /\ ms2[2] = Continuation
       /\ \A i \in 1 .. KeepRecent : ms2[2 + i] = back[i]
  <2> HIDE DEF head
  <2>1. /\ Len(head \o back) = Len(head) + Len(back)
        /\ \A i \in 1 .. Len(head) : (head \o back)[i] = head[i]
        /\ \A i \in 1 .. Len(back) : (head \o back)[Len(head) + i] = back[i]
    BY <1>8, <1>9, Joined
  <2>2. /\ Len(head \o back) = 2 + KeepRecent
        /\ (head \o back)[1] = System /\ (head \o back)[2] = Continuation
        /\ \A i \in 1 .. KeepRecent : (head \o back)[2 + i] = back[i]
    BY <1>8, <1>9, <2>1
  <2> QED  BY <2>2 DEF head
<1> HIDE DEF ms2
<1>11. Len(tr) - KeepRecent \in 0 .. Len(tr) /\ Len(tr) - n >= KeepRecent
  BY <1>2, <1>3, <1>5
<1>12. ASSUME NEW i \in 1 .. KeepRecent
       PROVE  ms2[2 + i] = tr[(Len(tr) - KeepRecent) + i]
  <2> DEFINE j == Len(tr) - n - KeepRecent + i
  <2>1. j \in 1 .. Len(tr) - n /\ k + j = first + i - 1 /\ n + j = (Len(tr) - KeepRecent) + i
    BY <1>2, <1>3, <1>5, <1>11
  <2>2. ms[k + j] = tr[n + j]
    BY <1>2, <2>1
  <2>3. ms2[2 + i] = ms[first + i - 1]
    BY <1>8, <1>10
  <2> QED  BY <2>1, <2>2, <2>3
<1>13. Shows(ms2, tr, 2, Len(tr) - KeepRecent)
  BY <1>2, <1>5, <1>10, <1>11, <1>12 DEF Shows
<1>14. ms2 # <<>>
  BY <1>5, <1>10
<1> QED  BY <1>6, <1>11, <1>13, <1>14 DEF Ends

\* The messages of a fresh state are an end of its transcript.
LEMMA FreshEnds == Ends(Fresh.messages, Fresh.transcript)
<1>1. Shows(<<>>, <<>>, 0, 0)
  BY DEF Shows
<1> QED  BY <1>1 DEF Fresh, Ends

\* At first the messages are an end of the transcript.
LEMMA MessageInit == Init => MessageInv
  BY FreshEnds DEF Init, MessageInv, Stage, Proper, Missing

\* Each step keeps the messages of memory and disk ends of their transcripts.
LEMMA MessageStep == TypeInv /\ MessageInv /\ [Next]_vars => MessageInv'
<1> SUFFICES ASSUME TypeInv, MessageInv, [Next]_vars PROVE MessageInv'
  OBVIOUS
<1>0. /\ mem \in State /\ mem.messages \in Seq(Message) /\ mem.transcript \in Seq(Message)
      /\ Ends(mem.messages, mem.transcript)
      /\ Proper(disk) => Ends(disk.messages, disk.transcript)
  BY StateFields DEF TypeInv, TypeOK, MessageInv
<1>1. CASE Quiet /\ (Stage \in {"down", "system"} => Stage' = Stage)
  BY <1>0, <1>1 DEF Quiet, MessageInv
<1>2. CASE Boot
  <2>1. LoadState \in State
    BY <1>2, LoadType DEF Boot, TypeInv
  <2>2. mem'.messages = LoadState.messages /\ mem'.transcript = LoadState.transcript
    BY <1>2, <2>1 DEF Boot, Recover, State
  <2>3. Ends(LoadState.messages, LoadState.transcript)
    BY <1>0, <1>2, FreshEnds, ProperStates DEF Boot, TypeInv, TypeOK, LoadState
  <2>4. Stage' = "system" /\ disk' = disk
    BY <1>2 DEF Boot, Stage, SaveThen
  <2> QED  BY <1>0, <2>2, <2>3, <2>4 DEF MessageInv
<1>3. CASE EnsureSystem
  <2>1. mem'.transcript = mem.transcript /\ disk' = disk
    BY <1>0, <1>3 DEF EnsureSystem, State
  <2>2. Ends(mem'.messages, mem.transcript) /\ mem'.messages # <<>>
    <3>1. CASE mem.messages # <<>> /\ Head(mem.messages) = System
      BY <1>0, <1>3, <3>1 DEF EnsureSystem
    <3>2. CASE ~(mem.messages # <<>> /\ Head(mem.messages) = System)
      <4>1. mem'.messages = <<System>> \o mem.messages
        BY <1>0, <1>3, <3>2 DEF EnsureSystem, State
      <4> QED  BY <1>0, <3>2, <4>1, ShowsSystem
    <3> QED  BY <3>1, <3>2
  <2> QED  BY <1>0, <2>1, <2>2 DEF MessageInv
<1>4. CASE Saved /\ Stage' = Stage
  BY <1>0, <1>4 DEF Saved, MessageInv
<1>5. CASE Gone /\ Stage' = "down"
  BY <1>0, <1>5, FreshEnds, ProperStates DEF Gone, MessageInv, TypeInv, Proper, Torn
<1>6. CASE Shortened
  BY <1>0, <1>6, ShowsCompact DEF Shortened, MessageInv
<1>7. CASE Stage \notin {"down", "system"} /\ \E m \in Message : Said(m)
  <2>1. PICK m \in Message : Said(m)
    BY <1>7
  <2>2. mem.messages # <<>>
    BY <1>7 DEF MessageInv
  <2>3. Ends(mem'.messages, mem'.transcript) /\ mem'.messages # <<>>
    BY <1>0, <2>1, <2>2, ShowsAppend DEF Said
  <2> QED  BY <1>0, <2>1, <2>3 DEF Said, MessageInv
<1> QED  BY Effects, <1>1, <1>2, <1>3, <1>4, <1>5, <1>6, <1>7 DEF Effect, Said

\* The same as a concatenation.
LEMMA ShowsConcat ==
  ASSUME NEW ms \in Seq(Message), NEW tr \in Seq(Message), Ends(ms, tr)
  PROVE  \E front \in Fronts, n \in 0 .. Len(tr) : ms = front \o End(tr, n)
<1>1. PICK k \in 0 .. 2, n \in 0 .. Len(tr) : Shows(ms, tr, k, n)
  BY DEF Ends
<1>2. PICK front \in Fronts :
        /\ front \in Seq(Message) /\ Len(front) = k
        /\ k >= 1 => front[1] = System
        /\ k = 2 => front[2] = Continuation
  <2>1. CASE k = 0
    BY <2>1 DEF Fronts
  <2>2. CASE k = 1
    BY <2>2, MessageTypes DEF Fronts
  <2>3. CASE k = 2
    BY SMTT(60), <2>3, MessageTypes DEF Fronts
  <2> QED  BY <2>1, <2>2, <2>3
<1>3. /\ Len(tr) \in Nat /\ End(tr, n) \in Seq(Message) /\ Len(End(tr, n)) = Len(tr) - n
      /\ \A i \in 1 .. Len(tr) - n : End(tr, n)[i] = tr[n + i]
  <2>1. Len(tr) \in Nat /\ n + 1 \in 1 .. Len(tr) + 1 /\ Len(tr) - (n + 1) + 1 = Len(tr) - n
    OBVIOUS
  <2> DEFINE a == n + 1
  <2>2. a \in 1 .. Len(tr) + 1 /\ Len(tr) - a + 1 = Len(tr) - n /\ \A i \in Int : a + i - 1 = n + i
    BY <2>1
  <2> HIDE DEF a
  <2>3. /\ SubSeq(tr, a, Len(tr)) \in Seq(Message)
        /\ Len(SubSeq(tr, a, Len(tr))) = Len(tr) - a + 1
        /\ \A i \in 1 .. Len(tr) - a + 1 : SubSeq(tr, a, Len(tr))[i] = tr[a + i - 1]
    BY <2>2, Suffix
  <2>4. End(tr, n) = SubSeq(tr, a, Len(tr))
    BY DEF End, a
  <2>5. \A i \in 1 .. Len(tr) - n : a + i - 1 = n + i
    BY <2>1, <2>2
  <2> QED  BY <2>1, <2>2, <2>3, <2>4, <2>5
<1> DEFINE tail == End(tr, n)
<1> HIDE DEF tail
<1>4. /\ front \o tail \in Seq(Message) /\ Len(front \o tail) = k + Len(tr) - n
      /\ \A i \in 1 .. k + Len(tr) - n :
           (front \o tail)[i] = IF i <= k THEN front[i] ELSE tail[i - k]
  BY <1>2, <1>3, ConcatProperties DEF tail
<1>5. Len(ms) = k + Len(tr) - n
  BY <1>1 DEF Shows
<1>6. ASSUME NEW i \in 1 .. Len(ms) PROVE ms[i] = (front \o tail)[i]
  <2>1. CASE i <= k
    BY <1>1, <1>2, <1>4, <1>5, <2>1 DEF Shows
  <2>2. CASE ~(i <= k)
    <3>1. i - k \in 1 .. Len(tr) - n /\ k + (i - k) = i
      BY <1>3, <1>5, <2>2
    <3>2. ms[k + (i - k)] = tr[n + (i - k)]
      BY <1>1, <3>1 DEF Shows
    <3> QED  BY <1>3, <1>4, <1>5, <2>2, <3>1, <3>2 DEF tail
  <2> QED  BY <2>1, <2>2
<1>7. ms = front \o tail
  BY <1>4, <1>5, <1>6, SeqEqual
<1> QED  BY <1>7 DEF tail

\* The model is shown an end of the transcript, after the system prompt and
\* one continuation at most, whatever was compacted, lost or recovered.
THEOREM ModelSeesEnd == Spec => []MessagesEndTranscript
<1>1. TypeInv /\ MessageInv => MessagesEndTranscript
  <2> SUFFICES ASSUME TypeInv, MessageInv, Proper(disk)
               PROVE  \E front \in Fronts, n \in 0 .. Len(disk.transcript) :
                        disk.messages = front \o End(disk.transcript, n)
    BY DEF MessagesEndTranscript
  <2>1. disk \in State /\ Ends(disk.messages, disk.transcript)
    BY ProperStates DEF TypeInv, MessageInv
  <2> QED  BY <2>1, StateFields, ShowsConcat
<1> QED  BY TypeInit, TypeStep, MessageInit, MessageStep, <1>1, PTL DEF Spec

=============================================================================
