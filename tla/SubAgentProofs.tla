--------------------------- MODULE SubAgentProofs ---------------------------
(***************************************************************************)
(* SubAgent keeps its types, and turns no completion into a prompt twice,  *)
(* for every number of children, runs and commands and every combination   *)
(* of commands and faults.  For sub-agents that only `toc runtime cancel`  *)
(* ends: no cancellation marker over an output, nothing left at work       *)
(* behind a cancellation or behind the session.  For those that are never  *)
(* resumed: a notification tells what became of the run.  For either: no   *)
(* two native processes of one session.  And what `status` says of         *)
(* sub-agents of the commands goes through the lifecycle of one.           *)
(***************************************************************************)
EXTENDS SubAgent, FiniteSetTheorems, TLAPS

USE SubAgentAssumption

-----------------------------------------------------------------------------
(* Types *)

\* The first state is well typed.
LEMMA InitTypeOK == Init => TypeOK
  BY DEF Init, TypeOK, Recorded, Saved, RunOrNot, NoRun, NoCode, Codes, ProcStates,
         MainStates, Prompting, Ops, Running, Idle, Notifications, OpStates

\* Every step of a wrapper script keeps the types.
LEMMA ScriptTypeOK ==
  ASSUME NEW c \in Children, NEW r \in Runs, TypeOK, Wrapper(c, r)
  PROVE  TypeOK'
<1> USE DEF TypeOK, Recorded, Saved, RunOrNot, NoRun, NoCode, Codes, ProcStates,
            Live, Dead, fileVars, procVars, parentVars, opVars
<1>1. CASE WritePid(c, r)
  BY <1>1 DEF WritePid, Step
<1>2. CASE StartNative(c, r)
  BY <1>2 DEF StartNative, Step
<1>3. CASE FinishNative(c, r)
  BY <1>3 DEF FinishNative, Step
<1>4. CASE WriteExit(c, r)
  BY <1>4 DEF WriteExit, Step
<1>5. CASE MoveOutput(c, r)
  BY <1>5 DEF MoveOutput, Step
<1>6. CASE Notify(c, r)
  BY <1>6 DEF Notify, Step, NotifiedStatus, ExitStatus, Notifications, Results
<1>7. CASE Die(c, r)
  BY <1>7 DEF Die
<1>8. QED
  BY <1>1, <1>2, <1>3, <1>4, <1>5, <1>6, <1>7 DEF Wrapper, ScriptStep

\* A command in progress has a child and a place in its code.
LEMMA RunningOp ==
  ASSUME NEW a \in Actors, op \in [Actors -> Ops], op[a].pc # "idle"
  PROVE  /\ op[a] \in Running
         /\ op[a].child \in Children
         /\ op[a].run \in RunOrNot
         /\ op[a].pc \in OpStates
  BY DEF Ops, Running, Idle

\* The start of a command keeps the types.
LEMMA BeginTypeOK ==
  ASSUME NEW a \in Actors, NEW k \in Commands, NEW c \in Children, TypeOK,
         AddSession(a, k, c) \/ LookUp(a, k, c)
  PROVE  TypeOK'
<1> USE DEF TypeOK, Recorded, Issue, fileVars, procVars, parentVars, opVars
<1>1. ASSUME NEW pc \in OpStates
      PROVE  [op EXCEPT ![a] = [kind |-> k, pc |-> pc, child |-> c, run |-> NoRun]]
               \in [Actors -> Ops]
  BY <1>1 DEF Ops, Running, RunOrNot, NoRun
<1>2. CASE AddSession(a, k, c)
  <2>1. op' \in [Actors -> Ops]
    BY <1>1, <1>2 DEF AddSession, OpStates
  <2>2. QED
    BY <1>2, <2>1 DEF AddSession
<1>3. CASE LookUp(a, k, c)
  <2>1. \/ UNCHANGED op
        \/ \E pc \in OpStates :
             op' = [op EXCEPT ![a] = [kind |-> k, pc |-> pc, child |-> c, run |-> NoRun]]
    <3>1. "probe" \in OpStates /\ AfterLook(k) \in OpStates
      BY DEF OpStates, AfterLook
    <3>2. QED
      BY <1>3, <3>1 DEF LookUp
  <2>2. op' \in [Actors -> Ops]
    <3>1. CASE UNCHANGED op
      BY <3>1
    <3>2. ASSUME NEW pc \in OpStates,
                 op' = [op EXCEPT ![a] = [kind |-> k, pc |-> pc, child |-> c, run |-> NoRun]]
          PROVE  op' \in [Actors -> Ops]
      BY ONLY <1>1, <3>2
    <3>3. QED
      BY <2>1, <3>1, <3>2
  <2>3. opsLeft' \in [Actors -> Nat]
    BY <1>3 DEF LookUp
  <2>4. UNCHANGED <<status, state, fileVars, procVars, parentVars>>
    BY <1>3 DEF LookUp
  <2>5. QED
    BY <2>2, <2>3, <2>4
<1>4. QED
  BY <1>2, <1>3

\* A command that goes on, or is over, leaves a command or Idle behind.
LEMMA GoToType ==
  ASSUME NEW a \in Actors, op \in [Actors -> Ops], op[a].pc # "idle",
         NEW pc \in OpStates \cup {"idle"},
         \/ GoTo(a, pc) /\ pc \in OpStates
         \/ Finish(a)
         \/ Proceed(a, pc)
  PROVE  op' \in [Actors -> Ops]
<1>1. op[a] \in Running
  BY RunningOp
<1>2. CASE Finish(a)
  BY <1>2 DEF Finish, Ops
<1>3. CASE GoTo(a, pc) /\ pc \in OpStates
  <2>1. [op[a] EXCEPT !.pc = pc] \in Running
    BY <1>1, <1>3 DEF Running
  <2>2. op' = [op EXCEPT ![a] = [op[a] EXCEPT !.pc = pc]]
    BY <1>3 DEF GoTo
  <2>3. QED
    BY <2>1, <2>2 DEF Ops
<1>4. QED
  BY <1>2, <1>3 DEF Proceed

\* So does every other step of a command.
LEMMA CommandTypeOK ==
  ASSUME NEW a \in Actors, TypeOK, CommandStep(a)
  PROVE  TypeOK'
<1> USE DEF TypeOK, fileVars, procVars, parentVars, opVars
<1>1. CASE ProbePid(a)
  <2>1. AfterLook(op[a].kind) \in OpStates
    BY DEF AfterLook, OpStates
  <2>2. op' \in [Actors -> Ops]
    BY <1>1, <2>1, GoToType DEF ProbePid
  <2>3. QED
    BY <1>1, <2>2 DEF ProbePid
<1>2. CASE Signal(a)
  <2> DEFINE c == op[a].child
             r == pidFile[c]
  <2>1. op[a] \in Running /\ c \in Children /\ r \in RunOrNot
    BY <1>2, RunningOp DEF Signal
  <2>2. op' \in [Actors -> Ops]
    <3>1. CASE r = NoRun
      <4>1. WithoutPid(op[a].kind) \in OpStates \cup {"idle"}
        BY DEF WithoutPid, OpStates
      <4>2. op[a].pc # "idle" /\ Proceed(a, WithoutPid(op[a].kind))
        BY <1>2, <3>1 DEF Signal
      <4>3. QED
        BY <4>1, <4>2, GoToType
    <3>2. CASE r # NoRun
      <4>1. PICK pc \in OpStates : op' = [op EXCEPT ![a].pc = pc, ![a].run = r]
        <5>1. AfterKill(op[a].kind) \in OpStates /\ "await" \in OpStates
          BY DEF AfterKill, OpStates
        <5>2. QED
          BY <1>2, <3>2, <5>1 DEF Signal
      <4>2. [op[a] EXCEPT !.pc = pc, !.run = r] \in Running
        BY <2>1 DEF Running
      <4>3. op' = [op EXCEPT ![a] = [op[a] EXCEPT !.pc = pc, !.run = r]]
        BY <4>1
      <4>4. QED
        BY <4>2, <4>3 DEF Ops
    <3>3. QED
      BY <3>1, <3>2
  <2>3. term' \subseteq Children \X Runs
    <3>1. CASE UNCHANGED term
      BY <3>1
    <3>2. CASE r # NoRun /\ term' = IF proc[c][r] \in Live THEN term \cup {<<c, r>>} ELSE term
      BY <2>1, <3>2 DEF RunOrNot
    <3>3. QED
      BY <1>2, <3>1, <3>2 DEF Signal
  <2>4. QED
    BY <1>2, <2>2, <2>3 DEF Signal
<1>3. CASE AwaitDeath(a)
  <2>1. op' \in [Actors -> Ops]
    <3>1. AfterKill(op[a].kind) \in OpStates
      BY DEF AfterKill, OpStates
    <3>2. QED
      BY <1>3, <3>1, GoToType DEF AwaitDeath
  <2>2. proc' \in [Children -> [Runs -> ProcStates]]
    <3> DEFINE c == op[a].child
               r == op[a].run
               e == IF proc[c][r] \in Live THEN "killed" ELSE proc[c][r]
    <3>1. c \in Children /\ proc[c] \in [Runs -> ProcStates]
      BY <1>3, RunningOp DEF AwaitDeath
    <3>2. proc' = [proc EXCEPT ![c][r] = e]
      BY <1>3 DEF AwaitDeath
    <3>3. CASE r \in Runs
      <4>1. e \in ProcStates
        BY <3>1, <3>3 DEF ProcStates, Dead
      <4> HIDE DEF e
      <4>2. QED
        BY <3>1, <3>2, <3>3, <4>1
    <3>4. CASE r \notin Runs
      <4> HIDE DEF e
      <4>1. QED
        BY <3>1, <3>2, <3>4
    <3>5. QED
      BY <3>3, <3>4
  <2>3. QED
    BY <1>3, <2>1, <2>2 DEF AwaitDeath
<1>4. CASE StatOutput(a)
  BY <1>4, GoToType DEF StatOutput, AfterMark, OpStates
<1>5. CASE WriteMarker(a)
  BY <1>5, GoToType DEF WriteMarker, AfterMark, OpStates
<1>6. CASE SetCancelled(a)
  <2>1. op' \in [Actors -> Ops]
    BY <1>6, GoToType DEF SetCancelled, OpStates
  <2>2. QED
    BY <1>6, <2>1 DEF SetCancelled, Recorded
<1>7. CASE SaveCancelled(a)
  BY <1>7, GoToType DEF SaveCancelled, Saved, OpStates
<1>8. CASE RemoveMarkers(a)
  <2>1. op' \in [Actors -> Ops]
    BY <1>8, GoToType DEF RemoveMarkers, OpStates
  <2>2. QED
    BY <1>8, <2>1 DEF RemoveMarkers, RunOrNot, NoRun
<1>9. CASE Activate(a)
  BY <1>9, GoToType DEF Activate, Recorded, OpStates
<1>10. CASE Launch(a)
  <2>1. op[a].child \in Children
    BY <1>10, RunningOp DEF Launch
  <2>2. op' \in [Actors -> Ops]
    BY <1>10, GoToType DEF Launch, OpStates
  <2>3. proc' \in [Children -> [Runs -> ProcStates]]
    <3>1. PICK r \in Runs : proc' = [proc EXCEPT ![op[a].child][r] = "forked"]
      BY <1>10 DEF Launch
    <3>2. QED
      BY <2>1, <3>1 DEF ProcStates, Live
  <2>4. inTool' \subseteq Children
    BY <1>10, <2>1 DEF Launch
  <2>5. QED
    BY <1>10, <2>2, <2>3, <2>4 DEF Launch
<1>11. CASE LaunchFails(a)
  BY <1>11, GoToType DEF LaunchFails, OpStates
<1>12. QED
  BY <1>1, <1>2, <1>3, <1>4, <1>5, <1>6, <1>7, <1>8, <1>9, <1>10, <1>11 DEF CommandStep

\* And every step of the parent runner.
LEMMA ParentTypeOK ==
  ASSUME TypeOK, ParentStep
  PROVE  TypeOK'
<1> USE DEF TypeOK, OnlyParent, MainStates, Prompting, Gone, fileVars, procVars, opVars
<1>1. CASE PromptDone
  BY <1>1 DEF PromptDone, AfterPrompt
<1>2. CASE PromptFails
  BY <1>2 DEF PromptFails
<1>3. CASE PopNotification
  BY <1>3 DEF PopNotification, Notifications
<1>4. CASE DrainEmpty
  BY <1>4 DEF DrainEmpty
<1>5. CASE ScanChild
  BY <1>5 DEF ScanChild
<1>6. CASE ScanProbe
  BY <1>6 DEF ScanProbe
<1>7. CASE ScanDone
  BY <1>7 DEF ScanDone
<1>8. CASE WaitTimesOut
  BY <1>8 DEF WaitTimesOut
<1>9. CASE Finalize
  BY <1>9 DEF Finalize
<1>10. QED
  BY <1>1, <1>2, <1>3, <1>4, <1>5, <1>6, <1>7, <1>8, <1>9 DEF ParentStep

\* Each step keeps the types.
LEMMA NextTypeOK == TypeOK /\ [Next]_vars => TypeOK'
<1> SUFFICES ASSUME TypeOK, [Next]_vars PROVE TypeOK'
  OBVIOUS
<1>1. CASE UNCHANGED vars
  BY <1>1 DEF TypeOK, vars, fileVars, procVars, parentVars, opVars
<1>2. CASE Next
  BY <1>2, ScriptTypeOK, BeginTypeOK, CommandTypeOK, ParentTypeOK DEF Next
<1>3. QED
  BY <1>1, <1>2

\* Type correctness of the whole specification.
THEOREM TypeCorrect == Spec => []TypeOK
  BY InitTypeOK, NextTypeOK, PTL DEF Spec

-----------------------------------------------------------------------------
(* Each completion is turned into a prompt at most once.                   *)

\* The inductive invariant.  A notification stands for a wrapper that has
\* exited and has not been handled; there is one per run; what was handled
\* was handled once.  A wrapper leaves "exited" never again, so no later
\* step of it can write a second notification.
DeliveryInv ==
  /\ \A n \in inbox : proc[n.child][n.run] = "exited" /\ handled[n.child][n.run] = 0
  /\ \A m, n \in inbox : m.child = n.child /\ m.run = n.run => m = n
  /\ \A c \in Children, r \in Runs :
       handled[c][r] # 0 => handled[c][r] = 1 /\ proc[c][r] = "exited"

\* Nothing has been delivered at first.
LEMMA InitDelivery == Init => DeliveryInv
  BY DEF Init, DeliveryInv

ExitedStays ==
  \A c \in Children, r \in Runs : proc[c][r] = "exited" => proc'[c][r] = "exited"

\* What neither writes nor takes notifications and revives no wrapper
\* preserves the invariant.
LEMMA StableDelivery ==
  ASSUME TypeOK, DeliveryInv, UNCHANGED <<inbox, handled>>, ExitedStays
  PROVE  DeliveryInv'
<1>1. \A n \in inbox : n.child \in Children /\ n.run \in Runs
  BY DEF TypeOK, Notifications
<1>2. QED
  BY <1>1 DEF DeliveryInv, ExitedStays

\* A wrapper notifies once.
LEMMA ScriptDelivery ==
  ASSUME NEW c \in Children, NEW r \in Runs, TypeOK, DeliveryInv, Wrapper(c, r)
  PROVE  DeliveryInv'
<1>1. CASE Notify(c, r)
  <2> DEFINE note == [child |-> c, run |-> r, status |-> NotifiedStatus(c)]
  <2>1. /\ proc[c][r] = "moved"
        /\ proc' = [proc EXCEPT ![c][r] = "exited"]
        /\ inbox' = inbox \cup {note}
        /\ handled' = handled
    BY <1>1 DEF Notify, Step
  <2>2. \A n \in inbox : n.child \in Children /\ n.run \in Runs
    BY DEF TypeOK, Notifications
  <2>3. ExitedStays
    BY <2>1 DEF ExitedStays, TypeOK
  <2>4. handled[c][r] = 0
    BY <2>1 DEF DeliveryInv, TypeOK
  <2>5. \A n \in inbox : ~(n.child = c /\ n.run = r)
    BY <2>1 DEF DeliveryInv
  <2>6. proc'[c][r] = "exited"
    BY <2>1 DEF TypeOK
  <2>7. \A n \in inbox' : proc'[n.child][n.run] = "exited" /\ handled'[n.child][n.run] = 0
    BY <2>1, <2>2, <2>3, <2>4, <2>6 DEF DeliveryInv, ExitedStays
  <2>8. \A m, n \in inbox' : m.child = n.child /\ m.run = n.run => m = n
    BY <2>1, <2>5 DEF DeliveryInv
  <2>9. QED
    BY <2>1, <2>3, <2>7, <2>8 DEF DeliveryInv, ExitedStays
<1>2. CASE ~Notify(c, r)
  <2>1. UNCHANGED <<inbox, handled>>
    BY <1>2 DEF Wrapper, ScriptStep, WritePid, StartNative, FinishNative, WriteExit,
                MoveOutput, Die, parentVars
  <2>2. PICK to : proc[c][r] \in Live /\ proc' = [proc EXCEPT ![c][r] = to]
    BY <1>2 DEF Wrapper, ScriptStep, WritePid, StartNative, FinishNative, WriteExit,
                MoveOutput, Die, Step, Live
  <2>3. ExitedStays
    BY <2>2 DEF ExitedStays, TypeOK, Live
  <2>4. QED
    BY <2>1, <2>3, StableDelivery
<1>3. QED
  BY <1>1, <1>2

\* Commands kill or start wrappers, but none that has exited.
LEMMA CommandDelivery ==
  ASSUME NEW a \in Actors, TypeOK, DeliveryInv,
         \/ \E k \in Commands, c \in Children : AddSession(a, k, c) \/ LookUp(a, k, c)
         \/ CommandStep(a)
  PROVE  DeliveryInv'
<1>1. CASE AwaitDeath(a)
  <2>1. UNCHANGED <<inbox, handled>>
    BY <1>1 DEF AwaitDeath, parentVars
  <2>2. ExitedStays
    BY <1>1 DEF AwaitDeath, ExitedStays, TypeOK, Live
  <2>3. QED
    BY <2>1, <2>2, StableDelivery
<1>2. CASE Launch(a)
  <2>1. UNCHANGED <<inbox, handled>>
    BY <1>2 DEF Launch, parentVars
  <2>2. PICK r \in Runs : /\ proc[op[a].child][r] = "none"
                          /\ proc' = [proc EXCEPT ![op[a].child][r] = "forked"]
    BY <1>2 DEF Launch
  <2>3. ExitedStays
    BY <2>2 DEF ExitedStays, TypeOK
  <2>4. QED
    BY <2>1, <2>3, StableDelivery
<1>3. CASE UNCHANGED <<procVars, parentVars>> \/ UNCHANGED <<proc, parentVars>>
  BY <1>3, StableDelivery DEF procVars, parentVars, ExitedStays
<1>4. QED
  BY <1>1, <1>2, <1>3
     DEF CommandStep, AddSession, LookUp, ProbePid, Signal, StatOutput, WriteMarker,
         SetCancelled, SaveCancelled, RemoveMarkers, Activate, LaunchFails

\* What the parent handles it takes out of the inbox.
LEMMA ParentDelivery ==
  ASSUME TypeOK, DeliveryInv, ParentStep
  PROVE  DeliveryInv'
<1>1. UNCHANGED proc
  BY DEF ParentStep, OnlyParent, procVars, PromptDone, PromptFails, PopNotification,
         DrainEmpty, ScanChild, ScanProbe, ScanDone, WaitTimesOut, Finalize
<1>2. ExitedStays
  BY <1>1 DEF ExitedStays
<1>3. CASE PopNotification
  <2>1. PICK n \in inbox : /\ inbox' = inbox \ {n}
                           /\ handled' = [handled EXCEPT ![n.child][n.run] = @ + 1]
    BY <1>3 DEF PopNotification
  <2>2. \A m \in inbox : m.child \in Children /\ m.run \in Runs
    BY DEF TypeOK, Notifications
  <2>3. handled'[n.child][n.run] = 1
    BY <2>1, <2>2 DEF DeliveryInv, TypeOK
  <2>4. \A c \in Children, r \in Runs :
          ~(c = n.child /\ r = n.run) => handled'[c][r] = handled[c][r]
    BY <2>1, <2>2 DEF TypeOK
  <2>5. \A m \in inbox' : ~(m.child = n.child /\ m.run = n.run)
    BY <2>1 DEF DeliveryInv
  <2>6. \A m \in inbox' : proc'[m.child][m.run] = "exited" /\ handled'[m.child][m.run] = 0
    BY <1>1, <2>1, <2>2, <2>4, <2>5 DEF DeliveryInv
  <2>7. \A c \in Children, r \in Runs :
          handled'[c][r] # 0 => handled'[c][r] = 1 /\ proc'[c][r] = "exited"
    BY <1>1, <2>1, <2>3, <2>4 DEF DeliveryInv
  <2>8. QED
    BY <2>1, <2>6, <2>7 DEF DeliveryInv
<1>4. CASE ~PopNotification
  <2>1. UNCHANGED <<inbox, handled>>
    BY <1>4 DEF ParentStep, PromptDone, PromptFails, DrainEmpty, ScanChild, ScanProbe,
                ScanDone, WaitTimesOut, Finalize
  <2>2. QED
    BY <1>2, <2>1, StableDelivery
<1>5. QED
  BY <1>3, <1>4

\* Each step keeps the deliveries of a run at one.
LEMMA NextDelivery == TypeOK /\ DeliveryInv /\ [Next]_vars => DeliveryInv'
<1> SUFFICES ASSUME TypeOK, DeliveryInv, [Next]_vars PROVE DeliveryInv'
  OBVIOUS
<1>1. CASE UNCHANGED vars
  BY <1>1, StableDelivery DEF vars, procVars, parentVars, ExitedStays
<1>2. CASE Next
  BY <1>2, ScriptDelivery, CommandDelivery, ParentDelivery DEF Next
<1>3. QED
  BY <1>1, <1>2

\* The notifications of one run are none or one.
LEMMA DeliveryBound == TypeOK /\ DeliveryInv => AtMostOncePerRun
<1> SUFFICES ASSUME TypeOK, DeliveryInv, NEW c \in Children, NEW r \in Runs
             PROVE  handled[c][r] + Cardinality({n \in inbox : n.child = c /\ n.run = r}) <= 1
  BY DEF AtMostOncePerRun
<1> DEFINE waiting == {n \in inbox : n.child = c /\ n.run = r}
<1>1. handled[c][r] \in {0, 1}
  BY DEF DeliveryInv, TypeOK
<1>2. CASE waiting = {}
  BY <1>1, <1>2, FS_EmptySet
<1>3. CASE waiting # {}
  <2>1. PICK n \in inbox : n.child = c /\ n.run = r
    BY <1>3
  <2>2. handled[c][r] = 0 /\ waiting = {n}
    BY <2>1 DEF DeliveryInv
  <2>3. Cardinality(waiting) = 1
    BY <2>2, FS_Singleton
  <2>4. QED
    BY <2>2, <2>3
<1>4. QED
  BY <1>2, <1>3

\* No completion of a sub-agent is turned into a prompt twice, whatever
\* commands and faults come between the notification and the prompt.
THEOREM AtMostOnce == Spec => []AtMostOncePerRun
<1>1. Init => DeliveryInv
  BY InitDelivery
<1>2. TypeOK /\ DeliveryInv /\ [Next]_vars => DeliveryInv'
  BY NextDelivery
<1>3. TypeOK /\ DeliveryInv => AtMostOncePerRun
  BY DeliveryBound
<1>4. QED
  BY <1>1, <1>2, <1>3, TypeCorrect, PTL DEF Spec

-----------------------------------------------------------------------------
(* Sub-agents that are cancelled by `toc runtime cancel`, which waits for  *)
(* the process, and resumed                                                *)

\* The commands that record a child as cancelled without having waited for
\* its process do not occur.
OnlyCancel == Features \cap {"cancelTool", "rstop", "stop"} = {}

Quiet(c) == \A r \in Runs : proc[c][r] \notin Working

Pristine(c) ==
  /\ \A r \in Runs : proc[c][r] = "none"
  /\ pidFile[c] = NoRun /\ outFile[c] = NoRun /\ ~marker[c]

\* One run of a child works at a time.  The pid file is its own as soon as
\* it has written one, the record is active, and no file says that the
\* child has completed or was cancelled: so whatever resolves the child
\* finds it active, and only cancel goes on.
RunInv ==
  \A c \in Children :
    /\ status[c] = "none" => Pristine(c)
    /\ marker[c] => outFile[c] = NoRun
    /\ \A r \in Runs : proc[c][r] \in Working =>
         /\ status[c] = "active" /\ outFile[c] = NoRun /\ ~marker[c]
         /\ pidFile[c] = IF proc[c][r] = "forked" THEN NoRun ELSE r
         /\ \A q \in Runs : proc[c][q] \in Working => q = r

\* What a command has made sure of by the place where it is.
SpawnAt(o) ==
  o.pc = "launch" /\ status[o.child] = "active" /\ Pristine(o.child)

CancelAt(o) ==
  /\ o.pc \in {"probe", "signal", "await", "stat", "mark", "status", "state"}
  /\ o.pc = "await" => \A r \in Runs : proc[o.child][r] \in Working => r = o.run
  /\ o.pc \in {"stat", "mark", "status", "state"} => Quiet(o.child)
  /\ o.pc = "mark" => outFile[o.child] = NoRun

ResumeAt(o) ==
  /\ o.pc \in {"probe", "rmOut", "rmTmp", "rmExit", "rmPid", "rmMarker", "activate", "launch"}
  /\ o.pc # "probe" => Quiet(o.child)
  /\ o.pc \notin {"probe", "rmOut"} => outFile[o.child] = NoRun
  /\ o.pc \in {"rmMarker", "activate", "launch"} => pidFile[o.child] = NoRun
  /\ o.pc \in {"activate", "launch"} => ~marker[o.child]
  /\ o.pc = "launch" => status[o.child] = "active"

CommandAt(o) ==
  /\ o.kind \in Spawns => SpawnAt(o)
  /\ o.kind = "cancel" => CancelAt(o)
  /\ o.kind = "resume" => ResumeAt(o)
  /\ o # Idle => /\ o.kind \in Spawns \cup {"cancel", "resume"}
                 /\ status[o.child] # "none"

Own == op["parent"]

CommandInv ==
  /\ op["user"] = Idle
  /\ Own # Idle => main \in Prompting
  /\ CommandAt(Own)

CancelInv == RunInv /\ CommandInv

\* At first no run is at work.
LEMMA InitCancel == Init => CancelInv
  BY DEF Init, CancelInv, RunInv, CommandInv, CommandAt, Pristine, Own, Idle, Spawns,
         Working, Live, Actors

\* What a script does: no run begins to work again, and the pid file and
\* the output are written only by a run that works.
ScriptFacts(c, r) ==
  /\ UNCHANGED <<status, marker, op, main, scan, probing>>
  /\ proc[c][r] \in Live
  /\ \A d \in Children, q \in Runs : ~(d = c /\ q = r) => proc'[d][q] = proc[d][q]
  /\ proc'[c][r] \in {"named", "running", "ended", "coded", "moved", "exited", "killed"}
  /\ proc'[c][r] \in Working => proc[c][r] \in Working
  /\ proc'[c][r] = "named" <=> proc[c][r] = "forked" /\ proc'[c][r] # "killed"
  /\ \A d \in Children :
       /\ pidFile'[d] = IF d = c /\ proc'[c][r] = "named" THEN r ELSE pidFile[d]
       /\ outFile'[d] # outFile[d] => d = c /\ proc[c][r] = "coded" /\ proc'[c][r] = "moved"

\* What a step of a wrapper may change, action by action.
LEMMA ScriptEffect ==
  ASSUME TypeOK, NEW c \in Children, NEW r \in Runs, Wrapper(c, r)
  PROVE  ScriptFacts(c, r)
<1> USE DEF ScriptFacts, fileVars, procVars, parentVars, opVars, Live, Working
<1>0. ASSUME NEW from, NEW to, Step(c, r, from, to)
      PROVE  /\ proc[c][r] = from /\ proc'[c][r] = to
             /\ \A d \in Children, q \in Runs : ~(d = c /\ q = r) => proc'[d][q] = proc[d][q]
  BY <1>0 DEF Step, TypeOK
<1>1. CASE WritePid(c, r)
  <2>1. \A d \in Children : pidFile'[d] = IF d = c THEN r ELSE pidFile[d]
    BY <1>1 DEF WritePid, TypeOK
  <2> QED
    BY <1>0, <1>1, <2>1 DEF WritePid
<1>2. CASE StartNative(c, r)
  BY <1>0, <1>2 DEF StartNative
<1>3. CASE FinishNative(c, r)
  BY <1>0, <1>3 DEF FinishNative
<1>4. CASE WriteExit(c, r)
  BY <1>0, <1>4 DEF WriteExit
<1>5. CASE MoveOutput(c, r)
  <2>1. \A d \in Children : outFile'[d] # outFile[d] => d = c
    BY <1>5 DEF MoveOutput, TypeOK
  <2> QED
    BY <1>0, <1>5, <2>1 DEF MoveOutput
<1>6. CASE Notify(c, r)
  BY <1>0, <1>6 DEF Notify
<1>7. CASE Die(c, r)
  <2>1. /\ proc'[c][r] = "killed"
        /\ \A d \in Children, q \in Runs : ~(d = c /\ q = r) => proc'[d][q] = proc[d][q]
    BY <1>7 DEF Die, TypeOK
  <2> QED
    BY <1>7, <2>1 DEF Die
<1> QED
  BY <1>1, <1>2, <1>3, <1>4, <1>5, <1>6, <1>7 DEF Wrapper, ScriptStep

\* The wrapper's own steps keep runs and commands apart.
LEMMA ScriptCancel ==
  ASSUME TypeOK, CancelInv, NEW c \in Children, NEW r \in Runs, Wrapper(c, r)
  PROVE  CancelInv'
<1>0. ScriptFacts(c, r)
  BY ScriptEffect
<1>1. UNCHANGED <<status, marker, op, main>>
  BY <1>0 DEF ScriptFacts
<1>2. \A d \in Children, q \in Runs : proc'[d][q] \in Working => proc[d][q] \in Working
  BY <1>0 DEF ScriptFacts
<1>3. \A d \in Children : Quiet(d) => Quiet(d)' /\ pidFile'[d] = pidFile[d] /\ outFile'[d] = outFile[d]
  BY <1>0, <1>2 DEF ScriptFacts, Quiet, Working, Live
<1>4. \A d \in Children : Pristine(d) => Pristine(d)'
  BY <1>0, <1>1, <1>3 DEF ScriptFacts, Quiet, Pristine, Working, Live
<1>5. RunInv'
  <2> SUFFICES ASSUME NEW d \in Children
               PROVE  /\ status[d] = "none" => Pristine(d)'
                      /\ marker[d] => outFile'[d] = NoRun
                      /\ \A q \in Runs : proc'[d][q] \in Working =>
                           /\ status[d] = "active" /\ outFile'[d] = NoRun /\ ~marker[d]
                           /\ pidFile'[d] = IF proc'[d][q] = "forked" THEN NoRun ELSE q
                           /\ \A t \in Runs : proc'[d][t] \in Working => t = q
    BY <1>1 DEF RunInv
  <2>1. status[d] = "none" => Pristine(d)'
    BY <1>4 DEF CancelInv, RunInv
  <2>2. marker[d] => outFile'[d] = NoRun
    BY <1>0 DEF ScriptFacts, CancelInv, RunInv, Working, Live
  <2>3. ASSUME NEW q \in Runs, proc'[d][q] \in Working
        PROVE  /\ status[d] = "active" /\ outFile'[d] = NoRun /\ ~marker[d]
               /\ pidFile'[d] = IF proc'[d][q] = "forked" THEN NoRun ELSE q
               /\ \A t \in Runs : proc'[d][t] \in Working => t = q
    <3>1. /\ proc[d][q] \in Working
          /\ status[d] = "active" /\ outFile[d] = NoRun /\ ~marker[d]
          /\ pidFile[d] = IF proc[d][q] = "forked" THEN NoRun ELSE q
          /\ \A t \in Runs : proc[d][t] \in Working => t = q
      BY <1>2, <2>3 DEF CancelInv, RunInv
    <3>2. \A t \in Runs : proc'[d][t] \in Working => t = q
      BY <1>2, <3>1
    <3>3. CASE d = c /\ q = r
      BY <2>3, <3>1, <3>2, <3>3, <1>0 DEF ScriptFacts, Working, Live
    <3>4. CASE ~(d = c /\ q = r)
      <4>1. proc'[d][q] = proc[d][q]
        BY <3>4, <1>0 DEF ScriptFacts
      <4>2. outFile'[d] = outFile[d] /\ pidFile'[d] = pidFile[d]
        BY <3>1, <3>4, <1>0 DEF ScriptFacts, Working, Live
      <4> QED
        BY <3>1, <3>2, <4>1, <4>2
    <3> QED
      BY <3>3, <3>4
  <2> QED
    BY <2>1, <2>2, <2>3
<1>6. CommandInv'
  <2>1. Own # Idle => Own.child \in Children
    BY DEF TypeOK, Ops, Running, Own, Actors
  <2>2. Own = Idle => CommandAt(Own)'
    BY <1>1 DEF CommandAt, Own, Idle, Spawns
  <2>3. Own # Idle => CommandAt(Own)'
    BY <1>1, <1>2, <1>3, <1>4, <2>1
       DEF CancelInv, CommandInv, CommandAt, SpawnAt, CancelAt, ResumeAt, Own
  <2> QED
    BY <1>1, <2>2, <2>3 DEF CancelInv, CommandInv, Own
<1> QED
  BY <1>5, <1>6 DEF CancelInv

\* The user has no command under this hypothesis, and a command of the
\* parent works on a child that is recorded.
LEMMA Commander ==
  ASSUME TypeOK, CommandInv, NEW a \in Actors, op[a].pc # "idle"
  PROVE  /\ a = "parent" /\ op[a] = Own /\ Own # Idle /\ Own.child \in Children
         /\ Own.kind \in Spawns \cup {"cancel", "resume"}
         /\ status[Own.child] # "none"
         /\ main \in Prompting
  BY RunningOp DEF TypeOK, CommandInv, CommandAt, Own, Actors, Idle

\* A command that is over promises nothing.
LEMMA NoCommand ==
  ASSUME TypeOK, CommandInv, Finish("parent") PROVE CommandInv'
<1>1. op'["parent"] = Idle /\ op'["user"] = op["user"]
  BY DEF TypeOK, Finish, Actors
<1> QED
  BY <1>1 DEF CommandInv, CommandAt, Own, Idle, Spawns

\* A child that looks completed or cancelled, or whose pid is dead, has no
\* run at work.
LEMMA NotActive ==
  ASSUME TypeOK, RunInv, NEW c \in Children,
         \/ status[c] # "active" \/ marker[c] \/ outFile[c] # NoRun
         \/ Probe(c) # "active"
  PROVE  Quiet(c)
<1> SUFFICES ASSUME NEW r \in Runs, proc[c][r] \in Working PROVE FALSE
  BY DEF Quiet
<1>1. /\ status[c] = "active" /\ outFile[c] = NoRun /\ ~marker[c]
      /\ pidFile[c] = IF proc[c][r] = "forked" THEN NoRun ELSE r
  BY DEF RunInv
<1> QED
  BY <1>1 DEF Probe, Alive, Working, Live

\* So do the steps by which a command begins.
LEMMA BeginCancel ==
  ASSUME OnlyCancel, TypeOK, CancelInv,
         NEW a \in Actors, NEW k \in Commands, NEW c \in Children,
         AddSession(a, k, c) \/ LookUp(a, k, c)
  PROVE  CancelInv'
<1>1. /\ op[a].pc = "idle" /\ k \in MayIssue(a)
      /\ a = "parent" => main \in Prompting
      /\ UNCHANGED <<fileVars, procVars, parentVars>>
  BY DEF AddSession, LookUp, Issue
<1>2. a = "parent" /\ k \in Spawns \cup {"cancel", "resume"}
  BY <1>1 DEF MayIssue, OnlyCancel, Actors, Commands, Spawns
<1>3. /\ TypeOK /\ RunInv /\ CommandInv
      /\ main \in Prompting /\ main' = main /\ op["user"] = Idle /\ Own = Idle
  BY <1>1, <1>2 DEF CancelInv, CommandInv, parentVars, TypeOK, Ops, Running, OpStates, Own
<1>4. ASSUME NEW pc, op' = [op EXCEPT ![a] = [kind |-> k, pc |-> pc, child |-> c, run |-> NoRun]]
      PROVE  Own' = [kind |-> k, pc |-> pc, child |-> c, run |-> NoRun] /\ op'["user"] = Idle
  BY <1>2, <1>3, <1>4 DEF TypeOK, Own, Actors
<1>5. CASE AddSession(a, k, c)
  <2>1. Pristine(c) /\ status' = [status EXCEPT ![c] = "active"] /\ k \in Spawns
    BY <1>3, <1>5 DEF AddSession, RunInv
  <2>2. RunInv'
    BY <1>1, <1>3, <2>1 DEF RunInv, Pristine, TypeOK, fileVars, procVars, Working, Live
  <2>3. Own' = [kind |-> k, pc |-> "launch", child |-> c, run |-> NoRun] /\ op'["user"] = Idle
    BY <1>4, <1>5 DEF AddSession
  <2>4. status'[c] = "active" /\ Pristine(c)'
    BY <1>1, <2>1 DEF TypeOK, Pristine, fileVars, procVars
  <2>5. CommandInv'
    BY <1>3, <2>1, <2>3, <2>4 DEF CommandInv, CommandAt, SpawnAt, Spawns
  <2> QED
    BY <2>2, <2>5 DEF CancelInv
<1>6. CASE LookUp(a, k, c)
  <2>1. k \in {"cancel", "resume"} /\ status[c] # "none" /\ UNCHANGED status
    BY <1>2, <1>6 DEF LookUp
  <2>2. RunInv'
    BY <1>1, <1>3, <2>1 DEF RunInv, Pristine, fileVars, procVars
  <2> SUFFICES CommandInv'
    BY <2>2 DEF CancelInv
  <2>3. CASE UNCHANGED op
    <3>1. Own' = Idle /\ op'["user"] = Idle
      BY <1>3, <2>3 DEF Own
    <3> QED
      BY <3>1 DEF CommandInv, CommandAt, Own, Idle, Spawns
  <2>4. CASE op' = [op EXCEPT ![a] = [kind |-> k, pc |-> "probe", child |-> c, run |-> NoRun]]
    <3>1. Own' = [kind |-> k, pc |-> "probe", child |-> c, run |-> NoRun] /\ op'["user"] = Idle
      BY <1>4, <2>4
    <3>2. CommandAt(Own)'
      BY <2>1, <3>1 DEF CommandAt, CancelAt, ResumeAt, Spawns
    <3> QED
      BY <1>3, <3>1, <3>2 DEF CommandInv, Own
  <2>5. CASE /\ Look(c) \in Accepted(k)
             /\ op' = [op EXCEPT ![a] = [kind |-> k, pc |-> AfterLook(k), child |-> c, run |-> NoRun]]
    <3>1. k = "resume" /\ Quiet(c)
      BY <1>3, <2>1, <2>5, NotActive
         DEF Look, Marked, Accepted, ExitStatus, TypeOK, Recorded, Completed, Results
    <3>2. Own' = [kind |-> k, pc |-> "rmOut", child |-> c, run |-> NoRun] /\ op'["user"] = Idle
      BY <1>4, <2>5, <3>1 DEF AfterLook
    <3>3. Quiet(c)' /\ status'[c] # "none"
      BY <1>1, <2>1, <3>1 DEF Quiet, procVars
    <3>4. CommandAt(Own)'
      BY <3>1, <3>2, <3>3 DEF CommandAt, ResumeAt, Spawns
    <3> QED
      BY <1>3, <3>2, <3>4 DEF CommandInv, Own
  <2>6. \/ UNCHANGED op
        \/ op' = [op EXCEPT ![a] = [kind |-> k, pc |-> "probe", child |-> c, run |-> NoRun]]
        \/ /\ Look(c) \in Accepted(k)
           /\ op' = [op EXCEPT ![a] = [kind |-> k, pc |-> AfterLook(k), child |-> c, run |-> NoRun]]
    BY <1>6 DEF LookUp
  <2> QED
    BY <2>3, <2>4, <2>5, <2>6
<1> QED
  BY <1>5, <1>6

\* A command that goes on leaves itself behind, at another place.
At(o, pc) == [o EXCEPT !.pc = pc]

\* A step of the parent's command leaves the user's alone.
LEMMA Moves ==
  ASSUME TypeOK, NEW o, op["parent"] = o,
         NEW pc, GoTo("parent", pc) \/ (pc # "idle" /\ Proceed("parent", pc))
  PROVE  op'["user"] = op["user"] /\ op'["parent"] = At(o, pc)
  BY DEF TypeOK, GoTo, Proceed, Actors, At

\* A command that goes on is the same command.
LEMMA AtFields ==
  ASSUME NEW o \in Running, NEW pc
  PROVE  /\ At(o, pc).pc = pc /\ At(o, pc).kind = o.kind
         /\ At(o, pc).child = o.child /\ At(o, pc).run = o.run
  BY DEF Running, At

\* What a command does to its own child it does to no other one.
LEMMA CommandCancel ==
  ASSUME TypeOK, CancelInv, NEW a \in Actors, CommandStep(a)
  PROVE  CancelInv'
<1>0. op[a].pc # "idle"
  BY DEF CommandStep, ProbePid, Signal, AwaitDeath, StatOutput, WriteMarker, SetCancelled,
         SaveCancelled, RemoveMarkers, Activate, Launch, LaunchFails
<1> PICK o : o = Own
  OBVIOUS
<1> DEFINE c == o.child
<1>1. /\ a = "parent" /\ op["parent"] = o /\ o # Idle /\ c \in Children
      /\ o.kind \in Spawns \cup {"cancel", "resume"}
      /\ status[c] # "none"
      /\ main \in Prompting
  BY <1>0, Commander DEF CancelInv, Own
<1>2. /\ TypeOK /\ RunInv /\ CommandInv /\ CommandAt(o)
      /\ o.pc \in OpStates /\ o \in Running
  BY SMTT(60), <1>0, <1>1, RunningOp DEF CancelInv, CommandInv, TypeOK, Own
<1>3. UNCHANGED main
  BY DEF CommandStep, ProbePid, Signal, AwaitDeath, StatOutput, WriteMarker, SetCancelled,
         SaveCancelled, RemoveMarkers, Activate, Launch, LaunchFails, parentVars
<1>4. ASSUME NEW pc, GoTo("parent", pc) \/ (pc # "idle" /\ Proceed("parent", pc)),
             CommandAt(At(o, pc))'
      PROVE  CommandInv'
  BY <1>1, <1>2, <1>3, <1>4, Moves DEF CommandInv, Own
<1>5. ASSUME Finish("parent") PROVE CommandInv'
  BY <1>2, <1>5, NoCommand
<1> HIDE DEF c
<1>6. CASE ProbePid(a)
  <2>1. UNCHANGED <<status, proc, pidFile, outFile, marker>> /\ o.pc = "probe"
    BY <1>1, <1>6 DEF ProbePid, fileVars, procVars
  <2>2. RunInv'
    BY <1>2, <2>1 DEF RunInv, Pristine
  <2> SUFFICES CommandInv'
    BY <2>2 DEF CancelInv
  <2>3. CASE GoTo("parent", AfterLook(o.kind)) /\ Probe(c) \in Accepted(o.kind)
    <3>1. o.kind \in {"cancel", "resume"}
      BY <1>1, <1>2, <2>1 DEF CommandAt, SpawnAt
    <3>2. o.kind = "resume" => Quiet(c)'
      BY <1>1, <1>2, <2>1, <2>3, NotActive DEF Accepted, Completed, Results, Quiet
    <3>3. CommandAt(At(o, AfterLook(o.kind)))'
      BY <1>1, <1>2, <2>1, <3>1, <3>2, AtFields DEF CommandAt, CancelAt, ResumeAt, AfterLook, Spawns, c
    <3> QED
      BY <1>4, <2>3, <3>3
  <2> QED
    BY <1>1, <1>5, <1>6, <2>3 DEF ProbePid, c
<1>7. CASE Signal(a)
  <2>1. UNCHANGED <<status, proc, pidFile, outFile, marker>> /\ o.pc = "signal" /\ o.kind = "cancel"
    BY <1>1, <1>2, <1>7 DEF Signal, fileVars, CommandAt, SpawnAt, ResumeAt
  <2>2. RunInv'
    BY <1>2, <2>1 DEF RunInv, Pristine
  <2> SUFFICES CommandInv'
    BY <2>2 DEF CancelInv
  <2>3. CASE pidFile[c] = NoRun
    BY <1>1, <1>5, <1>7, <2>1, <2>3 DEF Signal, WithoutPid, Proceed, c
  <2>4. CASE pidFile[c] # NoRun
    <3>1. PICK pc \in {"await", "stat"} :
            /\ op' = [op EXCEPT !["parent"].pc = pc, !["parent"].run = pidFile[c]]
            /\ pc = "stat" => ~Alive(c, pidFile[c])
      BY <1>1, <1>7, <2>1, <2>4 DEF Signal, AfterKill, c
    <3> DEFINE n == [o EXCEPT !.pc = pc, !.run = pidFile[c]]
    <3>2. op'["parent"] = n /\ op'["user"] = op["user"]
      BY <1>1, <1>2, <3>1 DEF TypeOK, Actors
    <3>3. n.pc = pc /\ n.run = pidFile[c] /\ n.kind = "cancel" /\ n.child = c
      BY <1>2, <2>1 DEF Running, c
    <3>4. \A r \in Runs : proc[c][r] \in Working => r = pidFile[c]
      BY <1>1, <1>2, <2>4 DEF RunInv
    <3>5. pc = "stat" => Quiet(c)
      BY <3>1, <3>4 DEF Alive, Quiet, Working
    <3> HIDE DEF n
    <3> PICK m : m = n
      OBVIOUS
    <3>6. CommandAt(m)'
      BY <1>1, <2>1, <3>1, <3>3, <3>4, <3>5 DEF CommandAt, CancelAt, Quiet, Spawns, c
    <3> QED
      BY <1>1, <1>2, <1>3, <3>2, <3>6 DEF CommandInv, Own
  <2> QED
    BY <2>3, <2>4
<1>8. CASE AwaitDeath(a)
  <2>1. /\ UNCHANGED <<status, pidFile, outFile, marker>> /\ o.pc = "await"
        /\ GoTo("parent", AfterKill(o.kind))
        /\ proc' = [proc EXCEPT ![c][o.run] = IF @ \in Live THEN "killed" ELSE @]
    BY <1>1, <1>8 DEF AwaitDeath, fileVars, c
  <2>2. /\ o.kind = "cancel"
        /\ \A r \in Runs : proc[c][r] \in Working => r = o.run
    BY <1>1, <1>2, <2>1 DEF CommandAt, SpawnAt, CancelAt, ResumeAt, c
  <2>3. \A d \in Children, q \in Runs :
          proc'[d][q] = IF d = c /\ q = o.run /\ proc[d][q] \in Live THEN "killed" ELSE proc[d][q]
    BY <1>1, <1>2, <2>1 DEF TypeOK
  <2>4. RunInv'
    BY <1>2, <2>1, <2>3 DEF RunInv, Pristine, Working, Live
  <2>5. Quiet(c)'
    BY <1>1, <2>2, <2>3 DEF Quiet, Working, Live
  <2>6. CommandAt(At(o, "stat"))'
    BY <1>1, <1>2, <2>1, <2>2, <2>5, AtFields DEF CommandAt, CancelAt, Spawns, c
  <2> QED
    BY <1>4, <2>1, <2>2, <2>4, <2>6 DEF AfterKill, CancelInv
<1>9. CASE StatOutput(a)
  <2>1. /\ UNCHANGED <<status, proc, pidFile, outFile, marker>> /\ o.pc = "stat"
        /\ Proceed("parent", IF outFile[c] = NoRun THEN "mark" ELSE AfterMark(o.kind))
    BY <1>1, <1>9 DEF StatOutput, fileVars, procVars, c
  <2>2. o.kind = "cancel" /\ Quiet(c)
    BY <1>1, <1>2, <2>1 DEF CommandAt, SpawnAt, CancelAt, ResumeAt, c
  <2>3. RunInv'
    BY <1>2, <2>1 DEF RunInv, Pristine
  <2>4. PICK pc \in {"mark", "status"} : Proceed("parent", pc) /\ (pc = "mark" => outFile[c] = NoRun)
    BY <2>1, <2>2 DEF AfterMark
  <2>5. CommandAt(At(o, pc))'
    BY <1>1, <1>2, <2>1, <2>2, <2>4, AtFields DEF CommandAt, CancelAt, Quiet, Spawns, c
  <2> QED
    BY <1>4, <2>3, <2>4, <2>5 DEF CancelInv
<1>10. CASE WriteMarker(a)
  <2>1. /\ UNCHANGED <<status, proc, pidFile, outFile>> /\ o.pc = "mark"
        /\ marker' = [marker EXCEPT ![c] = TRUE]
        /\ Proceed("parent", AfterMark(o.kind))
    BY <1>1, <1>10 DEF WriteMarker, procVars, c
  <2>2. o.kind = "cancel" /\ Quiet(c) /\ outFile[c] = NoRun
    BY <1>1, <1>2, <2>1 DEF CommandAt, SpawnAt, CancelAt, ResumeAt, c
  <2>3. RunInv'
    BY <1>1, <1>2, <2>1, <2>2 DEF RunInv, Pristine, Quiet, TypeOK
  <2>4. CommandAt(At(o, "status"))'
    BY <1>1, <1>2, <2>1, <2>2, AtFields DEF CommandAt, CancelAt, Quiet, Spawns, c
  <2> QED
    BY <1>4, <2>1, <2>2, <2>3, <2>4 DEF AfterMark, CancelInv
<1>11. CASE SetCancelled(a)
  <2>1. /\ UNCHANGED <<proc, pidFile, outFile, marker>> /\ o.pc \in {"status", "onlyStatus"}
        /\ status' = [status EXCEPT ![c] = "cancelled"]
    BY <1>1, <1>11 DEF SetCancelled, fileVars, procVars, c
  <2>2. o.kind = "cancel" /\ Quiet(c) /\ o.pc = "status"
    BY <1>1, <1>2, <2>1 DEF CommandAt, SpawnAt, CancelAt, ResumeAt, c
  <2>3. Proceed("parent", "state")
    BY <1>1, <1>11, <2>2 DEF SetCancelled
  <2>4. RunInv'
    BY <1>1, <1>2, <2>1, <2>2 DEF RunInv, Pristine, Quiet, TypeOK
  <2>5. status'[c] # "none"
    BY <1>1, <1>2, <2>1 DEF TypeOK
  <2>6. CommandAt(At(o, "state"))'
    BY <1>1, <1>2, <2>1, <2>2, <2>5, AtFields DEF CommandAt, CancelAt, Quiet, Spawns, c
  <2> QED
    BY <1>4, <2>3, <2>4, <2>6 DEF CancelInv
<1>12. CASE SaveCancelled(a) \/ LaunchFails(a)
  <2>1. UNCHANGED <<status, proc, pidFile, outFile, marker>> /\ Finish("parent")
    BY <1>1, <1>12 DEF SaveCancelled, LaunchFails, fileVars, procVars
  <2>2. RunInv'
    BY <1>2, <2>1 DEF RunInv, Pristine
  <2> QED
    BY <1>5, <2>1, <2>2 DEF CancelInv
<1>13. CASE RemoveMarkers(a)
  <2>1. o.kind = "resume" /\ Quiet(c) /\ status[c] # "none"
    BY <1>1, <1>2, <1>13 DEF RemoveMarkers, CommandAt, SpawnAt, CancelAt, ResumeAt, c
  <2>2. /\ UNCHANGED <<status, proc>>
        /\ \A d \in Children \ {c} :
             pidFile'[d] = pidFile[d] /\ outFile'[d] = outFile[d] /\ marker'[d] = marker[d]
        /\ outFile'[c] \in {outFile[c], NoRun} /\ pidFile'[c] \in {pidFile[c], NoRun}
        /\ marker'[c] \in {marker[c], FALSE}
    BY ZenonT(60), <1>1, <1>2, <1>13 DEF RemoveMarkers, TypeOK, procVars, c
  <2>3. RunInv'
    <3>1. \A d \in Children \ {c} : Pristine(d) => Pristine(d)'
      BY <2>2 DEF Pristine
    <3>2. marker'[c] => outFile'[c] = NoRun
      BY <1>1, <1>2, <2>2 DEF RunInv
    <3> QED
      BY <1>2, <2>1, <2>2, <3>1, <3>2 DEF RunInv, Quiet
  <2>4. PICK pc \in {"rmTmp", "rmExit", "rmPid", "rmMarker", "activate"} :
          /\ GoTo("parent", pc)
          /\ pc = "rmTmp" => outFile'[c] = NoRun
          /\ pc # "rmTmp" => o.pc \notin {"probe", "rmOut"}
          /\ pc = "rmMarker" => pidFile'[c] = NoRun
          /\ pc = "activate" => o.pc = "rmMarker" /\ ~marker'[c]
    BY <1>1, <1>2, <1>13 DEF RemoveMarkers, TypeOK, c
  <2>5. CommandAt(At(o, pc))'
    BY <1>1, <1>2, <2>1, <2>2, <2>4, AtFields DEF CommandAt, ResumeAt, Quiet, Spawns, c
  <2> QED
    BY <1>4, <2>3, <2>4, <2>5 DEF CancelInv
<1>14. CASE Activate(a)
  <2>1. /\ UNCHANGED <<proc, pidFile, outFile, marker>> /\ o.pc = "activate"
        /\ status' = [status EXCEPT ![c] = "active"] /\ GoTo("parent", "launch")
    BY <1>1, <1>14 DEF Activate, fileVars, procVars, c
  <2>2. /\ o.kind = "resume" /\ Quiet(c) /\ status'[c] = "active"
    BY <1>1, <1>2, <2>1 DEF CommandAt, SpawnAt, CancelAt, ResumeAt, TypeOK, c
  <2>3. RunInv'
    BY <1>1, <1>2, <2>1, <2>2 DEF RunInv, Pristine, Quiet, TypeOK
  <2>4. CommandAt(At(o, "launch"))'
    BY <1>1, <1>2, <2>1, <2>2, AtFields DEF CommandAt, ResumeAt, Quiet, Spawns, c
  <2> QED
    BY <1>4, <2>1, <2>3, <2>4 DEF CancelInv
<1>15. CASE Launch(a)
  <2>1. /\ UNCHANGED <<status, pidFile, outFile, marker>> /\ o.pc = "launch" /\ Finish("parent")
    BY <1>1, <1>15 DEF Launch, fileVars
  <2>2. PICK r \in Runs : proc' = [proc EXCEPT ![c][r] = "forked"]
    BY <1>1, <1>15 DEF Launch, c
  <2>3. \A d \in Children, q \in Runs :
          proc'[d][q] = IF d = c /\ q = r THEN "forked" ELSE proc[d][q]
    BY <1>1, <1>2, <2>2 DEF TypeOK
  <2>4. /\ status[c] = "active" /\ Quiet(c)
        /\ outFile[c] = NoRun /\ pidFile[c] = NoRun /\ ~marker[c]
    BY <1>1, <1>2, <2>1
       DEF CommandAt, SpawnAt, CancelAt, ResumeAt, Pristine, Quiet, Working, Live, c
  <2>5. RunInv'
    BY <1>2, <2>1, <2>3, <2>4 DEF RunInv, Pristine, Quiet
  <2> QED
    BY <1>5, <2>1, <2>5 DEF CancelInv
<1> QED
  BY <1>6, <1>7, <1>8, <1>9, <1>10, <1>11, <1>12, <1>13, <1>14, <1>15 DEF CommandStep

\* The parent runner neither starts a child nor writes its files, and
\* leaves a prompt only when no command is in progress.
LEMMA ParentCancel ==
  ASSUME TypeOK, CancelInv, ParentStep
  PROVE  CancelInv'
<1>1. UNCHANGED <<status, proc, pidFile, outFile, marker, op>>
  BY DEF ParentStep, OnlyParent, procVars, fileVars, opVars, PromptDone, PromptFails,
         PopNotification, DrainEmpty, ScanChild, ScanProbe, ScanDone, WaitTimesOut, Finalize
<1>2. Own = Idle
  <2>1. Own # Idle => op["parent"].pc # "idle"
    BY DEF TypeOK, Ops, Running, OpStates, Own, Actors
  <2>2. main \in Prompting => op["parent"].pc = "idle"
    BY DEF ParentStep, PromptDone, PromptFails, PopNotification, DrainEmpty, ScanChild,
           ScanProbe, ScanDone, WaitTimesOut, Finalize, Prompting
  <2> QED
    BY <2>1, <2>2 DEF CancelInv, CommandInv
<1>3. RunInv'
  BY <1>1 DEF CancelInv, RunInv, Pristine
<1>4. CommandInv'
  BY <1>1, <1>2 DEF CancelInv, CommandInv, CommandAt, Own, Idle, Spawns
<1> QED
  BY <1>3, <1>4 DEF CancelInv

\* Each step keeps what is known of runs and commands.
LEMMA NextCancel == OnlyCancel /\ TypeOK /\ CancelInv /\ [Next]_vars => CancelInv'
<1> SUFFICES ASSUME OnlyCancel, TypeOK, CancelInv, [Next]_vars PROVE CancelInv'
  OBVIOUS
<1>1. CASE UNCHANGED vars
  BY <1>1
     DEF vars, procVars, fileVars, parentVars, opVars, CancelInv, RunInv, CommandInv, CommandAt,
         SpawnAt, CancelAt, ResumeAt, Pristine, Quiet, Own
<1>2. CASE Next
  BY <1>2, ScriptCancel, BeginCancel, CommandCancel, ParentCancel DEF Next
<1> QED
  BY <1>1, <1>2

\* So it holds always.
LEMMA CancelInductive == ASSUME OnlyCancel PROVE Spec => [](TypeOK /\ CancelInv)
  BY InitCancel, NextCancel, TypeCorrect, PTL DEF Spec

\* A child that has an output has completed, and no command calls it
\* cancelled: `toc runtime cancel` looks for the output after it has waited
\* for the process, so none comes between its look and its marker.
THEOREM MarkerOrOutput == ASSUME OnlyCancel PROVE Spec => []NoMarkerOverOutput
<1>1. CancelInv => NoMarkerOverOutput
  BY DEF CancelInv, RunInv, NoMarkerOverOutput
<1> QED
  BY <1>1, CancelInductive, PTL

\* What cancel has recorded as cancelled no longer works, however the
\* commands and the deaths of its runs follow one another.
THEOREM CancelStops == ASSUME OnlyCancel PROVE Spec => []CancelledMeansStopped
<1>1. CancelInv => CancelledMeansStopped
  BY DEF CancelInv, RunInv, CancelledMeansStopped
<1> QED
  BY <1>1, CancelInductive, PTL

-----------------------------------------------------------------------------
(* The parent's last look at its children *)

\* What the parent has not still to resolve is at rest; and while it looks,
\* no command of its own starts a child.
ScanInv ==
  /\ main # "promptEnd"
  /\ main = "scanProbe" => probing \in scan
  /\ main \in {"scan", "scanProbe"} => \A c \in Children : Quiet(c) \/ c \in scan
  /\ main \in {"finalize", "exited"} => \A c \in Children : Quiet(c)

\* At first the parent has passed no child.
LEMMA InitScan == Init => ScanInv
  BY DEF Init, ScanInv

\* The parent passes a child only when it is at rest.
LEMMA ParentScan ==
  ASSUME "onEnd" \notin Features, TypeOK, CancelInv, ScanInv, ParentStep
  PROVE  ScanInv'
<1>1. UNCHANGED proc /\ UNCHANGED status
  BY DEF ParentStep, OnlyParent, procVars, PromptDone, PromptFails, PopNotification,
         DrainEmpty, ScanChild, ScanProbe, ScanDone, WaitTimesOut, Finalize
<1>2. \A c \in Children : Quiet(c) => Quiet(c)'
  BY <1>1 DEF Quiet
<1>3. CASE PromptDone
  BY <1>3 DEF PromptDone, AfterPrompt, Prompting, ScanInv
<1>4. CASE PromptFails \/ PopNotification \/ WaitTimesOut
  BY <1>4 DEF PromptFails, PopNotification, WaitTimesOut, ScanInv
<1>5. CASE DrainEmpty
  <2>1. \A c \in Children : status[c] # "active" => Quiet(c)
    BY NotActive DEF CancelInv
  <2> QED
    BY <1>2, <1>5, <2>1 DEF DrainEmpty, ScanInv
<1>6. CASE ScanChild
  <2>1. PICK c \in scan :
          IF Marked(c) = "probe"
          THEN main' = "scanProbe" /\ probing' = c /\ UNCHANGED scan
          ELSE scan' = scan \ {c} /\ UNCHANGED <<main, probing>>
    BY <1>6 DEF ScanChild
  <2>2. main = "scan" /\ c \in Children
    BY <1>6, <2>1 DEF ScanChild, TypeOK
  <2>3. CASE Marked(c) = "probe"
    BY <1>2, <2>1, <2>2, <2>3 DEF ScanInv
  <2>4. CASE Marked(c) # "probe"
    <3>1. Quiet(c)
      BY <2>2, <2>4, NotActive DEF Marked, CancelInv
    <3> QED
      BY <1>2, <2>1, <2>2, <2>4, <3>1 DEF ScanInv
  <2> QED
    BY <2>3, <2>4
<1>7. CASE ScanProbe
  <2>1. CASE Probe(probing) = "active"
    BY <1>7, <2>1 DEF ScanProbe, ScanInv
  <2>2. CASE Probe(probing) # "active"
    <3>1. Quiet(probing)
      BY <1>7, <2>2, NotActive DEF ScanProbe, ScanInv, TypeOK, CancelInv
    <3> QED
      BY <1>2, <1>7, <2>2, <3>1 DEF ScanProbe, ScanInv
  <2> QED
    BY <2>1, <2>2
<1>8. CASE ScanDone \/ Finalize
  BY <1>2, <1>8 DEF ScanDone, Finalize, ScanInv
<1> QED
  BY <1>3, <1>4, <1>5, <1>6, <1>7, <1>8 DEF ParentStep

\* Each step keeps at rest the children that were passed.
LEMMA NextScan ==
  "onEnd" \notin Features /\ OnlyCancel /\ TypeOK /\ CancelInv /\ ScanInv /\ [Next]_vars => ScanInv'
<1> SUFFICES ASSUME "onEnd" \notin Features, OnlyCancel, TypeOK, CancelInv, ScanInv, [Next]_vars
             PROVE  ScanInv'
  OBVIOUS
<1>1. CASE UNCHANGED vars
  BY <1>1 DEF vars, procVars, parentVars, ScanInv, Quiet
<1>2. ASSUME NEW c \in Children, NEW r \in Runs, Wrapper(c, r) PROVE ScanInv'
  <2>1. UNCHANGED <<main, scan, probing>>
    BY <1>2, ScriptEffect DEF ScriptFacts
  <2>2. \A d \in Children : Quiet(d) => Quiet(d)'
    BY <1>2, ScriptEffect DEF ScriptFacts, Quiet
  <2> QED
    BY <2>1, <2>2 DEF ScanInv
<1>3. ASSUME NEW a \in Actors, NEW k \in Commands, NEW c \in Children,
             AddSession(a, k, c) \/ LookUp(a, k, c)
      PROVE  ScanInv'
  <2>1. a = "parent"
    BY <1>3 DEF AddSession, LookUp, Issue, MayIssue, OnlyCancel, Actors
  <2>2. main \in Prompting /\ UNCHANGED main
    BY <1>3, <2>1 DEF AddSession, LookUp, Issue, parentVars
  <2> QED
    BY <2>2 DEF ScanInv, Prompting
<1>4. ASSUME NEW a \in Actors, CommandStep(a) PROVE ScanInv'
  <2>1. op[a].pc # "idle" /\ UNCHANGED main
    BY <1>4
       DEF CommandStep, ProbePid, Signal, AwaitDeath, StatOutput, WriteMarker, SetCancelled,
           SaveCancelled, RemoveMarkers, Activate, Launch, LaunchFails, parentVars
  <2>2. main \in Prompting
    BY <2>1, Commander DEF CancelInv
  <2> QED
    BY <2>1, <2>2 DEF ScanInv, Prompting
<1> QED
  BY <1>1, <1>2, <1>3, <1>4, ParentScan DEF Next

\* A session without an OnEnd prompt, which could start children of its own,
\* is over only when no child is at work: although the parent lists them
\* once and resolves them one after the other, by files they still write.
THEOREM QuietAtTheEnd ==
  ASSUME OnlyCancel, "onEnd" \notin Features PROVE Spec => []ExitedMeansQuiet
<1>1. ScanInv => ExitedMeansQuiet
  BY DEF ScanInv, Quiet, ExitedMeansQuiet
<1> QED
  BY <1>1, InitScan, NextScan, CancelInductive, PTL DEF Spec

-----------------------------------------------------------------------------
(* Sub-agents that are never resumed *)

Unstarted(c) == \A r \in Runs : proc[c][r] = "none"

\* A child has one run: only a spawn launches, and it found no record.
SoloInv ==
  /\ \A c \in Children, r \in Runs : proc[c][r] # "none" => r = 1
  /\ \A c \in Children : status[c] = "none" => Unstarted(c)
  /\ \A a \in Actors :
       /\ op[a].pc \in {"idle", "launch", "probe", "signal", "await", "stat", "mark",
                        "status", "onlyStatus", "state"}
       /\ op[a].kind # "resume"
       /\ op[a].kind \in Spawns <=> op[a].pc = "launch"
       /\ op[a].pc = "launch" => /\ a = "parent" /\ Unstarted(op[a].child)
                                 /\ status[op[a].child] # "none"

\* From the moment it is written, the exit code file holds the code of the
\* run, and nobody removes it.
ExitInv ==
  \A c \in Children, r \in Runs :
    proc[c][r] \in {"coded", "moved", "exited"} => exitFile[c] = code[c][r]

\* At first no child has a run.
LEMMA InitSolo == Init => SoloInv /\ ExitInv
  BY DEF Init, SoloInv, ExitInv, Unstarted, Idle, Spawns

\* A wrapper's steps concern its own run alone.
LEMMA ScriptSolo ==
  ASSUME TypeOK, SoloInv, ExitInv, NEW c \in Children, NEW r \in Runs, Wrapper(c, r)
  PROVE  (SoloInv /\ ExitInv)'
<1>1. ScriptFacts(c, r)
  BY ScriptEffect
<1>2. SoloInv'
  <2>1. \A d \in Children : Unstarted(d) => Unstarted(d)'
    BY <1>1 DEF ScriptFacts, Unstarted, Live
  <2>2. \A a \in Actors : op[a].pc = "launch" => op[a].child \in Children
    BY RunningOp DEF TypeOK
  <2>3. \A d \in Children, q \in Runs : proc'[d][q] # "none" => proc[d][q] # "none"
    BY <1>1 DEF ScriptFacts, Live
  <2> QED
    BY <1>1, <2>1, <2>2, <2>3 DEF ScriptFacts, SoloInv
<1>3. ExitInv'
  <2>1. r = 1 /\ \A q \in Runs : proc[c][q] # "none" => q = r
    BY <1>1 DEF ScriptFacts, SoloInv, Live
  <2>2. CASE WriteExit(c, r)
    <3>1. /\ \A d \in Children : exitFile'[d] = IF d = c THEN code[c][r] ELSE exitFile[d]
          /\ code' = code
      BY <2>2 DEF WriteExit, TypeOK
    <3> QED
      BY <1>1, <2>1, <3>1 DEF ScriptFacts, ExitInv
  <2>3. CASE FinishNative(c, r)
    <3>1. /\ exitFile' = exitFile
          /\ \A d \in Children, q \in Runs : ~(d = c /\ q = r) => code'[d][q] = code[d][q]
      BY <2>3 DEF FinishNative, fileVars, TypeOK
    <3>2. proc'[c][r] = "ended"
      BY <2>3 DEF FinishNative, Step, TypeOK
    <3> QED
      BY <1>1, <3>1, <3>2 DEF ScriptFacts, ExitInv
  <2>4. CASE ~WriteExit(c, r) /\ ~FinishNative(c, r)
    <3>1. UNCHANGED <<exitFile, code>>
      BY <2>4 DEF Wrapper, ScriptStep, WritePid, StartNative, MoveOutput, Notify, Die, fileVars
    <3>2. proc'[c][r] \in {"coded", "moved", "exited"} => proc[c][r] \in {"coded", "moved", "exited"}
      BY <2>4
         DEF Wrapper, ScriptStep, WritePid, StartNative, MoveOutput, Notify, Die, Step, TypeOK
    <3> QED
      BY <1>1, <3>1, <3>2 DEF ScriptFacts, ExitInv
  <2> QED
    BY <2>2, <2>3, <2>4
<1> QED
  BY <1>2, <1>3

\* A command other than a resume starts a child that has no run, or none.
LEMMA CommandSolo ==
  ASSUME "resume" \notin Features, TypeOK, SoloInv, ExitInv, NEW a \in Actors,
         \/ \E k \in Commands, c \in Children : AddSession(a, k, c) \/ LookUp(a, k, c)
         \/ CommandStep(a)
  PROVE  (SoloInv /\ ExitInv)'
<1> USE DEF Spawns
<1>1. CASE \E k \in Commands, c \in Children : AddSession(a, k, c) \/ LookUp(a, k, c)
  <2>1. PICK k \in Commands, c \in Children : AddSession(a, k, c) \/ LookUp(a, k, c)
    BY <1>1
  <2>2. op[a].pc = "idle" /\ k \in MayIssue(a) /\ UNCHANGED <<proc, exitFile, code>>
    BY <2>1 DEF AddSession, LookUp, Issue, fileVars, procVars
  <2>3. k # "resume" /\ (k \in Spawns => a = "parent")
    BY <2>2 DEF MayIssue, Actors
  <2>4. ExitInv'
    BY <2>2 DEF ExitInv
  <2>5. \A d \in Children : Unstarted(d)' <=> Unstarted(d)
    BY <2>2 DEF Unstarted
  <2>6. \A b \in Actors : op[b].pc = "launch" => op[b].child \in Children
    BY RunningOp DEF TypeOK
  <2>7. CASE AddSession(a, k, c)
    <3>1. /\ status[c] = "none" /\ k \in Spawns
          /\ status' = [status EXCEPT ![c] = "active"]
          /\ op' = [op EXCEPT ![a] = [kind |-> k, pc |-> "launch", child |-> c, run |-> NoRun]]
      BY <2>7 DEF AddSession
    <3>2. /\ op'[a] = [kind |-> k, pc |-> "launch", child |-> c, run |-> NoRun]
          /\ \A b \in Actors \ {a} : op'[b] = op[b]
          /\ \A d \in Children : status'[d] = IF d = c THEN "active" ELSE status[d]
      BY <3>1 DEF TypeOK
    <3>3. Unstarted(c)
      BY <3>1 DEF SoloInv
    <3> QED
      BY <2>2, <2>3, <2>4, <2>5, <2>6, <3>1, <3>2, <3>3 DEF SoloInv
  <2>8. CASE LookUp(a, k, c)
    <3>1. UNCHANGED status /\ k \notin Spawns
      BY <2>8 DEF LookUp
    <3>2. \/ UNCHANGED op
          \/ \E pc \in {"probe", "signal"} :
               op' = [op EXCEPT ![a] = [kind |-> k, pc |-> pc, child |-> c, run |-> NoRun]]
      BY <2>3, <2>8 DEF LookUp, AfterLook
    <3>3. CASE UNCHANGED op
      BY <2>2, <2>4, <2>5, <2>6, <3>1, <3>3 DEF SoloInv
    <3>4. ASSUME NEW pc \in {"probe", "signal"},
                 op' = [op EXCEPT ![a] = [kind |-> k, pc |-> pc, child |-> c, run |-> NoRun]]
          PROVE  SoloInv'
      <4>1. /\ op'[a] = [kind |-> k, pc |-> pc, child |-> c, run |-> NoRun]
            /\ \A b \in Actors \ {a} : op'[b] = op[b]
        BY <3>4 DEF TypeOK
      <4> QED
        BY <2>2, <2>3, <2>5, <2>6, <3>1, <4>1 DEF SoloInv
    <3> QED
      BY <2>4, <3>2, <3>3, <3>4
  <2> QED
    BY <2>1, <2>7, <2>8
<1>2. CASE CommandStep(a)
  <2>1. op[a].pc # "idle"
    BY <1>2 DEF CommandStep, ProbePid, Signal, AwaitDeath, StatOutput, WriteMarker,
                SetCancelled, SaveCancelled, RemoveMarkers, Activate, Launch, LaunchFails
  <2> PICK o : o = op[a]
    OBVIOUS
  <2>2. o \in Running /\ o.child \in Children
    BY <2>1, RunningOp DEF TypeOK
  <2>3. /\ o.kind # "resume" /\ ~RemoveMarkers(a) /\ ~Activate(a)
        /\ o.kind \in Spawns <=> o.pc = "launch"
    BY SMTT(60) DEF SoloInv, RemoveMarkers, Activate
  <2>4. UNCHANGED <<exitFile, code>>
    BY ZenonT(60), <1>2, <2>3
       DEF CommandStep, ProbePid, Signal, AwaitDeath, StatOutput, WriteMarker, SetCancelled,
           SaveCancelled, Launch, LaunchFails, fileVars, procVars
  <2>5. \A c \in Children : status'[c] = "none" => status[c] = "none"
    BY <1>2, <2>2, <2>3
       DEF CommandStep, ProbePid, Signal, AwaitDeath, StatOutput, WriteMarker, SetCancelled,
           SaveCancelled, Launch, LaunchFails, TypeOK
  <2>6. \A b \in Actors : op[b].pc = "launch" => op[b].child \in Children
    BY RunningOp DEF TypeOK
  <2>7. CASE Launch(a)
    <3>1. PICK r \in Runs : /\ proc' = [proc EXCEPT ![o.child][r] = "forked"]
                            /\ \A q \in Runs : q < r => proc[o.child][q] # "none"
      BY <2>7 DEF Launch
    <3>2. a = "parent" /\ Unstarted(o.child) /\ op' = [op EXCEPT ![a] = Idle] /\ UNCHANGED status
      BY <2>7 DEF Launch, Finish, SoloInv
    <3>3. r = 1
      BY <3>1, <3>2 DEF Unstarted, Runs
    <3>4. /\ op'[a] = Idle /\ \A b \in Actors \ {a} : op'[b] = op[b]
          /\ \A c \in Children, q \in Runs :
               proc'[c][q] = IF c = o.child /\ q = r THEN "forked" ELSE proc[c][q]
      BY <2>2, <3>1, <3>2 DEF TypeOK
    <3>5. status[o.child] # "none"
      BY <2>7 DEF SoloInv, Launch
    <3>6. SoloInv'
      BY <3>2, <3>3, <3>4, <3>5 DEF SoloInv, Unstarted, Idle
    <3> QED
      BY <2>4, <3>4, <3>6 DEF ExitInv
  <2>8. CASE ~Launch(a)
    <3>1. \A c \in Children, q \in Runs : proc'[c][q] = proc[c][q]
                                          \/ (proc[c][q] \in Live /\ proc'[c][q] = "killed")
      <4>1. CASE AwaitDeath(a)
        BY <2>2, <4>1 DEF AwaitDeath, TypeOK
      <4>2. CASE ~AwaitDeath(a)
        BY SMTT(60), <1>2, <2>3, <2>8, <4>2
           DEF CommandStep, ProbePid, Signal, StatOutput, WriteMarker, SetCancelled,
               SaveCancelled, LaunchFails, procVars
      <4> QED
        BY <4>1, <4>2
    <3>2. \/ op' = [op EXCEPT ![a] = Idle]
          \/ /\ o.pc # "launch"
             /\ \E pc \in {"signal", "await", "stat", "mark", "status", "onlyStatus", "state"} :
                  \/ op' = [op EXCEPT ![a] = [o EXCEPT !.pc = pc]]
                  \/ \E r \in RunOrNot : op' = [op EXCEPT ![a] = [o EXCEPT !.pc = pc, !.run = r]]
      <4>1. ASSUME NEW pc, GoTo(a, pc) \/ (pc # "idle" /\ Proceed(a, pc))
            PROVE  op' = [op EXCEPT ![a] = [o EXCEPT !.pc = pc]]
        BY <4>1 DEF GoTo, Proceed
      <4>2. Finish(a) \/ Proceed(a, "idle") => op' = [op EXCEPT ![a] = Idle]
        BY SMTT(60) DEF Proceed, Finish
      <4>3. CASE ProbePid(a)
        BY ZenonT(60), <2>3, <4>1, <4>2, <4>3 DEF ProbePid, AfterLook
      <4>4. CASE Signal(a)
        <5>1. CASE pidFile[o.child] = NoRun
          BY <4>1, <4>2, <4>4, <5>1 DEF Signal, WithoutPid
        <5>2. CASE pidFile[o.child] # NoRun
          <6>1. PICK pc \in {"await", "stat", "status"} :
                  op' = [op EXCEPT ![a].pc = pc, ![a].run = pidFile[o.child]]
            BY <4>4, <5>2 DEF Signal, AfterKill
          <6>2. op' = [op EXCEPT ![a] = [o EXCEPT !.pc = pc, !.run = pidFile[o.child]]]
            BY <6>1
          <6>3. pidFile[o.child] \in RunOrNot /\ o.pc # "launch"
            BY <2>2, <4>4 DEF TypeOK, Signal
          <6> QED
            BY <6>2, <6>3
        <5> QED
          BY ZenonT(60), <5>1, <5>2
      <4>5. CASE AwaitDeath(a)
        BY ZenonT(60), <4>1, <4>5 DEF AwaitDeath, AfterKill
      <4>6. CASE StatOutput(a)
        BY ZenonT(60), <4>1, <4>2, <4>6 DEF StatOutput, AfterMark
      <4>7. CASE WriteMarker(a)
        BY ZenonT(60), <4>1, <4>2, <4>7 DEF WriteMarker, AfterMark
      <4>8. CASE SetCancelled(a)
        BY ZenonT(60), <4>1, <4>2, <4>8 DEF SetCancelled
      <4>9. CASE SaveCancelled(a) \/ LaunchFails(a)
        BY <4>2, <4>9 DEF SaveCancelled, LaunchFails
      <4> QED
        BY <1>2, <2>3, <2>8, <4>3, <4>4, <4>5, <4>6, <4>7, <4>8, <4>9 DEF CommandStep
    <3>3. /\ \A b \in Actors \ {a} : op'[b] = op[b]
          /\ \/ op'[a] = Idle
             \/ /\ o.pc # "launch" /\ op'[a].kind = o.kind
                /\ op'[a].pc \in {"signal", "await", "stat", "mark", "status", "onlyStatus", "state"}
      <4>1. CASE op' = [op EXCEPT ![a] = Idle]
        BY <4>1 DEF TypeOK
      <4>2. ASSUME o.pc # "launch",
                   NEW pc \in {"signal", "await", "stat", "mark", "status", "onlyStatus", "state"},
                   NEW e, e.kind = o.kind /\ e.pc = pc, op' = [op EXCEPT ![a] = e]
            PROVE  /\ \A b \in Actors \ {a} : op'[b] = op[b]
                   /\ op'[a].kind = o.kind /\ op'[a].pc = pc
        BY <4>2 DEF TypeOK
      <4>3. \A pc, r : /\ [o EXCEPT !.pc = pc].kind = o.kind /\ [o EXCEPT !.pc = pc].pc = pc
                       /\ [o EXCEPT !.pc = pc, !.run = r].kind = o.kind
                       /\ [o EXCEPT !.pc = pc, !.run = r].pc = pc
        BY <2>2 DEF Running
      <4>4. CASE op' # [op EXCEPT ![a] = Idle]
        <5>1. PICK pc \in {"signal", "await", "stat", "mark", "status", "onlyStatus", "state"} :
                \/ op' = [op EXCEPT ![a] = [o EXCEPT !.pc = pc]]
                \/ \E r \in RunOrNot : op' = [op EXCEPT ![a] = [o EXCEPT !.pc = pc, !.run = r]]
          BY <3>2, <4>4
        <5>2. PICK e : e.kind = o.kind /\ e.pc = pc /\ op' = [op EXCEPT ![a] = e]
          BY <4>3, <5>1
        <5> QED
          BY ZenonT(60), <3>2, <4>2, <4>4, <5>2
      <4> QED
        BY <4>1, <4>4
    <3>4. \A c \in Children : Unstarted(c) => Unstarted(c)'
      BY <3>1 DEF Unstarted, Live
    <3>5. SoloInv'
      BY <2>3, <2>5, <2>6, <3>1, <3>3, <3>4 DEF SoloInv, Idle, Live
    <3> QED
      BY <2>4, <3>1, <3>5 DEF ExitInv, Live
  <2> QED
    BY SMTT(60), <2>7, <2>8
<1> QED
  BY <1>1, <1>2

\* Without resume, each step leaves each child its one run.
LEMMA NextSolo ==
  "resume" \notin Features /\ TypeOK /\ SoloInv /\ ExitInv /\ [Next]_vars => (SoloInv /\ ExitInv)'
<1> SUFFICES ASSUME "resume" \notin Features, TypeOK, SoloInv, ExitInv, [Next]_vars
             PROVE  (SoloInv /\ ExitInv)'
  OBVIOUS
<1>1. CASE UNCHANGED vars \/ ParentStep
  <2>1. UNCHANGED <<status, proc, op, exitFile, code>>
    BY <1>1 DEF vars, ParentStep, OnlyParent, procVars, fileVars, opVars, PromptDone,
                PromptFails, PopNotification, DrainEmpty, ScanChild, ScanProbe, ScanDone,
                WaitTimesOut, Finalize
  <2> QED
    BY <2>1 DEF SoloInv, ExitInv, Unstarted
<1> QED
  BY <1>1, ScriptSolo, CommandSolo DEF Next

\* So it holds always.
LEMMA SoloInductive ==
  ASSUME "resume" \notin Features PROVE Spec => [](TypeOK /\ SoloInv /\ ExitInv)
  BY InitSolo, NextSolo, TypeCorrect, PTL DEF Spec

\* A completion is reported by its own run, which has exited.
LEMMA NextTruthful ==
  TypeOK /\ DeliveryInv /\ SoloInv /\ ExitInv /\ NotificationTruthful /\ [Next]_vars
    => NotificationTruthful'
<1> SUFFICES ASSUME TypeOK, DeliveryInv, SoloInv, ExitInv, NotificationTruthful, [Next]_vars
             PROVE  NotificationTruthful'
  OBVIOUS
<1>1. \A n \in inbox : /\ n.child \in Children /\ n.run \in Runs
                       /\ proc[n.child][n.run] = "exited"
                       /\ n.status = ExitStatus(code[n.child][n.run])
  BY DEF TypeOK, Notifications, DeliveryInv, NotificationTruthful
<1>2. ASSUME NEW c \in Children, NEW r \in Runs, Notify(c, r) PROVE NotificationTruthful'
  <2>1. exitFile[c] = code[c][r] /\ UNCHANGED code
    BY <1>2 DEF ExitInv, Notify, Step
  <2>2. NotifiedStatus(c) = ExitStatus(code[c][r])
    BY <2>1 DEF NotifiedStatus, TypeOK, Codes, NoCode
  <2> QED
    BY <1>1, <1>2, <2>1, <2>2 DEF Notify, NotificationTruthful, ExitStatus
<1>3. ASSUME NEW c \in Children, NEW r \in Runs, FinishNative(c, r) PROVE NotificationTruthful'
  <2>1. /\ UNCHANGED inbox /\ proc[c][r] = "running"
        /\ \A d \in Children, q \in Runs : ~(d = c /\ q = r) => code'[d][q] = code[d][q]
    BY <1>3 DEF FinishNative, Step, TypeOK, parentVars
  <2> QED
    BY <1>1, <2>1 DEF NotificationTruthful, ExitStatus
<1>4. CASE UNCHANGED code /\ inbox' \subseteq inbox
  BY <1>1, <1>4 DEF NotificationTruthful, ExitStatus
<1>5. CASE UNCHANGED vars
  BY <1>4, <1>5 DEF vars, procVars, parentVars
<1>6. CASE ParentStep
  <2>1. UNCHANGED code
    BY <1>6
       DEF ParentStep, OnlyParent, procVars, PromptDone, PromptFails, PopNotification,
           DrainEmpty, ScanChild, ScanProbe, ScanDone, WaitTimesOut, Finalize
  <2>2. inbox' \subseteq inbox
    BY <1>6
       DEF ParentStep, PromptDone, PromptFails, PopNotification,
           DrainEmpty, ScanChild, ScanProbe, ScanDone, WaitTimesOut, Finalize
  <2> QED
    BY <1>4, <2>1, <2>2
<1>7. ASSUME NEW c \in Children, NEW r \in Runs, Wrapper(c, r) PROVE NotificationTruthful'
  BY <1>2, <1>3, <1>4, <1>7
     DEF Wrapper, ScriptStep, WritePid, StartNative, WriteExit, MoveOutput, Die, parentVars
<1>8. ASSUME NEW a \in Actors,
             \/ \E k \in Commands, c \in Children : AddSession(a, k, c) \/ LookUp(a, k, c)
             \/ CommandStep(a)
      PROVE  NotificationTruthful'
  <2>1. UNCHANGED <<code, inbox>>
    BY <1>8
       DEF CommandStep, AddSession, LookUp, ProbePid, Signal, AwaitDeath, StatOutput, WriteMarker,
           SetCancelled, SaveCancelled, RemoveMarkers, Activate, Launch, LaunchFails,
           procVars, parentVars
  <2> QED
    BY <1>4, <2>1
<1> QED
  BY <1>5, <1>6, <1>7, <1>8 DEF Next

\* As long as no child is resumed, which removes the exit code of a run
\* that may still have to be reported, a notification tells the exit code of
\* its run, whatever else the parent, the user and kills do meanwhile.
THEOREM NotificationsTrue ==
  ASSUME "resume" \notin Features PROVE Spec => []NotificationTruthful
<1>1. Init => DeliveryInv /\ NotificationTruthful
  BY InitDelivery DEF Init, NotificationTruthful
<1>2. TypeOK /\ DeliveryInv /\ [Next]_vars => DeliveryInv'
  BY NextDelivery
<1> QED
  BY <1>1, <1>2, SoloInductive, NextTruthful, PTL DEF Spec

\* Two runs of a child never work in its workspace at a time: where children
\* are resumed, as long as they are cancelled by a command that waits for
\* the process, and where they are not, with every command and fault.
THEOREM OneNative ==
  ASSUME OnlyCancel \/ "resume" \notin Features PROVE Spec => []NoTwoNatives
<1>1. CASE OnlyCancel
  <2>1. CancelInv => NoTwoNatives
    BY DEF CancelInv, RunInv, NoTwoNatives, Working, Live
  <2>2. Spec => [](TypeOK /\ CancelInv)
    BY <1>1, CancelInductive
  <2> QED
    BY <2>1, <2>2, PTL
<1>2. CASE "resume" \notin Features
  <2>1. SoloInv => NoTwoNatives
    BY DEF SoloInv, NoTwoNatives
  <2>2. Spec => [](TypeOK /\ SoloInv /\ ExitInv)
    BY <1>2, SoloInductive
  <2> QED
    BY <2>1, <2>2, PTL
<1> QED
  BY <1>1, <1>2

-----------------------------------------------------------------------------
(* The status of a child implements SubAgentLifecycle *)

\* Without a resume, and without children that the parent's own tool starts,
\* whose pid answers for as long as the parent lives.
Detached == {"resume", "spawnTool"} \cap Features = {}

\* The one run of a child, told by its files: the pid is written first and
\* the output last, and both stay.
LifeAt(c) ==
  /\ proc[c][1] \in Live \ {"forked"} => pidFile[c] = 1
  /\ pidFile[c] # NoRun => pidFile[c] = 1 /\ proc[c][1] \notin {"none", "forked"}
  /\ proc[c][1] \in {"running", "ended", "coded"} => tmpFile[c] # NoRun
  /\ outFile[c] # NoRun => proc[c][1] \in {"moved", "exited", "killed"}
  /\ proc[c][1] \in {"moved", "exited"} => outFile[c] # NoRun
  /\ marker[c] => status[c] # "none"
LifeInv ==
  /\ inTool = {}
  /\ \A a \in Actors : /\ op[a].kind # "spawnTool"
                       /\ op[a].pc # "idle" => status[op[a].child] # "none"
  /\ \A c \in Children : LifeAt(c)

\* What the lifecycle sees of a child.
View(c) ==
  IF status[c] # "active" THEN status[c]
  ELSE IF marker[c] THEN "cancelled"
  ELSE IF outFile[c] # NoRun THEN "done"
  ELSE IF pidFile[c] # NoRun /\ proc[c][pidFile[c]] \notin Live THEN "zombie"
  ELSE "active"

\* The phase of a child is a matter of its own fields.
LEMMA PhaseIsView ==
  TypeOK /\ inTool = {} => StatusPhase = [c \in Children |-> View(c)]
<1> SUFFICES ASSUME TypeOK, inTool = {}, NEW c \in Children
             PROVE  Phase(Resolved(c)) = View(c)
  BY DEF StatusPhase
<1>1. /\ status[c] \in Recorded /\ exitFile[c] \in Codes \cup {NoCode}
      /\ pidFile[c] \in RunOrNot /\ marker[c] \in BOOLEAN
  BY DEF TypeOK
<1>2. \A r : Alive(c, r) <=> proc[c][r] \in Live
  BY DEF Alive, Unreaped
<1>3. CASE status[c] # "active"
  BY <1>1, <1>3 DEF Resolved, Look, Phase, View, Completed, Results, Recorded
<1>4. CASE status[c] = "active" /\ marker[c]
  BY <1>4 DEF Resolved, Look, Marked, Phase, View, Completed, Results
<1>5. CASE status[c] = "active" /\ ~marker[c] /\ outFile[c] # NoRun
  BY <1>1, <1>5 DEF Resolved, Look, Marked, ExitStatus, Phase, View, Completed, Results
<1>6. CASE status[c] = "active" /\ ~marker[c] /\ outFile[c] = NoRun
  BY <1>2, <1>6 DEF Resolved, Look, Marked, Probe, Phase, View, Completed, Results
<1> QED
  BY <1>3, <1>4, <1>5, <1>6

\* The same of the next state.
LEMMA PhaseStaysView ==
  TypeOK' /\ inTool' = {} => StatusPhase' = [c \in Children |-> View(c)']
<1>1. (TypeOK /\ inTool = {} => StatusPhase = [c \in Children |-> View(c)])'
  BY PhaseIsView, PTL
<1> QED
  BY <1>1

\* The steps SubAgentLifecycle allows a child, or none.
Allowed(c) ==
  \/ View(c)' = View(c)
  \/ View(c) = "none" /\ View(c)' = "active"
  \/ View(c) = "active" /\ View(c)' \in {"done", "zombie"}
  \/ View(c) \in {"active", "zombie", "done"} /\ View(c)' = "cancelled"

\* A step at which one child at most moves, and as it is allowed to.
LEMMA OneMoves ==
  ASSUME TypeOK, TypeOK', inTool = {}, inTool' = {}, NEW c \in Children, Allowed(c),
         \A d \in Children \ {c} : View(d)' = View(d)
  PROVE  [Lifecycle!Next]_StatusPhase
<1>1. /\ StatusPhase = [d \in Children |-> View(d)]
      /\ StatusPhase' = [d \in Children |-> View(d)']
  BY PhaseIsView, PhaseStaysView
<1>2. CASE View(c)' = View(c)
  BY <1>1, <1>2
<1>3. StatusPhase[c] = View(c) /\ StatusPhase' = [StatusPhase EXCEPT ![c] = View(c)']
  BY <1>1
<1>4. CASE View(c)' # View(c)
  BY <1>3, <1>4
     DEF Allowed, Lifecycle!Next, Lifecycle!Begin, Lifecycle!Leave, Lifecycle!Complete,
         Lifecycle!Vanish, Lifecycle!Cancel, Lifecycle!Move
<1> QED
  BY <1>2, <1>4

\* A step that changes nothing a child is seen by.
LEMMA SameView ==
  ASSUME NEW c \in Children, status'[c] = status[c], marker'[c] = marker[c],
         outFile'[c] = outFile[c], pidFile'[c] = pidFile[c],
         pidFile[c] # NoRun => (proc'[c][pidFile[c]] \in Live <=> proc[c][pidFile[c]] \in Live)
  PROVE  View(c)' = View(c)
  BY DEF View

\* Nor does it change the life its files tell.
LEMMA SameLife ==
  ASSUME LifeInv, NEW c \in Children, status'[c] = status[c], marker'[c] = marker[c],
         outFile'[c] = outFile[c], pidFile'[c] = pidFile[c], tmpFile'[c] = tmpFile[c],
         proc'[c][1] = proc[c][1]
  PROVE  LifeAt(c)'
  BY DEF LifeInv, LifeAt

\* The first state of the system is the first of the lifecycle.
LEMMA InitLife == Init => LifeInv /\ Lifecycle!Init
<1> SUFFICES ASSUME Init PROVE LifeInv /\ Lifecycle!Init
  OBVIOUS
<1>1. 1 \in Runs
  BY DEF Runs
<1>2. LifeInv
  BY <1>1 DEF Init, LifeInv, LifeAt, Idle, Live, NoRun
<1>3. \A c \in Children : View(c) = "none"
  BY DEF Init, View
<1> QED
  BY <1>2, <1>3, InitTypeOK, PhaseIsView DEF LifeInv, Lifecycle!Init

\* A script takes its child from active to done, when the output is in
\* place, or to zombie, when it dies and leaves a pid.
LEMMA ScriptLife ==
  ASSUME TypeOK, SoloInv, LifeInv, NEW c \in Children, NEW r \in Runs, Wrapper(c, r)
  PROVE  /\ LifeInv'
         /\ Allowed(c) /\ \A d \in Children \ {c} : View(d)' = View(d)
<1>1. ScriptFacts(c, r)
  BY ScriptEffect
<1>2. r = 1 /\ 1 \in Runs /\ LifeAt(c)
  BY <1>1 DEF ScriptFacts, SoloInv, Live, LifeInv
<1>3. UNCHANGED inTool
  BY DEF Wrapper, ScriptStep, WritePid, StartNative, FinishNative, WriteExit, MoveOutput,
         Notify, Die
<1>4. \A d \in Children \ {c} : /\ tmpFile'[d] = tmpFile[d] /\ outFile'[d] = outFile[d]
                                /\ pidFile'[d] = pidFile[d] /\ proc'[d][1] = proc[d][1]
  <2>1. \A d \in Children \ {c} : tmpFile'[d] = tmpFile[d]
    BY DEF Wrapper, ScriptStep, WritePid, StartNative, FinishNative, WriteExit, MoveOutput,
           Notify, Die, fileVars, TypeOK
  <2> QED
    BY <1>1, <1>2, <2>1 DEF ScriptFacts
<1>5. /\ proc'[c][1] \in {"running", "ended", "coded"} => tmpFile'[c] # NoRun
      /\ proc'[c][1] \in {"moved", "exited"} => outFile'[c] # NoRun
      /\ proc[c][1] = "moved" => proc'[c][1] \in {"exited", "killed"}
  <2>1. CASE StartNative(c, r)
    BY <1>2, <2>1 DEF StartNative, Step, TypeOK, NoRun, Runs
  <2>2. CASE MoveOutput(c, r)
    BY <1>2, <2>2 DEF MoveOutput, Step, TypeOK, LifeAt
  <2>3. CASE WritePid(c, r) \/ FinishNative(c, r) \/ WriteExit(c, r) \/ Notify(c, r)
    BY <1>2, <2>3 DEF WritePid, FinishNative, WriteExit, Notify, Step, fileVars, TypeOK, LifeAt
  <2>4. CASE Die(c, r)
    BY <1>2, <2>4 DEF Die, TypeOK
  <2> QED
    BY <2>1, <2>2, <2>3, <2>4 DEF Wrapper, ScriptStep
<1>6. LifeAt(c)'
  BY <1>1, <1>2, <1>5 DEF ScriptFacts, LifeAt, Live, NoRun
<1>7. LifeInv'
  <2>1. \A d \in Children \ {c} : LifeAt(d)'
    BY <1>1, <1>4 DEF LifeInv, LifeAt, ScriptFacts
  <2> QED
    BY <1>1, <1>3, <1>6, <2>1 DEF LifeInv, ScriptFacts
<1>8. \A d \in Children \ {c} : View(d)' = View(d)
  <2>1. \A d \in Children : pidFile[d] # NoRun => pidFile[d] = 1
    BY DEF LifeInv, LifeAt
  <2> QED
    BY <1>1, <1>4, <2>1, SameView DEF ScriptFacts
<1>9. Allowed(c)
  <2>1. CASE outFile'[c] # outFile[c]
    BY <1>1, <1>2, <2>1 DEF ScriptFacts, LifeAt, Allowed, View, Live, TypeOK
  <2>2. CASE outFile'[c] = outFile[c]
    BY <1>1, <1>2, <2>2 DEF ScriptFacts, LifeAt, Allowed, View, Live, NoRun
  <2> QED
    BY <2>1, <2>2
<1> QED
  BY <1>7, <1>8, <1>9

\* A command moves its child from none to active when it spawns it, and to
\* cancelled when it marks or records it so, which only a recorded child can
\* be, or leaves a zombie when it kills the run it waits for.
LEMMA CommandLife ==
  ASSUME Detached, TypeOK, SoloInv, LifeInv, NEW a \in Actors,
         \/ \E k \in Commands, c \in Children : AddSession(a, k, c) \/ LookUp(a, k, c)
         \/ CommandStep(a)
  PROVE  /\ LifeInv'
         /\ \/ \A d \in Children : View(d)' = View(d)
            \/ \E c \in Children : Allowed(c) /\ \A d \in Children \ {c} : View(d)' = View(d)
<1>0. /\ \A d \in Children : pidFile[d] # NoRun => pidFile[d] = 1
      /\ 1 \in Runs
  BY DEF LifeInv, LifeAt, Runs
<1>1. CASE \E k \in Commands, c \in Children : AddSession(a, k, c) \/ LookUp(a, k, c)
  <2>1. PICK k \in Commands, c \in Children : AddSession(a, k, c) \/ LookUp(a, k, c)
    BY <1>1
  <2>2. /\ k \in MayIssue(a) /\ UNCHANGED <<marker, pidFile, tmpFile, outFile, proc, inTool>>
    BY <2>1 DEF AddSession, LookUp, Issue, fileVars, procVars
  <2>3. k # "spawnTool"
    BY <2>2 DEF MayIssue, Actors, Detached
  <2>4. CASE AddSession(a, k, c)
    <3>1. /\ status[c] = "none"
          /\ op'[a] = [kind |-> k, pc |-> "launch", child |-> c, run |-> NoRun]
          /\ \A b \in Actors \ {a} : op'[b] = op[b]
          /\ \A d \in Children : status'[d] = IF d = c THEN "active" ELSE status[d]
      BY <2>4 DEF AddSession, TypeOK
    <3>2. LifeInv'
      <4>1. LifeAt(c)'
        BY <2>2, <3>1 DEF LifeInv, LifeAt
      <4>2. \A d \in Children \ {c} : LifeAt(d)'
        BY <2>2, <3>1, SameLife
      <4>3. \A b \in Actors : op[b].pc # "idle" => op[b].child \in Children
        BY RunningOp DEF TypeOK
      <4>4. \A b \in Actors : /\ op'[b].kind # "spawnTool"
                              /\ op'[b].pc # "idle" => status'[op'[b].child] # "none"
        BY <2>3, <3>1, <4>3 DEF LifeInv
      <4> QED
        BY <2>2, <4>1, <4>2, <4>4 DEF LifeInv
    <3>3. \A d \in Children \ {c} : View(d)' = View(d)
      BY <2>2, <3>1, SameView
    <3>4. Unstarted(c) /\ ~marker[c]
      BY <3>1 DEF SoloInv, LifeInv, LifeAt
    <3>5. outFile[c] = NoRun /\ pidFile[c] = NoRun
      BY <1>0, <3>4 DEF LifeInv, LifeAt, Unstarted
    <3>6. Allowed(c)
      BY <2>2, <3>1, <3>4, <3>5 DEF Allowed, View
    <3> QED
      BY <3>2, <3>3, <3>6
  <2>5. CASE LookUp(a, k, c)
    <3>1. UNCHANGED status /\ status[c] # "none"
      BY <2>5 DEF LookUp
    <3>2. \/ UNCHANGED op
          \/ \E pc \in OpStates :
               op' = [op EXCEPT ![a] = [kind |-> k, pc |-> pc, child |-> c, run |-> NoRun]]
      BY <2>5 DEF LookUp, AfterLook, OpStates
    <3>3. CASE UNCHANGED op
      BY <2>2, <3>1, <3>3, SameView DEF LifeInv, LifeAt
    <3>4. ASSUME NEW pc \in OpStates,
                 op' = [op EXCEPT ![a] = [kind |-> k, pc |-> pc, child |-> c, run |-> NoRun]]
          PROVE  LifeInv'
      <4>1. /\ op'[a] = [kind |-> k, pc |-> pc, child |-> c, run |-> NoRun]
            /\ \A b \in Actors \ {a} : op'[b] = op[b]
        BY <3>4 DEF TypeOK
      <4>2. \A d \in Children : LifeAt(d)'
        BY <2>2, <3>1, SameLife
      <4> QED
        BY <2>2, <2>3, <3>1, <4>1, <4>2 DEF LifeInv
    <3>5. \A d \in Children : View(d)' = View(d)
      BY <2>2, <3>1, SameView
    <3> QED
      BY <3>2, <3>3, <3>4, <3>5
  <2> QED
    BY <2>1, <2>4, <2>5
<1>2. CASE CommandStep(a)
  <2>1. op[a].pc # "idle"
    BY <1>2 DEF CommandStep, ProbePid, Signal, AwaitDeath, StatOutput, WriteMarker,
                SetCancelled, SaveCancelled, RemoveMarkers, Activate, Launch, LaunchFails
  <2> PICK o : o = op[a]
    OBVIOUS
  <2>2. /\ o \in Running /\ o.child \in Children /\ status[o.child] # "none"
        /\ o.kind # "spawnTool" /\ LifeAt(o.child)
    BY <2>1, RunningOp DEF TypeOK, LifeInv
  <2>3. ~RemoveMarkers(a) /\ ~Activate(a)
    BY SMTT(60) DEF SoloInv, RemoveMarkers, Activate
  <2>4. UNCHANGED <<pidFile, tmpFile, outFile, inTool>>
    BY <1>2, <2>2, <2>3
       DEF CommandStep, ProbePid, Signal, AwaitDeath, StatOutput, WriteMarker, SetCancelled,
           SaveCancelled, Launch, LaunchFails, fileVars, procVars
  <2>5. /\ \A b \in Actors \ {a} : op'[b] = op[b]
        /\ \/ op'[a] = Idle
           \/ op'[a].kind = o.kind /\ op'[a].child = o.child
    <3>1. \/ op' = [op EXCEPT ![a] = Idle]
          \/ \E pc : op' = [op EXCEPT ![a] = [o EXCEPT !.pc = pc]]
          \/ \E pc, r : op' = [op EXCEPT ![a] = [o EXCEPT !.pc = pc, !.run = r]]
      <4>1. CASE Signal(a)
        <5>1. CASE pidFile[o.child] = NoRun
          BY <4>1, <5>1 DEF Signal, Proceed, GoTo, Finish
        <5>2. CASE pidFile[o.child] # NoRun
          <6>1. PICK pc : op' = [op EXCEPT ![a].pc = pc, ![a].run = pidFile[o.child]]
            BY <4>1, <5>2 DEF Signal
          <6>2. op' = [op EXCEPT ![a] = [o EXCEPT !.pc = pc, !.run = pidFile[o.child]]]
            BY <6>1
          <6> QED
            BY <6>2
        <5> QED
          BY <5>1, <5>2
      <4>2. CASE ~Signal(a)
        BY <1>2, <2>3, <4>2
           DEF CommandStep, ProbePid, AwaitDeath, StatOutput, WriteMarker, SetCancelled,
               SaveCancelled, Launch, LaunchFails, Proceed, GoTo, Finish
      <4> QED
        BY <4>1, <4>2
    <3>2. \A pc, r : /\ [o EXCEPT !.pc = pc].kind = o.kind
                     /\ [o EXCEPT !.pc = pc].child = o.child
                     /\ [o EXCEPT !.pc = pc, !.run = r].kind = o.kind
                     /\ [o EXCEPT !.pc = pc, !.run = r].child = o.child
      BY <2>2 DEF Running
    <3>3. PICK e : /\ e = Idle \/ (e.kind = o.kind /\ e.child = o.child)
                   /\ op' = [op EXCEPT ![a] = e]
      BY <3>1, <3>2
    <3> QED
      BY <3>3 DEF TypeOK
  <2>6. \A b \in Actors : /\ op'[b].kind # "spawnTool"
                          /\ op'[b].pc # "idle" => /\ op'[b].child \in Children
                                                   /\ status[op'[b].child] # "none"
    <3>1. \A b \in Actors : op[b].pc # "idle" => op[b].child \in Children
      BY RunningOp DEF TypeOK
    <3> QED
      BY <2>2, <2>5, <3>1 DEF LifeInv, Idle
  <2>7. CASE WriteMarker(a)
    <3>1. /\ UNCHANGED <<status, proc>> /\ marker' = [marker EXCEPT ![o.child] = TRUE]
      BY <2>7 DEF WriteMarker, procVars
    <3>2. \A d \in Children : marker'[d] = IF d = o.child THEN TRUE ELSE marker[d]
      BY <3>1 DEF TypeOK
    <3>3. LifeInv'
      <4>1. LifeAt(o.child)'
        BY <2>2, <2>4, <3>1, <3>2 DEF LifeAt
      <4>2. \A d \in Children \ {o.child} : LifeAt(d)'
        BY <2>4, <3>1, <3>2, SameLife
      <4> QED
        BY <2>4, <2>6, <3>1, <3>2, <4>1, <4>2 DEF LifeInv
    <3>4. \A d \in Children \ {o.child} : View(d)' = View(d)
      BY <2>4, <3>1, <3>2, SameView
    <3>5. Allowed(o.child)
      BY <2>2, <3>1, <3>2 DEF Allowed, View
    <3> QED
      BY <2>2, <3>3, <3>4, <3>5
  <2>8. CASE SetCancelled(a)
    <3>1. /\ UNCHANGED <<marker, proc>> /\ status' = [status EXCEPT ![o.child] = "cancelled"]
      BY <2>8 DEF SetCancelled, procVars, fileVars
    <3>2. \A d \in Children : status'[d] = IF d = o.child THEN "cancelled" ELSE status[d]
      BY <3>1 DEF TypeOK
    <3>3. LifeInv'
      <4>1. LifeAt(o.child)'
        BY <2>2, <2>4, <3>1, <3>2 DEF LifeAt
      <4>2. \A d \in Children \ {o.child} : LifeAt(d)'
        BY <2>4, <3>1, <3>2, SameLife
      <4> QED
        BY <2>4, <2>6, <3>1, <3>2, <4>1, <4>2 DEF LifeInv
    <3>4. \A d \in Children \ {o.child} : View(d)' = View(d)
      BY <2>4, <3>1, <3>2, SameView
    <3>5. status[o.child] \in {"active", "cancelled"}
      BY <2>2 DEF TypeOK, Recorded
    <3>6. Allowed(o.child)
      BY <2>2, <3>2, <3>5 DEF Allowed, View
    <3> QED
      BY <2>2, <3>3, <3>4, <3>6
  <2>9. CASE AwaitDeath(a)
    <3>1. UNCHANGED <<status, marker>>
      BY <2>9 DEF AwaitDeath, fileVars
    <3>2. \A d \in Children, q \in Runs :
            \/ proc'[d][q] = proc[d][q]
            \/ d = o.child /\ o.run = q /\ proc[d][q] \in Live /\ proc'[d][q] = "killed"
      BY <2>2, <2>9 DEF AwaitDeath, TypeOK
    <3>3. \A d \in Children \ {o.child} : View(d)' = View(d) /\ LifeAt(d)'
      BY <1>0, <2>4, <3>1, <3>2, SameView, SameLife
    <3>4. LifeAt(o.child)'
      BY <1>0, <2>2, <2>4, <3>1, <3>2 DEF LifeAt, Live
    <3>5. LifeInv'
      BY <2>4, <2>6, <3>1, <3>3, <3>4 DEF LifeInv
    <3>6. Allowed(o.child)
      BY <1>0, <2>2, <2>4, <3>1, <3>2 DEF Allowed, View, Live
    <3> QED
      BY <2>2, <3>3, <3>5, <3>6
  <2>10. CASE Launch(a)
    <3>1. PICK r \in Runs : /\ proc' = [proc EXCEPT ![o.child][r] = "forked"]
                            /\ proc[o.child][r] = "none"
      BY <2>10 DEF Launch
    <3>2. Unstarted(o.child) /\ UNCHANGED <<status, marker>>
      BY <2>10 DEF Launch, SoloInv, fileVars
    <3>3. \A d \in Children, q \in Runs :
            proc'[d][q] = IF d = o.child /\ q = r THEN "forked" ELSE proc[d][q]
      BY <2>2, <3>1 DEF TypeOK
    <3>4. LifeAt(o.child)'
      BY <1>0, <2>2, <2>4, <3>2, <3>3 DEF LifeAt, Unstarted, Live
    <3>5. LifeInv'
      <4>1. \A d \in Children \ {o.child} : LifeAt(d)'
        BY <1>0, <2>4, <3>2, <3>3, SameLife
      <4> QED
        BY <2>4, <2>6, <3>2, <3>4, <4>1 DEF LifeInv
    <3>6. pidFile[o.child] = NoRun
      BY <1>0, <2>2, <3>2 DEF LifeAt, Unstarted
    <3>7. \A d \in Children : View(d)' = View(d)
      BY <1>0, <2>4, <3>2, <3>3, <3>6, SameView
    <3> QED
      BY <3>5, <3>7
  <2>11. CASE ~WriteMarker(a) /\ ~SetCancelled(a) /\ ~AwaitDeath(a) /\ ~Launch(a)
    <3>1. UNCHANGED <<status, marker, proc>>
      BY <1>2, <2>3, <2>11
         DEF CommandStep, ProbePid, Signal, StatOutput, SaveCancelled, LaunchFails, fileVars,
             procVars
    <3>2. LifeInv'
      <4>1. \A d \in Children : LifeAt(d)'
        BY <2>4, <3>1, SameLife
      <4> QED
        BY <2>4, <2>6, <3>1, <4>1 DEF LifeInv
    <3> QED
      BY <2>4, <3>1, <3>2, SameView
  <2> QED
    BY SMTT(60), <2>7, <2>8, <2>9, <2>10, <2>11
<1> QED
  BY <1>1, <1>2

\* The parent's own steps change no child.
LEMMA NextLife ==
  Detached /\ TypeOK /\ SoloInv /\ LifeInv /\ [Next]_vars
    => LifeInv' /\ [Lifecycle!Next]_StatusPhase
<1> SUFFICES ASSUME Detached, TypeOK, SoloInv, LifeInv, [Next]_vars
             PROVE  LifeInv' /\ [Lifecycle!Next]_StatusPhase
  OBVIOUS
<1>1. TypeOK'
  BY NextTypeOK
<1>2. CASE UNCHANGED vars \/ ParentStep
  <2>1. UNCHANGED <<status, marker, tmpFile, outFile, pidFile, proc, op, inTool>>
    BY <1>2 DEF vars, ParentStep, OnlyParent, procVars, fileVars, opVars, PromptDone,
                PromptFails, PopNotification, DrainEmpty, ScanChild, ScanProbe, ScanDone,
                WaitTimesOut, Finalize
  <2>2. LifeInv'
    <3>1. \A d \in Children : LifeAt(d)'
      BY <2>1, SameLife
    <3> QED
      BY <2>1, <3>1 DEF LifeInv
  <2>3. \A d \in Children : View(d)' = View(d)
    BY <2>1, SameView
  <2>4. StatusPhase' = StatusPhase
    BY <1>1, <2>2, <2>3, PhaseIsView, PhaseStaysView DEF LifeInv
  <2> QED
    BY <2>2, <2>4
<1>3. ASSUME NEW c \in Children, NEW r \in Runs, Wrapper(c, r)
      PROVE  LifeInv' /\ [Lifecycle!Next]_StatusPhase
  BY <1>1, <1>3, ScriptLife, OneMoves DEF LifeInv
<1>4. ASSUME NEW a \in Actors,
             \/ \E k \in Commands, c \in Children : AddSession(a, k, c) \/ LookUp(a, k, c)
             \/ CommandStep(a)
      PROVE  LifeInv' /\ [Lifecycle!Next]_StatusPhase
  <2>1. LifeInv'
    BY <1>4, CommandLife
  <2>2. CASE \A d \in Children : View(d)' = View(d)
    <3>1. StatusPhase' = StatusPhase
      BY <1>1, <2>1, <2>2, PhaseIsView, PhaseStaysView DEF LifeInv
    <3> QED
      BY <2>1, <3>1
  <2>3. CASE \E c \in Children : Allowed(c) /\ \A d \in Children \ {c} : View(d)' = View(d)
    BY <1>1, <2>1, <2>3, OneMoves DEF LifeInv
  <2> QED
    BY <1>4, <2>1, <2>2, <2>3, CommandLife
<1> QED
  BY <1>2, <1>3, <1>4 DEF Next

\* What `toc status` and every command see of a child that is never resumed
\* and runs detached goes the way SubAgentLifecycle promises, for any number of
\* children, commands and faults: it becomes active once, and whoever has seen
\* it done, cancelled or a zombie never sees it at work again, although each
\* look reads four files that other processes write meanwhile.
THEOREM StatusImplementsLifecycle ==
  ASSUME Detached PROVE Spec => Lifecycle!Spec
<1>1. "resume" \notin Features
  BY DEF Detached
<1>2. Init => LifeInv /\ Lifecycle!Init
  BY InitLife
<1>3. Spec => [](TypeOK /\ SoloInv /\ ExitInv)
  BY <1>1, SoloInductive
<1>4. TypeOK /\ SoloInv /\ LifeInv /\ [Next]_vars => LifeInv' /\ [Lifecycle!Next]_StatusPhase
  BY NextLife
<1> QED
  BY <1>2, <1>3, <1>4, PTL DEF Spec, Lifecycle!Spec
=============================================================================
