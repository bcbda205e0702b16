------------------------------ MODULE SubAgent ------------------------------
(***************************************************************************)
(* The life of the sub-agents of one toc-native parent session.            *)
(*                                                                         *)
(* A child is known through three kinds of state that different processes  *)
(* write without a common lock: its record in sessions.yaml (status), the  *)
(* marker files in its workspace (toc-pid.txt, toc-output.txt.tmp,         *)
(* toc-exit-code.txt, toc-output.txt, toc-cancelled.txt) and state.json.   *)
(* The processes are                                                       *)
(*   - one wrapper script per run of a child (BuildNativeDetachedScript),  *)
(*   - the parent runner (runNativePrompt, waitForSessionNotifications,    *)
(*     finalizeNativeSession),                                             *)
(*   - the commands that spawn, cancel, stop and resume children: the      *)
(*     parent's own, run by a tool call of the prompt in progress, and     *)
(*     `toc stop`, which the user may run at any time.                     *)
(***************************************************************************)
EXTENDS Naturals, FiniteSets

CONSTANTS
  Children,  \* the sub-agents the parent may spawn
  NoChild,   \* not a sub-agent
  MaxRuns,   \* bound: launches of one child (first run and resumes)
  MaxOps,    \* bound: commands issued by each actor
  Features   \* which commands and faults of the environment occur

Actors == {"parent", "user"}

\* SubAgent tool: spawnTool, cancelTool.  toc runtime: spawn, cancel, rstop,
\* resume.  toc stop: stop.
Spawns   == {"spawnTool", "spawn"}
Commands == Spawns \cup {"cancelTool", "cancel", "rstop", "resume", "stop"}
\* kill: a wrapper is killed from outside, killEarly: before it has written
\* its pid file; onEnd: the session has an OnEnd prompt.
Faults   == {"launchFail", "kill", "killEarly", "promptFail", "onEnd"}

ASSUME SubAgentAssumption ==
  /\ NoChild \notin Children
  /\ MaxRuns \in Nat \ {0}
  /\ MaxOps \in [Actors -> Nat]
  /\ Features \subseteq Commands \cup Faults

Runs     == 1 .. MaxRuns
NoRun    == 0
RunOrNot == Runs \cup {NoRun}

VARIABLES
  status,    \* sessions.yaml: the recorded status of each child
  state,     \* state.json of each child: its Status field
  pidFile,   \* toc-pid.txt: the run whose pid it holds
  tmpFile,   \* toc-output.txt.tmp: the run that writes it
  exitFile,  \* toc-exit-code.txt: an exit code
  outFile,   \* toc-output.txt: the run whose output it is
  marker,    \* toc-cancelled.txt exists
  proc,      \* where the wrapper script of each run is
  code,      \* the exit code of the native process of each run
  term,      \* runs with a SIGTERM pending
  inTool,    \* children whose first run is a child process of the parent
  inbox,     \* the parent's notifications directory
  handled,   \* how often each run's completion was turned into a prompt
  main,      \* where the parent runner is
  scan,      \* children HasActiveSubAgents still has to resolve
  probing,   \* the child it is probing the pid of
  op,        \* the command each actor is executing
  opsLeft    \* commands each actor may still issue

fileVars   == <<pidFile, tmpFile, exitFile, outFile, marker>>
procVars   == <<proc, code, term, inTool>>
parentVars == <<inbox, handled, main, scan, probing>>
opVars     == <<op, opsLeft>>
vars == <<status, state, fileVars, procVars, parentVars, opVars>>

-----------------------------------------------------------------------------
(* Values *)

Recorded == {"none", "active", "cancelled"}
Saved    == {"none", "running", "completed", "failed", "cancelled"}
NoCode   == 9
Codes    == {0, 1}

\* The wrapper script, by the last command it has executed.
Live == {"forked", "named", "running", "ended", "coded", "moved"}
Dead == {"exited", "killed"}
Working == Live \ {"moved"}       \* the output is not in place yet
ProcStates == {"none"} \cup Live \cup Dead

Prompting == {"prompt", "promptDrain", "promptEnd"}
Gone      == {"exited", "failed"}
MainStates == Prompting \cup Gone \cup
              {"drain", "drained", "scan", "scanProbe", "wait", "finalize"}

OpStates == {"probe", "signal", "await", "stat", "mark", "status",
             "onlyStatus", "state", "rmOut", "rmTmp", "rmExit", "rmPid",
             "rmMarker", "activate", "launch"}

Running == [kind : Commands, pc : OpStates, child : Children, run : RunOrNot]
Idle == [kind |-> "none", pc |-> "idle", child |-> NoChild, run |-> NoRun]
Ops == Running \cup {Idle}

Results == {"completed-success", "completed-error"}
Notifications == [child : Children, run : Runs, status : Results]

TypeOK ==
  /\ status \in [Children -> Recorded]
  /\ state \in [Children -> Saved]
  /\ pidFile \in [Children -> RunOrNot]
  /\ tmpFile \in [Children -> RunOrNot]
  /\ exitFile \in [Children -> Codes \cup {NoCode}]
  /\ outFile \in [Children -> RunOrNot]
  /\ marker \in [Children -> BOOLEAN]
  /\ proc \in [Children -> [Runs -> ProcStates]]
  /\ code \in [Children -> [Runs -> Codes]]
  /\ term \subseteq Children \X Runs
  /\ inTool \subseteq Children
  /\ inbox \subseteq Notifications
  /\ handled \in [Children -> [Runs -> Nat]]
  /\ main \in MainStates
  /\ scan \subseteq Children
  /\ probing \in Children \cup {NoChild}
  /\ op \in [Actors -> Ops]
  /\ opsLeft \in [Actors -> Nat]

-----------------------------------------------------------------------------
(* ResolvedStatus, which reads the markers one after the other.  Look is   *)
(* what it decides from the record, the cancellation marker and the        *)
(* output; "probe" means that it goes on to read and probe the pid.        *)

ExitStatus(x) == IF x = 0 THEN "completed-success" ELSE "completed-error"

Marked(c) ==
  IF marker[c] THEN "cancelled"
  ELSE IF outFile[c] = NoRun THEN "probe"
  ELSE IF exitFile[c] = NoCode THEN "completed"
  ELSE ExitStatus(exitFile[c])

Look(c) == IF status[c] = "active" THEN Marked(c) ELSE status[c]

\* kill(pid, 0): a dead process answers it until it is reaped, and the
\* parent runner never waits for the wrappers it starts itself.
Unreaped(c, r) == r = 1 /\ c \in inTool /\ main \notin Gone
Alive(c, r) == \/ proc[c][r] \in Live
               \/ proc[c][r] \in Dead /\ Unreaped(c, r)

\* Mutants: a child that has no pid yet is a dead one; a pid is a life.
Probe_NoPidIsDead(c) ==
  IF pidFile[c] = NoRun \/ ~Alive(c, pidFile[c]) THEN "zombie" ELSE "active"
Probe_PidOnly(c) == "active"

Probe(c) ==
  IF pidFile[c] # NoRun /\ ~Alive(c, pidFile[c]) THEN "zombie" ELSE "active"

Resolved(c) == IF Look(c) = "probe" THEN Probe(c) ELSE Look(c)

Completed == Results \cup {"completed"}

-----------------------------------------------------------------------------
(* The wrapper script of run r of child c *)

Step(c, r, from, to) ==
  /\ proc[c][r] = from
  /\ proc' = [proc EXCEPT ![c][r] = to]

\* echo $$ > toc-pid.txt
WritePid(c, r) ==
  /\ Step(c, r, "forked", "named")
  /\ pidFile' = [pidFile EXCEPT ![c] = r]
  /\ UNCHANGED <<status, state, tmpFile, exitFile, outFile, marker, code,
                 term, inTool, parentVars, opVars>>

\* The redirection opens toc-output.txt.tmp and the native process starts.
StartNative(c, r) ==
  /\ Step(c, r, "named", "running")
  /\ tmpFile' = [tmpFile EXCEPT ![c] = r]
  /\ state' = [state EXCEPT ![c] = "running"]
  /\ UNCHANGED <<status, pidFile, exitFile, outFile, marker, code, term,
                 inTool, parentVars, opVars>>

\* The native process saves its last state.json and exits with code x.
FinishNative(c, r) ==
  /\ Step(c, r, "running", "ended")
  /\ \E x \in Codes :
       /\ code' = [code EXCEPT ![c][r] = x]
       /\ state' = [state EXCEPT ![c] = IF x = 0 THEN "completed" ELSE "failed"]
  /\ UNCHANGED <<status, fileVars, term, inTool, parentVars, opVars>>

\* Mutant: $? is read after another command.
WriteExit_OtherCommand(c, r) ==
  /\ Step(c, r, "ended", "coded")
  /\ exitFile' = [exitFile EXCEPT ![c] = 0]
  /\ UNCHANGED <<status, state, pidFile, tmpFile, outFile, marker, code,
                 term, inTool, parentVars, opVars>>

\* echo $TOC_EXIT > toc-exit-code.txt
WriteExit(c, r) ==
  /\ Step(c, r, "ended", "coded")
  /\ exitFile' = [exitFile EXCEPT ![c] = code[c][r]]
  /\ UNCHANGED <<status, state, pidFile, tmpFile, outFile, marker, code,
                 term, inTool, parentVars, opVars>>

\* mv toc-output.txt.tmp toc-output.txt, which fails when a resume has
\* removed the file; the script goes on in both cases.
MoveOutput(c, r) ==
  /\ Step(c, r, "coded", "moved")
  /\ IF tmpFile[c] = NoRun
     THEN UNCHANGED <<tmpFile, outFile>>
     ELSE /\ outFile' = [outFile EXCEPT ![c] = tmpFile[c]]
          /\ tmpFile' = [tmpFile EXCEPT ![c] = NoRun]
  /\ UNCHANGED <<status, state, pidFile, exitFile, marker, code, term,
                 inTool, parentVars, opVars>>

\* toc __notify-subagent-complete: a missing exit code file reads as 0.
NotifiedStatus(c) ==
  IF exitFile[c] = NoCode THEN "completed-success" ELSE ExitStatus(exitFile[c])

Notify(c, r) ==
  /\ Step(c, r, "moved", "exited")
  /\ inbox' = inbox \cup {[child |-> c, run |-> r, status |-> NotifiedStatus(c)]}
  /\ UNCHANGED <<status, state, fileVars, code, term, inTool, handled, main,
                 scan, probing, opVars>>

\* A pending SIGTERM, or a kill from outside, takes the process group down.
Die(c, r) ==
  /\ \/ <<c, r>> \in term
     \/ "kill" \in Features /\ proc[c][r] # "forked"
     \/ "killEarly" \in Features /\ proc[c][r] = "forked"
  /\ proc[c][r] \in Live
  /\ proc' = [proc EXCEPT ![c][r] = "killed"]
  /\ UNCHANGED <<status, state, fileVars, code, term, inTool, parentVars, opVars>>

ScriptStep(c, r) ==
  \/ WritePid(c, r)  \/ StartNative(c, r) \/ FinishNative(c, r)
  \/ WriteExit(c, r) \/ MoveOutput(c, r)  \/ Notify(c, r)

Wrapper(c, r) == ScriptStep(c, r) \/ Die(c, r)

-----------------------------------------------------------------------------
(* The commands.  A command resolves the child's status, reads its pid and *)
(* signals it, then writes the marker, the record and state.json one after *)
(* the other.                                                              *)

\* Commands of the parent run inside one of its tool calls, `toc stop` is
\* the user's.
MayIssue(a) == IF a = "parent" THEN Features \cap (Commands \ {"stop"})
               ELSE Features \cap {"stop"}

Issue(a, k) ==
  /\ op[a].pc = "idle"
  /\ opsLeft[a] > 0
  /\ k \in MayIssue(a)
  /\ a = "parent" => main \in Prompting
  /\ opsLeft' = [opsLeft EXCEPT ![a] = @ - 1]

GoTo(a, pc) == op' = [op EXCEPT ![a].pc = pc]
Finish(a)   == op' = [op EXCEPT ![a] = Idle]

\* Mutant: a resume does not ask whether the child is active.
Accepted_AnyResume(k) ==
  CASE k \in {"cancelTool", "cancel"} -> {"active"}
    [] k \in {"stop", "rstop"}        -> {"active", "zombie"}
    [] k = "resume" -> Completed \cup {"active", "cancelled", "zombie"}

\* The statuses each command goes on with.
Accepted(k) ==
  CASE k \in {"cancelTool", "cancel"} -> {"active"}
    [] k \in {"stop", "rstop"}        -> {"active", "zombie"}
    [] k = "resume"                   -> Completed \cup {"cancelled", "zombie"}

AfterLook(k)  == IF k = "resume" THEN "rmOut" ELSE "signal"
AfterKill(k)  == IF k = "stop" THEN "status" ELSE "stat"
AfterMark(k)  == IF k = "stop" THEN "idle" ELSE "status"

\* Back to idle when the command is over.
Proceed(a, pc) == IF pc = "idle" THEN Finish(a) ELSE GoTo(a, pc)

\* SpawnSubSession up to AddInWorkspace.
AddSession(a, k, c) ==
  /\ k \in Spawns
  /\ Issue(a, k)
  /\ status[c] = "none"
  /\ status' = [status EXCEPT ![c] = "active"]
  /\ op' = [op EXCEPT ![a] = [kind |-> k, pc |-> "launch", child |-> c, run |-> NoRun]]
  /\ UNCHANGED <<state, fileVars, procVars, parentVars>>

\* The lookup of the session and the first half of ResolvedStatus.
LookUp(a, k, c) ==
  /\ k \in Commands \ Spawns
  /\ Issue(a, k)
  /\ status[c] # "none"
  /\ k = "resume" => proc[c][MaxRuns] = "none"   \* bound: MaxRuns
  /\ LET at(pc) == op' = [op EXCEPT ![a] = [kind |-> k, pc |-> pc, child |-> c,
                                            run |-> NoRun]]
     IN  \/ Look(c) = "probe" /\ at("probe")
         \/ Look(c) \in Accepted(k) /\ at(AfterLook(k))
         \/ Look(c) \notin Accepted(k) \cup {"probe"} /\ UNCHANGED op
  /\ UNCHANGED <<status, state, fileVars, procVars, parentVars>>

\* The second half of ResolvedStatus, some time after the first.
ProbePid(a) ==
  /\ op[a].pc = "probe"
  /\ IF Probe(op[a].child) \in Accepted(op[a].kind)
     THEN GoTo(a, AfterLook(op[a].kind))
     ELSE Finish(a)
  /\ UNCHANGED <<status, state, fileVars, procVars, parentVars, opsLeft>>

\* Mutant: cancel cleans up the way toc stop does.
WithoutPid_AlwaysCleanUp(k) == "status"

\* Without a pid file cancel gives up, toc stop cleans up the record and
\* the marker, toc runtime stop the record only.
WithoutPid(k) ==
  CASE k = "stop"  -> "status"
    [] k = "rstop" -> "onlyStatus"
    [] OTHER       -> "idle"

\* ReadPID, then SIGTERM to the process group.
Signal(a) ==
  LET k == op[a].kind
      c == op[a].child
      r == pidFile[c]
  IN
  /\ op[a].pc = "signal"
  /\ \/ /\ r = NoRun
        /\ Proceed(a, WithoutPid(k))
        /\ UNCHANGED term
     \/ /\ r # NoRun
        /\ term' = IF proc[c][r] \in Live THEN term \cup {<<c, r>>} ELSE term
        /\ op' = [op EXCEPT
             ![a].pc = IF k # "cancelTool" /\ Alive(c, r) THEN "await" ELSE AfterKill(k),
             ![a].run = r]
  /\ UNCHANGED <<status, state, fileVars, proc, code, inTool, parentVars, opsLeft>>

\* Mutant: the command does not wait for the process.
AwaitDeath_NoWait(a) ==
  /\ op[a].pc = "await"
  /\ GoTo(a, AfterKill(op[a].kind))
  /\ UNCHANGED <<status, state, fileVars, procVars, parentVars, opsLeft>>

\* TerminateProcess returns once the process is gone, after a SIGKILL when
\* it outlives the grace period.
AwaitDeath(a) ==
  LET c == op[a].child
      r == op[a].run
  IN
  /\ op[a].pc = "await"
  /\ proc' = [proc EXCEPT ![c][r] = IF @ \in Live THEN "killed" ELSE @]
  /\ GoTo(a, AfterKill(op[a].kind))
  /\ UNCHANGED <<status, state, fileVars, code, term, inTool, parentVars, opsLeft>>

\* No cancellation marker once there is an output.
StatOutput(a) ==
  /\ op[a].pc = "stat"
  /\ Proceed(a, IF outFile[op[a].child] = NoRun THEN "mark"
                ELSE AfterMark(op[a].kind))
  /\ UNCHANGED <<status, state, fileVars, procVars, parentVars, opsLeft>>

WriteMarker(a) ==
  /\ op[a].pc = "mark"
  /\ marker' = [marker EXCEPT ![op[a].child] = TRUE]
  /\ Proceed(a, AfterMark(op[a].kind))
  /\ UNCHANGED <<status, state, pidFile, tmpFile, exitFile, outFile, procVars,
                 parentVars, opsLeft>>

\* UpdateStatus(cancelled), under the lock of sessions.yaml.
SetCancelled(a) ==
  /\ op[a].pc \in {"status", "onlyStatus"}
  /\ status' = [status EXCEPT ![op[a].child] = "cancelled"]
  /\ Proceed(a, CASE op[a].pc = "onlyStatus" -> "idle"
                  [] op[a].kind = "stop" -> "stat"
                  [] OTHER -> "state")
  /\ UNCHANGED <<state, fileVars, procVars, parentVars, opsLeft>>

\* LoadState, state.Status = cancelled, SaveState.
SaveCancelled(a) ==
  /\ op[a].pc = "state"
  /\ state' = [state EXCEPT ![op[a].child] = "cancelled"]
  /\ Finish(a)
  /\ UNCHANGED <<status, fileVars, procVars, parentVars, opsLeft>>

\* ResumeSubSession removes the markers of the previous run one by one ...
RemoveMarkers(a) ==
  LET c == op[a].child
      Cleared(f, zero) == [f EXCEPT ![c] = zero]
  IN
  /\ \/ /\ op[a].pc = "rmOut" /\ GoTo(a, "rmTmp")
        /\ outFile' = Cleared(outFile, NoRun)
        /\ UNCHANGED <<pidFile, tmpFile, exitFile, marker>>
     \/ /\ op[a].pc = "rmTmp" /\ GoTo(a, "rmExit")
        /\ tmpFile' = Cleared(tmpFile, NoRun)
        /\ UNCHANGED <<pidFile, exitFile, outFile, marker>>
     \/ /\ op[a].pc = "rmExit" /\ GoTo(a, "rmPid")
        /\ exitFile' = Cleared(exitFile, NoCode)
        /\ UNCHANGED <<pidFile, tmpFile, outFile, marker>>
     \/ /\ op[a].pc = "rmPid" /\ GoTo(a, "rmMarker")
        /\ pidFile' = Cleared(pidFile, NoRun)
        /\ UNCHANGED <<tmpFile, exitFile, outFile, marker>>
     \/ /\ op[a].pc = "rmMarker" /\ GoTo(a, "activate")
        /\ marker' = Cleared(marker, FALSE)
        /\ UNCHANGED <<pidFile, tmpFile, exitFile, outFile>>
  /\ UNCHANGED <<status, state, procVars, parentVars, opsLeft>>

\* ... and then makes the record active again.
Activate(a) ==
  /\ op[a].pc = "activate"
  /\ status' = [status EXCEPT ![op[a].child] = "active"]
  /\ GoTo(a, "launch")
  /\ UNCHANGED <<state, fileVars, procVars, parentVars, opsLeft>>

\* LaunchDetached: the wrapper of the next run is started and released.
Launch(a) ==
  LET c == op[a].child IN
  /\ op[a].pc = "launch"
  /\ \E r \in Runs :
       /\ proc[c][r] = "none"
       /\ \A q \in Runs : q < r => proc[c][q] # "none"
       /\ proc' = [proc EXCEPT ![c][r] = "forked"]
  /\ inTool' = IF op[a].kind = "spawnTool" THEN inTool \cup {c} ELSE inTool
  /\ Finish(a)
  /\ UNCHANGED <<status, state, fileVars, code, term, parentVars, opsLeft>>

\* The launch fails; the record stays active.
LaunchFails(a) ==
  /\ "launchFail" \in Features
  /\ op[a].pc = "launch"
  /\ Finish(a)
  /\ UNCHANGED <<status, state, fileVars, procVars, parentVars, opsLeft>>

CommandStep(a) ==
  \/ ProbePid(a)   \/ Signal(a)       \/ AwaitDeath(a)   \/ StatOutput(a)
  \/ WriteMarker(a) \/ SetCancelled(a) \/ SaveCancelled(a)
  \/ RemoveMarkers(a) \/ Activate(a)  \/ Launch(a)       \/ LaunchFails(a)

-----------------------------------------------------------------------------
(* The parent runner in detached mode *)

OnlyParent ==
  UNCHANGED <<status, state, fileVars, procVars, opVars>>

AfterPrompt(m) == CASE m = "prompt" -> "drain"
                    [] m = "promptDrain" -> "drained"
                    [] m = "promptEnd" -> "exited"

\* runNativePrompt returns when its last tool call has.
PromptDone ==
  /\ main \in Prompting
  /\ op["parent"].pc = "idle"
  /\ main' = AfterPrompt(main)
  /\ UNCHANGED <<inbox, handled, scan, probing>>
  /\ OnlyParent

\* A failed prompt ends RunNativeSession without the wait and without
\* finalizeNativeSession.
PromptFails ==
  /\ "promptFail" \in Features
  /\ main \in Prompting
  /\ op["parent"].pc = "idle"
  /\ main' = "failed"
  /\ UNCHANGED <<inbox, handled, scan, probing>>
  /\ OnlyParent

\* Mutant: the notification is handled and its file kept.
PopNotification_KeepsFile ==
  /\ main \in {"drain", "drained", "wait"}
  /\ \E n \in inbox : handled' = [handled EXCEPT ![n.child][n.run] = @ + 1]
  /\ main' = IF main = "wait" THEN "prompt" ELSE "promptDrain"
  /\ UNCHANGED <<inbox, scan, probing>>
  /\ OnlyParent

\* PopSessionNotification and the prompt made of it.  Names sort by the
\* time of their creation, which says nothing of the order of arrival.
PopNotification ==
  /\ main \in {"drain", "drained", "wait"}
  /\ \E n \in inbox :
       /\ inbox' = inbox \ {n}
       /\ handled' = [handled EXCEPT ![n.child][n.run] = @ + 1]
  /\ main' = IF main = "wait" THEN "prompt" ELSE "promptDrain"
  /\ UNCHANGED <<scan, probing>>
  /\ OnlyParent

\* drainSessionNotifications found nothing (more): drain again when it had
\* handled some, otherwise HasActiveSubAgents lists the children.
DrainEmpty ==
  /\ inbox = {}
  /\ \/ main = "drained" /\ main' = "drain" /\ UNCHANGED scan
     \/ /\ main = "drain" /\ main' = "scan"
        /\ scan' = {c \in Children : status[c] = "active"}
  /\ UNCHANGED <<inbox, handled, probing>>
  /\ OnlyParent

\* HasActiveSubAgents resolves one child after the other.
ScanChild ==
  /\ main = "scan"
  /\ \E c \in scan :
       IF Marked(c) = "probe"
       THEN main' = "scanProbe" /\ probing' = c /\ UNCHANGED scan
       ELSE scan' = scan \ {c} /\ UNCHANGED <<main, probing>>
  /\ UNCHANGED <<inbox, handled>>
  /\ OnlyParent

ScanProbe ==
  /\ main = "scanProbe"
  /\ IF Probe(probing) = "active"
     THEN main' = "wait" /\ scan' = {}
     ELSE main' = "scan" /\ scan' = scan \ {probing}
  /\ probing' = NoChild
  /\ UNCHANGED <<inbox, handled>>
  /\ OnlyParent

ScanDone ==
  /\ main = "scan" /\ scan = {}
  /\ main' = "finalize"
  /\ UNCHANGED <<inbox, handled, scan, probing>>
  /\ OnlyParent

\* WaitForSessionNotification gives up after thirty seconds.
WaitTimesOut ==
  /\ main = "wait"
  /\ main' = "drain"
  /\ UNCHANGED <<inbox, handled, scan, probing>>
  /\ OnlyParent

\* finalizeNativeSession runs the OnEnd prompt when there is one.
Finalize ==
  /\ main = "finalize"
  /\ main' = IF "onEnd" \in Features THEN "promptEnd" ELSE "exited"
  /\ UNCHANGED <<inbox, handled, scan, probing>>
  /\ OnlyParent

ParentStep ==
  \/ PromptDone \/ PromptFails \/ PopNotification \/ DrainEmpty \/ ScanChild
  \/ ScanProbe  \/ ScanDone    \/ WaitTimesOut    \/ Finalize

-----------------------------------------------------------------------------
Init ==
  /\ status = [c \in Children |-> "none"]
  /\ state = [c \in Children |-> "none"]
  /\ pidFile = [c \in Children |-> NoRun]
  /\ tmpFile = [c \in Children |-> NoRun]
  /\ exitFile = [c \in Children |-> NoCode]
  /\ outFile = [c \in Children |-> NoRun]
  /\ marker = [c \in Children |-> FALSE]
  /\ proc = [c \in Children |-> [r \in Runs |-> "none"]]
  /\ code = [c \in Children |-> [r \in Runs |-> 0]]
  /\ term = {}
  /\ inTool = {}
  /\ inbox = {}
  /\ handled = [c \in Children |-> [r \in Runs |-> 0]]
  /\ main = "prompt"
  /\ scan = {}
  /\ probing = NoChild
  /\ op = [a \in Actors |-> Idle]
  /\ opsLeft = MaxOps

Next ==
  \/ \E c \in Children, r \in Runs : Wrapper(c, r)
  \/ \E a \in Actors, k \in Commands, c \in Children :
       AddSession(a, k, c) \/ LookUp(a, k, c)
  \/ \E a \in Actors : CommandStep(a)
  \/ ParentStep

Spec == Init /\ [][Next]_vars

\* The scheduler runs every script and every command, a delivered signal
\* takes effect, and the parent's loop polls for ever; nobody has to issue a
\* command, and no kill from outside has to come.
Fairness ==
  /\ \A c \in Children, r \in Runs :
       /\ WF_vars(ScriptStep(c, r))
       /\ WF_vars(<<c, r>> \in term /\ Die(c, r))
  /\ \A a \in Actors : WF_vars(CommandStep(a))
  /\ WF_vars(ParentStep)

FairSpec == Spec /\ Fairness

-----------------------------------------------------------------------------
(* Safety *)

\* No completion is turned into a prompt twice: a notification is popped
\* from the directory before it is handled, and one script writes one.
AtMostOncePerRun ==
  \A c \in Children, r \in Runs :
    handled[c][r] + Cardinality({n \in inbox : n.child = c /\ n.run = r}) <= 1

\* A notification reports the exit code of the run that sent it, although
\* the notifier takes it from a file other processes remove and write.
NotificationTruthful ==
  \A n \in inbox : n.status = ExitStatus(code[n.child][n.run])

\* A child with an output is never marked cancelled (runtime_cancel.go:60:
\* "only write if the session hasn't already completed"): between the test
\* for the output and the marker the child must not be able to finish.
NoMarkerOverOutput ==
  \A c \in Children : ~(marker[c] /\ outFile[c] # NoRun)

Settled(c) == \A a \in Actors : op[a].child # c

\* Once a command has recorded a child as cancelled, no run of that child
\* works on: each is dead or has been sent the signal it dies of.
CancelledMeansStopped ==
  \A c \in Children : status[c] = "cancelled" /\ Settled(c) =>
    \A r \in Runs : proc[c][r] \in Working => <<c, r>> \in term

\* A child's workspace is never worked on by two of its runs at a time
\* (spawn.go:367: "still active - cannot resume an active session").
NoTwoNatives ==
  \A c \in Children, q, r \in Runs :
    /\ proc[c][q] \in {"forked", "named", "running"}
    /\ proc[c][r] \in {"forked", "named", "running"}
    => q = r

\* When the parent finalizes, no child is still at work, although it lists
\* the children once and resolves them one after the other.
ExitedMeansQuiet ==
  main = "exited" =>
    \A c \in Children, r \in Runs :
      proc[c][r] \in Working => <<c, r>> \in term

\* Each child that has completed when the parent finalizes has been turned
\* into a prompt (docs/toc-native-runtime.md:536, :555).
NoLostCompletion ==
  main = "exited" =>
    \A c \in Children, r \in Runs :
      proc[c][r] \in {"moved", "exited"} => handled[c][r] = 1

-----------------------------------------------------------------------------
(* Liveness *)

\* Detached mode "waits for notifications then finalizes automatically"
\* (docs/toc-native-runtime.md:555).
ParentFinishes == <>(main \in Gone)

-----------------------------------------------------------------------------
(* What a child's resolved status promises: SubAgentLifecycle *)

Phase(s) == IF s \in Completed THEN "done" ELSE s

StatusPhase == [c \in Children |-> Phase(Resolved(c))]

Lifecycle == INSTANCE SubAgentLifecycle WITH phase <- StatusPhase

ImplementsLifecycle == Lifecycle!FairSpec
=============================================================================
