------------------------------- MODULE Tools -------------------------------
(***************************************************************************)
(* The tools of a toc-native session (native_tools.go, native_web.go,      *)
(* permissions.go) and how the runner calls them                           *)
(* (executeNativeToolWithTimeout): one call after another, each handler in *)
(* a goroutine of its own that goes on when the runner gives up on it.     *)
(* A file is a sequence of marks, which Edit replaces one by one; opening  *)
(* it for writing truncates it, a step before its content is written.      *)
(***************************************************************************)
EXTENDS Naturals, FiniteSets, SequencesExt

CONSTANTS
  Paths,          \* files of the session's directory
  Absent,         \* no such file
  Blank,          \* an empty argument
  Marks,          \* what a file is made of; Blank, when Edit deletes a mark
  InitialDisk,    \* the files at the start
  Calls,          \* the calls the model may make
  Manifests,      \* permissions.json, or NoManifest for an older session
  NoManifest,
  EnabledTools,   \* runtime_config.enabled_tools; empty stands for all
  MaxWorkingSet,  \* maxWorkingSetEntries
  MaxCalls,       \* bound: calls over the session
  Faults          \* hang, full: which of them occur

ASSUME ToolsAssumption ==
  /\ Absent \notin Paths /\ Blank \notin Paths
  /\ InitialDisk \in [Paths -> Seq(Marks) \cup {Absent}]
  /\ \A c \in Calls : c.new \in Marks
  /\ MaxWorkingSet \in Nat \ {0} /\ MaxCalls \in Nat
  /\ Faults \subseteq {"hang", "full"}

VARIABLES
  manifest,    \* what the runner has read from permissions.json
  disk,        \* the files
  todos,       \* State.Todos
  workingSet,  \* State.WorkingSet: paths by the tool that named them
  calls,       \* the goroutines, one per call, in the order of the calls
  current      \* the call the runner waits for, or 0

toolVars == <<manifest, disk, todos, workingSet, calls, current>>

\* The tools whose call names a file for the working set.
FileTools == {"Read", "Write", "Edit"}
Tools == FileTools \cup
         {"Glob", "Grep", "Bash", "Skill", "TodoWrite", "Question", "WebFetch"}

\* outcome: what the handler returns; ioerror is a failure after the file was
\* opened for writing, failed any failure before.  result: what the runner
\* appends to the transcript.
Goroutine(c) ==
  [call |-> c, pc |-> "called", data |-> <<>>, outcome |-> "none", result |-> "none"]

-----------------------------------------------------------------------------
(* permissions.go *)

\* FilesystemPermissionLevel and NetworkPermissionLevel: what is not said is on
\* for the file system and off for the network.
Level(kind) ==
  IF manifest = NoManifest \/ manifest[kind] = ""
  THEN IF kind = "web" THEN "off" ELSE "on"
  ELSE manifest[kind]

\* The permission each handler validates first.
Needs == [t \in Tools |->
  CASE t \in {"Read", "Glob", "Grep"} -> "read"
    [] t \in {"Write", "Edit"}        -> "write"
    [] t = "Bash"                     -> "execute"
    [] t = "WebFetch"                 -> "web"
    [] OTHER                          -> "none"]

\* Validate...Permission: ask counts as off.
Permitted(t) == Needs[t] = "none" \/ Level(Needs[t]) = "on"

\* nativeToolSet
Enabled(t) == EnabledTools = {} \/ t \in EnabledTools

-----------------------------------------------------------------------------
(* native_tools.go *)

Occurrences(s, m) == Cardinality({i \in DOMAIN s : s[i] = m})

\* strings.ReplaceAll, or strings.Replace of the first occurrence.
Replaced(s, c) ==
  LET first == SelectInSeq(s, LAMBDA m : m = c.old)
  IN  [i \in DOMAIN s |->
         IF s[i] = c.old /\ (c.all \/ i = first) THEN c.new ELSE s[i]]

\* The arguments each handler refuses, resolveSessionPath included.
BadArguments(c) ==
  \/ c.tool \in FileTools /\ c.path \notin Paths
  \/ c.tool \in {"Write", "TodoWrite"} /\ c.new = Blank
  \/ c.tool = "Edit" /\ c.old = Blank

Refused(c) == ~Enabled(c.tool) \/ ~Permitted(c.tool) \/ BadArguments(c)

\* The goroutine of call i moves on, or ends with an outcome for the runner.
Goes(i, pc, data) == calls' = [calls EXCEPT ![i].pc = pc, ![i].data = data]
Ends(i, outcome) ==
  calls' = [calls EXCEPT ![i].pc = "done", ![i].data = <<>>, ![i].outcome = outcome]

At(i, pc, ts) == calls[i].pc = pc /\ calls[i].call.tool \in ts
Proceeds(i, ts) == At(i, "called", ts) /\ ~Refused(calls[i].call)

Refuse(i) ==
  /\ calls[i].pc = "called" /\ Refused(calls[i].call)
  /\ Ends(i, "failed")
  /\ UNCHANGED <<manifest, disk, todos, workingSet, current>>

\* nativeRead
ReadFile(i) ==
  /\ Proceeds(i, {"Read"})
  /\ Ends(i, IF disk[calls[i].call.path] = Absent THEN "failed" ELSE "ok")
  /\ UNCHANGED <<manifest, disk, todos, workingSet, current>>

\* nativeGlob and nativeGrep: finding nothing is a success.
Search(i) ==
  /\ Proceeds(i, {"Glob", "Grep"})
  /\ Ends(i, "ok")
  /\ UNCHANGED <<manifest, disk, todos, workingSet, current>>

\* nativeSkill: SKILL.md, which may be missing, without any permission.
ReadSkill(i) ==
  /\ Proceeds(i, {"Skill"})
  /\ \E outcome \in {"ok", "failed"} : Ends(i, outcome)
  /\ UNCHANGED <<manifest, disk, todos, workingSet, current>>

\* nativeWrite, up to the write.
WriteFile(i) ==
  /\ Proceeds(i, {"Write"})
  /\ Goes(i, "open", <<calls[i].call.new>>)
  /\ UNCHANGED <<manifest, disk, todos, workingSet, current>>

\* nativeEdit, up to the write: the file is read, and replaced as a whole later.
ReadForEdit(i) ==
  /\ Proceeds(i, {"Edit"})
  /\ LET c == calls[i].call
         s == disk[c.path]
         n == IF s = Absent THEN 0 ELSE Occurrences(s, c.old)
     IN  IF n = 0 \/ (n > 1 /\ ~c.all) THEN Ends(i, "failed")
         ELSE Goes(i, "open", Replaced(s, c))
  /\ UNCHANGED <<manifest, disk, todos, workingSet, current>>

\* writeFilePreserveMode: os.WriteFile truncates the file, then writes it, which
\* fails when there is no room.
Truncate(i) ==
  /\ At(i, "open", {"Write", "Edit"})
  /\ disk' = [disk EXCEPT ![calls[i].call.path] = <<>>]
  /\ Goes(i, "write", calls[i].data)
  /\ UNCHANGED <<manifest, todos, workingSet, current>>

Fill(i) ==
  /\ At(i, "write", {"Write", "Edit"})
  /\ disk' = [disk EXCEPT ![calls[i].call.path] = calls[i].data]
  /\ Ends(i, "ok")
  /\ UNCHANGED <<manifest, todos, workingSet, current>>

FillFails(i) ==
  /\ "full" \in Faults
  /\ At(i, "write", {"Write", "Edit"})
  /\ Ends(i, "ioerror")
  /\ UNCHANGED <<manifest, disk, todos, workingSet, current>>

\* nativeBash: the command writes a file or, without content, removes it; it is
\* killed with its process group at its own timeout, before or after that.
RunCommand(i) ==
  /\ Proceeds(i, {"Bash"})
  /\ LET c == calls[i].call
         after == [disk EXCEPT ![c.path] = IF c.new = Blank THEN Absent ELSE <<c.new>>]
     IN  \/ disk' = after /\ \E r \in {"ok", "ioerror"} : Ends(i, r)
         \/ UNCHANGED disk /\ Ends(i, "ioerror")
  /\ UNCHANGED <<manifest, todos, workingSet, current>>

\* nativeTodoWrite: the list is replaced, or with an invalid item left alone.
WriteTodos(i) ==
  /\ Proceeds(i, {"TodoWrite"})
  /\ todos' = calls[i].call.new
  /\ Ends(i, "ok")
  /\ UNCHANGED <<manifest, disk, workingSet, current>>

\* fetchWebContent, under a client with a timeout of its own: the page, an error.
Fetch(i) ==
  /\ Proceeds(i, {"WebFetch"})
  /\ \/ Goes(i, "fetched", <<>>)
     \/ Ends(i, "failed")
  /\ UNCHANGED <<manifest, disk, todos, workingSet, current>>

\* summarizeWebContent, under a timeout too: without a summary the page is used.
Summarize(i) ==
  /\ At(i, "fetched", {"WebFetch"})
  /\ Ends(i, "ok")
  /\ UNCHANGED <<manifest, disk, todos, workingSet, current>>

-----------------------------------------------------------------------------
(* The runner *)

\* appendUnique
AppendUnique(s, x) ==
  IF x \in ToSet(s) THEN s
  ELSE LET t == Append(s, x)
       IN  IF Len(t) > MaxWorkingSet THEN Tail(t) ELSE t

\* UpdateFromToolCall, for the tools that name a file.  Calls that failed or
\* timed out count as well.
UpdateFromToolCall(c) ==
  workingSet' = IF c.tool \in FileTools /\ c.path # Blank
                THEN [workingSet EXCEPT ![c.tool] = AppendUnique(@, c.path)]
                ELSE workingSet

Call ==
  /\ current = 0 /\ Len(calls) < MaxCalls
  /\ \E c \in Calls : calls' = Append(calls, Goroutine(c))
  /\ current' = Len(calls) + 1
  /\ UNCHANGED <<manifest, disk, todos, workingSet>>

\* The handler's result arrives before the deadline.
Collect ==
  /\ current # 0 /\ calls[current].pc = "done"
  /\ UpdateFromToolCall(calls[current].call)
  /\ calls' = [calls EXCEPT ![current].result = calls[current].outcome]
  /\ current' = 0
  /\ UNCHANGED <<manifest, disk, todos>>

\* Mutant: a deadline for the commands of Bash alone.
CanHang_BashOnly == {"Bash"}

\* The tools whose handler can outlive the deadline: Bash and WebFetch have
\* timeouts of their own that are shorter.
CanHang == Tools \ {"Bash", "WebFetch", "TodoWrite"}

\* Mutant: the runner reports what it has asked for as done.
Deadline_ReportsSuccess ==
  /\ current # 0 /\ calls[current].pc # "done"
  /\ calls[current].call.tool \in CanHang /\ ~Refused(calls[current].call)
  /\ "hang" \in Faults \/ calls[current].call.tool = "Question"
  /\ UpdateFromToolCall(calls[current].call)
  /\ calls' = [calls EXCEPT ![current].result = "ok"]
  /\ current' = 0
  /\ UNCHANGED <<manifest, disk, todos>>

\* The deadline passes: the runner reports a timeout, the goroutine goes on.
Deadline ==
  /\ current # 0 /\ calls[current].pc # "done"
  /\ calls[current].call.tool \in CanHang /\ ~Refused(calls[current].call)
  /\ "hang" \in Faults \/ calls[current].call.tool = "Question"
  /\ UpdateFromToolCall(calls[current].call)
  /\ calls' = [calls EXCEPT ![current].result = "timeout"]
  /\ current' = 0
  /\ UNCHANGED <<manifest, disk, todos>>

ToolInit ==
  /\ manifest \in Manifests
  /\ disk = InitialDisk
  /\ todos = Blank
  /\ workingSet = [t \in FileTools |-> <<>>]
  /\ calls = <<>>
  /\ current = 0

ToolStep(i) ==
  \/ Refuse(i) \/ ReadFile(i) \/ Search(i) \/ ReadSkill(i) \/ WriteFile(i)
  \/ ReadForEdit(i)
  \/ Truncate(i) \/ Fill(i) \/ FillFails(i) \/ RunCommand(i)
  \/ WriteTodos(i) \/ Fetch(i) \/ Summarize(i)

-----------------------------------------------------------------------------
(* What the transcript tells about the files *)

\* The content after a call on the file succeeds.
Effect(c, s) ==
  CASE c.tool = "Write" -> <<c.new>>
    [] c.tool = "Edit"  -> Replaced(s, c)
    [] c.tool = "Bash"  -> IF c.new = Blank THEN Absent ELSE <<c.new>>
    [] OTHER            -> s

\* The content of p after the calls that are reported as successful.
Told(p) ==
  LET after[n \in 0 .. Len(calls)] ==
        IF n = 0 THEN InitialDisk[p]
        ELSE IF calls[n].result = "ok" /\ calls[n].call.path = p
             THEN Effect(calls[n].call, after[n - 1])
             ELSE after[n - 1]
  IN  after[Len(calls)]

\* A call on p timed out or failed while it wrote, or is being executed.
InDoubt(p) ==
  \E i \in DOMAIN calls : /\ calls[i].call.path = p
                          /\ calls[i].call.tool \in {"Write", "Edit", "Bash"}
                          /\ calls[i].result \in {"timeout", "ioerror", "none"}

\* A file is what the results in the transcript say, edits included, unless one
\* of them is a timeout or an error of the write itself: no handler the runner
\* has given up on writes to a file whose calls all ended (nativeEdit,
\* executeNativeToolWithTimeout).
TranscriptTellsFiles == \A p \in Paths : InDoubt(p) \/ disk[p] = Told(p)
=============================================================================
