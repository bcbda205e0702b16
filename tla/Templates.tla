----------------------------- MODULE Templates -----------------------------
(***************************************************************************)
(* A session's workspace from the copy of the agent's template to the      *)
(* files that go back into it: spawn.go (SpawnSession, SpawnSubSession,    *)
(* ResumeSession, ResumeSubSession), the providers' PrepareSession and     *)
(* PostSessionSync, the sync script of Claude Code, fileutil.              *)
(*                                                                         *)
(* A text is a sequence of marks: where it comes from, Var for a template  *)
(* variable ({{.SessionID}}), a session for what that session wrote.       *)
(***************************************************************************)
EXTENDS Library

CONSTANTS
  Sessions,
  Var,          \* a template variable
  Walk,         \* the template's files in the order of filepath.Walk
  MaxEdits      \* bound: edits of one session

\* What texts are made of, and the texts.
Marks == Sessions \cup {Var} \cup Range(Scaffold)
           \cup UNION {Range(text) : text \in Range(InitialFiles) \ {Absent}}
Texts == Seq(Marks)

\* At the start the files have something in them.
ASSUME TemplatesAssumption ==
  /\ Walk \in Seq(Files) /\ Range(Walk) = Files /\ MaxEdits \in Nat
  /\ InitialFiles \in [Files -> (Texts \ {<<>>}) \cup {Absent}]
  /\ Absent \notin Texts /\ Absent \notin Configurations

VARIABLE sess
vars == <<libraryVars, sess>>

NoFiles == [p \in Files |-> Absent]

Unborn ==
  [pc |-> "unborn",     \* the step of the command, or of the runtime in it
   sub |-> FALSE,       \* it has a parent session
   detached |-> FALSE,  \* it was last launched in the background
   conf |-> Absent,     \* the resolved configuration in memory
   saved |-> Absent,    \* session.json
   manifest |-> FALSE,  \* permissions.json is written
   ok |-> FALSE,        \* spawnOK: the workspace will be kept
   status |-> "none",   \* the status in sessions.yaml; none without an entry
   dir |-> FALSE,       \* the workspace exists
   ws |-> NoFiles,      \* its files
   prompt |-> Absent,   \* .toc-native/system-prompt.md
   skills |-> [k \in Skills |-> Absent],
   failed |-> {},       \* the skills reported as not resolved
   todo |-> <<>>,       \* files still to copy, or to sync
   open |-> FALSE,      \* the file being synced is truncated
   synced |-> {},       \* paths of the template the last pass has written
   pass |-> FALSE,      \* history: the last end had a pass
   given |-> Absent,    \* history: agent.md as copied, as a native one edits it
   torn |-> FALSE,      \* history: a file was empty when it was copied
   replaced |-> FALSE,  \* history: a CLAUDE.md has been composed anew
   launches |-> 0, edits |-> 0]

Init == LibraryInit /\ sess = [s \in Sessions |-> Unborn]

\* The fields of both, those of the first where both have them.
Both(new, old) == [f \in DOMAIN new \cup DOMAIN old |->
                     IF f \in DOMAIN new THEN new[f] ELSE old[f]]

Is(s, pc)        == sess[s].pc = pc
Advance(s, with) == sess' = [sess EXCEPT ![s] = Both(with, sess[s])]
Quiet            == UNCHANGED libraryVars
Native(s)        == sess[s].conf.runtime = "native"

-----------------------------------------------------------------------------
(* spawn.go: SpawnSession and SpawnSubSession *)

Begin(s, sub) ==
  /\ Is(s, "unborn") /\ s \in scenario.sessions /\ config # Absent
  /\ Advance(s, [pc |-> "copy", sub |-> sub, detached |-> sub, conf |-> config,
                 dir |-> TRUE,
                 todo |-> Only(Walk, {p \in Files : files[p] # Absent})])
  /\ Quiet

SpawnSession(s)    == Begin(s, FALSE)
SpawnSubSession(s) == Begin(s, TRUE)

\* The deferred removal of the workspace until spawnOK.
Undo(s) == Advance(s, [pc |-> "failed", dir |-> FALSE, ws |-> NoFiles])

\* fileutil.CopyDir: one file after another, whatever is in it.
CopyFile(s) ==
  /\ Is(s, "copy") /\ sess[s].todo # <<>>
  /\ LET p == Head(sess[s].todo)
     IN  IF files[p] = Absent THEN Undo(s)
         ELSE Advance(s, [ws |-> [sess[s].ws EXCEPT ![p] = files[p]],
                          todo |-> Tail(sess[s].todo),
                          torn |-> sess[s].torn \/ files[p] = <<>>])
  /\ Quiet

-----------------------------------------------------------------------------
(* prompt.go, claude.go, native.go *)

Expanded(s, text) == [i \in DOMAIN text |-> IF text[i] = Var THEN s ELSE text[i]]

Present(s) == {p \in Files : sess[s].ws[p] # Absent}

\* Mutant: the composed files come first.
Parts_ComposeFirst(s) == Only(sess[s].conf.compose \o <<AgentMD>>, Present(s))

\* ComposePrompt: agent.md, then the compose files, of those that exist.
Parts(s) == Only(<<AgentMD>> \o sess[s].conf.compose, Present(s))

ComposePrompt(s) ==
  Expanded(s, FlattenSeq([i \in DOMAIN Parts(s) |-> sess[s].ws[Parts(s)[i]]]))

\* Nothing is written for an empty prompt.
NothingToSay(s) == Len(Parts(s)) <= 1 /\ ComposePrompt(s) = <<>>

\* provisionClaudeInstructions: CLAUDE.md takes the place of agent.md.
ClaudeInstructions(s) ==
  [ws |-> [sess[s].ws EXCEPT ![AgentMD] = Absent, ![ClaudeMD] = ComposePrompt(s)],
   replaced |-> sess[s].replaced \/ sess[s].ws[ClaudeMD] # Absent]

\* The native PrepareSession leaves agent.md where it is.
NativeInstructions(s) == [prompt |-> ComposePrompt(s)]

Provisioned(s) ==
  IF NothingToSay(s) THEN [launches |-> sess[s].launches]
  ELSE IF Native(s) THEN NativeInstructions(s) ELSE ClaudeInstructions(s)

\* Once the template is copied: session.json, then the instructions.
PrepareSession(s) ==
  /\ Is(s, "copy") /\ sess[s].todo = <<>>
  /\ \/ Advance(s, Both([pc |-> "skills", saved |-> sess[s].conf,
                         given |-> sess[s].ws[AgentMD]], Provisioned(s)))
     \/ "write" \in scenario.faults /\ Undo(s)
  /\ Quiet

\* resolveSkills: a local directory is copied as it is; else a reference is
\* cloned, else the registry is asked, either of which may fail.  What an
\* earlier launch has resolved stays.
Resolved(s, found) ==
  LET got == [k \in sess[s].conf.skills |->
                IF local[k] # Absent THEN local[k]
                ELSE IF k \in found THEN "valid" ELSE Absent]
      new == {k \in DOMAIN got : got[k] # Absent}
  IN  [failed |-> DOMAIN got \ new,
       skills |-> Both([k \in new |-> got[k]], sess[s].skills)]

\* The skills, then permissions.json.
ResolveSkills(s) ==
  /\ Is(s, "skills")
  /\ \E found \in SUBSET sess[s].conf.skills :
       Advance(s, Both([pc |-> "track", manifest |-> TRUE], Resolved(s, found)))
  /\ Quiet

\* session.Add, after permissions.json or in place of it when that fails.
Track(s) ==
  /\ Is(s, "track")
  /\ \/ Advance(s, [pc |-> "launch", ok |-> TRUE, status |-> "active"])
     \/ "write" \in scenario.faults /\ Undo(s)
  /\ Quiet

\* session.UpdateStatus finds no entry once the agent has been removed.
Updated(s, status) == IF sess[s].status = "none" THEN "none" ELSE status

Launch(s) ==
  /\ Is(s, "launch")
  /\ \/ Advance(s, [pc |-> "run", status |-> Updated(s, "active"),
                    launches |-> sess[s].launches + 1])
     \/ /\ "launch" \in scenario.faults
        /\ Advance(s, [pc |-> "ended", pass |-> FALSE,
                       status |-> IF sess[s].detached THEN sess[s].status
                                  ELSE Updated(s, "completed_error")])
  /\ Quiet

\* Resuming needs the workspace, and the saved configuration.  Skills and
\* instructions are prepared once more; when that fails nothing has changed.
ResumedWith(s, detached) ==
  /\ Is(s, "ended") /\ sess[s].dir
  /\ sess[s].launches < scenario.launches
  /\ \E found \in SUBSET sess[s].saved.skills :
       Advance(s, Both([pc |-> "launch", conf |-> sess[s].saved, detached |-> detached],
                       Both(Resolved(s, found), Provisioned(s))))

\* "agent spawn --resume", of a sub-agent's session too.
ResumeSession(s) ==
  /\ sess[s].status # "none" /\ ResumedWith(s, FALSE)
  /\ Quiet

\* "runtime spawn --resume", by the parent.  A session that is marked active and
\* has never started counts as active still.
ResumeSubSession(s) ==
  /\ sess[s].status # "none" /\ sess[s].sub
  /\ sess[s].status = "active" => sess[s].launches > 0
  /\ ResumedWith(s, TRUE)
  /\ Quiet

-----------------------------------------------------------------------------
(* The running session, and what goes back into the template *)

\* claudeInstructionPathMapper
Mapped(s, p) == IF ~Native(s) /\ p = ClaudeMD THEN AgentMD ELSE p

\* setupClaudeHooks installs the script for Edit, Write and MultiEdit.
Hooked(s, p) ==
  /\ ~Native(s)
  /\ HookMatchesAny(Mapped(s, p), sess[s].conf.context,
                    {Front(q) : q \in Files} \ {<<>>})

\* The session writes a file, with a tool that the script watches or otherwise.
Edit(s, p) ==
  /\ Is(s, "run") /\ sess[s].edits < MaxEdits
  /\ LET text == Append(IF sess[s].ws[p] = Absent THEN <<>> ELSE sess[s].ws[p], s)
     IN  \E runs \in {FALSE, Hooked(s, p)} :
           Advance(s, [ws |-> [sess[s].ws EXCEPT ![p] = text],
                       edits |-> sess[s].edits + 1,
                       given |-> IF Native(s) /\ p = AgentMD THEN text ELSE sess[s].given,
                       pc |-> IF runs THEN "hook" ELSE "run",
                       todo |-> IF runs THEN <<p>> ELSE <<>>])
  /\ Quiet

\* SyncBack's walk of the workspace, which skips the runtime's own directory.
ToSync(s) ==
  Only(Walk, {p \in Present(s) : MatchesAny(Mapped(s, p), sess[s].conf.context)})

\* A detached Claude session has no pass of its own: its script only leaves the
\* output and the exit code behind.
HasPass(s) == sess[s].conf.context # {} /\ (Native(s) \/ ~sess[s].detached)

End(s) ==
  /\ Is(s, "run")
  /\ Advance(s, [pc |-> IF HasPass(s) /\ ToSync(s) # <<>> THEN "sync" ELSE "ended",
                 todo |-> IF HasPass(s) THEN ToSync(s) ELSE <<>>,
                 synced |-> {}, pass |-> HasPass(s),
                 status |-> IF sess[s].detached THEN sess[s].status
                            ELSE Updated(s, "completed")])
  /\ Quiet

\* MkdirAll and the opening of CopyFile, which truncates; cp does the same.
OpenSynced(s) ==
  /\ sess[s].pc \in {"hook", "sync"} /\ sess[s].todo # <<>> /\ ~sess[s].open
  /\ LET p == Mapped(s, Head(sess[s].todo))
     IN  files' = [files EXCEPT ![p] = <<>>]
  /\ dir' = TRUE
  /\ Advance(s, [open |-> TRUE])
  /\ UNCHANGED <<config, local, refs, cmds, scenario>>

\* The writing, at the start of the file: over what another writer has put there
\* since, and into nothing when the file has been removed.
Over(new, old) == new \o SubSeq(old, Len(new) + 1, Len(old))

\* Mutant: an error of the copy is not noticed.
WriteSynced_Unnoticed(s) ==
  /\ sess[s].open
  /\ Advance(s, [open |-> FALSE, todo |-> Tail(sess[s].todo),
                 synced |-> sess[s].synced \cup {Mapped(s, Head(sess[s].todo))},
                 pc |-> CASE Is(s, "hook") -> "run"
                          [] Is(s, "sync") /\ Len(sess[s].todo) = 1 -> "ended"
                          [] OTHER -> "sync"])
  /\ Quiet

WriteSynced(s) ==
  /\ sess[s].open
  /\ LET p == Head(sess[s].todo)
         q == Mapped(s, p)
     IN  /\ files' = [files EXCEPT ![q] = IF @ = Absent THEN Absent
                                          ELSE Over(sess[s].ws[p], @)]
         /\ Advance(s, [open |-> FALSE, todo |-> Tail(sess[s].todo),
                        synced |-> sess[s].synced \cup {q},
                        pc |-> CASE Is(s, "hook") -> "run"
                                 [] Is(s, "sync") /\ Len(sess[s].todo) = 1 -> "ended"
                                 [] OTHER -> "sync"])
  /\ UNCHANGED <<dir, config, local, refs, cmds, scenario>>

SessionStep(s) ==
  \/ SpawnSession(s) \/ SpawnSubSession(s) \/ CopyFile(s) \/ PrepareSession(s)
  \/ ResolveSkills(s) \/ Track(s) \/ Launch(s) \/ ResumeSession(s)
  \/ ResumeSubSession(s) \/ End(s) \/ OpenSynced(s) \/ WriteSynced(s)
  \/ \E p \in Files : Edit(s, p)

\* RemoveByAgent drops every entry of the agent, the workspaces stay.
DropSessions(c) ==
  /\ RemoveSessions(c)
  /\ sess' = [s \in Sessions |-> [sess[s] EXCEPT !.status = "none"]]

Next ==
  \/ \E s \in Sessions : SessionStep(s)
  \/ \E c \in Commands : (CommandStep(c) /\ UNCHANGED sess) \/ DropSessions(c)

Spec == Init /\ [][Next]_vars

-----------------------------------------------------------------------------
\* Type invariant of the templates (agent, skills, commands) and the sessions.
TypeOK ==
  /\ dir \in BOOLEAN
  /\ files \in [Files -> Texts \cup {Absent}]
  /\ local \in [Skills -> {Absent, "partial", "valid"}] /\ refs \subseteq Skills
  /\ \A s \in Sessions :
       /\ DOMAIN sess[s] = DOMAIN Unborn
       /\ sess[s].ws \in [Files -> Texts \cup {Absent}]
       /\ sess[s].prompt \in Texts \cup {Absent}
       /\ sess[s].failed \subseteq Skills
       /\ sess[s].status \in {"none", "active", "completed", "completed_error"}
       /\ sess[s].status # "none" => /\ sess[s].saved # Absent /\ sess[s].manifest
                                     /\ sess[s].dir /\ sess[s].ok

\* What the runtime reads as its instructions.
Payload(s) == IF Native(s) THEN sess[s].prompt ELSE sess[s].ws[ClaudeMD]

BeginsWithInstructions(s) ==
  (Is(s, "launch") /\ sess[s].given \notin {Absent, <<>>})
    => /\ Payload(s) # Absent
       /\ IsPrefix(Expanded(s, sess[s].given), Payload(s))

\* A runtime starts with the instructions the agent had when the session was
\* spawned, in front of every composed file, also when it is resumed after the
\* template has changed or gone; a session of Claude Code only until its
\* CLAUDE.md is composed anew (PrepareSession, ComposePrompt).
InstructionsKept == \A s \in Sessions : ~sess[s].replaced => BeginsWithInstructions(s)

\* A pattern for a directory whose name has an extension.
DottedDirectory(pat) == pat.slash /\ Last(pat.segs).ext # ""

\* Every pattern of the scenarios is one that the table is about.
PatternsListed ==
  \A sc \in Scenarios : \A pat \in sc.config.context : Listed(pat, Files)

\* The post-session pass writes exactly the files of the workspace that the
\* documented table of patterns names, under the name they have in the template,
\* CLAUDE.md as agent.md (SyncBackWithOptions, MatchOne).
SyncedAsDocumented ==
  \A s \in Sessions :
    LET pats == sess[s].conf.context
    IN  (Is(s, "ended") /\ sess[s].pass /\ \A pat \in pats : ~DottedDirectory(pat))
          => sess[s].synced =
               {Mapped(s, p) : p \in {q \in Files :
                  /\ sess[s].ws[q] # Absent
                  /\ \E pat \in pats : Documented(Mapped(s, q), pat)}}

\* A file of the template that nobody is writing has its text, however passes,
\* scripts, removals and copies overlap, unless a session was spawned from it
\* while it was truncated: such a session brings the empty file back
\* (CopyFile's O_TRUNC in SyncBack against CopyDir).
TextSurvives ==
  (\E p \in Files : /\ files[p] = <<>>
                     /\ \A s \in Sessions :
                          sess[s].open => Mapped(s, Head(sess[s].todo)) # p)
    => \E s \in Sessions : sess[s].torn
=============================================================================
