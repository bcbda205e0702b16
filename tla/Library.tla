------------------------------ MODULE Library ------------------------------
(***************************************************************************)
(* The part of a workspace that outlives sessions: one agent template      *)
(* (.toc/agents/<name>: oc-agent.yaml, agent.md and other files), the      *)
(* local skills (.toc/skills/<name>), the references to skills by URL      *)
(* (.toc/skills.yaml), and the commands that change them: agent create,    *)
(* agent add, agent remove, agent skills, skill create, skill add, skill   *)
(* remove, registry install.  Nothing here is locked: a command is a       *)
(* process that checks, then acts, step by step.                           *)
(***************************************************************************)
EXTENDS Sync, FiniteSets

CONSTANTS
  Commands,      \* commands run by users, each once
  Skills,        \* names of skills
  UserFiles,     \* files other than agent.md, CLAUDE.md and oc-agent.yaml
  InitialFiles,  \* the template's files at the start
  Absent,        \* no such file, no configuration, no skill
  Scenarios      \* bound: the runs to look at, as [config, sessions, launches,
                 \* faults, commands, kinds]: the agent's configuration, the
                 \* sessions that take part, how often each may be launched and
                 \* what may fail in it (write: a step of spawning, launch: the
                 \* start of the runtime), the commands that take part and of
                 \* which kinds

AgentMD  == <<Name("agent", "md")>>
ClaudeMD == <<Name("CLAUDE", "md")>>
Files    == UserFiles \cup {AgentMD, ClaudeMD}

Configurations == [runtime : {"claude", "native"}, context : SUBSET Patterns,
                   compose : Seq(Files), skills : SUBSET Skills]

ASSUME LibraryAssumption ==
  /\ UserFiles \subseteq Paths
  /\ \A sc \in Scenarios :
       /\ sc.config \in Configurations /\ sc.commands \subseteq Commands
       /\ sc.launches \in Nat /\ sc.faults \subseteq {"write", "launch"}
       /\ sc.kinds \subseteq {"agent create", "agent add", "agent remove", "agent skills",
                              "skill create", "skill add", "skill ref", "skill remove"}

\* The text "agent create" writes, and the texts of the registry.
Scaffold == <<"scaffold">>

VARIABLES
  dir,      \* does the template's directory exist
  config,   \* oc-agent.yaml, or Absent
  files,    \* the template's other files
  local,    \* the local skills: Absent, "partial" (no valid SKILL.md) or "valid"
  refs,     \* the names in skills.yaml
  cmds,     \* the commands: [kind, skill, pc, read]
  scenario  \* which of Scenarios this is

libraryVars == <<dir, config, files, local, refs, cmds, scenario>>

LibraryInit ==
  /\ scenario \in Scenarios
  /\ dir = TRUE /\ config = scenario.config /\ files = InitialFiles
  /\ refs \in SUBSET config.skills
  /\ local \in {f \in [Skills -> {Absent, "valid"}] :
                 \A k \in Skills \ config.skills : f[k] = Absent}
  /\ cmds = [c \in Commands |->
               [kind |-> "none", skill |-> Absent, pc |-> "unborn", read |-> Absent]]

-----------------------------------------------------------------------------
Begins(c, kind) ==
  cmds[c].pc = "unborn" /\ c \in scenario.commands /\ kind \in scenario.kinds
Takes(c, kind, k, pc, read) ==
  cmds' = [cmds EXCEPT ![c] = [kind |-> kind, skill |-> k, pc |-> pc, read |-> read]]
At(c, pc)   == cmds[c].pc = pc
Goes(c, pc) == cmds' = [cmds EXCEPT ![c].pc = pc]
The(c)      == cmds[c].skill

\* agent.CreateWithInstructions and installAgent look at the directory only.
CreateAgent(c) ==
  /\ Begins(c, "agent create") /\ ~dir
  /\ Takes(c, "agent create", Absent, "write config", Absent)
  /\ dir' = TRUE
  /\ UNCHANGED <<config, files, local, refs, scenario>>

\* installAgent: the clone may fail with nothing or with part of the files in
\* place, which nobody takes back; agent.md is copied before oc-agent.yaml.
AddAgent(c) ==
  /\ Begins(c, "agent add") /\ ~dir
  /\ \/ Takes(c, "agent add", Absent, "failed", Absent) /\ UNCHANGED <<dir, files>>
     \/ \E pc \in {"write config", "failed"} :
          /\ Takes(c, "agent add", Absent, pc, Absent)
          /\ dir' = TRUE /\ files' = [files EXCEPT ![AgentMD] = Scaffold]
  /\ UNCHANGED <<config, local, refs, scenario>>

\* A file cannot be written once another command has removed the directory.
WriteConfig(c) ==
  /\ At(c, "write config")
  /\ IF dir THEN /\ config' = scenario.config
                 /\ Goes(c, IF cmds[c].kind = "agent add" THEN "install skills"
                                                          ELSE "write agent.md")
            ELSE UNCHANGED config /\ Goes(c, "failed")
  /\ UNCHANGED <<dir, files, local, refs, scenario>>

WriteAgentMD(c) ==
  /\ At(c, "write agent.md")
  /\ IF dir THEN Goes(c, "done") /\ files' = [files EXCEPT ![AgentMD] = Scaffold]
            ELSE Goes(c, "failed") /\ UNCHANGED files
  /\ UNCHANGED <<dir, config, local, refs, scenario>>

\* The skills of the entry that no local directory has: the first that fails
\* ends the command, with the agent in place.
Outcomes == {Absent, "partial", "valid"}
InstallSkills(c) ==
  /\ At(c, "install skills")
  /\ \E k \in Skills :
       IF local[k] # Absent THEN Goes(c, "done") /\ UNCHANGED local
       ELSE \E got \in Outcomes :
              /\ local' = [local EXCEPT ![k] = got]
              /\ Goes(c, IF got = "valid" THEN "done" ELSE "failed")
  /\ UNCHANGED <<dir, config, files, refs, scenario>>

\* agent.Remove, then session.RemoveByAgent (whose effect on the sessions is
\* Templates').
RemoveAgent(c) ==
  /\ Begins(c, "agent remove") /\ dir
  /\ Takes(c, "agent remove", Absent, "remove sessions", Absent)
  /\ dir' = FALSE /\ config' = Absent /\ files' = [p \in Files |-> Absent]
  /\ UNCHANGED <<local, refs, scenario>>

RemoveSessions(c) ==
  /\ At(c, "remove sessions") /\ Goes(c, "done")
  /\ UNCHANGED <<dir, config, files, local, refs, scenario>>

\* agent skills: the configuration is loaded before the form, saved whole after.
LoadConfig(c) ==
  /\ Begins(c, "agent skills") /\ config # Absent
  /\ Takes(c, "agent skills", Absent, "save config", config)
  /\ UNCHANGED <<dir, config, files, local, refs, scenario>>

SaveConfig(c) ==
  /\ At(c, "save config")
  /\ IF dir THEN /\ \E ks \in SUBSET Skills :
                      config' = [cmds[c].read EXCEPT !.skills = ks]
                 /\ Goes(c, "done")
            ELSE UNCHANGED config /\ Goes(c, "failed")
  /\ UNCHANGED <<dir, files, local, refs, scenario>>

-----------------------------------------------------------------------------
\* skill.CreateFromMeta: the directory, then SKILL.md.
CreateSkill(c, k) ==
  /\ Begins(c, "skill create") /\ local[k] = Absent
  /\ Takes(c, "skill create", k, "write skill", Absent)
  /\ local' = [local EXCEPT ![k] = "partial"]
  /\ UNCHANGED <<dir, config, files, refs, scenario>>

WriteSkill(c) ==
  /\ At(c, "write skill")
  /\ IF local[The(c)] = Absent THEN Goes(c, "failed") /\ UNCHANGED local
     ELSE Goes(c, "done") /\ local' = [local EXCEPT ![The(c)] = "valid"]
  /\ UNCHANGED <<dir, config, files, refs, scenario>>

\* installSkill: a copy that fails leaves what it has copied; a skill that turns
\* out invalid is removed.
AddSkill(c, k) ==
  /\ Begins(c, "skill add") /\ local[k] = Absent
  /\ \E got \in Outcomes :
       /\ local' = [local EXCEPT ![k] = got]
       /\ Takes(c, "skill add", k, IF got = "valid" THEN "done" ELSE "failed", Absent)
  /\ UNCHANGED <<dir, config, files, refs, scenario>>

\* addFromURL and AddRef: skills.yaml is read, and written whole later.
LoadRefs(c, k) ==
  /\ Begins(c, "skill ref") /\ local[k] = Absent /\ k \notin refs
  /\ Takes(c, "skill ref", k, "save refs", refs \cup {k})
  /\ UNCHANGED <<dir, config, files, local, refs, scenario>>

\* skill remove: both kinds are looked up before anything is removed.
RemoveSkill(c, k) ==
  /\ Begins(c, "skill remove") /\ (local[k] # Absent \/ k \in refs)
  /\ local' = [local EXCEPT ![k] = Absent]
  /\ IF k \in refs THEN Takes(c, "skill remove", k, "save refs", refs \ {k})
                   ELSE Takes(c, "skill remove", k, "done", Absent)
  /\ UNCHANGED <<dir, config, files, refs, scenario>>

SaveRefs(c) ==
  /\ At(c, "save refs") /\ refs' = cmds[c].read /\ Goes(c, "done")
  /\ UNCHANGED <<dir, config, files, local, scenario>>

\* The steps that leave the sessions alone.
CommandStep(c) ==
  \/ CreateAgent(c) \/ AddAgent(c) \/ WriteConfig(c) \/ WriteAgentMD(c)
  \/ InstallSkills(c) \/ RemoveAgent(c) \/ LoadConfig(c) \/ SaveConfig(c)
  \/ \E k \in Skills : CreateSkill(c, k) \/ AddSkill(c, k) \/ LoadRefs(c, k)
                       \/ RemoveSkill(c, k)
  \/ WriteSkill(c) \/ SaveRefs(c)
=============================================================================
