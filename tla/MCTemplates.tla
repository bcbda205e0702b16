---------------------------- MODULE MCTemplates ----------------------------
EXTENDS Templates, TLC

CONSTANTS k, s1, s2, c1, c2

Symmetric == Permutations(Sessions) \cup Permutations(Commands)

Soul  == <<Name("soul", "md")>>
Notes == <<Name("context", ""), Name("notes", "md")>>

MCUserFiles == {Soul, Notes}
MCWalk      == <<ClaudeMD, AgentMD, Notes, Soul>>
MCFiles     == [p \in {ClaudeMD, AgentMD, Notes, Soul} |->
                  CASE p = AgentMD -> <<"instructions", Var>>
                    [] p = Soul    -> <<"soul">>
                    [] p = Notes   -> <<"notes">>
                    [] OTHER       -> Absent]

Pat(segs, slash) == [segs |-> segs, slash |-> slash]
Dir      == Name("context", "")
AllMD    == Pat(<<Glob("md")>>, FALSE)
Below    == Pat(<<Dir, Deep, Glob("md")>>, FALSE)
Directly == Pat(<<Dir, Glob("md")>>, FALSE)
Slashed  == Pat(<<Dir>>, TRUE)
Dotted   == Pat(<<Name("v", "2")>>, TRUE)

Of(runtime, context, compose, skills) ==
  [runtime |-> runtime, context |-> context, compose |-> compose, skills |-> skills]

AgentKinds == {"agent create", "agent add", "agent remove", "agent skills"}
SkillKinds == {"skill create", "skill add", "skill ref", "skill remove"}

Sequential(cfg) ==
  [config |-> cfg, sessions |-> {s1}, launches |-> 2, faults |-> {"write", "launch"},
   commands |-> {}, kinds |-> {}]
Concurrent(cfg, commands, kinds) ==
  [config |-> cfg, sessions |-> {s1, s2}, launches |-> 1, faults |-> {},
   commands |-> commands, kinds |-> kinds]

\* Each runtime with each form of pattern, with and without a composed file; two
\* sessions at once while the agent is removed; agents and skills that come and
\* go around a session.
MCScenarios ==
  {Sequential(Of(r, c, m, {})) : r \in {"claude", "native"}, m \in {<<>>, <<Soul>>},
     c \in {{}, {AllMD}, {Slashed}, {Directly}, {Dotted}, {Below}}}
  \cup {Concurrent(Of("claude", {AllMD}, <<Soul>>, {}), {}, {}),
        Concurrent(Of("native", {Slashed}, <<>>, {}), {c1}, AgentKinds),
        [Sequential(Of("native", {Slashed}, <<Soul>>, {k})) EXCEPT
           !.commands = {c1, c2}, !.kinds = AgentKinds \cup SkillKinds]}

\* The hypothesis under which PromptProofs has SyncedAsDocumented in general.
ASSUME MCPatternsListed == PatternsListed
=============================================================================
