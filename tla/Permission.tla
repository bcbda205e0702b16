----------------------------- MODULE Permission -----------------------------
(***************************************************************************)
(* How the grants of a permission manifest decide over an action on a      *)
(* target (EvaluatePermission and its specificity scores).  A subject or   *)
(* an action is a pair of resource and verb as ParsePermission splits      *)
(* them; a scope is a pair of its form and its text.                       *)
(***************************************************************************)
EXTENDS Integers, Sequences, FiniteSetsExt

CONSTANTS
  Slack,        \* whether the integration is slack, or one of the others
  Capabilities  \* capability name -> the actions it stands for

ASSUME PermissionAssumption == Slack \in BOOLEAN

NoMatch == -1

AnyScope == [form |-> "any", text |-> "*"]

\* ActionSpecificity of a grant's subject s for action a.
ActionScore(s, a) ==
  CASE s = [resource |-> "", verb |-> "*"] -> 1
    [] s.resource = "" /\ s.verb # "*" ->
         IF s = a THEN 50
         ELSE IF s.verb \in DOMAIN Capabilities /\ a \in Capabilities[s.verb]
         THEN 40 ELSE NoMatch
    [] OTHER ->
         IF s.resource \in {"*", a.resource} /\ s.verb \in {"*", a.verb}
         THEN 10 + (IF s.resource = "*" THEN 0 ELSE 20)
                 + (IF s.verb = "*" THEN 0 ELSE 10)
         ELSE NoMatch

\* The class scopes of slack and the kinds of conversation each covers.
ClassKinds == [c \in {"public/*", "private/*", "channels/*", "dm/*", "mpim/*",
                      "conversations/*"} |->
  CASE c = "public/*"   -> {"public"}
    [] c = "private/*"  -> {"private"}
    [] c = "channels/*" -> {"public", "private", "channel"}
    [] c = "dm/*"       -> {"dm"}
    [] c = "mpim/*"     -> {"mpim"}
    [] OTHER -> {"public", "private", "channel", "dm", "mpim", "conversation"}]

ClassScore(c) == CASE c \in {"public/*", "private/*"} -> 70
                   [] c = "conversations/*" -> 20
                   [] OTHER -> 65

\* slackScopeSpecificity
SlackScopeScore(s, t) ==
  CASE s = AnyScope -> 1
    [] s.form = "id" -> IF t.id # "" /\ s.text = t.id THEN 120 ELSE NoMatch
    [] s.form = "class" ->
         IF t.kind \in ClassKinds[s.text] THEN ClassScore(s.text) ELSE NoMatch
    [] s.form = "#name" -> IF t.name # "" /\ s.text = t.name THEN 100 ELSE NoMatch
    [] s.form = "rawId" -> IF (t.id # "" /\ s.text = t.id) \/ s = t.raw
                           THEN 110 ELSE NoMatch
    [] s.form = "dm" -> IF t.kind = "dm" THEN 60 ELSE NoMatch
    [] s.form = "channels" -> IF t.kind \in {"public", "private"} THEN 40 ELSE NoMatch
    [] OTHER -> IF t.name # "" /\ s.text = t.name THEN 95
                ELSE IF s = t.raw THEN 80 ELSE NoMatch

\* genericScopeSpecificity
GenericScopeScore(s, t) ==
  IF s = AnyScope THEN 1 ELSE IF s \in {t.exact, t.raw} THEN 50 ELSE NoMatch

ScopeScore(s, t) == IF Slack THEN SlackScopeScore(s, t) ELSE GenericScopeScore(s, t)

\* The best of a grant's scopes counts.
Score(g, a, t) ==
  LET action == ActionScore(g.subject, a)
      scope  == Max({NoMatch} \cup {ScopeScore(s, t) : s \in g.scopes})
  IN  IF action = NoMatch \/ scope = NoMatch THEN NoMatch ELSE action + scope

Matching(gs, a, t) == {i \in 1 .. Len(gs) : Score(gs[i], a, t) # NoMatch}

Highest(gs, a, t) ==
  {i \in Matching(gs, a, t) :
     \A j \in Matching(gs, a, t) : Score(gs[j], a, t) <= Score(gs[i], a, t)}

\* Mutant: the last of the best grants decides, as with >= for >.
Decides_Last(gs, a, t, i) ==
  i \in Highest(gs, a, t) /\ \A j \in Highest(gs, a, t) : j <= i

\* The first of the grants with the highest score decides.
Decides(gs, a, t, i) ==
  i \in Highest(gs, a, t) /\ \A j \in Highest(gs, a, t) : i <= j

\* The loop of EvaluatePermission: a later grant needs a higher score.
LoopBest(gs, a, t) ==
  LET score(i) == IF i = 0 THEN NoMatch ELSE Score(gs[i], a, t)
      best[i \in 0 .. Len(gs)] ==
        IF i = 0 THEN 0
        ELSE IF score(i) > score(best[i - 1]) THEN i ELSE best[i - 1]
  IN  best[Len(gs)]

\* EvaluatePermission: without a matching grant the action is off.
Says(gs, a, t, mode) ==
  \E i \in 1 .. Len(gs) : Decides(gs, a, t, i) /\ gs[i].mode = mode
Level(gs, a, t) == IF Says(gs, a, t, "on") THEN "on"
                   ELSE IF Says(gs, a, t, "ask") THEN "ask" ELSE "off"

\* ExactPermissionScope
ExactScope(t) == IF t.id # "" THEN [form |-> "id", text |-> t.id] ELSE t.exact
=============================================================================
