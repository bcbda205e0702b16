--------------------------- MODULE GatewayProofs ---------------------------
(***************************************************************************)
(* What a manifest and the answers of the user allow, that the limit of an *)
(* action holds, and that the loop over the grants ends with the first of  *)
(* the best, for any manifest, any integration and any number of           *)
(* concurrent invocations.                                                 *)
(***************************************************************************)
EXTENDS Gateway, FiniteSetTheorems, WellFoundedInduction, TLAPS

\* The grants that the "always" answers given so far stand for.
Overrides ==
  {[mode |-> "on", subject |-> w.subject, scopes |-> {ExactScope(w.target)}] : w \in always}

\* A manifest of this session: the one it was spawned with, and overrides.
Prefixed(m) ==
  /\ m \in Seq(Range(m))
  /\ Len(initial) <= Len(m)
  /\ \A i \in 1 .. Len(initial) : m[i] = initial[i]
Extended(m) ==
  Prefixed(m) /\ \A i \in Len(initial) + 1 .. Len(m) : m[i] \in Overrides

Deciding  == {"decide", "asking"}
Recording == {"lock", "reload", "append"}
Permitted == {"limit", "count", "save", "call"}
Gone      == {"idle", "dead"}
PcStates  == Gone \cup {"load"} \cup Deciding \cup Recording \cup Permitted

IsFun(f) == f = [p \in Procs |-> f[p]]

Shape ==
  /\ pc \in [Procs -> PcStates]
  /\ lock \in Procs \cup {NoProc}
  /\ IsFun(req) /\ IsFun(tool) /\ IsFun(seen) /\ IsFun(reply) /\ IsFun(grant)
  /\ initial \in Seq(Range(initial))

\* The lock is held by whoever is inside the critical section, and what it
\* has read there is what the file still holds.
LockInv ==
  \A p \in Procs : /\ pc[p] \in {"reload", "append"} <=> lock = p
                   /\ pc[p] = "append" => seen[p] = manifest

\* Every manifest that is around is one of this session.
ManifestInv ==
  /\ Extended(manifest) /\ Extended(runner)
  /\ recorded \subseteq Range(manifest)
  /\ \A p \in Procs :
       /\ pc[p] \in Deciding => Extended(seen[p])
       /\ pc[p] \in Recording => grant[p] \in Overrides /\ reply[p] = "allow_always"

\* Past the decision the reason for it stands.
Authorised(p) ==
  \/ Level(initial, req[p].action, req[p].target) = "on"
  \/ reply[p] \in Approvals
  \/ Covered(req[p].action, req[p].target)
AuthInv == \A p \in Procs : pc[p] \in Permitted => Authorised(p)

IInv == Shape /\ LockInv /\ ManifestInv /\ AuthInv

-----------------------------------------------------------------------------
(* Grants *)

\* Appending keeps what is there and adds one element.
LEMMA Appended ==
  ASSUME NEW s, s \in Seq(Range(s)), NEW g
  PROVE  /\ Append(s, g) \in Seq(Range(Append(s, g)))
         /\ Len(Append(s, g)) = Len(s) + 1
         /\ \A i \in 1 .. Len(s) : Append(s, g)[i] = s[i]
         /\ Append(s, g)[Len(s) + 1] = g
         /\ Range(Append(s, g)) = Range(s) \cup {g}
<1> DEFINE S == Range(s) \cup {g}
           r == Append(s, g)
<1>1. s \in Seq(S) /\ g \in S
  OBVIOUS
<1>2. /\ r \in Seq(S) /\ Len(r) = Len(s) + 1 /\ Len(s) \in Nat
      /\ \A i \in 1 .. Len(s) : r[i] = s[i]
      /\ r[Len(s) + 1] = g
  BY <1>1
<1>3. DOMAIN r = 1 .. Len(s) + 1 /\ DOMAIN s = 1 .. Len(s)
  BY <1>1, <1>2
<1>4. Range(r) = S
  <2>1. ASSUME NEW x \in Range(r) PROVE x \in S
    BY <2>1, <1>2, <1>3 DEF Range
  <2>2. ASSUME NEW x \in S PROVE x \in Range(r)
    <3>1. CASE x = g
      BY <3>1, <1>2, <1>3 DEF Range
    <3>2. CASE x \in Range(s)
      <4>1. PICK i \in DOMAIN s : x = s[i]  BY <3>2 DEF Range
      <4>2. i \in DOMAIN r /\ r[i] = x      BY <4>1, <1>2, <1>3
      <4>3. QED  BY <4>2 DEF Range
    <3>3. QED  BY <3>1, <3>2
  <2>3. QED  BY <2>1, <2>2
<1>5. QED  BY <1>2, <1>4

\* What matches no grant that was added is decided as before.
LEMMA Unmatched ==
  ASSUME NEW m, Prefixed(m), initial \in Seq(Range(initial)), NEW a, NEW t,
         \A i \in Len(initial) + 1 .. Len(m) : Score(m[i], a, t) = NoMatch
  PROVE  Level(m, a, t) = Level(initial, a, t)
<1>1. Len(initial) \in Nat /\ Len(m) \in Nat /\ Len(initial) <= Len(m)
  BY DEF Prefixed
<1>2. \A i \in 1 .. Len(initial) : m[i] = initial[i]
  BY DEF Prefixed
<1>3. Matching(m, a, t) = Matching(initial, a, t)
  <2>1. \A i \in 1 .. Len(m) : i \in 1 .. Len(initial) \/ i \in Len(initial) + 1 .. Len(m)
    BY <1>1
  <2>2. \A i \in 1 .. Len(initial) : i \in 1 .. Len(m)
    BY <1>1
  <2>3. QED  BY <1>2, <2>1, <2>2 DEF Matching
<1>4. Highest(m, a, t) = Highest(initial, a, t)
  <2>1. \A i \in Matching(m, a, t) : i \in 1 .. Len(initial) /\ m[i] = initial[i]
    BY <1>2, <1>3 DEF Matching
  <2>2. QED  BY <1>3, <2>1 DEF Highest
<1>5. ASSUME NEW x PROVE Says(m, a, t, x) <=> Says(initial, a, t, x)
  <2>1. \A i : Decides(m, a, t, i) <=> Decides(initial, a, t, i)
    BY <1>4 DEF Decides
  <2>2. \A i : Decides(m, a, t, i) => i \in 1 .. Len(initial) /\ i \in 1 .. Len(m) /\ m[i] = initial[i]
    BY <1>1, <1>2, <1>4 DEF Decides, Highest, Matching
  <2>3. QED  BY <2>1, <2>2 DEF Says
<1>6. QED  BY <1>5 DEF Level

\* An override matches only where the "always" it stands for covers.
LEMMA OverrideCovers ==
  ASSUME NEW g \in Overrides, NEW a, NEW t, Score(g, a, t) # NoMatch
  PROVE  Covered(a, t)
<1>1. PICK w \in always :
        g = [mode |-> "on", subject |-> w.subject, scopes |-> {ExactScope(w.target)}]
  BY DEF Overrides
<1>2. g.subject = w.subject /\ g.scopes = {ExactScope(w.target)}
  BY <1>1
<1> DEFINE x == ScopeScore(ExactScope(w.target), t)
<1>3. {ScopeScore(s, t) : s \in g.scopes} = {x}
  BY <1>2
<1>4. ASSUME x = NoMatch PROVE Max({NoMatch} \cup {x}) = NoMatch
  BY <1>4 DEF Max, NoMatch
<1>5. ActionScore(g.subject, a) # NoMatch
      /\ Max({NoMatch} \cup {ScopeScore(s, t) : s \in g.scopes}) # NoMatch
  BY DEF Score
<1>6. x # NoMatch
  BY <1>3, <1>4, <1>5
<1>7. QED  BY <1>2, <1>5, <1>6 DEF Covered

\* A manifest of this session says "on" only where it did from the start or
\* the user said so.
LEMMA OnMeans ==
  ASSUME NEW m, Extended(m), initial \in Seq(Range(initial)), NEW a, NEW t,
         Level(m, a, t) = "on"
  PROVE  Level(initial, a, t) = "on" \/ Covered(a, t)
<1>1. CASE \A i \in Len(initial) + 1 .. Len(m) : Score(m[i], a, t) = NoMatch
  BY <1>1, Unmatched DEF Extended
<1>2. CASE \E i \in Len(initial) + 1 .. Len(m) : Score(m[i], a, t) # NoMatch
  BY <1>2, OverrideCovers DEF Extended
<1>3. QED  BY <1>1, <1>2

-----------------------------------------------------------------------------
(* Steps *)

\* What has been said is not taken back.
LEMMA Mono ==
  ASSUME initial' = initial, always \subseteq always'
  PROVE  /\ Overrides \subseteq Overrides'
         /\ \A m : Extended(m) => Extended(m)'
         /\ \A a, t : Covered(a, t) => Covered(a, t)'
         /\ \A a, t : Level(initial, a, t) = "on" => Level(initial, a, t)' = "on"
<1>1. Overrides \subseteq Overrides'
  BY DEF Overrides
<1>2. \A m : Prefixed(m) => Prefixed(m)'
  BY DEF Prefixed
<1>3. \A m : Extended(m) => Extended(m)'
  BY <1>1, <1>2 DEF Extended
<1>4. \A a, t : Covered(a, t) => Covered(a, t)'
  BY DEF Covered
<1>5. \A a, t : Level(initial, a, t) = "on" => Level(initial, a, t)' = "on"
  OBVIOUS
<1>6. QED  BY <1>1, <1>3, <1>4, <1>5

\* An invocation that ends, or goes on from where it was permitted.
LEMMA Quiet ==
  ASSUME IInv, NEW p \in Procs, NEW x \in Gone \cup Permitted,
         initial' = initial, runner' = runner, manifest' = manifest,
         always' = always, recorded' = recorded, req' = req, tool' = tool,
         pc' = [pc EXCEPT ![p] = x],
         lock' = IF lock = p THEN NoProc ELSE lock,
         x \in Gone \/ (Authorised(p) /\ reply'[p] = reply[p]),
         \A q \in Procs \ {p} : seen'[q] = seen[q] /\ reply'[q] = reply[q] /\ grant'[q] = grant[q],
         IsFun(seen)', IsFun(reply)', IsFun(grant)'
  PROVE  IInv'
<1> USE GatewayAssumption
<1>0. /\ pc'[p] = x /\ \A q \in Procs \ {p} : pc'[q] = pc[q]
      /\ x \notin Deciding \cup Recording \cup {"reload", "append"}
  BY DEF IInv, Shape, Permitted, Deciding, Recording, Gone
<1>1. Shape'
  BY DEF IInv, Shape, PcStates, Gone, Permitted, IsFun
<1>2. LockInv'
  <2> SUFFICES ASSUME NEW q \in Procs
               PROVE  /\ pc'[q] \in {"reload", "append"} <=> lock' = q
                      /\ pc'[q] = "append" => seen'[q] = manifest'
    BY DEF LockInv
  <2>1. CASE q = p
    BY <2>1, <1>0 DEF IInv, Shape
  <2>2. CASE q # p
    BY <2>2, <1>0 DEF IInv, Shape, LockInv
  <2>3. QED  BY <2>1, <2>2
<1>3. ManifestInv'
  <2>1. Extended(manifest)' /\ Extended(runner)'
    BY Mono DEF IInv, ManifestInv, Extended, Prefixed, Overrides
  <2>2. (recorded \subseteq Range(manifest))'
    BY DEF IInv, ManifestInv
  <2>3. ASSUME NEW q \in Procs
        PROVE  (/\ pc[q] \in Deciding => Extended(seen[q])
                /\ pc[q] \in Recording => grant[q] \in Overrides /\ reply[q] = "allow_always")'
    <3>1. CASE q = p
      BY <3>1, <1>0
    <3>2. CASE q # p
      <4>1. /\ pc'[q] = pc[q] /\ seen'[q] = seen[q]
            /\ grant'[q] = grant[q] /\ reply'[q] = reply[q]
        BY <3>2, <1>0
      <4>2. /\ pc[q] \in Deciding => Extended(seen[q])
            /\ pc[q] \in Recording => grant[q] \in Overrides /\ reply[q] = "allow_always"
        BY DEF IInv, ManifestInv
      <4>3. Extended(seen[q]) => Extended(seen[q])'
        BY <4>1 DEF Extended, Prefixed, Overrides
      <4>4. grant[q] \in Overrides => (grant[q] \in Overrides)'
        BY <4>1 DEF Overrides
      <4>5. QED  BY <4>1, <4>2, <4>3, <4>4 DEF Deciding, Recording
    <3>3. QED  BY <3>1, <3>2
  <2>4. QED  BY <2>1, <2>2, <2>3 DEF ManifestInv
<1>4. AuthInv'
  BY <1>0 DEF IInv, AuthInv, Authorised, Covered, Permitted, Gone
<1>5. QED  BY <1>1, <1>2, <1>3, <1>4 DEF IInv

\* Nobody has begun: the invariant holds.
LEMMA InitIInv == Init => IInv
<1> SUFFICES ASSUME Init PROVE IInv  OBVIOUS
<1> USE GatewayAssumption DEF Init
<1>1. Shape
  BY DEF Shape, PcStates, Gone, IsFun
<1>2. LockInv
  BY DEF LockInv
<1>3. Extended(initial)
  <2>1. initial \in Seq(Range(initial)) /\ Len(initial) \in Nat  OBVIOUS
  <2>2. QED  BY <2>1 DEF Extended, Prefixed
<1>4. ManifestInv
  BY <1>3 DEF ManifestInv, Deciding, Recording
<1>5. AuthInv
  BY DEF AuthInv, Permitted
<1>6. QED  BY <1>1, <1>2, <1>4, <1>5 DEF IInv

\* The invocations that are not at the step keep their part of IInv.
LEMMA Others ==
  ASSUME IInv, NEW q \in Procs,
         initial' = initial, always \subseteq always',
         seen'[q] = seen[q], grant'[q] = grant[q], reply'[q] = reply[q], req'[q] = req[q]
  PROVE  /\ pc[q] \in Deciding => Extended(seen[q])'
         /\ pc[q] \in Recording => (grant[q] \in Overrides /\ reply[q] = "allow_always")'
         /\ pc[q] \in Permitted => Authorised(q)'
<1>1. /\ pc[q] \in Deciding => Extended(seen[q])
      /\ pc[q] \in Recording => grant[q] \in Overrides /\ reply[q] = "allow_always"
      /\ pc[q] \in Permitted => Authorised(q)
  BY DEF IInv, ManifestInv, AuthInv
<1>2. Overrides \subseteq Overrides'
  BY DEF Overrides
<1>3. Extended(seen[q]) => Extended(seen[q])'
  BY <1>2 DEF Extended, Prefixed
<1>4. Authorised(q) => Authorised(q)'
  BY DEF Authorised, Covered
<1>5. QED  BY <1>1, <1>2, <1>3, <1>4

\* Up to the decision a process only learns what the manifest and the user say.
LEMMA DeciderSteps ==
  ASSUME IInv, NEW p \in Procs,
         Begin(p) \/ LoadManifest(p) \/ Answer(p)
  PROVE  IInv'
<1>1. /\ initial' = initial /\ runner' = runner /\ manifest' = manifest /\ lock' = lock
      /\ always' = always /\ recorded' = recorded /\ grant' = grant
      /\ pc[p] \in {"idle", "load", "asking"}
      /\ pc' \in [Procs -> PcStates]
      /\ pc'[p] \in {"load", "decide", "asking"}
      /\ \A q \in Procs \ {p} : /\ pc'[q] = pc[q] /\ seen'[q] = seen[q]
                                 /\ reply'[q] = reply[q] /\ req'[q] = req[q]
      /\ IsFun(req)' /\ IsFun(tool)' /\ IsFun(seen)' /\ IsFun(reply)'
  BY DEF Begin, LoadManifest, Answer, files, history, request, IInv, Shape, IsFun,
         PcStates, Deciding
<1>2. Shape'
  BY <1>1 DEF IInv, Shape, IsFun
<1>3. LockInv'
  BY <1>1 DEF IInv, LockInv
<1>4. Extended(manifest) /\ Extended(runner)
  BY DEF IInv, ManifestInv
<1>5. Extended(manifest)' /\ Extended(runner)'
  BY <1>1, <1>4 DEF Extended, Prefixed, Overrides
<1>6. pc'[p] \in Deciding => Extended(seen[p])'
  <2>1. CASE Begin(p)
    BY <2>1, <1>1, <1>5 DEF Begin, IInv, Shape, IsFun, Deciding, Extended, Prefixed
  <2>2. CASE LoadManifest(p)
    BY <2>2, <1>1, <1>5 DEF LoadManifest, IInv, Shape, IsFun, Extended, Prefixed
  <2>3. CASE Answer(p)
    <3>1. seen' = seen /\ pc[p] \in Deciding  BY <2>3 DEF Answer, Deciding
    <3>2. Extended(seen[p])  BY <3>1 DEF IInv, ManifestInv
    <3>3. QED  BY <3>1, <3>2, <1>1 DEF Extended, Prefixed, Overrides
  <2>4. QED  BY <2>1, <2>2, <2>3
<1>7. ManifestInv'
  <2>1. (recorded \subseteq Range(manifest))'
    BY <1>1 DEF IInv, ManifestInv
  <2>2. \A q \in Procs : (/\ pc[q] \in Deciding => Extended(seen[q])
                          /\ pc[q] \in Recording =>
                               grant[q] \in Overrides /\ reply[q] = "allow_always")'
    BY <1>1, <1>6, Others DEF Recording
  <2>3. QED  BY <1>5, <2>1, <2>2 DEF ManifestInv
<1>8. AuthInv'
  BY <1>1, Others DEF AuthInv, Permitted
<1>9. QED  BY <1>2, <1>3, <1>7, <1>8 DEF IInv

\* The runner starts again, the clock ticks, or nothing happens.
LEMMA RestSteps ==
  ASSUME IInv, Restart \/ Tick \/ UNCHANGED vars
  PROVE  IInv'
<1>1. /\ initial' = initial /\ manifest' = manifest /\ lock' = lock
      /\ pc' \in [Procs -> PcStates]
      /\ \A q \in Procs : pc'[q] = pc[q] \/ (pc[q] = "dead" /\ pc'[q] = "idle")
      /\ always' = always /\ recorded' = recorded /\ grant' = grant
      /\ seen' = seen /\ reply' = reply /\ req' = req /\ tool' = tool
      /\ runner' \in {runner, manifest}
  BY DEF Restart, Tick, vars, files, locals, request, history, IInv, Shape, PcStates, Gone
<1>2. Shape' /\ LockInv'
  BY <1>1 DEF IInv, Shape, IsFun, LockInv
<1>3. Extended(manifest)' /\ Extended(runner)'
  BY <1>1 DEF IInv, ManifestInv, Extended, Prefixed, Overrides
<1>4. ManifestInv'
  <2>1. \A q \in Procs : (/\ pc[q] \in Deciding => Extended(seen[q])
                          /\ pc[q] \in Recording =>
                               grant[q] \in Overrides /\ reply[q] = "allow_always")'
    BY <1>1, Others DEF Deciding, Recording
  <2>2. QED  BY <1>1, <1>3, <2>1 DEF IInv, ManifestInv
<1>5. AuthInv'
  BY <1>1, Others DEF AuthInv, Permitted
<1>6. QED  BY <1>2, <1>4, <1>5 DEF IInv

\* A process that asks has decided so by the manifest it has loaded.
LEMMA AskStep ==
  ASSUME IInv, NEW p \in Procs, Decide(p), pc'[p] = "asking"
  PROVE  IInv'
<1>1. /\ pc[p] = "decide"
      /\ pc' = [pc EXCEPT ![p] = "asking"]
      /\ UNCHANGED <<seen, reply, grant, initial, runner, manifest, lock, always,
                     recorded, req, tool>>
  BY DEF Decide, Proceed, Goto, End, Leave, files, history, request, IInv, Shape
<1>2. Shape'
  BY <1>1 DEF IInv, Shape, IsFun, PcStates, Gone, Deciding
<1>3. LockInv' /\ AuthInv'
  BY <1>1 DEF IInv, Shape, LockInv, AuthInv, Authorised, Covered, Permitted
<1>4. Extended(manifest)' /\ Extended(runner)'
  BY <1>1 DEF IInv, ManifestInv, Extended, Prefixed, Overrides
<1>5. ManifestInv'
  <2>1. \A q \in Procs : (/\ pc[q] \in Deciding => Extended(seen[q])
                          /\ pc[q] \in Recording =>
                               grant[q] \in Overrides /\ reply[q] = "allow_always")'
    BY <1>1, Others DEF IInv, Shape, Deciding, Recording
  <2>2. QED  BY <1>1, <1>4, <2>1 DEF IInv, ManifestInv
<1>6. QED  BY <1>2, <1>3, <1>5 DEF IInv

\* "Always": the override to record stands for the new answer.
LEMMA AlwaysStep ==
  ASSUME IInv, NEW p \in Procs, HearAnswer(p), reply[p] = "allow_always"
  PROVE  IInv'
<1>1. PICK i \in 1 .. Len(seen[p]) :
        /\ grant' = [grant EXCEPT ![p] = OverrideFor(seen[p][i], req[p].target)]
        /\ always' = always \cup {[action |-> req[p].action, subject |-> seen[p][i].subject,
                                   target |-> req[p].target]}
  BY DEF HearAnswer
<1>2. /\ pc[p] = "asking" /\ pc' = [pc EXCEPT ![p] = "lock"]
      /\ UNCHANGED <<seen, reply, initial, runner, manifest, lock, recorded, req, tool>>
  BY DEF HearAnswer, files, request
<1>3. Shape'
  BY <1>1, <1>2 DEF IInv, Shape, IsFun, PcStates, Gone, Recording
<1>4. LockInv'
  BY <1>2 DEF IInv, Shape, LockInv
<1>5. Overrides \subseteq Overrides'
  BY <1>1 DEF Overrides
<1>6. Extended(manifest)' /\ Extended(runner)'
  BY <1>2, <1>5 DEF IInv, ManifestInv, Extended, Prefixed
<1>7. grant'[p] \in Overrides'
  <2>1. grant'[p] = OverrideFor(seen[p][i], req[p].target)
    BY <1>1 DEF IInv, Shape, IsFun
  <2>2. PICK w \in always' : /\ w.subject = seen[p][i].subject
                             /\ w.target = req[p].target
    <3> DEFINE new == [action |-> req[p].action, subject |-> seen[p][i].subject,
                       target |-> req[p].target]
    <3>1. new \in always'  BY <1>1
    <3>2. new.subject = seen[p][i].subject /\ new.target = req[p].target  OBVIOUS
    <3> HIDE DEF new
    <3>3. QED  BY <3>1, <3>2
  <2>3. grant'[p] = [mode |-> "on", subject |-> w.subject, scopes |-> {ExactScope(w.target)}]
    BY <2>1, <2>2 DEF OverrideFor
  <2>4. QED  BY <2>3 DEF Overrides
<1>8. \A q \in Procs \ {p} : pc'[q] = pc[q] /\ grant'[q] = grant[q]
  BY <1>1, <1>2 DEF IInv, Shape, IsFun
<1>9. pc'[p] = "lock"
  BY <1>2 DEF IInv, Shape
<1>10. ManifestInv'
  <2>1. \A q \in Procs : (/\ pc[q] \in Deciding => Extended(seen[q])
                          /\ pc[q] \in Recording =>
                               grant[q] \in Overrides /\ reply[q] = "allow_always")'
    <3>1. always \subseteq always'  BY <1>1
    <3>2. QED  BY <1>2, <1>7, <1>8, <1>9, <3>1, Others DEF Deciding
  <2>2. QED  BY <1>2, <1>6, <2>1 DEF IInv, ManifestInv
<1>11. AuthInv'
  <2>1. always \subseteq always'  BY <1>1
  <2>2. QED  BY <1>2, <1>8, <1>9, <2>1, Others DEF AuthInv, Permitted
<1>12. QED  BY <1>3, <1>4, <1>10, <1>11 DEF IInv

\* Taking the lock and reading again keep one process in the critical section.
LEMMA LockSteps ==
  ASSUME IInv, NEW p \in Procs, LockManifest(p) \/ Reload(p)
  PROVE  IInv'
<1> USE GatewayAssumption
<1>1. /\ pc[p] \in {"lock", "reload"} /\ pc'[p] \in {"reload", "append"}
      /\ pc' \in [Procs -> PcStates]
      /\ UNCHANGED <<reply, grant, initial, runner, manifest, always, recorded, req, tool>>
      /\ \A q \in Procs \ {p} : pc'[q] = pc[q] /\ seen'[q] = seen[q]
      /\ IsFun(seen)'
      /\ lock' = p
      /\ pc'[p] = "append" => seen'[p] = manifest
      /\ lock \in {p, NoProc}
  BY DEF LockManifest, Reload, Goto, files, history, request, IInv, Shape, IsFun,
         LockInv, PcStates, Recording
<1>2. Shape'
  BY <1>1 DEF IInv, Shape, IsFun
<1>3. LockInv'
  BY <1>1 DEF IInv, LockInv
<1>4. Extended(manifest)' /\ Extended(runner)'
  BY <1>1 DEF IInv, ManifestInv, Extended, Prefixed, Overrides
<1>5. grant'[p] \in Overrides' /\ reply'[p] = "allow_always"
  BY <1>1 DEF IInv, ManifestInv, Overrides, Recording
<1>6. ManifestInv'
  <2>1. \A q \in Procs : (/\ pc[q] \in Deciding => Extended(seen[q])
                          /\ pc[q] \in Recording =>
                               grant[q] \in Overrides /\ reply[q] = "allow_always")'
    BY <1>1, <1>5, Others DEF Deciding
  <2>2. QED  BY <1>1, <1>4, <2>1 DEF IInv, ManifestInv
<1>7. AuthInv'
  BY <1>1, Others DEF AuthInv, Permitted
<1>8. QED  BY <1>2, <1>3, <1>6, <1>7 DEF IInv

\* The override is appended to the manifest as it is, and to nothing older.
LEMMA AppendStep ==
  ASSUME IInv, NEW p \in Procs, AppendOverride(p)
  PROVE  /\ IInv'
         /\ manifest' = manifest \/ manifest' = Append(manifest, grant[p])
<1> USE GatewayAssumption
<1>1. /\ pc[p] = "append" /\ pc' = [pc EXCEPT ![p] = "limit"]
      /\ UNCHANGED <<seen, reply, grant, initial, runner, always, req, tool>>
      /\ recorded' = recorded \cup {grant[p]}
      /\ lock' = IF lock = p THEN NoProc ELSE lock
      /\ manifest' = IF grant[p] \in Range(seen[p]) THEN manifest
                     ELSE Append(seen[p], grant[p])
  BY DEF AppendOverride, Goto, Unlock, request
<1>2. lock = p /\ seen[p] = manifest
  BY <1>1 DEF IInv, LockInv
<1>3. /\ Extended(manifest) /\ Extended(runner) /\ recorded \subseteq Range(manifest)
      /\ grant[p] \in Overrides /\ reply[p] = "allow_always"
  BY <1>1 DEF IInv, ManifestInv, Recording
<1>4. /\ manifest' \in Seq(Range(manifest'))
      /\ Len(manifest) <= Len(manifest')
      /\ \A i \in 1 .. Len(manifest) : manifest'[i] = manifest[i]
      /\ \A i \in Len(manifest) + 1 .. Len(manifest') : manifest'[i] = grant[p]
      /\ Range(manifest) \cup {grant[p]} = Range(manifest')
  <2>1. manifest \in Seq(Range(manifest)) /\ Len(manifest) \in Nat
    BY <1>3 DEF Extended, Prefixed
  <2>2. CASE grant[p] \in Range(seen[p])
    BY <2>1, <2>2, <1>1, <1>2
  <2>3. CASE grant[p] \notin Range(seen[p])
    <3>1. manifest' = Append(manifest, grant[p])  BY <2>3, <1>1, <1>2
    <3>2. QED  BY <2>1, <3>1, Appended
  <2>4. QED  BY <2>2, <2>3
<1>5. Extended(manifest)'
  <2>1. /\ Len(initial) \in Nat /\ Len(manifest) \in Nat /\ Len(manifest') \in Nat
        /\ Len(initial) <= Len(manifest)
    BY <1>3, <1>4 DEF Extended, Prefixed, IInv, Shape
  <2>2. Prefixed(manifest)'
    BY <1>1, <1>3, <1>4, <2>1 DEF Extended, Prefixed
  <2>3. \A i \in Len(initial) + 1 .. Len(manifest') :
          i \in Len(initial) + 1 .. Len(manifest) \/ i \in Len(manifest) + 1 .. Len(manifest')
    BY <2>1
  <2>4. \A i \in Len(initial) + 1 .. Len(manifest) : i \in 1 .. Len(manifest)
    BY <2>1
  <2>5. \A i \in Len(initial) + 1 .. Len(manifest') : manifest'[i] \in Overrides
    BY <1>3, <1>4, <2>3, <2>4 DEF Extended
  <2>6. Overrides' = Overrides  BY <1>1 DEF Overrides
  <2>7. QED  BY <1>1, <2>2, <2>5, <2>6 DEF Extended
<1>6. Extended(runner)'
  BY <1>1, <1>3 DEF Extended, Prefixed, Overrides
<1>7. (recorded \subseteq Range(manifest))'
  BY <1>1, <1>3, <1>4
<1>8. Shape'
  BY <1>1 DEF IInv, Shape, IsFun, PcStates, Gone, Permitted
<1>9. LockInv'
  BY <1>1, <1>2 DEF IInv, Shape, LockInv
<1>10. ManifestInv'
  <2>1. \A q \in Procs : (/\ pc[q] \in Deciding => Extended(seen[q])
                          /\ pc[q] \in Recording =>
                               grant[q] \in Overrides /\ reply[q] = "allow_always")'
    BY <1>1, Others DEF IInv, Shape, Deciding, Recording
  <2>2. QED  BY <1>5, <1>6, <1>7, <2>1 DEF ManifestInv
<1>11. AuthInv'
  <2>1. Authorised(p)'  BY <1>1, <1>3 DEF Authorised, Approvals
  <2>2. QED  BY <1>1, <2>1, Others DEF IInv, Shape, AuthInv
<1>12. manifest' = manifest \/ manifest' = Append(manifest, grant[p])
  BY <1>1, <1>2
<1>13. QED  BY <1>8, <1>9, <1>10, <1>11, <1>12 DEF IInv

\* The steps that touch neither the manifest nor what a decision rests on.
LEMMA QuietSteps ==
  ASSUME IInv, NEW p \in Procs,
         \/ Decide(p) /\ pc'[p] # "asking"
         \/ HearAnswer(p) /\ reply[p] # "allow_always"
         \/ ApprovalTimesOut(p) \/ PersistFails(p) \/ LoadRates(p) \/ Count(p)
         \/ SaveRates(p) \/ Call(p) \/ Fail(p) \/ Kill(p)
  PROVE  IInv'
<1>1. /\ UNCHANGED <<initial, runner, manifest, always, recorded, req, tool>>
      /\ \A q \in Procs \ {p} : /\ seen'[q] = seen[q] /\ reply'[q] = reply[q]
                                 /\ grant'[q] = grant[q]
      /\ IsFun(seen)' /\ IsFun(reply)' /\ IsFun(grant)'
  BY DEF Decide, HearAnswer, ApprovalTimesOut, PersistFails, LoadRates, Count, SaveRates,
         Call, Fail, Kill, Proceed, Goto, End, Leave, Unlock, files, history, request, IInv,
         Shape, IsFun
<1>2. lock' = IF lock = p THEN NoProc ELSE lock
  <2>1. \/ lock' = IF lock = p THEN NoProc ELSE lock
        \/ lock' = lock /\ pc[p] \notin {"reload", "append"}
    BY DEF Decide, HearAnswer, ApprovalTimesOut, PersistFails, LoadRates, Count, SaveRates,
           Call, Fail, Kill, Unlock, files
  <2>2. QED  BY <2>1 DEF IInv, LockInv
<1>3. PICK x \in Gone \cup Permitted :
        /\ pc' = [pc EXCEPT ![p] = x]
        /\ x \in Gone \/ (reply'[p] = reply[p] /\ \/ pc[p] \in Permitted \cup Recording
                                                  \/ pc[p] = "asking" /\ reply[p] = "allow"
                                                  \/ Decide(p))
  <2>1. CASE Decide(p) /\ pc'[p] # "asking"
    <3>1. CASE Level(seen[p], req[p].action, req[p].target) = "on"
      BY <2>1, <3>1 DEF Decide, Proceed, Goto, Permitted
    <3>2. CASE Level(seen[p], req[p].action, req[p].target) # "on"
      BY <2>1, <3>2 DEF Decide, Proceed, Goto, End, Leave, Gone, IInv, Shape
    <3>3. QED  BY <3>1, <3>2
  <2>2. CASE HearAnswer(p) /\ reply[p] # "allow_always"
    BY <2>2 DEF HearAnswer, Proceed, Goto, End, Leave, Permitted, Gone
  <2>3. CASE ApprovalTimesOut(p) \/ Call(p) \/ Fail(p) \/ Kill(p)
    BY <2>3 DEF ApprovalTimesOut, Call, Fail, Kill, End, Leave, Gone
  <2>4. CASE PersistFails(p)
    BY <2>4 DEF PersistFails, Goto, Permitted, Recording
  <2>5. CASE LoadRates(p) \/ SaveRates(p)
    BY <2>5 DEF LoadRates, SaveRates, Goto, Permitted
  <2>6. CASE Count(p)
    BY <2>6 DEF Count, End, Leave, Permitted, Gone
  <2>7. QED  BY <2>1, <2>2, <2>3, <2>4, <2>5, <2>6
<1>4. x \in Gone \/ Authorised(p)
  <2>1. CASE pc[p] \in Permitted
    BY <2>1 DEF IInv, AuthInv
  <2>2. CASE pc[p] \in Recording
    BY <2>2 DEF IInv, ManifestInv, Authorised, Approvals
  <2>3. CASE pc[p] = "asking" /\ reply[p] = "allow"
    BY <2>3 DEF Authorised, Approvals
  <2>4. CASE Decide(p) /\ x \notin Gone
    <3>1. pc[p] = "decide" /\ x \notin Gone \cup {"asking"} /\ pc'[p] = x
      BY <2>4, <1>3 DEF Decide, Permitted, IInv, Shape
    <3>2. Level(seen[p], req[p].action, req[p].target) = "on"
      BY <2>4, <3>1 DEF Decide, Proceed, Goto, End, Leave, Gone, IInv, Shape
    <3>3. Extended(seen[p]) /\ initial \in Seq(Range(initial))
      BY <3>1 DEF IInv, ManifestInv, Shape, Deciding
    <3>4. QED  BY <3>2, <3>3, OnMeans DEF Authorised
  <2>5. QED  BY <1>3, <2>1, <2>2, <2>3, <2>4
<1>5. x \in Gone \/ (Authorised(p) /\ reply'[p] = reply[p])
  BY <1>3, <1>4
<1>6. QED  BY <1>1, <1>2, <1>3, <1>5, Quiet

\* Each step keeps the invariant.
LEMMA NextStep == IInv /\ [Next]_vars => IInv'
<1> SUFFICES ASSUME IInv, [Next]_vars PROVE IInv'
  OBVIOUS
<1>1. CASE Restart \/ Tick \/ UNCHANGED vars
  BY <1>1, RestSteps
<1>2. ASSUME NEW p \in Procs,
             Begin(p) \/ Answer(p) \/ Step(p) \/ Fail(p) \/ Kill(p)
      PROVE  IInv'
  <2>1. CASE Begin(p) \/ LoadManifest(p) \/ Answer(p)
    BY <2>1, DeciderSteps
  <2>2. CASE Decide(p) /\ pc'[p] = "asking"
    BY <2>2, AskStep
  <2>3. CASE HearAnswer(p) /\ reply[p] = "allow_always"
    BY <2>3, AlwaysStep
  <2>4. CASE LockManifest(p) \/ Reload(p)
    BY <2>4, LockSteps
  <2>5. CASE AppendOverride(p)
    BY <2>5, AppendStep
  <2>6. CASE \/ Decide(p) /\ pc'[p] # "asking"
             \/ HearAnswer(p) /\ reply[p] # "allow_always"
             \/ ApprovalTimesOut(p) \/ PersistFails(p) \/ LoadRates(p) \/ Count(p)
             \/ SaveRates(p) \/ Call(p) \/ Fail(p) \/ Kill(p)
    BY <2>6, QuietSteps
  <2>7. QED  BY <1>2, <2>1, <2>2, <2>3, <2>4, <2>5, <2>6 DEF Step
<1>3. QED  BY <1>1, <1>2 DEF Next

-----------------------------------------------------------------------------
(* The rate limit *)

\* A bucket tells what was allowed since it was started: nothing was after
\* it ends, and its count is the number of times from its start on.
Since(a, b) == {i \in DOMAIN allowed[a] : b.reset - Window <= allowed[a][i]}
Kept(a, b) ==
  /\ b.reset <= time + Window
  /\ \A i \in DOMAIN allowed[a] : allowed[a][i] <= time /\ allowed[a][i] <= b.reset
  /\ b # NoBucket => b.count = Cardinality(Since(a, b))

\* As long as no two Allow overlap: one process counts, from the counters
\* of the file, and what it is about to save is kept, or else the file is.
Alone(p) ==
  /\ \A q \in Procs : pc[q] \in Counting => q = p
  /\ pc[p] = "count" => counters[p] = rates
  /\ pc[p] = "save" => rates = NoRates /\ \A a \in Actions : Kept(a, counters[p][a])
AloneInv ==
  /\ \A p \in Procs : pc[p] \in Counting => Alone(p)
  /\ (\A p \in Procs : pc[p] # "save") => \A a \in Actions : Kept(a, rates[a])

RateInv ==
  /\ TypeOK
  /\ \A p \in Procs : pc[p] \in Counting => Limit[req[p].action] > 0
  /\ ~overlapped => AloneInv

\* The bucket that Allow writes: within its limit, and kept with the new
\* time of the action.
LEMMA CountedType ==
  ASSUME TypeOK, NEW f \in Counters, NEW a \in Actions, Limit[a] > 0,
         NEW b, b = Counted(f[a], Limit[a])
  PROVE  /\ b \in [count : Nat, reset : Int]
         /\ [f EXCEPT ![a] = b] \in Counters
<1> USE GatewayAssumption
<1>1. f[a] \in [count : Nat, reset : Int] /\ f[a].count <= Limit[a]
  BY DEF Counters
<1>2. time \in Nat /\ Window \in Nat /\ Limit[a] \in Nat
  BY DEF TypeOK, Times
<1>3. b \in [count : Nat, reset : Int] /\ b.count <= Limit[a]
  BY SMTT(60), <1>1, <1>2 DEF Counted
<1>4. QED  BY <1>3 DEF Counters

\* Counting a call keeps the bucket in step with the calls let through.
LEMMA CountedKept ==
  ASSUME TypeOK, NEW f \in Counters, NEW a \in Actions,
         Kept(a, f[a]),
         NEW b, b = Counted(f[a], Limit[a]), b # f[a],
         allowed' = [allowed EXCEPT ![a] = Append(@, time)], time' = time
  PROVE  Kept(a, b)'
<1> USE GatewayAssumption
<1> DEFINE s == allowed[a]
           n == Len(s)
           r == allowed'[a]
           c == f[a]
<1>1. /\ c \in [count : Nat, reset : Int] /\ c.count <= Limit[a] /\ Limit[a] \in Nat
      /\ Window \in Nat /\ time \in Times /\ Times \subseteq Nat /\ s \in Seq(Times)
  <2>1. c \in [count : Nat, reset : Int] /\ c.count <= Limit[a] /\ Limit[a] \in Nat
    BY DEF Counters
  <2>2. Window \in Nat /\ time \in Times /\ s \in Seq(Times)
    BY DEF TypeOK
  <2>3. Times \subseteq Nat
    BY DEF Times
  <2>4. QED  BY <2>1, <2>2, <2>3
<1>2. /\ r = Append(s, time) /\ r \in Seq(Times) /\ n \in Nat
      /\ DOMAIN r = 1 .. n + 1 /\ DOMAIN s = 1 .. n
      /\ r[n + 1] = time /\ \A i \in 1 .. n : r[i] = s[i]
  BY <1>1 DEF TypeOK
<1>0. time \in Nat /\ n \in Nat /\ n + 1 \in Nat
  BY <1>1, <1>2
<1>3. c.reset <= time + Window /\ \A i \in 1 .. n : s[i] <= time /\ s[i] <= c.reset
  BY <1>2 DEF Kept
<1>4. \A i \in 1 .. n : s[i] \in Nat
  <2>1. \A i \in 1 .. n : s[i] \in Times  BY <1>1
  <2>2. QED  BY <1>1, <2>1
<1> HIDE DEF s, n, r, c
<1>5. CASE Expired(c)
  <2>1. c.reset < time
    BY <1>0, <1>1, <1>5 DEF Expired, NoBucket
  <2>2. b.count = 1 /\ b.reset = time + Window
    BY <1>5 DEF Counted, c
  <2>3. \A i \in 1 .. n : ~(b.reset - Window <= r[i])
    <3>1. SUFFICES ASSUME NEW i \in 1 .. n PROVE ~(b.reset - Window <= s[i])
      BY <1>2
    <3>2. s[i] \in Nat /\ s[i] <= c.reset /\ c.reset \in Int
      BY <1>1, <1>3, <1>4
    <3>3. QED  BY <1>0, <1>1, <2>1, <2>2, <3>2
  <2>4. b.reset - Window <= r[n + 1]
    BY <1>0, <1>1, <1>2, <2>2
  <2>5. \A i \in 1 .. n + 1 : i \in 1 .. n \/ i = n + 1
    BY <1>0
  <2>6. Since(a, b)' = {n + 1}
    BY SMTT(60), <1>0, <1>2, <2>3, <2>4, <2>5 DEF Since, r
  <2>7. Cardinality({n + 1}) = 1
    BY FS_Singleton
  <2>8. \A i \in 1 .. n + 1 : r[i] <= time /\ r[i] <= b.reset
    BY <1>0, <1>1, <1>2, <1>3, <1>4, <2>1, <2>2, <2>5
  <2>9. QED  BY SMTT(60), <1>0, <1>1, <1>2, <2>2, <2>6, <2>7, <2>8 DEF Kept, r
<1>6. CASE ~Expired(c)
  <2>1. time <= c.reset /\ c # NoBucket
    BY <1>0, <1>1, <1>6 DEF Expired
  <2>2. b = [c EXCEPT !.count = @ + 1]
    BY <1>6 DEF Counted, c
  <2>3. b.reset = c.reset /\ b.count = c.count + 1
    BY <1>1, <2>2
  <2> DEFINE old == {i \in 1 .. n : c.reset - Window <= s[i]}
  <2>4. c.count = Cardinality(old)
    BY <1>2, <2>1 DEF Kept, Since, c, s
  <2>5. \A i \in 1 .. n + 1 : i \in 1 .. n \/ i = n + 1
    BY <1>0
  <2>6. \A i \in 1 .. n : i \in 1 .. n + 1
    BY <1>0
  <2>7. n + 1 \notin 1 .. n
    BY <1>0
  <2>8. b.reset - Window <= r[n + 1]
    BY <1>0, <1>1, <1>2, <1>3, <2>3
  <2>9. Since(a, b)' = old \cup {n + 1}
    BY <1>2, <2>3, <2>5, <2>6, <2>8 DEF Since, r
  <2>10. IsFiniteSet(old)
    <3>1. IsFiniteSet(1 .. n)
      <4>1. 1 \in Int /\ n \in Int  BY <1>0
      <4>2. QED  BY <4>1, FS_Interval
    <3>2. old \in SUBSET (1 .. n)  OBVIOUS
    <3> HIDE DEF old
    <3>3. QED  BY <3>1, <3>2, FS_Subset
  <2>11. n + 1 \notin old
    BY <2>7
  <2>12. Cardinality(old \cup {n + 1}) = c.count + 1
    <3> HIDE DEF old
    <3>1. QED  BY <2>4, <2>10, <2>11, FS_AddElement
  <2>13. \A i \in 1 .. n + 1 : r[i] <= time /\ r[i] <= b.reset
    BY <1>0, <1>1, <1>2, <1>3, <1>4, <2>1, <2>3, <2>5
  <2>14. Cardinality(Since(a, b)') = b.count
    BY <2>3, <2>9, <2>12
  <2>15. b.reset <= time + Window
    BY <1>3, <2>3
  <2>16. QED  BY <1>2, <2>13, <2>14, <2>15 DEF Kept, r
<1>7. QED  BY <1>5, <1>6

\* A bucket is kept while nothing is allowed and the clock goes on.
LEMMA StaysKept ==
  ASSUME TypeOK, NEW a \in Actions, NEW b \in [count : Nat, reset : Int], Kept(a, b),
         allowed'[a] = allowed[a], time' \in Nat, time <= time'
  PROVE  Kept(a, b)'
<1> USE GatewayAssumption
<1>1. time \in Nat /\ Window \in Nat /\ allowed[a] \in Seq(Nat)
  BY DEF TypeOK, Times
<1>2. \A i \in DOMAIN allowed[a] : allowed[a][i] \in Nat
  BY <1>1
<1>3. \A i \in DOMAIN allowed[a] : allowed[a][i] <= time'
  BY <1>1, <1>2 DEF Kept
<1>4. b.reset <= time' + Window
  BY <1>1 DEF Kept
<1>5. QED  BY <1>3, <1>4 DEF Kept, Since

\* Before the first call every bucket is in step.
LEMMA RateInit == Init => RateInv
<1> SUFFICES ASSUME Init PROVE RateInv  OBVIOUS
<1> USE GatewayAssumption DEF Init
<1>1. NoRates \in Counters
  BY DEF NoRates, NoBucket, Counters
<1>2. Requests # {}
  <2>1. PICK a \in Actions, t \in Targets : TRUE  OBVIOUS
  <2>2. [action |-> a, target |-> t] \in Requests  BY DEF Requests
  <2>3. QED  BY <2>2
<1>3. TypeOK
  <2>1. (CHOOSE r \in Requests : TRUE) \in Requests  BY <1>2
  <2>2. req \in [Procs -> Requests]  BY <2>1
  <2>3. counters \in [Procs -> Counters] /\ rates \in Counters  BY <1>1
  <2>4. allowed \in [Actions -> Seq(Times)]  OBVIOUS
  <2>5. time \in Times /\ calls \in 0 .. MaxCalls  BY DEF Times
  <2>6. pc \in [Procs -> {"idle"}] /\ tool \in [Procs -> {FALSE}] /\ reply \in [Procs -> {"none"}]
    OBVIOUS
  <2>7. QED  BY <2>2, <2>3, <2>4, <2>5, <2>6 DEF TypeOK
<1>4. \A a \in Actions : Kept(a, rates[a])
  BY DEF Kept, NoRates, NoBucket
<1>5. QED  BY <1>3, <1>4 DEF RateInv, AloneInv, Counting

\* The types, one step per action.
LEMMA TypeStep == RateInv /\ [Next]_vars => TypeOK'
<1> SUFFICES ASSUME RateInv, [Next]_vars PROVE TypeOK'
  OBVIOUS
<1> USE GatewayAssumption
<1> USE DEF TypeOK, Times
<1>1. TypeOK
  BY DEF RateInv
<1>2. NoRates \in Counters
  BY DEF NoRates, NoBucket, Counters
<1>3. CASE UNCHANGED vars
  BY <1>1, <1>3 DEF vars, files, locals, request, history
<1>4. CASE Tick
  BY <1>1, <1>4 DEF Tick, files, locals, request, history
<1>5. CASE Restart
  BY <1>1, <1>5 DEF Restart, files, request, history
<1> HIDE DEF TypeOK
<1>6. ASSUME NEW p \in Procs PROVE
        /\ Leave(p, "idle") \/ Leave(p, "dead") \/ Goto(p, "limit") \/ Goto(p, "asking")
             \/ Goto(p, "call") \/ Goto(p, "reload")
           => /\ pc' \in [Procs -> {"idle", "dead", "load", "decide", "asking", "lock",
                                    "reload", "append", "limit", "count", "save", "call"}]
              /\ reply' \in [Procs -> Answers \cup {"none"}]
              /\ counters' \in [Procs -> Counters]
  <2>1. /\ counters \in [Procs -> Counters]
        /\ reply \in [Procs -> Answers \cup {"none"}]
        /\ pc \in [Procs -> {"idle", "dead", "load", "decide", "asking", "lock",
                            "reload", "append", "limit", "count", "save", "call"}]
    BY <1>1 DEF TypeOK
  <2>2. QED  BY <1>2, <2>1 DEF Leave, Goto
<1> USE DEF TypeOK
<1>7. ASSUME NEW p \in Procs, Begin(p) \/ Answer(p) \/ Step(p) \/ Fail(p) \/ Kill(p)
      PROVE  TypeOK'
  <2>1. CASE Begin(p)
    <3>1. /\ UNCHANGED <<initial, lock, time, rates, counters, reply, allowed, overlapped>>
          /\ calls' = calls + 1 /\ calls < MaxCalls
          /\ \E r \in Requests : req' = [req EXCEPT ![p] = r]
          /\ \E x \in {"load", "decide"} : pc' = [pc EXCEPT ![p] = x]
          /\ \E x \in BOOLEAN : tool' = [tool EXCEPT ![p] = x]
      BY <2>1 DEF Begin, files, history
    <3>2. req' \in [Procs -> Requests]  BY <1>1, <3>1
    <3>3. calls' \in 0 .. MaxCalls      BY <1>1, <3>1
    <3>4. QED  BY <1>1, <3>1, <3>2, <3>3
  <2>2. CASE LoadManifest(p) \/ Reload(p)
    BY <1>1, <2>2 DEF LoadManifest, Reload, files, request, history
  <2>3. CASE Decide(p)
    BY <1>1, <1>6, <2>3 DEF Decide, Proceed, End, files, request, history
  <2>4. CASE Answer(p)
    BY <1>1, <2>4 DEF Answer, files, request, history
  <2>5. CASE HearAnswer(p)
    <3>1. CASE reply[p] = "allow_always"
      BY <1>1, <2>5, <3>1 DEF HearAnswer, files, request
    <3>2. CASE reply[p] # "allow_always"
      BY <1>1, <1>6, <2>5, <3>2 DEF HearAnswer, Proceed, End, files, request
    <3>3. QED  BY <3>1, <3>2
  <2>6. CASE ApprovalTimesOut(p) \/ Call(p) \/ Fail(p)
    BY <1>1, <1>6, <2>6 DEF ApprovalTimesOut, Call, Fail, End, files, request, history
  <2>7. CASE LockManifest(p)
    BY <1>1, <1>6, <2>7 DEF LockManifest, request, history
  <2>8. CASE AppendOverride(p) \/ PersistFails(p)
    BY <1>1, <1>6, <2>8 DEF AppendOverride, PersistFails, Unlock, request, history
  <2>9. CASE LoadRates(p)
    <3>1. counters' \in [Procs -> Counters] /\ reply' \in [Procs -> Answers \cup {"none"}]
      BY <1>1, <1>6, <2>9 DEF LoadRates, Goto
    <3>2. pc' = [pc EXCEPT ![p] = "call"] \/ pc' = [pc EXCEPT ![p] = "count"]
      BY <2>9 DEF LoadRates, Goto
    <3>3. UNCHANGED <<initial, lock, time, calls, req, tool, rates, allowed>>
      BY <2>9 DEF LoadRates, files, request
    <3>4. overlapped' \in BOOLEAN
      BY <1>1, <2>9 DEF LoadRates
    <3>5. QED  BY <1>1, <3>1, <3>2, <3>3, <3>4
  <2>10. CASE Count(p)
    <3> DEFINE a == req[p].action
               b == Counted(counters[p][a], Limit[a])
    <3>1. a \in Actions /\ Limit[a] > 0 /\ counters[p] \in Counters
      BY <1>1, <2>10 DEF Count, Requests, RateInv, Counting
    <3>2. CASE b = counters[p][a]
      BY <1>1, <1>6, <2>10, <3>2 DEF Count, End, request
    <3>3. CASE b # counters[p][a]
      <4>1. [counters[p] EXCEPT ![a] = b] \in Counters
        BY <1>1, <3>1, CountedType
      <4>2. counters' = [counters EXCEPT ![p] = [counters[p] EXCEPT ![a] = b]]
        BY <1>1, <2>10, <3>3 DEF Count
      <4>3. allowed' = [allowed EXCEPT ![a] = Append(@, time)] /\ rates' = NoRates
        BY <2>10, <3>3 DEF Count
      <4>4. allowed' \in [Actions -> Seq(Times)]
        BY <1>1, <3>1, <4>3
      <4>5. QED  BY <1>1, <1>2, <2>10, <3>3, <4>1, <4>2, <4>3, <4>4 DEF Count, request
    <3>4. QED  BY <3>2, <3>3
  <2>11. CASE SaveRates(p)
    BY <1>1, <1>6, <2>11 DEF SaveRates, request, history
  <2>12. CASE Kill(p)
    BY <1>1, <1>6, <2>12 DEF Kill, Unlock, request
  <2>13. QED
    BY <1>7, <2>1, <2>2, <2>3, <2>4, <2>5, <2>6, <2>7, <2>8, <2>9, <2>10, <2>11, <2>12
       DEF Step
<1>8. QED  BY <1>3, <1>4, <1>5, <1>7 DEF Next

\* A step at which nothing is counted: who counts goes on from where it
\* was, or leaves.
LEMMA NotCounting ==
  ASSUME RateInv, TypeOK',
         rates' = rates, allowed' = allowed, time <= time',
         ~overlapped' => ~overlapped,
         \A p \in Procs : pc'[p] \in Counting =>
                            /\ pc'[p] = pc[p] /\ req'[p] = req[p]
                            /\ counters'[p] = counters[p],
         ~overlapped' => \A p \in Procs : pc[p] = "save" => pc'[p] = "save"
  PROVE  RateInv'
<1> USE DEF Counting
<1>1. \A p \in Procs : pc'[p] \in Counting => Limit[req'[p].action] > 0
  BY DEF RateInv
<1>2. ASSUME ~overlapped' PROVE AloneInv'
  <2>1. AloneInv /\ TypeOK
    BY <1>2 DEF RateInv
  <2>2. time' \in Nat
    BY DEF TypeOK, Times
  <2>3. ASSUME NEW a \in Actions, NEW f \in Counters, Kept(a, f[a]) PROVE Kept(a, f[a])'
    <3>1. f[a] \in [count : Nat, reset : Int]  BY DEF Counters
    <3>2. QED  BY <2>1, <2>2, <2>3, <3>1, StaysKept
  <2>4. ASSUME NEW p \in Procs, pc'[p] \in Counting PROVE Alone(p)'
    <3>1. pc[p] = pc'[p] /\ counters'[p] = counters[p] /\ Alone(p)
      BY <2>1, <2>4 DEF AloneInv
    <3>2. \A q \in Procs : pc'[q] \in Counting => q = p
      BY <3>1 DEF Alone
    <3>3. pc'[p] = "save" => \A a \in Actions : Kept(a, counters[p][a])'
      <4>1. counters[p] \in Counters  BY <2>1 DEF TypeOK
      <4>2. pc'[p] = "save" => \A a \in Actions : Kept(a, counters[p][a])
        BY <3>1 DEF Alone
      <4>3. ASSUME pc'[p] = "save", NEW a \in Actions PROVE Kept(a, counters[p][a])'
        <5>1. Kept(a, counters[p][a])  BY <4>2, <4>3
        <5> DEFINE f == counters[p]
        <5>2. f' = f  BY <3>1
        <5>3. f[a] \in [count : Nat, reset : Int]  BY <4>1 DEF Counters
        <5>4. QED  BY <2>1, <2>2, <5>1, <5>2, <5>3, StaysKept DEF Kept, Since
      <4>4. QED  BY <4>3
    <3>4. QED  BY <3>1, <3>2, <3>3 DEF Alone
  <2>5. ASSUME \A p \in Procs : pc'[p] # "save", NEW a \in Actions PROVE Kept(a, rates[a])'
    <3>1. \A p \in Procs : pc[p] # "save"  BY <1>2, <2>5
    <3>2. Kept(a, rates[a])  BY <2>1, <3>1 DEF AloneInv
    <3>3. rates[a] \in [count : Nat, reset : Int]  BY <2>1 DEF TypeOK, Counters
    <3>4. QED  BY <2>1, <2>2, <3>2, <3>3, StaysKept DEF Kept, Since
  <2>6. QED  BY <2>4, <2>5 DEF AloneInv
<1>3. QED  BY <1>1, <1>2 DEF RateInv

\* One step per action of the limiter; every other one counts nothing.
LEMMA RateStep == RateInv /\ [Next]_vars => RateInv'
<1> SUFFICES ASSUME RateInv, [Next]_vars PROVE RateInv'
  OBVIOUS
<1>1. TypeOK /\ TypeOK'
  BY TypeStep DEF RateInv
<1>2. CASE UNCHANGED vars
  BY <1>1, <1>2, NotCounting DEF vars, files, locals, request, history, TypeOK, Times
<1>3. CASE Tick
  BY <1>1, <1>3, NotCounting DEF Tick, files, locals, request, history, TypeOK, Times
<1>4. CASE Restart
  BY <1>1, <1>4, NotCounting DEF Restart, files, request, history, TypeOK, Times, Counting
<1>5. ASSUME NEW p \in Procs, Begin(p) \/ Answer(p) \/ Step(p) \/ Fail(p) \/ Kill(p)
      PROVE  RateInv'
  <2>1. CASE Begin(p) \/ LoadManifest(p) \/ Reload(p) \/ Answer(p)
    BY <1>1, <2>1, NotCounting
       DEF Begin, LoadManifest, Reload, Answer, files, request, history, TypeOK, Times, Counting
  <2>2. CASE \/ Decide(p) \/ HearAnswer(p) \/ ApprovalTimesOut(p) \/ Fail(p) \/ Call(p)
             \/ LockManifest(p) \/ AppendOverride(p) \/ PersistFails(p)
    <3>1. /\ pc[p] \notin Counting /\ pc'[p] \notin Counting
          /\ \A q \in Procs \ {p} : pc'[q] = pc[q] /\ counters'[q] = counters[q]
          /\ UNCHANGED <<rates, allowed, time, overlapped, req>>
      BY <1>1, <2>2
         DEF Decide, HearAnswer, ApprovalTimesOut, Fail, Call, LockManifest, AppendOverride,
             PersistFails, Proceed, End, Leave, Goto, files, request, history, TypeOK, Counting
    <3>2. QED  BY <1>1, <3>1, NotCounting DEF TypeOK, Times, Counting
  <2>3. CASE LoadRates(p)
    <3>1. CASE Limit[req[p].action] = 0
      <4>1. /\ pc[p] \notin Counting /\ pc'[p] \notin Counting
            /\ \A q \in Procs \ {p} : pc'[q] = pc[q] /\ counters'[q] = counters[q]
            /\ UNCHANGED <<rates, allowed, time, overlapped, req>>
        BY <1>1, <2>3, <3>1, GatewayAssumption
           DEF LoadRates, Goto, files, request, TypeOK, Counting, Requests
      <4>2. QED  BY <1>1, <4>1, NotCounting DEF TypeOK, Times, Counting
    <3>2. CASE Limit[req[p].action] # 0
      <4>1. /\ pc[p] = "limit" /\ Limit[req[p].action] > 0
            /\ pc' = [pc EXCEPT ![p] = "count"] /\ counters' = [counters EXCEPT ![p] = rates]
            /\ overlapped' = (overlapped \/ \E q \in Procs \ {p} : pc[q] \in Counting)
            /\ UNCHANGED <<rates, allowed, time, req>>
        BY <2>3, <3>2 DEF LoadRates, files, request
      <4>2. \A q \in Procs : pc'[q] \in Counting => Limit[req'[q].action] > 0
        BY <1>1, <4>1 DEF RateInv, TypeOK
      <4>3. ASSUME ~overlapped' PROVE AloneInv'
        <5>1. /\ ~overlapped /\ AloneInv /\ \A q \in Procs \ {p} : pc[q] \notin Counting
          BY <4>1, <4>3 DEF RateInv
        <5>2. \A q \in Procs : pc[q] # "save"
          BY <4>1, <5>1 DEF Counting
        <5>3. \A a \in Actions : Kept(a, rates[a])'
          BY <4>1, <5>1, <5>2 DEF AloneInv, Kept, Since
        <5>4. \A q \in Procs : pc'[q] \in Counting => q = p
          BY <1>1, <4>1, <5>1 DEF TypeOK
        <5>5. pc'[p] = "count" /\ counters'[p] = rates'
          BY <1>1, <4>1 DEF TypeOK
        <5>6. QED  BY <5>3, <5>4, <5>5 DEF AloneInv, Alone
      <4>4. QED  BY <1>1, <4>2, <4>3 DEF RateInv
    <3>3. QED  BY <3>1, <3>2
  <2>4. CASE Count(p)
    <3> DEFINE a == req[p].action
               c == counters[p][a]
               b == Counted(c, Limit[a])
    <3>1. /\ pc[p] = "count" /\ a \in Actions /\ Limit[a] > 0 /\ counters[p] \in Counters
      BY <1>1, <2>4 DEF Count, Requests, RateInv, Counting, TypeOK
    <3>2. CASE b = c
      <4>1. /\ pc'[p] \notin Counting
            /\ \A q \in Procs \ {p} : pc'[q] = pc[q] /\ counters'[q] = counters[q]
            /\ UNCHANGED <<rates, allowed, time, overlapped, req>>
        BY <1>1, <2>4, <3>2 DEF Count, End, Leave, request, TypeOK, Counting
      <4>2. QED  BY <1>1, <3>1, <4>1, NotCounting DEF TypeOK, Times, Counting
    <3>3. CASE b # c
      <4>1. /\ pc' = [pc EXCEPT ![p] = "save"] /\ counters' = [counters EXCEPT ![p][a] = b]
            /\ rates' = NoRates /\ allowed' = [allowed EXCEPT ![a] = Append(@, time)]
            /\ UNCHANGED <<time, req, overlapped>>
        BY <2>4, <3>3 DEF Count, request
      <4>2. \A q \in Procs : pc'[q] \in Counting => Limit[req'[q].action] > 0
        BY <1>1, <3>1, <4>1 DEF RateInv, TypeOK
      <4>3. ASSUME ~overlapped' PROVE AloneInv'
        <5>1. AloneInv /\ Alone(p)
          BY <3>1, <4>1, <4>3 DEF RateInv, AloneInv, Counting
        <5>2. \A q \in Procs : pc[q] # "save"
          BY <3>1, <5>1 DEF Alone, Counting
        <5>3. \A x \in Actions : Kept(x, counters[p][x])
          BY <3>1, <5>1, <5>2 DEF AloneInv, Alone
        <5>4. /\ counters'[p][a] = b /\ \A x \in Actions \ {a} : counters'[p][x] = counters[p][x]
              /\ \A x \in Actions \ {a} : allowed'[x] = allowed[x]
          BY <1>1, <3>1, <4>1 DEF TypeOK, Counters
        <5>a. PICK f : f = counters[p]  OBVIOUS
        <5>x. PICK z : z = a  OBVIOUS
        <5>b. PICK v : v = Counted(f[z], Limit[z])  OBVIOUS
        <5>5. Kept(z, v)'
          <6>1. f \in Counters /\ z \in Actions /\ Kept(z, f[z]) /\ v # f[z]
            BY <3>1, <3>3, <5>3, <5>a, <5>b, <5>x
          <6>2. allowed' = [allowed EXCEPT ![z] = Append(@, time)] /\ time' = time
            BY <4>1, <5>x
          <6>3. QED  BY <1>1, <5>b, <6>1, <6>2, CountedKept
        <5>6. ASSUME NEW x \in Actions PROVE Kept(x, counters[p][x])'
          <6>1. CASE x = a
            <7>1. x = z /\ counters'[p][x] = v  BY <5>4, <5>a, <5>b, <5>x, <6>1
            <7>2. QED  BY <5>5, <7>1 DEF Kept, Since
          <6>2. CASE x # a
            BY <4>1, <5>3, <5>4, <6>2 DEF Kept, Since
          <6>3. QED  BY <6>1, <6>2
        <5>7. \A q \in Procs : pc'[q] \in Counting => q = p
          BY <1>1, <3>1, <4>1, <5>1 DEF TypeOK, Alone
        <5>8. pc'[p] = "save"
          BY <1>1, <4>1 DEF TypeOK
        <5>9. QED  BY <4>1, <5>6, <5>7, <5>8 DEF AloneInv, Alone
      <4>4. QED  BY <1>1, <4>2, <4>3 DEF RateInv
    <3>4. QED  BY <3>2, <3>3
  <2>5. CASE SaveRates(p)
    <3>1. /\ pc[p] = "save" /\ pc' = [pc EXCEPT ![p] = "call"] /\ rates' = counters[p]
          /\ UNCHANGED <<counters, allowed, time, overlapped, req>>
      BY <2>5 DEF SaveRates, Goto, request, history
    <3>2. \A q \in Procs : pc'[q] \in Counting => pc[q] \in Counting /\ q # p
      BY <1>1, <3>1 DEF TypeOK, Counting
    <3>3. \A q \in Procs : pc'[q] \in Counting => Limit[req'[q].action] > 0
      BY <3>1, <3>2 DEF RateInv
    <3>4. ASSUME ~overlapped' PROVE AloneInv'
      <4>1. Alone(p)
        BY <3>1, <3>4 DEF RateInv, AloneInv, Counting
      <4>2. \A q \in Procs : pc'[q] \notin Counting
        BY <3>2, <4>1 DEF Alone
      <4>3. \A a \in Actions : Kept(a, rates[a])'
        BY <3>1, <4>1 DEF Alone, Kept, Since
      <4>4. QED  BY <4>2, <4>3 DEF AloneInv
    <3>5. QED  BY <1>1, <3>3, <3>4 DEF RateInv
  <2>6. CASE Kill(p)
    <3>1. /\ pc'[p] \notin Counting
          /\ \A q \in Procs \ {p} : pc'[q] = pc[q] /\ counters'[q] = counters[q]
          /\ overlapped' = (overlapped \/ pc[p] = "save")
          /\ UNCHANGED <<rates, allowed, time, req>>
      <4>1. /\ \E x \in {"dead", "idle"} : pc' = [pc EXCEPT ![p] = x]
            /\ counters' = [counters EXCEPT ![p] = NoRates]
        BY <2>6 DEF Kill, Leave
      <4>2. UNCHANGED <<rates, allowed, time, req>>
        BY <2>6 DEF Kill, request
      <4>3. QED  BY <1>1, <2>6, <4>1, <4>2 DEF Kill, TypeOK, Counting
    <3>2. /\ ~overlapped' => ~overlapped
          /\ ~overlapped' => pc[p] # "save"
      BY <3>1
    <3>3. ~overlapped' => \A q \in Procs : pc[q] = "save" => pc'[q] = "save"
      BY <3>1, <3>2
    <3>4. time <= time' /\ rates' = rates /\ allowed' = allowed
      BY <1>1, <3>1, GatewayAssumption DEF TypeOK, Times
    <3>5. \A q \in Procs : pc'[q] \in Counting =>
             pc'[q] = pc[q] /\ req'[q] = req[q] /\ counters'[q] = counters[q]
      BY <3>1
    <3>6. QED  BY <1>1, <3>2, <3>3, <3>4, <3>5, NotCounting
  <2>7. QED  BY <1>5, <2>1, <2>2, <2>3, <2>4, <2>5, <2>6 DEF Step
<1>6. QED  BY <1>2, <1>3, <1>4, <1>5 DEF Next

\* What is kept counts the calls of its window.
LEMMA RateMeans == RateInv => LimitHoldsAlone
<1> SUFFICES ASSUME RateInv, ~overlapped, NEW a \in Actions, rates[a] # NoBucket
             PROVE  InWindow(a) <= Limit[a]
  BY DEF LimitHoldsAlone, LimitHolds
<1>1. \A p \in Procs : pc[p] # "save"
  BY DEF RateInv, AloneInv, Alone, Counting, NoRates
<1>2. Kept(a, rates[a])
  BY <1>1 DEF RateInv, AloneInv
<1>3. {i \in DOMAIN allowed[a] : rates[a].reset - Window <= allowed[a][i]
                                /\ allowed[a][i] <= rates[a].reset} = Since(a, rates[a])
  BY <1>2 DEF Kept, Since
<1>4. InWindow(a) = rates[a].count
  BY <1>2, <1>3 DEF InWindow, Kept
<1>5. QED  BY <1>4 DEF RateInv, TypeOK, Counters

-----------------------------------------------------------------------------
(* The loop over the grants *)

\* Natural numbers are well-founded ...
LEMMA Least ==
  ASSUME NEW T, T \subseteq Nat, T # {}
  PROVE  \E x \in T : \A y \in T : x <= y
<1> DEFINE less == OpToRel(<, Nat)
<1>1. IsWellFoundedOn(less, Nat)
  BY NatLessThanWellFounded
<1>2. ASSUME NEW x \in T, NEW y \in T, <<y, x>> \notin less PROVE x <= y
  <2>1. <<y, x>> \in Nat \X Nat
    OBVIOUS
  <2>2. ~(y < x)
    BY <1>2, <2>1 DEF OpToRel
  <2> QED
    BY <2>2
<1> HIDE DEF less
<1>3. PICK x \in T : \A y \in T : <<y, x>> \notin less
  BY <1>1, WFMin
<1> QED
  BY <1>2, <1>3

\* ... so that a set which holds 0 and with each number the next has all.
LEMMA Steps ==
  ASSUME NEW S, 0 \in S, \A n \in Nat : n \in S => n + 1 \in S
  PROVE  Nat \subseteq S
<1> SUFFICES ASSUME Nat \ S # {} PROVE FALSE
  OBVIOUS
<1>1. PICK x \in Nat \ S : \A y \in Nat \ S : x <= y
  BY Least
<1>2. x # 0 /\ x - 1 \in Nat \ S
  OBVIOUS
<1> QED
  BY <1>1, <1>2

\* The best of a grant's scopes has a score.
LEMMA Best ==
  ASSUME NEW S, S # {}, S \subseteq NoMatch .. 120
  PROVE  Max(S) \in S
<1> DEFINE T == {n \in Nat : \A x \in S : x < n}
<1>1. T \subseteq Nat /\ 121 \in T
  BY DEF NoMatch
<1>2. PICK n \in T : \A m \in T : n <= m
  BY <1>1, Least
<1>3. PICK x \in S : x >= n - 1
  <2>1. CASE n = 0
    <3>1. PICK x : x \in S
      OBVIOUS
    <3>2. x \in -1 .. 120
      BY <3>1 DEF NoMatch
    <3>3. x >= n - 1
      BY <2>1, <3>2
    <3> QED
      BY <3>1, <3>3
  <2>2. CASE n # 0
    <3>1. n - 1 \in Nat /\ n - 1 \notin T
      BY <1>2, <2>2
    <3> QED
      BY <3>1 DEF NoMatch
  <2> QED
    BY <2>1, <2>2
<1>4. \A y \in S : x >= y
  BY <1>2, <1>3 DEF NoMatch
<1> QED
  BY <1>4 DEF Max

\* A score is a number, not below that of no match.
LEMMA ScoreNumbers ==
  ASSUME NEW g, NEW a, NEW t
  PROVE  Score(g, a, t) \in Int /\ Score(g, a, t) >= NoMatch
<1>1. ActionScore(g.subject, a) \in NoMatch .. 50
  <2> DEFINE s == g.subject
             whole == 10 + (IF s.resource = "*" THEN 0 ELSE 20) + (IF s.verb = "*" THEN 0 ELSE 10)
  <2>1. whole \in NoMatch .. 50
    BY DEF NoMatch
  <2>2. {1, 50, 40, NoMatch} \subseteq NoMatch .. 50
    BY DEF NoMatch
  <2>3. ActionScore(s, a) \in {1, 50, 40, NoMatch, whole}
    BY Zenon DEF ActionScore
  <2> QED
    BY <2>1, <2>2, <2>3
<1>2. ASSUME NEW s PROVE ScopeScore(s, t) \in NoMatch .. 120
  <2>1. GenericScopeScore(s, t) \in NoMatch .. 120
    BY DEF GenericScopeScore, NoMatch
  <2>2. ClassScore(s.text) \in NoMatch .. 120
    BY DEF ClassScore, NoMatch
  <2>3. SlackScopeScore(s, t) \in NoMatch .. 120
    BY <2>2 DEF SlackScopeScore, NoMatch
  <2> QED
    BY <2>1, <2>3 DEF ScopeScore
<1> DEFINE S == {NoMatch} \cup {ScopeScore(s, t) : s \in g.scopes}
<1>3. S # {} /\ S \subseteq NoMatch .. 120
  BY <1>2 DEF NoMatch
<1>4. Max(S) \in NoMatch .. 120
  BY <1>3, Best
<1> QED
  BY <1>1, <1>4 DEF Score, NoMatch

\* k is the first of the best among the first i; 0 stands for none.
FirstBest(s, i, k) ==
  /\ k \in 0 .. i
  /\ \A j \in 0 .. i : s[j] <= s[k]
  /\ \A j \in 0 .. k - 1 : s[j] < s[k]

\* One turn of the loop.
LEMMA LoopTurn ==
  ASSUME NEW n \in Nat, NEW s \in [0 .. n -> Int], NEW i \in 1 .. n,
         NEW k, FirstBest(s, i - 1, k)
  PROVE  FirstBest(s, i, IF s[i] > s[k] THEN i ELSE k)
<1>1. /\ k \in 0 .. i - 1 /\ \A j \in 0 .. i - 1 : s[j] <= s[k] /\ s[j] \in Int
      /\ \A j \in 0 .. k - 1 : s[j] < s[k]
      /\ s[i] \in Int /\ s[k] \in Int
  BY DEF FirstBest
<1>2. \A j \in 0 .. i : j \in 0 .. i - 1 \/ j = i
  OBVIOUS
<1>3. CASE s[i] > s[k]
  BY <1>1, <1>2, <1>3 DEF FirstBest
<1>4. CASE ~(s[i] > s[k])
  BY <1>1, <1>2, <1>4 DEF FirstBest
<1> QED
  BY <1>3, <1>4

\* There is one first of the highest score.
LEMMA OneFirst ==
  ASSUME NEW n \in Nat, NEW s \in [0 .. n -> Int], NEW i \in 0 .. n,
         NEW k, FirstBest(s, i, k), NEW l, FirstBest(s, i, l)
  PROVE  k = l
<1>1. k \in 0 .. i /\ l \in 0 .. i /\ s[k] \in Int /\ s[l] \in Int
  BY DEF FirstBest
<1>2. s[k] = s[l]
  BY <1>1 DEF FirstBest
<1>3. ~(k < l) /\ ~(l < k)
  BY <1>1, <1>2 DEF FirstBest
<1> QED
  BY <1>1, <1>3

\* The scores of the grants, as the loop looks at them.
Scored(gs, a, t, i) == IF i = 0 THEN NoMatch ELSE Score(gs[i], a, t)
Scores(gs, a, t) == [i \in 0 .. Len(gs) |-> Scored(gs, a, t, i)]

Loop(gs, a, t, f) ==
  f = [i \in 0 .. Len(gs) |->
         IF i = 0 THEN 0
         ELSE IF Scored(gs, a, t, i) > Scored(gs, a, t, f[i - 1]) THEN i ELSE f[i - 1]]

\* The scores of the grants are a function of their places.
LEMMA ScoresType ==
  ASSUME NEW gs, Len(gs) \in Nat, NEW a, NEW t
  PROVE  /\ Scores(gs, a, t) \in [0 .. Len(gs) -> Int]
         /\ \A i \in 0 .. Len(gs) : Scores(gs, a, t)[i] = Scored(gs, a, t, i)
<1>1. ASSUME NEW i PROVE Scored(gs, a, t, i) \in Int
  <2>1. Score(gs[i], a, t) \in Int
    BY ScoreNumbers
  <2> QED
    BY <2>1 DEF Scored, NoMatch
<1> QED
  BY <1>1 DEF Scores

\* There is a first among the best, and following it is what the loop does.
LEMMA LoopRuns ==
  ASSUME NEW gs, Len(gs) \in Nat, NEW a, NEW t
  PROVE  \E f : Loop(gs, a, t, f)
<1>0. PICK n, s : n = Len(gs) /\ s = Scores(gs, a, t)
  OBVIOUS
<1> n \in Nat /\ s \in [0 .. n -> Int] /\ \A i \in 0 .. n : s[i] = Scored(gs, a, t, i)
  BY <1>0, ScoresType
<1> DEFINE f == [i \in 0 .. n |-> CHOOSE k : FirstBest(s, i, k)]
           S == {i \in Nat : i <= n => \E k : FirstBest(s, i, k)}
<1>1. \A i \in 0 .. n : \E k : FirstBest(s, i, k)
  <2>1. FirstBest(s, 0, 0)
    BY DEF FirstBest
  <2>2. 0 \in S
    BY <2>1
  <2>3. ASSUME NEW i \in Nat, i \in S PROVE i + 1 \in S
    <3>1. CASE i + 1 <= n
      <4>1. PICK k : FirstBest(s, i, k)
        BY <2>3, <3>1
      <4>2. i + 1 \in 1 .. n /\ (i + 1) - 1 = i
        BY <3>1
      <4>3. FirstBest(s, (i + 1) - 1, k)
        BY <4>1, <4>2
      <4> DEFINE next == i + 1
      <4> HIDE DEF next
      <4>4. FirstBest(s, next - 1, k) /\ next \in 1 .. n
        BY <4>2, <4>3 DEF next
      <4>5. \E l : FirstBest(s, next, l)
        BY <4>4, LoopTurn
      <4> QED
        BY <4>5 DEF next
    <3> QED
      BY <3>1
  <2> HIDE DEF S
  <2>4. Nat \subseteq S
    BY <2>2, <2>3, Steps
  <2> QED
    BY <2>4 DEF S
<1>2. \A i \in 0 .. n : FirstBest(s, i, f[i])
  BY <1>1
<1>3. f[0] = 0
  <2>1. FirstBest(s, 0, f[0]) /\ 0 \in 0 .. n
    BY <1>2
  <2> QED
    BY <2>1 DEF FirstBest
<1>4. ASSUME NEW i \in 1 .. n PROVE f[i] = IF s[i] > s[f[i - 1]] THEN i ELSE f[i - 1]
  <2>1. i - 1 \in 0 .. n /\ i \in 0 .. n
    OBVIOUS
  <2> HIDE DEF f
  <2>2. FirstBest(s, i, IF s[i] > s[f[i - 1]] THEN i ELSE f[i - 1])
    BY <1>2, <2>1, LoopTurn
  <2> QED
    BY <1>2, <2>1, <2>2, OneFirst
<1>5. \A i \in 0 .. n : i # 0 => i \in 1 .. n /\ i - 1 \in 0 .. n /\ f[i - 1] \in 0 .. n
  <2> HIDE DEF f
  <2>1. \A i \in 0 .. n : i # 0 => i \in 1 .. n /\ i - 1 \in 0 .. n
    OBVIOUS
  <2>2. \A i \in 0 .. n : f[i] \in 0 .. n
    BY <1>2 DEF FirstBest
  <2> QED
    BY <2>1, <2>2
<1>6. ASSUME NEW i \in 0 .. n
      PROVE  f[i] = IF i = 0 THEN 0
                    ELSE IF Scored(gs, a, t, i) > Scored(gs, a, t, f[i - 1]) THEN i ELSE f[i - 1]
  <2> HIDE DEF f
  <2>1. CASE i = 0
    BY <1>3, <2>1
  <2>2. CASE i # 0
    <3>1. s[i] = Scored(gs, a, t, i) /\ s[f[i - 1]] = Scored(gs, a, t, f[i - 1])
      BY <1>5, <2>2
    <3>2. f[i] = IF s[i] > s[f[i - 1]] THEN i ELSE f[i - 1]
      BY <1>4, <1>5, <2>2
    <3> QED
      BY <2>2, <3>1, <3>2
  <2> QED
    BY <2>1, <2>2
<1>7. f = [i \in 0 .. n |-> f[i]]
  OBVIOUS
<1> HIDE DEF f
<1>8. Loop(gs, a, t, f)
  BY <1>0, <1>6, <1>7, Zenon DEF Loop
<1> QED
  BY <1>8

\* Whatever follows the loop ends with the first of the best.
LEMMA LoopFirst ==
  ASSUME NEW gs, Len(gs) \in Nat, NEW a, NEW t, NEW f, Loop(gs, a, t, f)
  PROVE  FirstBest(Scores(gs, a, t), Len(gs), f[Len(gs)])
<1>0. PICK n, s : n = Len(gs) /\ s = Scores(gs, a, t)
  OBVIOUS
<1> n \in Nat /\ s \in [0 .. n -> Int] /\ \A i \in 0 .. n : s[i] = Scored(gs, a, t, i)
  BY <1>0, ScoresType
<1>1. \A i \in 0 .. n :
        f[i] = IF i = 0 THEN 0
               ELSE IF Scored(gs, a, t, i) > Scored(gs, a, t, f[i - 1]) THEN i ELSE f[i - 1]
  BY <1>0, Zenon DEF Loop
<1> DEFINE S == {i \in Nat : i <= n => FirstBest(s, i, f[i])}
<1>2. 0 \in S
  <2>1. f[0] = 0
    BY <1>1
  <2> QED
    BY <2>1 DEF FirstBest
<1>3. ASSUME NEW i \in Nat, i \in S PROVE i + 1 \in S
  <2>1. CASE i + 1 <= n
    <3>1. PICK m : m = i + 1
      OBVIOUS
    <3>2. m \in 1 .. n /\ m \in 0 .. n /\ m # 0 /\ m - 1 = i /\ i \in 0 .. n
      BY <2>1, <3>1
    <3>3. FirstBest(s, m - 1, f[i])
      BY <1>3, <3>2
    <3>4. FirstBest(s, m, IF s[m] > s[f[i]] THEN m ELSE f[i])
      BY <3>2, <3>3, LoopTurn
    <3>5. f[i] \in 0 .. n
      BY <3>2, <3>3 DEF FirstBest
    <3>6. s[m] = Scored(gs, a, t, m) /\ s[f[i]] = Scored(gs, a, t, f[i])
      BY <3>2, <3>5
    <3>7. f[m] = IF Scored(gs, a, t, m) > Scored(gs, a, t, f[i]) THEN m ELSE f[i]
      BY <1>1, <3>2
    <3>8. f[m] = IF s[m] > s[f[i]] THEN m ELSE f[i]
      BY <3>6, <3>7
    <3>9. FirstBest(s, m, f[m])
      BY <3>4, <3>8
    <3> QED
      BY <3>1, <3>9
  <2> QED
    BY <2>1
<1> HIDE DEF S
<1>4. n \in S
  BY <1>2, <1>3, Steps
<1> QED
  BY <1>0, <1>4 DEF S

\* So the first grant of the highest score decides.
LEMMA LoopDecides ==
  ASSUME NEW gs, Len(gs) \in Nat, NEW a, NEW t
  PROVE  IF LoopBest(gs, a, t) = 0 THEN Matching(gs, a, t) = {}
         ELSE Decides(gs, a, t, LoopBest(gs, a, t))
<1> DEFINE f == CHOOSE g : Loop(gs, a, t, g)
<1>1. Loop(gs, a, t, f)
  BY LoopRuns
<1>2. LoopBest(gs, a, t) = f[Len(gs)]
  BY DEF LoopBest, Loop, Scored
<1> HIDE DEF f
<1>0. PICK n, s, k : n = Len(gs) /\ s = Scores(gs, a, t) /\ k = LoopBest(gs, a, t)
  OBVIOUS
<1>3. FirstBest(s, n, k) /\ n \in Nat
  BY <1>0, <1>1, <1>2, LoopFirst
<1>4. s[0] = NoMatch /\ s[0] \in Int
  BY <1>0, <1>3, ScoresType DEF Scored, NoMatch
<1>5. ASSUME NEW i \in 1 .. n
      PROVE  s[i] = Score(gs[i], a, t) /\ s[i] \in Int /\ s[i] >= s[0]
  <2>1. i \in 0 .. n /\ i # 0
    OBVIOUS
  <2>2. s[i] = Score(gs[i], a, t)
    BY <1>0, <2>1, ScoresType DEF Scored
  <2> QED
    BY <1>4, <2>2, ScoreNumbers
<1>6. Matching(gs, a, t) = {i \in 1 .. n : s[i] # s[0]}
  BY <1>0, <1>4, <1>5 DEF Matching
<1>7. CASE k = 0
  <2>1. \A i \in 1 .. n : s[i] <= s[0]
    BY <1>3, <1>7 DEF FirstBest
  <2>2. Matching(gs, a, t) = {}
    BY <1>4, <1>5, <1>6, <2>1
  <2> QED
    BY <1>0, <1>7, <2>2
<1>8. CASE k # 0
  <2>1. k \in 1 .. n /\ s[0] < s[k]
    BY <1>3, <1>8 DEF FirstBest
  <2>2. \A i \in 1 .. n : s[i] <= s[k]
    BY <1>3 DEF FirstBest
  <2>3. \A i \in 1 .. n : i < k => s[i] < s[k]
    BY <1>3, <2>1 DEF FirstBest
  <2>4. \A i : i \in Highest(gs, a, t) <=>
                 /\ i \in Matching(gs, a, t)
                 /\ \A j \in Matching(gs, a, t) : s[j] <= s[i]
    <3>1. \A i \in Matching(gs, a, t) : s[i] = Score(gs[i], a, t)
      BY <1>5, <1>6
    <3> QED
      BY <3>1 DEF Highest
  <2>5. k \in Highest(gs, a, t)
    BY <1>4, <1>5, <1>6, <2>1, <2>2, <2>4
  <2>6. ASSUME NEW i \in Highest(gs, a, t) PROVE k <= i
    <3>1. i \in 1 .. n /\ s[k] <= s[i]
      BY <1>6, <2>4, <2>5
    <3> QED
      BY <1>5, <2>1, <2>3, <3>1
  <2>7. Decides(gs, a, t, k)
    BY <2>5, <2>6 DEF Decides
  <2> QED
    BY <1>0, <1>8, <2>7
<1> QED
  BY <1>7, <1>8

-----------------------------------------------------------------------------
(* Theorems *)

\* For every manifest, integration, set of invocations and fault, a call is
\* made only where the session's own manifest says "on", the user allowed
\* the invocation, or an "always" covers it.
THEOREM Authority == Spec => []CallsAuthorised
<1>1. IInv => CallsAuthorised
  BY DEF IInv, AuthInv, Authorised, CallsAuthorised, Permitted
<1>2. QED  BY InitIInv, NextStep, <1>1, PTL DEF Spec

\* For every manifest and integration, "always" changes no decision about an
\* action and a target that no override matches.
THEOREM Locality == Spec => []OverrideIsLocal
<1>1. IInv => OverrideIsLocal
  BY Unmatched DEF IInv, Shape, ManifestInv, Extended, OverrideIsLocal
<1>2. QED  BY InitIInv, NextStep, <1>1, PTL DEF Spec

\* For any number of concurrent invocations, an override that was recorded
\* is never lost to another one.
THEOREM NoLostOverride == Spec => []OverrideRecorded
<1>1. IInv => OverrideRecorded
  BY DEF IInv, ManifestInv, OverrideRecorded
<1>2. QED  BY InitIInv, NextStep, <1>1, PTL DEF Spec

\* For any number of concurrent invocations, kills and failed updates, the
\* lock is held only by who will release it.
THEOREM LockReleased == Spec => []LockInUse
<1>1. IInv => LockInUse
  BY DEF IInv, Shape, LockInv, LockInUse
<1>2. QED  BY InitIInv, NextStep, <1>1, PTL DEF Spec

\* For any integration and number of invocations, the state of the gateway
\* is well typed, and no bucket that is written is above its limit.
THEOREM TypeCorrect == Spec => []TypeOK
<1>1. RateInv => TypeOK
  BY DEF RateInv
<1>2. QED  BY RateInit, RateStep, <1>1, PTL DEF Spec

\* For any limits, window and number of invocations, no more calls of an
\* action are let through in a window than its limit, as long as no two
\* checks of the limit overlap and none dies while it saves.
THEOREM LimitKept == Spec => []LimitHoldsAlone
<1>1. RateInv => LimitHoldsAlone
  BY RateMeans
<1>2. QED  BY RateInit, RateStep, <1>1, PTL DEF Spec

\* For every manifest, action and target, the loop of EvaluatePermission ends
\* with the first of the grants that have the highest score, or with none
\* where none matches.
THEOREM LoopIsRight == Spec => []LoopAgrees
<1>1. IInv => LoopAgrees
  BY LoopDecides DEF IInv, ManifestInv, Extended, Prefixed, Deciding, LoopAgrees
<1>2. QED  BY InitIInv, NextStep, <1>1, PTL DEF Spec
=============================================================================
