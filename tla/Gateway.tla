------------------------------ MODULE Gateway ------------------------------
(***************************************************************************)
(* Integration calls of one session: `toc runtime invoke` processes and    *)
(* the Invoke tool of the runner share permissions.json and                *)
(* rate_limits.json of the session.  A call is decided by the manifest,    *)
(* where it says "ask" by the user, and then counted against the rate      *)
(* limit of its action.  "Always allow" appends a grant to the manifest.   *)
(***************************************************************************)
EXTENDS Permission, SequencesExt

CONSTANTS
  Procs,       \* invocations that may go on at the same time
  NoProc,      \* nobody
  Actions,
  Targets,     \* whose text has no ":" and no ",", which ParsePermission splits at
  Manifests,   \* the grants a session may be spawned with
  NoGrant,     \* no override to record
  Limit,       \* rate limit of each action, 0 for none
  Window,      \* its window
  MaxTime,     \* bound: the clock
  MaxCalls,    \* bound: invocations begun
  Faults       \* kill, fail, persist: which of them occur

ASSUME GatewayAssumption ==
  /\ NoProc \notin Procs
  /\ Actions # {} /\ Targets # {}
  /\ Limit \in [Actions -> Nat]
  /\ {Window, MaxTime, MaxCalls} \subseteq Nat
  /\ \A m \in Manifests : m \in Seq(Range(m))
  /\ Faults \subseteq {"kill", "fail", "persist"}

VARIABLES
  initial,    \* the manifest the session was spawned with
  manifest,   \* permissions.json
  lock,       \* who holds permissions.json.lock
  rates,      \* rate_limits.json
  time,       \* the clock
  runner,     \* the manifest as the session's runner has read it
  pc, req,    \* where each invocation is, and its action and target
  tool,       \* whether it is the runner's Invoke tool
  seen,       \* the manifest it has read
  reply,      \* the answer to its approval request
  grant,      \* the override it records
  counters,   \* the rate limits it has read
  calls,      \* invocations begun
  \* history
  always,     \* what was always allowed: action, subject, target
  recorded,   \* overrides that were persisted
  allowed,    \* when Allow let an action through
  overlapped  \* an Allow met another one, or died while it saved

files   == <<manifest, lock, rates>>
history == <<always, recorded, allowed, overlapped>>
request == <<req, tool>>
locals  == <<pc, request, seen, reply, grant, counters>>
vars == <<initial, runner, files, time, locals, calls, history>>

Requests == [action : Actions, target : Targets]
Times    == 0 .. MaxTime
NoBucket == [count |-> 0, reset |-> -1]
NoRates  == [a \in Actions |-> NoBucket]

Approvals == {"allow", "allow_always"}
Answers   == Approvals \cup {"deny", "unreadable"}

Goto(p, where) ==
  /\ pc' = [pc EXCEPT ![p] = where]
  /\ UNCHANGED <<seen, reply, grant, counters>>

\* The invocation is over and its memory gone.
Leave(p, where) ==
  /\ pc' = [pc EXCEPT ![p] = where]
  /\ seen' = [seen EXCEPT ![p] = <<>>]
  /\ reply' = [reply EXCEPT ![p] = "none"]
  /\ grant' = [grant EXCEPT ![p] = NoGrant]
  /\ counters' = [counters EXCEPT ![p] = NoRates]
End(p) == Leave(p, "idle")

Proceed(p, where) == IF where = "idle" THEN End(p) ELSE Goto(p, where)

-----------------------------------------------------------------------------
(* Permission *)

\* A process of its own, or one tool call of the runner.
Begin(p) ==
  /\ pc[p] = "idle" /\ calls < MaxCalls
  /\ calls' = calls + 1
  /\ \E r \in Requests : req' = [req EXCEPT ![p] = r]
  /\ \/ /\ pc' = [pc EXCEPT ![p] = "load"]
        /\ tool' = [tool EXCEPT ![p] = FALSE]
        /\ UNCHANGED seen
     \/ /\ \A q \in Procs : tool[q] => pc[q] = "idle"
        /\ pc' = [pc EXCEPT ![p] = "decide"]
        /\ tool' = [tool EXCEPT ![p] = TRUE]
        /\ seen' = [seen EXCEPT ![p] = runner]
  /\ UNCHANGED <<initial, runner, files, time, reply, grant, counters, history>>

\* loadPermissionManifest
LoadManifest(p) ==
  /\ pc[p] = "load"
  /\ pc' = [pc EXCEPT ![p] = "decide"]
  /\ seen' = [seen EXCEPT ![p] = manifest]
  /\ UNCHANGED <<initial, runner, files, time, request, reply, grant, counters, calls, history>>

\* The session is resumed: a runner reads the manifest when it starts.
Restart ==
  /\ \A p \in Procs : tool[p] => pc[p] \in {"idle", "dead"}
  /\ runner' = manifest
  /\ pc' = [p \in Procs |-> IF pc[p] = "dead" THEN "idle" ELSE pc[p]]
  /\ UNCHANGED <<initial, files, time, request, seen, reply, grant, counters, calls, history>>

\* Mutant: the tool takes "ask" for "on".
Decide_ToolNeverAsks(p) ==
  /\ pc[p] = "decide"
  /\ LET level == Level(seen[p], req[p].action, req[p].target) IN
       Proceed(p, CASE level = "off" -> "idle"
                    [] level = "ask" /\ ~tool[p] -> "asking"
                    [] OTHER -> "limit")
  /\ UNCHANGED <<initial, runner, files, time, request, calls, history>>

\* The tool cannot ask: only "on" lets it go on.
Decide(p) ==
  /\ pc[p] = "decide"
  /\ LET level == Level(seen[p], req[p].action, req[p].target) IN
       Proceed(p, CASE level = "on" -> "limit"
                    [] level = "ask" /\ ~tool[p] -> "asking"
                    [] OTHER -> "idle")
  /\ UNCHANGED <<initial, runner, files, time, request, calls, history>>

\* The user, at the terminal or through a response file of the request.
Answer(p) ==
  /\ pc[p] = "asking" /\ reply[p] = "none"
  /\ \E x \in Answers : reply' = [reply EXCEPT ![p] = x]
  /\ UNCHANGED <<initial, runner, files, time, pc, request, seen, grant, counters,
                 calls, history>>

\* The grant appended for "always": the subject of the grant that asked, on
\* this target only.
OverrideFor(g, t) ==
  [mode |-> "on", subject |-> g.subject, scopes |-> {ExactScope(t)}]

\* requestInvocationApproval
HearAnswer(p) ==
  /\ pc[p] = "asking" /\ reply[p] # "none"
  /\ \/ /\ reply[p] = "allow_always"
        /\ \E i \in 1 .. Len(seen[p]) :
             LET a == req[p].action
                 t == req[p].target
                 g == seen[p][i]
             IN  /\ Decides(seen[p], a, t, i)
                 /\ grant' = [grant EXCEPT ![p] = OverrideFor(g, t)]
                 /\ always' = always \cup {[action |-> a, subject |-> g.subject, target |-> t]}
        /\ pc' = [pc EXCEPT ![p] = "lock"]
        /\ UNCHANGED <<seen, reply, counters>>
     \/ /\ reply[p] # "allow_always"
        /\ Proceed(p, IF reply[p] = "allow" THEN "limit" ELSE "idle")
        /\ UNCHANGED always
  /\ UNCHANGED <<initial, runner, files, time, request, calls, recorded, allowed, overlapped>>

\* No answer within five minutes.
ApprovalTimesOut(p) ==
  /\ pc[p] = "asking"
  /\ End(p)
  /\ UNCHANGED <<initial, runner, files, time, request, calls, history>>

-----------------------------------------------------------------------------
(* appendSessionPermissionOverride *)

\* Mutant: no lock.
LockManifest_Shared(p) ==
  /\ pc[p] = "lock"
  /\ lock' = p
  /\ Goto(p, "reload")
  /\ UNCHANGED <<initial, runner, manifest, rates, time, request, calls, history>>

LockManifest(p) ==
  /\ pc[p] = "lock" /\ lock = NoProc
  /\ lock' = p
  /\ Goto(p, "reload")
  /\ UNCHANGED <<initial, runner, manifest, rates, time, request, calls, history>>

Reload(p) ==
  /\ pc[p] = "reload"
  /\ pc' = [pc EXCEPT ![p] = "append"]
  /\ seen' = [seen EXCEPT ![p] = manifest]
  /\ UNCHANGED <<initial, runner, files, time, request, reply, grant, counters, calls, history>>

Unlock(p) == lock' = IF lock = p THEN NoProc ELSE lock

\* Mutant: the override takes the place of the grants.
AppendOverride_Replaces(p) ==
  /\ pc[p] = "append"
  /\ manifest' = IF grant[p] \in Range(seen[p]) THEN manifest ELSE <<grant[p]>>
  /\ recorded' = recorded \cup {grant[p]}
  /\ Unlock(p)
  /\ Goto(p, "limit")
  /\ UNCHANGED <<initial, runner, rates, time, request, calls, always, allowed, overlapped>>

\* atomicWriteJSON renames the new file into place, unless the grant is
\* there already; the lock is released.
AppendOverride(p) ==
  /\ pc[p] = "append"
  /\ manifest' = IF grant[p] \in Range(seen[p]) THEN manifest
                 ELSE Append(seen[p], grant[p])
  /\ recorded' = recorded \cup {grant[p]}
  /\ Unlock(p)
  /\ Goto(p, "limit")
  /\ UNCHANGED <<initial, runner, rates, time, request, calls, always, allowed, overlapped>>

\* Mutant: the error path leaves the lock behind.
PersistFails_KeepsLock(p) ==
  /\ "persist" \in Faults
  /\ pc[p] \in {"lock", "reload", "append"}
  /\ Goto(p, "limit")
  /\ UNCHANGED <<initial, runner, files, time, request, calls, history>>

\* The override cannot be persisted: a warning, and the call goes on.
PersistFails(p) ==
  /\ "persist" \in Faults
  /\ pc[p] \in {"lock", "reload", "append"}
  /\ Unlock(p)
  /\ Goto(p, "limit")
  /\ UNCHANGED <<initial, runner, manifest, rates, time, request, calls, history>>

-----------------------------------------------------------------------------
(* RateLimiter.Allow, whose mutex is the process's own, and the call *)

Counting == {"count", "save"}

\* A file that does not parse counts as none.
LoadRates(p) ==
  /\ pc[p] = "limit"
  /\ \/ /\ Limit[req[p].action] = 0
        /\ Goto(p, "call")
        /\ UNCHANGED overlapped
     \/ /\ Limit[req[p].action] > 0
        /\ pc' = [pc EXCEPT ![p] = "count"]
        /\ counters' = [counters EXCEPT ![p] = rates]
        /\ overlapped' = (overlapped \/ \E q \in Procs \ {p} : pc[q] \in Counting)
        /\ UNCHANGED <<seen, reply, grant>>
  /\ UNCHANGED <<initial, runner, files, time, request, calls, always, recorded, allowed>>

Expired(b) == b = NoBucket \/ time > b.reset

\* Mutant: one call too many.
Counted_OneMore(b, max) ==
  IF Expired(b) THEN [count |-> 1, reset |-> time + Window]
  ELSE IF b.count > max THEN b ELSE [b EXCEPT !.count = @ + 1]

\* The bucket after this call, the same when the call is rejected.
Counted(b, max) ==
  IF Expired(b) THEN [count |-> 1, reset |-> time + Window]
  ELSE IF b.count >= max THEN b ELSE [b EXCEPT !.count = @ + 1]

\* The check, and the truncation of the file that is to be written.
Count(p) ==
  /\ pc[p] = "count"
  /\ LET a == req[p].action
         b == Counted(counters[p][a], Limit[a])
     IN
     \/ /\ b = counters[p][a]
        /\ End(p)
        /\ UNCHANGED <<rates, allowed>>
     \/ /\ b # counters[p][a]
        /\ pc' = [pc EXCEPT ![p] = "save"]
        /\ counters' = [counters EXCEPT ![p][a] = b]
        /\ rates' = NoRates
        /\ allowed' = [allowed EXCEPT ![a] = Append(@, time)]
        /\ UNCHANGED <<seen, reply, grant>>
  /\ UNCHANGED <<initial, runner, manifest, lock, time, request, calls, always,
                 recorded, overlapped>>

SaveRates(p) ==
  /\ pc[p] = "save"
  /\ rates' = counters[p]
  /\ Goto(p, "call")
  /\ UNCHANGED <<initial, runner, manifest, lock, time, request, calls, history>>

\* The HTTP request and what follows it.
Call(p) ==
  /\ pc[p] = "call"
  /\ End(p)
  /\ UNCHANGED <<initial, runner, files, time, request, calls, history>>

-----------------------------------------------------------------------------
(* Faults and time *)

\* The target, the credential or the definition cannot be had.
Fail(p) ==
  /\ "fail" \in Faults
  /\ pc[p] \in {"load", "decide", "limit"}
  /\ End(p)
  /\ UNCHANGED <<initial, runner, files, time, request, calls, history>>

\* The process dies, its flock with it; a tool call dies with its runner.
Kill(p) ==
  /\ "kill" \in Faults
  /\ pc[p] \notin {"idle", "dead"}
  /\ Leave(p, IF tool[p] THEN "dead" ELSE "idle")
  /\ Unlock(p)
  /\ overlapped' = (overlapped \/ pc[p] = "save")
  /\ UNCHANGED <<initial, runner, manifest, rates, time, request, calls, always,
                 recorded, allowed>>

Tick ==
  /\ time < MaxTime
  /\ time' = time + 1
  /\ UNCHANGED <<initial, runner, files, locals, calls, history>>

-----------------------------------------------------------------------------
Init ==
  /\ initial \in Manifests /\ manifest = initial /\ runner = initial
  /\ lock = NoProc /\ rates = NoRates /\ time = 0 /\ calls = 0
  /\ pc = [p \in Procs |-> "idle"]
  /\ req = [p \in Procs |-> CHOOSE r \in Requests : TRUE]
  /\ tool = [p \in Procs |-> FALSE]
  /\ seen = [p \in Procs |-> <<>>]
  /\ reply = [p \in Procs |-> "none"]
  /\ grant = [p \in Procs |-> NoGrant]
  /\ counters = [p \in Procs |-> NoRates]
  /\ always = {} /\ recorded = {}
  /\ allowed = [a \in Actions |-> <<>>]
  /\ overlapped = FALSE

Step(p) ==
  \/ LoadManifest(p) \/ Decide(p) \/ HearAnswer(p) \/ ApprovalTimesOut(p)
  \/ LockManifest(p) \/ Reload(p) \/ AppendOverride(p) \/ PersistFails(p)
  \/ LoadRates(p)    \/ Count(p)  \/ SaveRates(p)      \/ Call(p)

Next ==
  \/ \E p \in Procs : Begin(p) \/ Answer(p) \/ Step(p) \/ Fail(p) \/ Kill(p)
  \/ Restart \/ Tick

Spec == Init /\ [][Next]_vars

-----------------------------------------------------------------------------
(* Properties *)

\* What a rate_limits.json may hold: no bucket is above its limit.
Counters ==
  {f \in [Actions -> [count : Nat, reset : Int]] : \A a \in Actions : f[a].count <= Limit[a]}

TypeOK ==
  /\ initial \in Manifests
  /\ lock \in Procs \cup {NoProc}
  /\ time \in Times /\ calls \in 0 .. MaxCalls
  /\ pc \in [Procs -> {"idle", "dead", "load", "decide", "asking", "lock", "reload",
                       "append", "limit", "count", "save", "call"}]
  /\ req \in [Procs -> Requests] /\ tool \in [Procs -> BOOLEAN]
  /\ reply \in [Procs -> Answers \cup {"none"}]
  /\ rates \in Counters /\ counters \in [Procs -> Counters]
  /\ allowed \in [Actions -> Seq(Times)] /\ overlapped \in BOOLEAN

\* The user has always allowed an action of the same grant, on a target that
\* covers this one.
Covered(a, t) ==
  \E w \in always : /\ ActionScore(w.subject, a) # NoMatch
                    /\ ScopeScore(ExactScope(w.target), t) # NoMatch

\* A call is made only where the manifest of the session said so from the
\* start, or the user allowed this invocation, or an "always"
\* covers it (docs/integration-permissions.md:61: "If no grant matches ... deny").
CallsAuthorised ==
  \A p \in Procs : pc[p] = "call" =>
    \/ Level(initial, req[p].action, req[p].target) = "on"
    \/ reply[p] \in Approvals
    \/ Covered(req[p].action, req[p].target)

\* What is said for one target stays with it: an action and a target that
\* no override matches are decided as when the session was spawned.
OverrideIsLocal ==
  manifest # initial => \A a \in Actions, t \in Targets :
    (\A i \in Len(initial) + 1 .. Len(manifest) : Score(manifest[i], a, t) = NoMatch)
      => Level(manifest, a, t) = Level(initial, a, t)

\* Two "always" answers at the same time are both kept: an override that was
\* recorded is never overwritten by one that read the manifest before.
OverrideRecorded == recorded \subseteq Range(manifest)

\* Calls let through since the bucket of an action was started.
InWindow(a) ==
  Cardinality({i \in DOMAIN allowed[a] :
                 rates[a].reset - Window <= allowed[a][i] /\ allowed[a][i] <= rates[a].reset})

\* "When the limit is exceeded, the gateway rejects the call until the
\* window resets" (docs/integrations.md:83, gateway.go:38).
LimitHolds == \A a \in Actions : rates[a] # NoBucket => InWindow(a) <= Limit[a]

\* ... which holds as long as no two Allow overlap and none dies in its save.
LimitHoldsAlone == ~overlapped => LimitHolds

\* Nobody waits for a lock that is not going to be released: who holds it
\* is between flock and its release, however the update ends.
LockInUse == lock # NoProc => pc[lock] \in {"reload", "append"}

\* The grant that decides over an invocation, the first of those with the
\* highest score, is the one EvaluatePermission's loop ends with.
LoopAgrees ==
  \A p \in Procs : pc[p] = "decide" =>
    LET i == LoopBest(seen[p], req[p].action, req[p].target) IN
      IF i = 0 THEN Matching(seen[p], req[p].action, req[p].target) = {}
      ELSE Decides(seen[p], req[p].action, req[p].target, i)
=============================================================================
