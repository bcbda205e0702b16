----------------------------- MODULE Integrate -----------------------------
(***************************************************************************)
(* `toc integrate add`: the OAuth flow that ends in a stored credential.   *)
(* A flow opens the browser and waits for the redirect on a fixed local    *)
(* port, or (--manual) lets the user paste the code.  Browser tabs outlive *)
(* the flow that opened them, and their redirect goes to whichever flow    *)
(* listens.  The callback handlers run in goroutines of the HTTP server,   *)
(* which hand their result over on two channels of one place each.         *)
(***************************************************************************)
EXTENDS Credentials

CONSTANTS
  NoProc,     \* nobody
  MaxFlows,   \* bound: OAuth flows begun
  MaxHits     \* bound: callbacks one server answers

ASSUME IntegrateAssumption ==
  NoProc \notin Procs /\ {MaxFlows, MaxHits} \subseteq Nat

VARIABLES
  method,     \* token or oauth2: the auth method of the integration
  port,       \* the process that listens on the callback port
  flow,       \* the flow (its OAuth state) of each process, 0 for none
  flows,      \* flows begun: each has an open browser tab
  pending,    \* sends on the channels of each process not yet received
  hits        \* callbacks its server has answered

flowVars == <<method, port, flow, flows, pending, hits>>
vars == <<credVars, flowVars>>

Channels == {"code", "error"}
NoSends  == [c \in Channels |-> 0]

Reset(p) ==
  /\ flow' = [flow EXCEPT ![p] = 0]
  /\ hits' = [hits EXCEPT ![p] = 0]
  /\ pending' = [pending EXCEPT ![p] = NoSends]
  /\ port' = IF port = p THEN NoProc ELSE port
  /\ UNCHANGED <<method, flows>>

Abort(p) == End(p) /\ Reset(p) /\ UNCHANGED <<stored, service, ops, mishaps>>

-----------------------------------------------------------------------------
\* A token is pasted and stored as it is.
AddToken(p) ==
  /\ method = "token"
  /\ Begin(p, "add", "openCredential")
  /\ UNCHANGED <<stored, service, key, held, mishaps, flowVars>>

\* The flow gets a state of its own and the browser, or the user, its URL.
AddOAuth(p, where) ==
  /\ method = "oauth2" /\ flows < MaxFlows
  /\ pc[p] = "idle" /\ ops < MaxOps /\ "add" \in Commands
  /\ ops' = ops + 1
  /\ op' = [op EXCEPT ![p] = "add"]
  /\ pc' = [pc EXCEPT ![p] = where]
  /\ flows' = flows + 1
  /\ flow' = [flow EXCEPT ![p] = flows + 1]
  /\ UNCHANGED <<stored, service, then, key, held, mishaps, method, port, pending, hits>>

\* runManualOAuth2Flow: whatever code is pasted is taken, of any flow.
Paste(p) ==
  /\ pc[p] = "paste"
  /\ \/ Goto(p, "exchange") /\ UNCHANGED <<flowVars, stored, service, ops, mishaps>>
     \/ Abort(p)

Listen(p) ==
  /\ pc[p] = "listen"
  /\ \/ /\ port = NoProc
        /\ port' = p
        /\ Goto(p, "listening")
        /\ UNCHANGED <<method, flow, flows, pending, hits, stored, service, ops, mishaps>>
     \/ port # NoProc /\ Abort(p)

\* The browser follows the redirect of flow f to the server of p: with an
\* error, or with a code, which counts only with the state of this flow.
Accepted(p, f, granted) == granted /\ f = flow[p]

Callback(p, f, granted) ==
  /\ port = p /\ hits[p] < MaxHits
  /\ hits' = [hits EXCEPT ![p] = @ + 1]
  /\ pending' = [pending EXCEPT ![p][IF Accepted(p, f, granted) THEN "code" ELSE "error"] = @ + 1]
  /\ UNCHANGED <<method, port, flow, flows, credVars>>

\* The select of RunCallbackServer takes one result, or the context ends.
Receive(p, c) ==
  /\ pc[p] = "listening" /\ pending[p][c] > 0
  /\ pending' = [pending EXCEPT ![p][c] = @ - 1]
  /\ Goto(p, IF c = "code" THEN "received" ELSE "refused")
  /\ UNCHANGED <<method, port, flow, flows, hits, stored, service, ops, mishaps>>

TimeOut(p) ==
  /\ pc[p] = "listening"
  /\ Goto(p, "timedOut")
  /\ UNCHANGED <<flowVars, stored, service, ops, mishaps>>

\* Mutant: the channels have no buffer.
Stuck_Unbuffered(p) == \E c \in Channels : pending[p][c] > 0

\* A send waits when its channel holds one already: Shutdown closes the
\* listener, then waits for every handler, without a deadline.
Stuck(p) == \E c \in Channels : pending[p][c] > 1

CloseListener(p) ==
  /\ port = p /\ pc[p] \in {"received", "refused", "timedOut"}
  /\ port' = NoProc
  /\ UNCHANGED <<method, flow, flows, pending, hits, credVars>>

Shutdown(p) ==
  /\ port # p /\ pc[p] \in {"received", "refused", "timedOut"} /\ ~Stuck(p)
  /\ IF pc[p] = "received"
     THEN /\ Goto(p, "exchange")
          /\ UNCHANGED <<flowVars, stored, service, ops, mishaps>>
     ELSE Abort(p)

\* Mutant: the credential is stored first and the client is not.
Exchange_NoClient(p) ==
  /\ pc[p] = "exchange"
  /\ \/ /\ issued < MaxTokens
        /\ issued' = issued + 1
        /\ valid' = valid \cup {issued + 1}
        /\ held' = [held EXCEPT ![p] = issued + 1]
        /\ then' = [then EXCEPT ![p] = "openCredential"]
        /\ pc' = [pc EXCEPT ![p] = "key"]
        /\ UNCHANGED <<stored, rotates, op, key, ops, mishaps, flowVars>>
     \/ Abort(p)

\* ExchangeCode, then StoreOAuth2ClientConfig and StoreCredential.
Exchange(p) ==
  /\ pc[p] = "exchange"
  /\ \/ /\ issued < MaxTokens
        /\ issued' = issued + 1
        /\ valid' = valid \cup {issued + 1}
        /\ held' = [held EXCEPT ![p] = issued + 1]
        /\ then' = [then EXCEPT ![p] = "openClient"]
        /\ pc' = [pc EXCEPT ![p] = "key"]
        /\ UNCHANGED <<stored, rotates, op, key, ops, mishaps, flowVars>>
     \/ Abort(p)

Added(p) == pc[p] = "stored" /\ Abort(p)

-----------------------------------------------------------------------------
Init ==
  /\ CredInit
  /\ method \in {"token", "oauth2"}
  /\ port = NoProc /\ flows = 0
  /\ flow = [p \in Procs |-> 0]
  /\ pending = [p \in Procs |-> NoSends] /\ hits = [p \in Procs |-> 0]

\* Ends of `add` that Credentials does not know of clear the flow as well.
Tidy(p) == IF pc'[p] = "idle" THEN Reset(p) ELSE UNCHANGED flowVars

Step(p) ==
  \/ CredStep(p) /\ Tidy(p)
  \/ Listen(p) \/ TimeOut(p) \/ CloseListener(p) \/ Shutdown(p)
  \/ \E c \in Channels : Receive(p, c)
  \/ Exchange(p) \/ Added(p)

User(p) ==
  \/ CredStart(p) /\ Tidy(p)
  \/ AddToken(p)
  \/ \E where \in {"listen", "paste"} : AddOAuth(p, where)
  \/ Paste(p)
  \/ \E f \in 1 .. flows, granted \in BOOLEAN : Callback(p, f, granted)

Kill(p) == Killed(p) /\ Tidy(p)

Next == \E p \in Procs : Step(p) \/ User(p) \/ Kill(p)

Spec == Init /\ [][Next]_vars

-----------------------------------------------------------------------------
(* Properties *)

\* Type invariant.
TypeOK ==
  /\ CredTypeOK
  /\ method \in {"token", "oauth2"} /\ port \in Procs \cup {NoProc}
  /\ flows \in 0 .. MaxFlows
  /\ flow \in [Procs -> 0 .. MaxFlows]
  /\ hits \in [Procs -> 0 .. MaxHits]
  /\ pending \in [Procs -> [Channels -> 0 .. MaxHits]]

\* The shutdown of the callback server, which waits for every handler and
\* has no deadline, is never stuck on a handler that waits for somebody to
\* take its result, unless three callbacks, or two and the time-out, came
\* before the listener was closed.
Flooded(p) == hits[p] >= IF pc[p] = "timedOut" THEN 2 ELSE 3
ShutdownEnds ==
  \A p \in Procs : pc[p] \in {"received", "refused", "timedOut"} /\ Stuck(p) => Flooded(p)
=============================================================================
