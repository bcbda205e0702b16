-------------------------- MODULE IntegrateProofs --------------------------
(***************************************************************************)
(* Proofs about the stored credential and the callback server: types, that *)
(* the key of the keychain opens what is stored, that the stored token is  *)
(* one the provider accepts, that its client is beside it, and that the    *)
(* shutdown of the server waits for nobody unless the callbacks were too   *)
(* many.                                                                   *)
(***************************************************************************)
EXTENDS Integrate, TLAPS

\* Where a process has the key and is about to write with it, or writes.
Writing == {"openClient", "writeClient", "openCredential", "writeCredential"}

\* What the select has received is one callback that the server has answered.
Over == {"received", "refused"}
Received(p) == IF pc[p] \in Over THEN 1 ELSE 0

\* The steps of a command.
Steps == {"idle", "key", "newKey", "openClient", "writeClient", "openCredential",
          "writeCredential", "loadCredential", "invoke", "loadClient", "refresh", "call",
          "stored", "remove", "paste", "listen", "listening", "received", "refused",
          "timedOut", "exchange"}

\* Where a process goes once it has the key.
Goals == {"idle", "openClient", "openCredential", "loadCredential", "loadClient"}

Stores   == /\ keychain \in Keys \cup {0} /\ keys \in 0 .. MaxKeys
            /\ files \in [Files -> Content]
Service  == /\ valid \subseteq Tokens /\ issued \in 0 .. MaxTokens /\ rotates \in BOOLEAN
Counts   == ops \in 0 .. MaxOps /\ mishaps \subseteq Mishaps
Places   == /\ pc \in [Procs -> Steps] /\ then \in [Procs -> Goals]
            /\ op \in [Procs -> {"none", "add", "invoke", "test", "remove"}]
            /\ key \in [Procs -> Keys \cup {0}] /\ held \in [Procs -> Tokens \cup {0}]
CredShape == Stores /\ Service /\ Counts /\ Places

FlowShape ==
  /\ method \in {"token", "oauth2"} /\ port \in Procs \cup {NoProc}
  /\ flows \in 0 .. MaxFlows
  /\ flow \in [Procs -> 0 .. MaxFlows]
  /\ hits \in [Procs -> 0 .. MaxHits]
  /\ pending \in [Procs -> [Channels -> Nat]]

\* The bounds are numbers.
LEMMA Bounds ==
  MaxKeys \in Nat /\ MaxTokens \in Nat /\ MaxOps \in Nat /\ MaxFlows \in Nat /\ MaxHits \in Nat
  BY CredentialsAssumption, IntegrateAssumption DEF CredentialsAssumption, IntegrateAssumption

-----------------------------------------------------------------------------
(* Types *)

\* Types hold to begin with.
LEMMA InitShape == Init => CredShape /\ FlowShape
  BY Bounds DEF Init, CredInit, CredShape, FlowShape, Stores, Service, Counts, Places, Steps, Goals,
                Content, Forms, Bare, Files, Keys, Tokens, NoSends, Channels, Mishaps

\* Forgetting, going on and giving up keep the types of what they touch.
LEMMA EndPlaces ==
  ASSUME NEW p \in Procs, Places, End(p)
  PROVE  Places'
  BY DEF Places, End, Forget, Steps, Goals

\* Going on leaves each process at a step of its command.
LEMMA GotoPlaces ==
  ASSUME NEW p \in Procs, NEW where \in Steps, Places, Goto(p, where)
  PROVE  Places'
  BY DEF Places, Goto, memory

\* So does asking for the key first.
LEMMA WithKeyPlaces ==
  ASSUME NEW p \in Procs, NEW where \in Goals, Places, WithKey(p, where)
  PROVE  Places'
  BY DEF Places, WithKey, Steps, Goals

\* So does giving up.
LEMMA GiveUpPlaces ==
  ASSUME NEW p \in Procs, Places, mishaps \subseteq Mishaps, GiveUp(p)
  PROVE  Places' /\ mishaps' \subseteq Mishaps
<1>1. \/ WithKey(p, "openCredential") /\ Went({"noclient"})
      \/ Goto(p, "call") /\ Went({"lost"})
      \/ End(p) /\ Went({})
  BY DEF GiveUp
<1>2. Places'
  BY <1>1, EndPlaces, GotoPlaces, WithKeyPlaces DEF Steps, Goals
<1>3. mishaps' \subseteq Mishaps
  BY <1>1 DEF Went, Mishaps
<1>4. QED
  BY <1>2, <1>3

\* The provider's answer to a token it accepts.
LEMMA UseService ==
  ASSUME Service, NEW t \in valid, Use(t)
  PROVE  NextToken(t) \in Tokens /\ Service'
<1>1. t \in Tokens
  BY DEF Service
<1>2. rotates => issued + 1 \in Tokens /\ issued + 1 \in 0 .. MaxTokens
  BY Bounds DEF Service, Use, Tokens
<1>3. NextToken(t) \in Tokens
  BY <1>1, <1>2 DEF NextToken
<1>4. QED
  BY <1>2, <1>3 DEF Use, Service

\* With the key a process goes on to where neither a key is made nor a callback
\* awaited.
LEMMA GoalIsStep ==
  ASSUME Places, NEW p \in Procs
  PROVE  then[p] \in Steps \ ({"newKey"} \cup Over)
  BY DEF Places, Goals, Steps, Over

\* Every step that a process takes by itself on the stored files.
LEMMA CredStepShape ==
  ASSUME CredShape, NEW p \in Procs, CredStep(p)
  PROVE  CredShape'
<1> USE Bounds DEF CredShape, stored, service
<1>1. CASE LookupKey(p)
  <2>1. CASE /\ key' = [key EXCEPT ![p] = keychain] /\ pc' = [pc EXCEPT ![p] = then[p]]
             /\ UNCHANGED <<op, then, held, mishaps>>
    BY <1>1, <2>1, GoalIsStep DEF LookupKey, Places, Stores, Service, Counts
  <2>2. CASE Goto(p, "newKey") /\ (Went({"fork"}) \/ Went({}))
    <3>1. Places' /\ mishaps' \subseteq Mishaps
      BY <2>2, GotoPlaces DEF Steps, Goals, Went, Counts, Mishaps
    <3>2. QED
      BY <1>1, <3>1 DEF LookupKey, Stores, Service, Counts
  <2>3. QED
    BY <1>1, <2>1, <2>2 DEF LookupKey
<1>2. CASE StoreKey(p)
  <2>1. keys + 1 \in Keys /\ keys + 1 \in 0 .. MaxKeys
    BY <1>2 DEF StoreKey, Stores, Keys
  <2>2. QED
    BY <1>2, <2>1, GoalIsStep DEF StoreKey, Stores, Service, Counts, Places
<1>3. CASE StoreKeyFails(p)
  <2>1. Places' /\ mishaps' \subseteq Mishaps
    BY <1>3, GiveUpPlaces DEF StoreKeyFails, Counts
  <2>2. QED
    BY <1>3, <2>1 DEF StoreKeyFails, Stores, Service, Counts
<1>4. CASE OpenFile(p)
  <2>1. Places'
    BY <1>4, GotoPlaces DEF OpenFile, Steps, Goals
  <2>2. files' \in [Files -> Content]
    BY <1>4 DEF OpenFile, Stores, Content, Bare, Forms
  <2>3. QED
    BY <1>4, <2>1, <2>2 DEF OpenFile, Stores, Service, Counts
<1>5. CASE WriteFile(p)
  <2>1. pc' \in [Procs -> Steps] /\ then' \in [Procs -> Goals]
    BY <1>5 DEF WriteFile, AfterWrite, Places, Steps, Goals
  <2>2. files' \in [Files -> Content]
    <3> DEFINE mine == [is |-> "whole", key |-> key[p],
                        token |-> IF pc[p] = "writeClient" THEN 0 ELSE held[p]]
    <3>1. mine \in Content /\ Bare("mixed") \in Content
      BY DEF Content, Bare, Forms, Places
    <3>2. \/ files' = [files EXCEPT ![Written(p)] = mine]
          \/ files' = [files EXCEPT ![Written(p)] = Bare("mixed")]
      BY <1>5 DEF WriteFile
    <3> HIDE DEF mine
    <3>3. QED
      BY <3>1, <3>2 DEF Stores
  <2>3. mishaps' \subseteq Mishaps
    BY <1>5 DEF WriteFile, Went, Counts, Mishaps
  <2>4. QED
    BY <1>5, <2>1, <2>2, <2>3 DEF WriteFile, Stores, Service, Counts, Places
<1>6. CASE WriteFails(p)
  <2>1. \/ WithKey(p, "openCredential") /\ Went({"torn", "noclient"})
        \/ Goto(p, "call") /\ Went({"torn", "lost"})
        \/ End(p) /\ Went({"torn"})
    BY <1>6 DEF WriteFails
  <2>2. Places'
    BY <2>1, EndPlaces, GotoPlaces, WithKeyPlaces DEF Steps, Goals
  <2>3. mishaps' \subseteq Mishaps
    BY <2>1 DEF Went, Counts, Mishaps
  <2>4. QED
    BY <1>6, <2>2, <2>3 DEF WriteFails, Stores, Service, Counts
<1>7. CASE LoadCredential(p)
  <2>1. CASE End(p)
    BY <1>7, <2>1, EndPlaces DEF LoadCredential, Stores, Service, Counts
  <2>2. CASE /\ held' = [held EXCEPT ![p] = files["credential"].token]
             /\ pc' = [pc EXCEPT ![p] = IF op[p] = "test" THEN "call" ELSE "invoke"]
             /\ UNCHANGED <<op, then, key>>
    <3>1. files["credential"].token \in Tokens \cup {0}
      BY DEF Stores, Files, Content
    <3>2. Places'
      BY <2>2, <3>1 DEF Places, Steps, Goals
    <3>3. QED
      BY <1>7, <3>2 DEF LoadCredential, Stores, Service, Counts
  <2>3. QED
    BY <1>7, <2>1, <2>2 DEF LoadCredential
<1>8. CASE Invoke(p)
  <2>1. Places'
    BY <1>8, GotoPlaces, WithKeyPlaces DEF Invoke, Steps, Goals
  <2>2. QED
    BY <1>8, <2>1 DEF Invoke, Stores, Service, Counts
<1>9. CASE LoadClient(p)
  <2>1. Places'
    BY <1>9, GotoPlaces, EndPlaces DEF LoadClient, Steps, Goals
  <2>2. QED
    BY <1>9, <2>1 DEF LoadClient, Stores, Service, Counts
<1>10. CASE Refresh(p)
  <2>1. NextToken(held[p]) \in Tokens /\ Service'
    BY <1>10, UseService DEF Refresh
  <2>2. Places'
    BY <1>10, <2>1 DEF Refresh, Places, Steps, Goals
  <2>3. QED
    BY <1>10, <2>1, <2>2 DEF Refresh, Stores, Counts
<1>11. CASE RefreshLost(p)
  <2>1. Service' /\ Places'
    BY <1>11, UseService, EndPlaces DEF RefreshLost
  <2>2. QED
    BY <1>11, <2>1 DEF RefreshLost, Stores, Counts, Went, Mishaps
<1>12. CASE RefreshFails(p)
  BY <1>12, EndPlaces DEF RefreshFails, Stores, Service, Counts
<1>13. CASE Call(p)
  BY <1>13, EndPlaces DEF Call, Stores, Service, Counts
<1>14. QED
  BY <1>1, <1>2, <1>3, <1>4, <1>5, <1>6, <1>7, <1>8, <1>9, <1>10, <1>11, <1>12, <1>13 DEF CredStep

\* What the user or a model makes a process do, and a kill.
LEMMA CredStartShape ==
  ASSUME CredShape, NEW p \in Procs, CredStart(p) \/ Killed(p)
  PROVE  CredShape'
<1> USE Bounds DEF CredShape, stored, service
<1>1. ASSUME NEW command \in {"invoke", "test"}, StartLoad(p, command)
      PROVE  CredShape'
  BY <1>1 DEF StartLoad, Begin, Stores, Service, Counts, Places, Steps, Goals
<1>2. CASE StartRemove(p)
  BY <1>2 DEF StartRemove, Stores, Service, Counts, Places, Steps, Goals
<1>3. CASE Remove(p)
  <2> DEFINE writing == {q \in Procs : pc[q] \in {"writeClient", "writeCredential"}}
  <2>1. \A q \in Procs : AfterWrite(q) \in Steps
    BY DEF AfterWrite, Steps, Goals
  <2>2. pc' \in [Procs -> Steps]
    <3>1. pc' = [q \in Procs |-> CASE q = p -> "idle" [] q \in writing -> AfterWrite(q)
                                    [] OTHER -> pc[q]]
      BY <1>3 DEF Remove
    <3>2. "idle" \in Steps
      BY DEF Steps, Goals
    <3>3. QED
      BY <2>1, <3>1, <3>2 DEF Places
  <2>3. then' \in [Procs -> Goals]
    BY <1>3 DEF Remove, Places, Steps, Goals
  <2>4. files' \in [Files -> Content]
    BY <1>3 DEF Remove, Content, Bare, Forms
  <2>5. mishaps' \subseteq Mishaps
    BY <1>3 DEF Remove, Went, Counts, Mishaps
  <2>6. QED
    BY <1>3, <2>2, <2>3, <2>4, <2>5 DEF Remove, Stores, Service, Counts, Places
<1>4. CASE Killed(p)
  <2>1. Places' /\ mishaps' \subseteq Mishaps
    BY <1>4, EndPlaces DEF Killed, Went, Counts, Mishaps
  <2>2. QED
    BY <1>4, <2>1 DEF Killed, Stores, Service, Counts
<1>5. QED
  BY <1>1, <1>2, <1>3, <1>4 DEF CredStart

\* The steps of the OAuth flow.
FlowStep(p) ==
  \/ Listen(p) \/ TimeOut(p) \/ CloseListener(p) \/ Shutdown(p)
  \/ \E c \in Channels : Receive(p, c)
  \/ Exchange(p) \/ Added(p) \/ AddToken(p)
  \/ \E where \in {"listen", "paste"} : AddOAuth(p, where)
  \/ Paste(p)
  \/ \E f \in 1 .. flows, granted \in BOOLEAN : Callback(p, f, granted)

\* A step is one of a command, or of the OAuth flow.
LEMMA NextCases ==
  Next <=> \E p \in Procs : \/ (CredStep(p) \/ CredStart(p) \/ Killed(p)) /\ Tidy(p)
                            \/ FlowStep(p)
  BY DEF Next, Step, User, Kill, FlowStep

\* A flow that is over leaves nothing of another type.
LEMMA ResetShape ==
  ASSUME FlowShape, NEW p \in Procs, Reset(p)
  PROVE  FlowShape'
  BY Bounds DEF FlowShape, Reset, NoSends, Channels

\* Every step of the OAuth flow keeps the types.
LEMMA FlowStepShape ==
  ASSUME CredShape, FlowShape, NEW p \in Procs, FlowStep(p)
  PROVE  CredShape' /\ FlowShape'
<1> USE Bounds DEF CredShape, stored, service, memory, flowVars, credVars
<1>1. CASE Abort(p)
  <2>1. Places' /\ FlowShape'
    BY <1>1, EndPlaces, ResetShape DEF Abort
  <2>2. QED
    BY <1>1, <2>1 DEF Abort, Stores, Service, Counts
<1>2. CASE Listen(p) /\ ~Abort(p)
  <2>1. Places'
    BY <1>2, GotoPlaces DEF Listen, Steps, Goals
  <2>2. QED
    BY <1>2, <2>1 DEF Listen, Goto, Stores, Service, Counts, FlowShape
<1>3. CASE TimeOut(p)
  <2>1. Places'
    BY <1>3, GotoPlaces DEF TimeOut, Steps, Goals
  <2>2. QED
    BY <1>3, <2>1 DEF TimeOut, Stores, Service, Counts, FlowShape
<1>4. CASE CloseListener(p)
  BY <1>4 DEF CloseListener, Stores, Service, Counts, Places, FlowShape
<1>5. CASE Shutdown(p) /\ ~Abort(p)
  <2>1. Places'
    BY <1>5, GotoPlaces DEF Shutdown, Steps, Goals
  <2>2. QED
    BY <1>5, <2>1 DEF Shutdown, Stores, Service, Counts, FlowShape
<1>6. ASSUME NEW c \in Channels, Receive(p, c)
      PROVE  CredShape' /\ FlowShape'
  <2>1. Places'
    BY <1>6, GotoPlaces DEF Receive, Steps, Goals
  <2>2. FlowShape'
    BY <1>6 DEF Receive, FlowShape
  <2>3. QED
    BY <1>6, <2>1, <2>2 DEF Receive, Stores, Service, Counts
<1>7. CASE Exchange(p) /\ ~Abort(p)
  <2>1. issued + 1 \in Tokens /\ issued + 1 \in 0 .. MaxTokens
    BY <1>7 DEF Exchange, Service, Tokens
  <2>2. Places'
    BY <1>7, <2>1 DEF Exchange, Places, Steps, Goals
  <2>3. QED
    BY <1>7, <2>1, <2>2 DEF Exchange, Stores, Service, Counts, FlowShape
<1>8. CASE AddToken(p)
  <2>1. Places' /\ Counts'
    BY <1>8 DEF AddToken, Begin, Places, Steps, Goals, Counts
  <2>2. QED
    BY <1>8, <2>1 DEF AddToken, Stores, Service, FlowShape
<1>9. ASSUME NEW where \in {"listen", "paste"}, AddOAuth(p, where)
      PROVE  CredShape' /\ FlowShape'
  <2>1. Places' /\ Counts'
    BY <1>9 DEF AddOAuth, Places, Steps, Goals, Counts
  <2>2. FlowShape'
    BY <1>9 DEF AddOAuth, FlowShape
  <2>3. QED
    BY <1>9, <2>1, <2>2 DEF AddOAuth, Stores, Service
<1>10. CASE Paste(p) /\ ~Abort(p)
  <2>1. Places'
    BY <1>10, GotoPlaces DEF Paste, Steps, Goals
  <2>2. QED
    BY <1>10, <2>1 DEF Paste, Stores, Service, Counts, FlowShape
<1>11. ASSUME NEW f \in 1 .. flows, NEW granted \in BOOLEAN, Callback(p, f, granted)
       PROVE  CredShape' /\ FlowShape'
  <2>1. PICK c \in Channels : pending' = [pending EXCEPT ![p][c] = @ + 1]
    BY <1>11 DEF Callback, Channels
  <2>2. FlowShape'
    BY <1>11, <2>1 DEF Callback, FlowShape
  <2>3. QED
    BY <1>11, <2>2 DEF Callback, Stores, Service, Counts, Places
<1>12. QED
  BY <1>1, <1>2, <1>3, <1>4, <1>5, <1>6, <1>7, <1>8, <1>9, <1>10, <1>11 DEF FlowStep, Added

\* Types are inductive.
LEMMA NextShape == CredShape /\ FlowShape /\ [Next]_vars => CredShape' /\ FlowShape'
<1> SUFFICES ASSUME CredShape, FlowShape, [Next]_vars PROVE CredShape' /\ FlowShape'
  OBVIOUS
<1>1. CASE UNCHANGED vars
  BY <1>1 DEF vars, credVars, stored, service, memory, flowVars, CredShape, FlowShape,
              Stores, Service, Counts, Places
<1>2. ASSUME NEW p \in Procs, CredStep(p) \/ CredStart(p) \/ Killed(p), Tidy(p)
      PROVE  CredShape' /\ FlowShape'
  <2>1. FlowShape'
    BY <1>2, ResetShape DEF Tidy, flowVars, FlowShape
  <2>2. QED
    BY <1>2, <2>1, CredStepShape, CredStartShape
<1>3. QED
  BY <1>1, <1>2, NextCases, FlowStepShape

-----------------------------------------------------------------------------
(* The key opens what is stored.                                           *)

\* The inductive invariant.  Whoever is to write holds a key; as long as no key
\* was made beside another one, a key that a process holds, or a file was
\* written with, is the keychain's, and a process makes one only while there is
\* none and nobody else makes one.
Unforked ==
  /\ \A p \in Procs : key[p] # 0 => key[p] = keychain
  /\ \A p \in Generating : keychain = 0 /\ \A q \in Generating : q = p
  /\ \A f \in Files : files[f].is = "whole" => files[f].key = keychain /\ keychain # 0
KeyInv ==
  /\ \A p \in Procs : pc[p] \in Writing => key[p] # 0
  /\ "fork" \notin mishaps => Unforked

\* The invariant holds to begin with: there is no key and no file.
LEMMA InitKey == Init => KeyInv
  BY DEF Init, CredInit, KeyInv, Unforked, Writing, Generating, Bare

\* A step of one process that touches neither the key nor the files, and does
\* not lead to the making of a key or to a file.
Idles(p) ==
  /\ UNCHANGED stored
  /\ mishaps \subseteq mishaps'
  /\ \E where \in Steps \ (Writing \cup {"newKey"}) : pc' = [pc EXCEPT ![p] = where]
  /\ key' = key \/ key' = [key EXCEPT ![p] = 0]

\* Such a step keeps the invariant.
LEMMA IdlesKey ==
  ASSUME CredShape, KeyInv, NEW p \in Procs, Idles(p)
  PROVE  KeyInv'
<1>1. PICK where \in Steps \ (Writing \cup {"newKey"}) : pc' = [pc EXCEPT ![p] = where]
  BY DEF Idles
<1>2. \A q \in Procs : /\ pc'[q] \in Writing \cup {"newKey"} => q # p /\ pc'[q] = pc[q]
                       /\ key'[q] = IF q = p THEN key'[p] ELSE key[q]
                       /\ key'[p] = key[p] \/ key'[p] = 0
  BY <1>1 DEF CredShape, Places, Idles
<1>3. ASSUME NEW q \in Procs, pc'[q] \in Writing PROVE key'[q] # 0
  BY <1>2, <1>3 DEF KeyInv
<1>4. ASSUME "fork" \notin mishaps' PROVE Unforked'
  <2>1. Unforked /\ keychain' = keychain /\ files' = files
    BY <1>4 DEF KeyInv, Idles, stored
  <2>2. Generating' \subseteq Generating
    BY <1>2 DEF Generating
  <2>3. QED
    BY <1>2, <2>1, <2>2 DEF Unforked
<1>5. QED
  BY <1>3, <1>4 DEF KeyInv

\* Giving up, going on and ending are such steps.
LEMMA EndIdles ==
  ASSUME NEW p \in Procs, End(p), UNCHANGED stored, mishaps \subseteq mishaps'
  PROVE  Idles(p)
  BY DEF End, Forget, Idles, Steps, Goals, Writing

\* A process that goes on to a step that writes nothing touches neither key nor file.
LEMMA GotoIdles ==
  ASSUME NEW p \in Procs, NEW where \in Steps \ (Writing \cup {"newKey"}),
         Goto(p, where), UNCHANGED stored, mishaps \subseteq mishaps'
  PROVE  Idles(p)
  BY DEF Goto, memory, Idles

\* Nor does one that asks for the key first.
LEMMA WithKeyIdles ==
  ASSUME NEW p \in Procs, NEW where, WithKey(p, where),
         UNCHANGED stored, mishaps \subseteq mishaps'
  PROVE  Idles(p)
  BY DEF WithKey, Idles, Steps, Goals, Writing

\* So does every step of a process on the stored files.
LEMMA CredStepKey ==
  ASSUME CredShape, KeyInv, NEW p \in Procs, CredStep(p)
  PROVE  KeyInv'
<1> USE DEF stored
<1>1. CASE LookupKey(p)
  <2>1. CASE /\ keychain # 0
             /\ key' = [key EXCEPT ![p] = keychain] /\ pc' = [pc EXCEPT ![p] = then[p]]
             /\ UNCHANGED <<op, then, held, mishaps>>
    <3>1. \A q \in Procs : /\ key'[q] = IF q = p THEN keychain ELSE key[q]
                           /\ q # p => pc'[q] = pc[q]
      BY <2>1 DEF CredShape, Places
    <3>2. UNCHANGED <<keychain, files>>
      BY <1>1 DEF LookupKey
    <3>3. Generating' \subseteq Generating
      BY <2>1, <3>1, GoalIsStep DEF CredShape, Places, Generating
    <3>4. \A q \in Procs : pc'[q] \in Writing => key'[q] # 0
      BY <2>1, <3>1 DEF KeyInv
    <3>5. QED
      BY <2>1, <3>1, <3>2, <3>3, <3>4 DEF KeyInv, Unforked
  <2>2. CASE Goto(p, "newKey") /\ Went(IF keychain # 0 \/ Generating # {} THEN {"fork"} ELSE {})
    <3>1. key' = key /\ \A q \in Procs : pc'[q] = IF q = p THEN "newKey" ELSE pc[q]
      BY <2>2 DEF Goto, memory, CredShape, Places
    <3>2. UNCHANGED <<keychain, files>>
      BY <1>1 DEF LookupKey
    <3>3. ASSUME "fork" \notin mishaps' PROVE Unforked'
      <4>1. keychain = 0 /\ Generating = {} /\ Unforked
        BY <2>2, <3>3 DEF Went, KeyInv
      <4>2. Generating' = {p}
        BY <3>1, <4>1 DEF Generating
      <4>3. QED
        BY <3>1, <3>2, <4>1, <4>2 DEF Unforked
    <3>4. QED
      BY <3>1, <3>3 DEF KeyInv, Writing
  <2>3. QED
    BY <1>1, <2>1, <2>2 DEF LookupKey
<1>2. CASE StoreKey(p)
  <2>1. keys + 1 # 0
    BY Bounds DEF CredShape, Stores
  <2>2. \A q \in Procs : /\ key'[q] = IF q = p THEN keychain' ELSE key[q]
                         /\ pc'[q] = IF q = p THEN then[p] ELSE pc[q]
    BY <1>2 DEF StoreKey, CredShape, Places
  <2>3. then' = then /\ mishaps' = mishaps /\ files' = files /\ keychain' # 0
    BY <1>2, <2>1 DEF StoreKey
  <2>4. ASSUME "fork" \notin mishaps' PROVE Unforked'
    <3>1. Unforked /\ p \in Generating
      BY <1>2, <2>3, <2>4 DEF KeyInv, StoreKey, Generating
    <3>2. keychain = 0 /\ \A q \in Procs : pc[q] = "newKey" => q = p
      BY <3>1 DEF Unforked, Generating
    <3>3. Generating' = {}
      BY <2>2, <3>2, GoalIsStep DEF CredShape, Generating
    <3>4. QED
      BY <2>2, <2>3, <3>1, <3>2, <3>3 DEF Unforked
  <2>5. QED
    BY <2>2, <2>3, <2>4 DEF KeyInv
<1>3. CASE StoreKeyFails(p)
  <2>1. \/ WithKey(p, "openCredential") /\ Went({"noclient"})
        \/ Goto(p, "call") /\ Went({"lost"})
        \/ End(p) /\ Went({})
    BY <1>3 DEF StoreKeyFails, GiveUp
  <2>2. UNCHANGED <<keychain, files, keys>> /\ mishaps \subseteq mishaps'
    BY <1>3, <2>1 DEF StoreKeyFails, Went
  <2>3. Idles(p)
    BY <2>1, <2>2, EndIdles, GotoIdles, WithKeyIdles DEF Steps, Goals, Writing
  <2>4. QED
    BY <2>3, IdlesKey
<1>4. CASE OpenFile(p)
  <2>1. PICK f \in Files : files' = [files EXCEPT ![f] = Bare("empty")]
    BY <1>4 DEF OpenFile, Written, Files
  <2>2. /\ pc[p] \in Writing /\ UNCHANGED <<keychain, mishaps, key, then>>
        /\ pc'[p] # "newKey" /\ \A q \in Procs : q # p => pc'[q] = pc[q]
    BY <1>4 DEF OpenFile, Goto, memory, Writing, CredShape, Places
  <2>3. \A g \in Files : files'[g].is = "whole" => files'[g] = files[g]
    BY <2>1 DEF CredShape, Stores, Bare
  <2>4. Generating' \subseteq Generating
    BY <2>2 DEF Generating
  <2>5. QED
    BY <2>2, <2>3, <2>4 DEF KeyInv, Unforked
<1>5. CASE WriteFile(p)
  <2>1. /\ pc[p] \in Writing /\ UNCHANGED <<keychain, key>>
        /\ pc'[p] \notin Writing \cup {"newKey"} /\ \A q \in Procs : q # p => pc'[q] = pc[q]
    BY <1>5 DEF WriteFile, AfterWrite, Writing, CredShape, Places
  <2>2. mishaps \subseteq mishaps'
    BY <1>5 DEF WriteFile, Went, KeyInv, CredShape, Places
  <2>3. \A f \in Files : files'[f].is = "whole" => files'[f] = files[f] \/ files'[f].key = key[p]
    <3>1. PICK g \in Files : Written(p) = g
      BY DEF Written, Files
    <3> DEFINE mine == [is |-> "whole", key |-> key[p],
                        token |-> IF pc[p] = "writeClient" THEN 0 ELSE held[p]]
    <3>2. \/ files' = [files EXCEPT ![g] = mine]
          \/ files' = [files EXCEPT ![g] = Bare("mixed")]
      BY <1>5, <3>1 DEF WriteFile
    <3>3. mine.key = key[p] /\ Bare("mixed").is # "whole"
      BY DEF Bare
    <3> HIDE DEF mine
    <3>4. QED
      BY <3>2, <3>3 DEF CredShape, Stores
  <2>4. Generating' \subseteq Generating
    BY <2>1 DEF Generating
  <2>5. QED
    BY <2>1, <2>2, <2>3, <2>4 DEF KeyInv, Unforked
<1>6. CASE WriteFails(p)
  <2>1. \/ WithKey(p, "openCredential") /\ Went({"torn", "noclient"})
        \/ Goto(p, "call") /\ Went({"torn", "lost"})
        \/ End(p) /\ Went({"torn"})
    BY <1>6 DEF WriteFails
  <2>2. UNCHANGED <<keychain, files, keys>> /\ mishaps \subseteq mishaps'
    BY <1>6, <2>1 DEF WriteFails, Went
  <2>3. Idles(p)
    BY <2>1, <2>2, EndIdles, GotoIdles, WithKeyIdles DEF Steps, Goals, Writing
  <2>4. QED
    BY <2>3, IdlesKey
<1>7. CASE LoadCredential(p)
  <2>1. CASE End(p)
    BY <1>7, <2>1, EndIdles, IdlesKey DEF LoadCredential
  <2>2. CASE /\ pc' = [pc EXCEPT ![p] = IF op[p] = "test" THEN "call" ELSE "invoke"]
             /\ UNCHANGED <<op, then, key>>
    <3>1. Idles(p)
      BY <1>7, <2>2 DEF LoadCredential, Idles, Steps, Goals, Writing
    <3>2. QED
      BY <3>1, IdlesKey
  <2>3. QED
    BY <1>7, <2>1, <2>2 DEF LoadCredential
<1>8. CASE Invoke(p)
  <2>1. Idles(p)
    BY <1>8, GotoIdles, WithKeyIdles DEF Invoke, Steps, Goals, Writing
  <2>2. QED
    BY <2>1, IdlesKey
<1>9. CASE LoadClient(p)
  <2>1. Idles(p)
    BY <1>9, GotoIdles, EndIdles DEF LoadClient, Steps, Goals, Writing
  <2>2. QED
    BY <2>1, IdlesKey
<1>10. CASE Refresh(p)
  <2>1. Idles(p)
    BY <1>10 DEF Refresh, Idles, Steps, Goals, Writing
  <2>2. QED
    BY <2>1, IdlesKey
<1>11. CASE RefreshLost(p)
  <2>1. Idles(p)
    BY <1>11, EndIdles DEF RefreshLost, Went
  <2>2. QED
    BY <2>1, IdlesKey
<1>12. CASE RefreshFails(p)
  BY <1>12, EndIdles, IdlesKey DEF RefreshFails
<1>13. CASE Call(p)
  BY <1>13, EndIdles, IdlesKey DEF Call
<1>14. QED
  BY <1>1, <1>2, <1>3, <1>4, <1>5, <1>6, <1>7, <1>8, <1>9, <1>10, <1>11, <1>12, <1>13 DEF CredStep

\* A command that begins, a removal and a kill use no key.
LEMMA CredStartKey ==
  ASSUME CredShape, KeyInv, NEW p \in Procs, CredStart(p) \/ Killed(p)
  PROVE  KeyInv'
<1> USE DEF stored
<1>1. ASSUME NEW command \in {"invoke", "test"}, StartLoad(p, command)
      PROVE  KeyInv'
  <2>1. Idles(p)
    BY <1>1 DEF StartLoad, Begin, Idles, Steps, Goals, Writing
  <2>2. QED
    BY <2>1, IdlesKey
<1>2. CASE StartRemove(p)
  <2>1. Idles(p)
    BY <1>2 DEF StartRemove, Idles, Steps, Goals, Writing
  <2>2. QED
    BY <2>1, IdlesKey
<1>3. CASE Remove(p)
  <2> DEFINE writing == {q \in Procs : pc[q] \in {"writeClient", "writeCredential"}}
  <2>1. pc' = [q \in Procs |-> CASE q = p -> "idle" [] q \in writing -> AfterWrite(q)
                                  [] OTHER -> pc[q]]
    BY <1>3 DEF Remove
  <2>2. \A q \in Procs : AfterWrite(q) \notin Writing \cup {"newKey"}
    BY DEF AfterWrite, Writing
  <2>3. \A q \in Procs : pc'[q] \in Writing \cup {"newKey"} => pc'[q] = pc[q]
    BY <2>1, <2>2 DEF Writing
  <2>4. UNCHANGED <<keychain, key>> /\ mishaps \subseteq mishaps'
    BY <1>3 DEF Remove, Went, KeyInv
  <2>5. \A f \in Files : files'[f].is # "whole"
    BY <1>3 DEF Remove, Bare
  <2>6. Generating' \subseteq Generating
    BY <2>3 DEF Generating
  <2>7. QED
    BY <2>3, <2>4, <2>5, <2>6 DEF KeyInv, Unforked
<1>4. CASE Killed(p)
  <2>1. Idles(p)
    BY <1>4, EndIdles DEF Killed, Went
  <2>2. QED
    BY <2>1, IdlesKey
<1>5. QED
  BY <1>1, <1>2, <1>3, <1>4 DEF CredStart

\* The OAuth flow has nothing to do with the key before it stores the token.
LEMMA FlowStepKey ==
  ASSUME CredShape, KeyInv, NEW p \in Procs, FlowStep(p)
  PROVE  KeyInv'
<1> USE DEF stored
<1>1. CASE Idles(p)
  BY <1>1, IdlesKey
<1>2. CASE UNCHANGED credVars
  BY <1>2 DEF credVars, memory, KeyInv, Unforked, Generating
<1>3. CASE Abort(p)
  <2>1. Idles(p)
    BY <1>3, EndIdles DEF Abort
  <2>2. QED
    BY <2>1, IdlesKey
<1>4. Listen(p) => Abort(p) \/ Idles(p)
  BY GotoIdles DEF Listen, Steps, Goals, Writing
<1>5. TimeOut(p) => Idles(p)
  BY GotoIdles DEF TimeOut, Steps, Goals, Writing
<1>6. Shutdown(p) => Abort(p) \/ Idles(p)
  BY GotoIdles DEF Shutdown, Steps, Goals, Writing
<1>7. ASSUME NEW c \in Channels, Receive(p, c) PROVE Idles(p)
  BY <1>7, GotoIdles DEF Receive, Steps, Goals, Writing
<1>8. Exchange(p) => Abort(p) \/ Idles(p)
  BY DEF Exchange, Idles, Steps, Goals, Writing
<1>9. AddToken(p) => Idles(p)
  BY DEF AddToken, Begin, Idles, Steps, Goals, Writing
<1>10. ASSUME NEW where \in {"listen", "paste"}, AddOAuth(p, where) PROVE Idles(p)
  BY <1>10 DEF AddOAuth, Idles, Steps, Goals, Writing
<1>11. Paste(p) => Abort(p) \/ Idles(p)
  BY GotoIdles DEF Paste, Steps, Goals, Writing
<1>12. /\ CloseListener(p) => UNCHANGED credVars
       /\ \A f \in 1 .. flows, granted \in BOOLEAN : Callback(p, f, granted) => UNCHANGED credVars
  BY DEF CloseListener, Callback
<1>13. QED
  BY <1>1, <1>2, <1>3, <1>4, <1>5, <1>6, <1>7, <1>8, <1>9, <1>10, <1>11, <1>12
     DEF FlowStep, Added

-----------------------------------------------------------------------------
(* The shutdown of the callback server.                                    *)

\* Only the select of the flow takes a process to where a callback is received.
Quiet == \A q \in Procs : pc'[q] \in Over => pc'[q] = pc[q]

\* Every callback that is not answered by the select yet, or was, is one the
\* server has counted.
Sent(p) == pending[p]["code"] + pending[p]["error"]
HitInv == \A p \in Procs : Sent(p) + Received(p) <= hits[p]

\* No callback has come to begin with.
LEMMA InitHits == Init => HitInv
  BY DEF Init, CredInit, HitInv, Sent, Received, Over, NoSends, Channels

\* No command but `add` takes a process to where a callback is received.
LEMMA CredQuiet ==
  ASSUME CredShape, NEW p \in Procs, CredStep(p) \/ CredStart(p) \/ Killed(p)
  PROVE  Quiet
<1>1. ASSUME NEW where, where \notin Over, pc' = [pc EXCEPT ![p] = where]
      PROVE  Quiet
  BY <1>1 DEF Quiet, CredShape, Places
<1>2. End(p) \/ (\E where : where \notin Over /\ (Goto(p, where) \/ WithKey(p, where))) => Quiet
  BY <1>1 DEF End, Goto, WithKey, Over
<1>3. GiveUp(p) => Quiet
  BY <1>2 DEF GiveUp, Over
<1>4. LookupKey(p) \/ StoreKey(p) \/ StoreKeyFails(p) => Quiet
  BY <1>1, <1>2, <1>3, GoalIsStep DEF LookupKey, StoreKey, StoreKeyFails, CredShape, Over
<1>5. OpenFile(p) \/ WriteFails(p) => Quiet
  BY <1>2 DEF OpenFile, WriteFails, Over
<1>6. \A q \in Procs : AfterWrite(q) \notin Over
  BY DEF AfterWrite, Over
<1>7. WriteFile(p) => Quiet
  BY <1>1, <1>6 DEF WriteFile
<1>8. LoadCredential(p) \/ Invoke(p) \/ LoadClient(p) => Quiet
  BY <1>1, <1>2 DEF LoadCredential, Invoke, LoadClient, Over
<1>9. Refresh(p) \/ RefreshLost(p) \/ RefreshFails(p) \/ Call(p) \/ Killed(p) => Quiet
  BY <1>1, <1>2 DEF Refresh, RefreshLost, RefreshFails, Call, Killed, Over
<1>10. ASSUME NEW command, StartLoad(p, command) PROVE Quiet
  BY <1>1, <1>10 DEF StartLoad, Begin, Over
<1>11. StartRemove(p) => Quiet
  BY <1>1 DEF StartRemove, Over
<1>12. CASE Remove(p)
  <2> DEFINE writing == {q \in Procs : pc[q] \in {"writeClient", "writeCredential"}}
  <2>1. pc' = [q \in Procs |-> CASE q = p -> "idle" [] q \in writing -> AfterWrite(q)
                                  [] OTHER -> pc[q]]
    BY <1>12 DEF Remove
  <2>2. QED
    BY <1>6, <2>1 DEF Quiet, Over
<1>13. QED
  BY <1>4, <1>5, <1>7, <1>8, <1>9, <1>10, <1>11, <1>12 DEF CredStep, CredStart

\* Steps that leave the server alone, and the end of the flow, keep the count.
LEMMA QuietHits ==
  ASSUME FlowShape, HitInv, Quiet, UNCHANGED <<pending, hits>>
  PROVE  HitInv'
<1>1. ASSUME NEW q \in Procs PROVE (Sent(q) + Received(q) <= hits[q])'
  <2>1. Received(q)' <= Received(q) /\ Received(q) \in Nat /\ Received(q)' \in Nat
    BY DEF Received, Quiet
  <2>2. Sent(q) \in Nat /\ Sent(q)' = Sent(q) /\ hits[q] \in Nat
    BY DEF Sent, FlowShape, Channels
  <2>3. QED
    BY <2>1, <2>2 DEF HitInv
<1>2. QED
  BY <1>1 DEF HitInv

\* A command that is over sets its own counts to 0, and leaves those of the others.
LEMMA ResetHits ==
  ASSUME FlowShape, HitInv, Quiet, NEW p \in Procs, pc'[p] = "idle", Reset(p)
  PROVE  HitInv'
<1>1. ASSUME NEW q \in Procs PROVE (Sent(q) + Received(q) <= hits[q])'
  <2>1. CASE q = p
    BY <2>1 DEF Sent, Received, Over, Reset, NoSends, Channels, FlowShape
  <2>2. CASE q # p
    <3>1. Received(q)' <= Received(q) /\ Received(q) \in Nat /\ Received(q)' \in Nat
      BY DEF Received, Quiet
    <3>2. Sent(q) \in Nat /\ Sent(q)' = Sent(q) /\ hits[q] \in Nat /\ hits'[q] = hits[q]
      BY <2>2 DEF Sent, FlowShape, Channels, Reset
    <3>3. QED
      BY <3>1, <3>2 DEF HitInv
  <2>3. QED
    BY <2>1, <2>2
<1>2. QED
  BY <1>1 DEF HitInv

\* Each step of the flow moves a callback or leaves the count as it is.
LEMMA FlowStepHits ==
  ASSUME CredShape, FlowShape, HitInv, NEW p \in Procs, FlowStep(p)
  PROVE  HitInv'
<1> USE DEF flowVars
<1>1. ASSUME NEW where, where \notin Over, pc' = [pc EXCEPT ![p] = where]
      PROVE  Quiet
  BY <1>1 DEF Quiet, CredShape, Places
<1>2. CASE Abort(p)
  <2>1. pc' = [pc EXCEPT ![p] = "idle"] /\ Reset(p)
    BY <1>2 DEF Abort, End
  <2>2. Quiet /\ pc'[p] = "idle"
    BY <1>1, <2>1 DEF Over, CredShape, Places
  <2>3. QED
    BY <2>1, <2>2, ResetHits
<1>3. CASE Quiet /\ UNCHANGED <<pending, hits>>
  BY <1>3, QuietHits
<1>4. ASSUME NEW where, where \notin Over, Goto(p, where) PROVE Quiet
  BY <1>1, <1>4 DEF Goto
<1>5. /\ Listen(p) => Abort(p) \/ (Quiet /\ UNCHANGED <<pending, hits>>)
      /\ TimeOut(p) => Quiet /\ UNCHANGED <<pending, hits>>
      /\ Shutdown(p) => Abort(p) \/ (Quiet /\ UNCHANGED <<pending, hits>>)
      /\ Paste(p) => Abort(p) \/ (Quiet /\ UNCHANGED <<pending, hits>>)
  <2>1. Listen(p) => Abort(p) \/ (Goto(p, "listening") /\ UNCHANGED <<pending, hits>>)
    BY DEF Listen
  <2>2. TimeOut(p) => Goto(p, "timedOut") /\ UNCHANGED <<pending, hits>>
    BY DEF TimeOut
  <2>3. Shutdown(p) \/ Paste(p) => Abort(p) \/ (Goto(p, "exchange") /\ UNCHANGED <<pending, hits>>)
    BY DEF Shutdown, Paste
  <2>4. QED
    BY <1>4, <2>1, <2>2, <2>3 DEF Over
<1>6. Exchange(p) \/ AddToken(p) => Abort(p) \/ (Quiet /\ UNCHANGED <<pending, hits>>)
  <2>1. Exchange(p) \/ AddToken(p)
          => Abort(p) \/ (pc' = [pc EXCEPT ![p] = "key"] /\ UNCHANGED <<pending, hits>>)
    BY DEF Exchange, AddToken, Begin
  <2>2. QED
    BY <1>1, <2>1 DEF Over
<1>7. ASSUME NEW where \in {"listen", "paste"}, AddOAuth(p, where)
      PROVE  Quiet /\ UNCHANGED <<pending, hits>>
  BY <1>1, <1>7 DEF AddOAuth, Over
<1>8. CloseListener(p) => Quiet /\ UNCHANGED <<pending, hits>>
  BY DEF CloseListener, credVars, Quiet
<1>9. ASSUME NEW c \in Channels, Receive(p, c) PROVE HitInv'
  <2>1. /\ pending' = [pending EXCEPT ![p][c] = @ - 1] /\ hits' = hits /\ pending[p][c] > 0
        /\ pc[p] = "listening" /\ \A q \in Procs : q # p => pc'[q] = pc[q]
    BY <1>9 DEF Receive, Goto, CredShape, Places
  <2>2. ASSUME NEW q \in Procs PROVE (Sent(q) + Received(q) <= hits[q])'
    <3>1. CASE q = p
      <4>1. Sent(p)' = Sent(p) - 1 /\ Sent(p) \in Nat /\ hits[p] \in Nat
        BY <2>1 DEF Sent, FlowShape, Channels
      <4>2. Received(p) = 0 /\ Received(p)' \in 0 .. 1
        BY <2>1 DEF Received, Over
      <4>3. QED
        BY <2>1, <3>1, <4>1, <4>2 DEF HitInv
    <3>2. CASE q # p
      BY <2>1, <3>2 DEF HitInv, Sent, Received, FlowShape
    <3>3. QED
      BY <3>1, <3>2
  <2>3. QED
    BY <2>2 DEF HitInv
<1>10. ASSUME NEW f \in 1 .. flows, NEW granted \in BOOLEAN, Callback(p, f, granted)
       PROVE  HitInv'
  <2>1. PICK c \in Channels : pending' = [pending EXCEPT ![p][c] = @ + 1]
    BY <1>10 DEF Callback, Channels
  <2>2. hits' = [hits EXCEPT ![p] = @ + 1] /\ pc' = pc
    BY <1>10 DEF Callback, credVars
  <2>3. ASSUME NEW q \in Procs PROVE (Sent(q) + Received(q) <= hits[q])'
    <3>1. Received(q)' = Received(q) /\ Received(q) \in Nat
      BY <2>2 DEF Received
    <3>2. CASE q = p
      <4>1. Sent(p)' = Sent(p) + 1 /\ Sent(p) \in Nat
        <5>1. pending[p]["code"] \in Nat /\ pending[p]["error"] \in Nat
          BY DEF FlowShape, Channels
        <5>2. pending' = [pending EXCEPT ![p] = [pending[p] EXCEPT ![c] = pending[p][c] + 1]]
          BY <2>1
        <5>3. pending'[p] = [pending[p] EXCEPT ![c] = pending[p][c] + 1]
          BY <5>2 DEF FlowShape
        <5>4. CASE c = "code"
          BY <5>1, <5>3, <5>4 DEF Sent, FlowShape, Channels
        <5>5. CASE c = "error"
          BY <5>1, <5>3, <5>5 DEF Sent, FlowShape, Channels
        <5>6. QED
          BY <5>4, <5>5 DEF Channels
      <4>2. hits'[p] = hits[p] + 1 /\ hits[p] \in Nat
        BY <2>2 DEF FlowShape
      <4>3. QED
        BY <3>1, <3>2, <4>1, <4>2 DEF HitInv
    <3>3. CASE q # p
      BY <2>1, <2>2, <3>1, <3>3 DEF HitInv, Sent, FlowShape
    <3>4. QED
      BY <3>2, <3>3
  <2>4. QED
    BY <2>3 DEF HitInv
<1>11. QED
  BY <1>2, <1>3, <1>5, <1>6, <1>7, <1>8, <1>9, <1>10 DEF FlowStep, Added

\* The count is inductive.
LEMMA NextHits == CredShape /\ FlowShape /\ HitInv /\ [Next]_vars => HitInv'
<1> SUFFICES ASSUME CredShape, FlowShape, HitInv, [Next]_vars PROVE HitInv'
  OBVIOUS
<1>1. CASE UNCHANGED vars
  BY <1>1, QuietHits DEF vars, credVars, flowVars, Quiet
<1>2. ASSUME NEW p \in Procs, CredStep(p) \/ CredStart(p) \/ Killed(p), Tidy(p)
      PROVE  HitInv'
  BY <1>2, CredQuiet, QuietHits, ResetHits DEF Tidy, flowVars
<1>3. QED
  BY <1>1, <1>2, NextCases, FlowStepHits

\* What waits on a channel has been counted among the callbacks.
LEMMA SentBound ==
  ASSUME FlowShape, HitInv, NEW p \in Procs, NEW c \in Channels
  PROVE  pending[p][c] + Received(p) <= hits[p]
<1>1. pending[p]["code"] \in Nat /\ pending[p]["error"] \in Nat /\ hits[p] \in Nat
  BY DEF FlowShape, Channels
<1>2. Received(p) \in Nat
  BY DEF Received
<1>3. QED
  BY <1>1, <1>2 DEF HitInv, Sent, Channels

-----------------------------------------------------------------------------
(* The chain of refresh tokens, and the client beside the credential.      *)

Keying == {"key", "newKey"}
ToCredential == Keying \cup {"openCredential", "writeCredential"}
ToClient == Keying \cup {"openClient", "writeClient"}
Flowing == {"paste", "listen", "listening", "received", "refused", "timedOut", "exchange", "stored"}

\* Where each command may be, and what it wants the key for.
Control(p) ==
  \/ pc[p] = "idle" /\ op[p] = "none" /\ held[p] = 0
  \/ pc[p] = "remove" /\ op[p] = "remove" /\ held[p] = 0
  \/ op[p] = "add" /\ pc[p] \in Flowing
  \/ op[p] = "add" /\ pc[p] \in ToClient /\ then[p] = "openClient"
  \/ op[p] \in {"add", "invoke"} /\ pc[p] \in ToCredential /\ then[p] = "openCredential"
  \/ op[p] \in {"invoke", "test"} /\ pc[p] \in Keying \cup {"loadCredential"} /\ then[p] = "loadCredential"
  \/ op[p] = "invoke" /\ pc[p] \in Keying \cup {"loadClient"} /\ then[p] = "loadClient"
  \/ op[p] = "invoke" /\ pc[p] \in {"invoke", "refresh"}
  \/ op[p] \in {"invoke", "test"} /\ pc[p] = "call"

\* The process has a refresh token that it is going to store.
InHand(p) ==
  /\ held[p] # 0 /\ op[p] \in {"add", "invoke"}
  /\ pc[p] \in ToClient \cup ToCredential /\ then[p] \in {"openClient", "openCredential"}

\* The process has a refresh token whose client it does not store any more.
PastClient(p) ==
  held[p] # 0 /\ ~(op[p] = "add" /\ then[p] = "openClient" /\ pc[p] \in Keying \cup {"openClient"})

\* The inductive invariant.  A token that is going to be stored is one that
\* the provider accepts, and when the provider replaces its tokens nobody else
\* has it and it is not in the file: it cannot be used up by another
\* invocation before it is stored.
Stored == files["credential"].token
TokenInv ==
  /\ valid \subseteq 1 .. issued /\ Stored <= issued
  /\ \A p \in Procs : held[p] <= issued
  /\ \A p \in Procs : InHand(p) => held[p] \in valid
  /\ rotates => \A p \in Procs : InHand(p) =>
                  /\ Stored # held[p]
                  /\ \A q \in Procs : held[q] = held[p] => q = p
  /\ ~rotates => /\ Stored \in valid \cup {0}
                 /\ \A p \in Procs : held[p] \in valid \cup {0}
  /\ "lost" \notin mishaps => (Stored \in valid \cup {0} \/ \E p \in Procs : Renewing(p))

\* Where a token is or is going to be, its client is or is being written.
HasClient == files["client"].is = "whole" \/ \E p \in Procs : pc[p] = "writeClient"
ClientInv ==
  mishaps \cap {"torn", "removed", "noclient"} = {} =>
    /\ Stored # 0 => HasClient
    /\ \A p \in Procs : PastClient(p) => HasClient

Chain == (\A p \in Procs : Control(p)) /\ TokenInv /\ ClientInv

\* The invariant holds to begin with: there is no token.
LEMMA InitChain == Init => Chain
  BY DEF Init, CredInit, Chain, Control, TokenInv, ClientInv, InHand, PastClient, Stored, Bare, Files

\* A step of p that neither touches the files nor the provider, and gives p
\* nothing new to store.
Carries(p) ==
  /\ UNCHANGED <<files, service>> /\ mishaps \subseteq mishaps'
  /\ \A q \in Procs \ {p} : /\ pc'[q] = pc[q] /\ op'[q] = op[q]
                            /\ then'[q] = then[q] /\ held'[q] = held[q]
  /\ held'[p] \in {held[p], 0}
  /\ Control(p)'
  /\ InHand(p)' => InHand(p)
  /\ Renewing(p) => (Renewing(p)' \/ "lost" \in mishaps')
  /\ pc[p] = "writeClient" => "torn" \in mishaps'
  /\ PastClient(p)' => (PastClient(p) \/ "noclient" \in mishaps')

\* Such a step keeps the invariant.
LEMMA CarriesChain ==
  ASSUME CredShape, Chain, NEW p \in Procs, Carries(p)
  PROVE  Chain'
<1>1. /\ valid' = valid /\ rotates' = rotates /\ issued' = issued /\ issued \in Nat
      /\ Stored' = Stored /\ files' = files
  BY Bounds DEF Carries, service, Stored, CredShape, Service
<1>2. ASSUME NEW q \in Procs
      PROVE  /\ Control(q)' /\ held'[q] \in {held[q], 0}
             /\ InHand(q)' => (InHand(q) /\ held'[q] = held[q])
             /\ Renewing(q) => (Renewing(q)' \/ "lost" \in mishaps')
             /\ pc[q] = "writeClient" => (pc'[q] = "writeClient" \/ "torn" \in mishaps')
             /\ PastClient(q)' => (PastClient(q) \/ "noclient" \in mishaps')
  <2>1. CASE q = p
    BY <2>1 DEF Carries, InHand
  <2>2. CASE q # p
    BY <2>2 DEF Carries, InHand, PastClient, Renewing, Control, Chain
  <2> QED  BY <2>1, <2>2
<1>3. TokenInv'
  <2>1. \A q \in Procs : held'[q] <= issued
    BY <1>1, <1>2 DEF Chain, TokenInv
  <2>2. \A q \in Procs : InHand(q)' => held'[q] \in valid
    BY <1>2 DEF Chain, TokenInv
  <2>3. ASSUME rotates, NEW q \in Procs, InHand(q)'
        PROVE  Stored # held'[q] /\ \A r \in Procs : held'[r] = held'[q] => r = q
    <3>1. InHand(q) /\ held'[q] = held[q] /\ held[q] # 0
      BY <1>2, <2>3 DEF InHand
    <3> QED  BY <1>2, <2>3, <3>1 DEF Chain, TokenInv
  <2>4. ~rotates => \A q \in Procs : held'[q] \in valid \cup {0}
    BY <1>2 DEF Chain, TokenInv
  <2>5. "lost" \notin mishaps' => (Stored \in valid \cup {0} \/ \E q \in Procs : Renewing(q)')
    <3>1. mishaps \subseteq mishaps'
      BY DEF Carries
    <3> QED  BY <1>2, <3>1 DEF Chain, TokenInv
  <2> QED  BY <1>1, <2>1, <2>2, <2>3, <2>4, <2>5 DEF Chain, TokenInv
<1>4. ClientInv'
  <2> SUFFICES ASSUME mishaps' \cap {"torn", "removed", "noclient"} = {}
               PROVE  /\ Stored' # 0 => HasClient'
                      /\ \A q \in Procs : PastClient(q)' => HasClient'
    BY DEF ClientInv
  <2>1. mishaps \cap {"torn", "removed", "noclient"} = {} /\ "torn" \notin mishaps'
        /\ "noclient" \notin mishaps'
    BY DEF Carries
  <2>2. HasClient => HasClient'
    BY <1>1, <1>2, <2>1 DEF HasClient
  <2> QED  BY <1>1, <1>2, <2>1, <2>2 DEF Chain, ClientInv
<1> QED  BY <1>2, <1>3, <1>4 DEF Chain

\* Ending, going on and asking for the key are such steps, unless there is a
\* token to store or the client is being written.
LEMMA EndCarries ==
  ASSUME CredShape, NEW p \in Procs, End(p), UNCHANGED <<files, service>>,
         mishaps \subseteq mishaps',
         Renewing(p) => "lost" \in mishaps', pc[p] = "writeClient" => "torn" \in mishaps'
  PROVE  Carries(p)
<1>1. /\ pc'[p] = "idle" /\ op'[p] = "none" /\ held'[p] = 0
      /\ \A q \in Procs \ {p} : /\ pc'[q] = pc[q] /\ op'[q] = op[q]
                                /\ then'[q] = then[q] /\ held'[q] = held[q]
  BY DEF End, Forget, CredShape, Places
<1> QED  BY <1>1 DEF Carries, Control, InHand, PastClient, Renewing

\* The key is looked up, or made.
LEMMA LookupChain ==
  ASSUME CredShape, Chain, NEW p \in Procs, LookupKey(p) \/ StoreKey(p)
  PROVE  Chain'
<1>1. /\ pc[p] \in Keying /\ op' = op /\ then' = then /\ held' = held
      /\ UNCHANGED <<files, service>> /\ mishaps \subseteq mishaps'
      /\ pc' = [pc EXCEPT ![p] = then[p]] \/ pc' = [pc EXCEPT ![p] = "newKey"]
  BY DEF LookupKey, StoreKey, Goto, memory, stored, Went, Keying
<1>2. /\ pc'[p] \in {then[p], "newKey"}
      /\ \A q \in Procs \ {p} : pc'[q] = pc[q]
  BY <1>1 DEF CredShape, Places
<1>3. Control(p)
  BY DEF Chain
<1>4. Control(p)'
  BY <1>1, <1>2, <1>3 DEF Control, Keying, ToCredential, ToClient, Flowing
<1>5. /\ InHand(p)' => InHand(p)
      /\ Renewing(p) => Renewing(p)'
      /\ PastClient(p)' => PastClient(p)
  BY <1>1, <1>2, <1>3 DEF Control, Keying, ToCredential, ToClient, Flowing, InHand, Renewing, PastClient
<1>6. Carries(p)
  BY <1>1, <1>2, <1>4, <1>5 DEF Carries, Keying
<1> QED  BY <1>6, CarriesChain

\* A key that cannot be made is given up, with what was to be stored.
LEMMA StoreKeyFailsChain ==
  ASSUME CredShape, Chain, NEW p \in Procs, StoreKeyFails(p)
  PROVE  Chain'
<1>1. pc[p] = "newKey" /\ GiveUp(p) /\ UNCHANGED <<files, service>> /\ Control(p)
  BY DEF StoreKeyFails, stored, Chain
<1>2. CASE then[p] = "openClient"
  <2>1. WithKey(p, "openCredential") /\ Went({"noclient"})
    BY <1>1, <1>2 DEF GiveUp
  <2>2. /\ pc'[p] = "key" /\ then'[p] = "openCredential" /\ op' = op /\ held' = held
        /\ \A q \in Procs \ {p} : pc'[q] = pc[q] /\ then'[q] = then[q]
        /\ "noclient" \in mishaps' /\ mishaps \subseteq mishaps'
    BY <2>1 DEF WithKey, Went, CredShape, Places
  <2>3. op[p] = "add"
    BY <1>1, <1>2 DEF Control, Keying, ToCredential, ToClient, Flowing
  <2>4. Control(p)' /\ (InHand(p)' => InHand(p)) /\ ~Renewing(p)
    BY <1>1, <1>2, <2>2, <2>3 DEF Control, Keying, ToCredential, ToClient, Flowing, InHand, Renewing
  <2>5. Carries(p)
    BY <1>1, <2>2, <2>4 DEF Carries
  <2> QED  BY <2>5, CarriesChain
<1>3. CASE then[p] = "openCredential" /\ op[p] = "invoke"
  <2>1. Goto(p, "call") /\ Went({"lost"})
    BY <1>1, <1>3 DEF GiveUp
  <2>2. /\ pc'[p] = "call" /\ then' = then /\ op' = op /\ held' = held
        /\ \A q \in Procs \ {p} : pc'[q] = pc[q]
        /\ "lost" \in mishaps' /\ mishaps \subseteq mishaps'
    BY <2>1 DEF Goto, memory, Went, CredShape, Places
  <2>3. Control(p)' /\ ~InHand(p)' /\ (PastClient(p)' => PastClient(p))
    BY <1>1, <1>3, <2>2 DEF Control, Keying, ToCredential, ToClient, Flowing, InHand, PastClient
  <2>4. Carries(p)
    BY <1>1, <2>2, <2>3 DEF Carries
  <2> QED  BY <2>4, CarriesChain
<1>4. CASE then[p] # "openClient" /\ ~(then[p] = "openCredential" /\ op[p] = "invoke")
  <2>1. End(p) /\ mishaps \subseteq mishaps'
    BY <1>1, <1>4 DEF GiveUp, Went
  <2>2. ~Renewing(p)
    BY <1>4 DEF Renewing
  <2>3. Carries(p)
    BY <1>1, <2>1, <2>2, EndCarries
  <2> QED  BY <2>3, CarriesChain
<1> QED  BY <1>2, <1>3, <1>4

\* A write that fails loses what was to be written.
LEMMA WriteFailsChain ==
  ASSUME CredShape, Chain, NEW p \in Procs, WriteFails(p)
  PROVE  Chain'
<1>1. pc[p] \in {"writeClient", "writeCredential"} /\ UNCHANGED <<files, service>> /\ Control(p)
  BY DEF WriteFails, stored, Chain
<1>2. CASE pc[p] = "writeClient"
  <2>3. op[p] = "add" /\ then[p] = "openClient"
    BY <1>1, <1>2 DEF Control, Keying, ToCredential, ToClient, Flowing
  <2>1. WithKey(p, "openCredential") /\ Went({"torn", "noclient"})
    BY <1>2, <2>3 DEF WriteFails
  <2>2. /\ pc'[p] = "key" /\ then'[p] = "openCredential" /\ op' = op /\ held' = held
        /\ \A q \in Procs \ {p} : pc'[q] = pc[q] /\ then'[q] = then[q]
        /\ {"torn", "noclient"} \subseteq mishaps' /\ mishaps \subseteq mishaps'
    BY <2>1 DEF WithKey, Went, CredShape, Places
  <2>4. Control(p)' /\ (InHand(p)' => InHand(p)) /\ ~Renewing(p)
    BY <1>2, <2>2, <2>3 DEF Control, Keying, ToCredential, ToClient, Flowing, InHand, Renewing
  <2>5. Carries(p)
    BY <1>1, <2>2, <2>4 DEF Carries
  <2> QED  BY <2>5, CarriesChain
<1>3. CASE pc[p] = "writeCredential" /\ op[p] = "invoke"
  <2>1. Goto(p, "call") /\ Went({"torn", "lost"})
    BY <1>3 DEF WriteFails
  <2>2. /\ pc'[p] = "call" /\ then' = then /\ op' = op /\ held' = held
        /\ \A q \in Procs \ {p} : pc'[q] = pc[q]
        /\ "lost" \in mishaps' /\ mishaps \subseteq mishaps'
    BY <2>1 DEF Goto, memory, Went, CredShape, Places
  <2>3. Control(p)' /\ ~InHand(p)' /\ (PastClient(p)' => PastClient(p))
    BY <1>3, <2>2 DEF Control, Keying, ToCredential, ToClient, Flowing, InHand, PastClient
  <2>4. Carries(p)
    BY <1>1, <1>3, <2>2, <2>3 DEF Carries
  <2> QED  BY <2>4, CarriesChain
<1>4. CASE pc[p] = "writeCredential" /\ op[p] # "invoke"
  <2>1. End(p) /\ mishaps \subseteq mishaps'
    BY <1>4 DEF WriteFails, Went
  <2>2. ~Renewing(p)
    BY <1>4 DEF Renewing
  <2>3. Carries(p)
    BY <1>1, <1>4, <2>1, <2>2, EndCarries
  <2> QED  BY <2>3, CarriesChain
<1> QED  BY <1>1, <1>2, <1>3, <1>4

\* The steps of an invocation between its loads and its stores, and a kill.
LEMMA InvokeChain ==
  ASSUME CredShape, Chain, NEW p \in Procs,
         Invoke(p) \/ LoadClient(p) \/ RefreshFails(p) \/ Call(p) \/ Killed(p)
  PROVE  Chain'
<1>1. Control(p)
  BY DEF Chain
<1>2. CASE Invoke(p)
  <2>1. /\ pc[p] = "invoke" /\ op' = op /\ held' = held /\ UNCHANGED <<files, service, mishaps>>
        /\ \/ pc' = [pc EXCEPT ![p] = "call"] /\ then' = then
           \/ pc' = [pc EXCEPT ![p] = "key"] /\ then' = [then EXCEPT ![p] = "loadClient"]
    BY <1>2 DEF Invoke, Goto, WithKey, memory, stored
  <2>2. /\ \/ pc'[p] = "call" /\ then'[p] = then[p]
           \/ pc'[p] = "key" /\ then'[p] = "loadClient"
        /\ \A q \in Procs \ {p} : pc'[q] = pc[q] /\ then'[q] = then[q]
    BY <2>1 DEF CredShape, Places
  <2>3. op[p] = "invoke"
    BY <1>1, <2>1 DEF Control, Keying, ToCredential, ToClient, Flowing
  <2>4. Control(p)' /\ ~InHand(p)' /\ ~Renewing(p) /\ (PastClient(p)' => PastClient(p))
    BY <2>1, <2>2, <2>3 DEF Control, Keying, ToCredential, ToClient, Flowing, InHand, Renewing, PastClient
  <2>5. Carries(p)
    BY <2>1, <2>2, <2>4 DEF Carries
  <2> QED  BY <2>5, CarriesChain
<1>3. CASE LoadClient(p)
  <2>1. CASE End(p)
    <3>1. UNCHANGED <<files, service, mishaps>> /\ ~Renewing(p) /\ pc[p] # "writeClient"
      BY <1>3 DEF LoadClient, Renewing, stored
    <3> QED  BY <2>1, <3>1, EndCarries, CarriesChain
  <2>2. CASE Goto(p, "refresh")
    <3>1. /\ pc[p] = "loadClient" /\ op' = op /\ held' = held /\ then' = then
          /\ UNCHANGED <<files, service, mishaps>>
          /\ pc'[p] = "refresh" /\ \A q \in Procs \ {p} : pc'[q] = pc[q]
      BY <1>3, <2>2 DEF LoadClient, Goto, memory, stored, CredShape, Places
    <3>2. op[p] = "invoke"
      BY <1>1, <3>1 DEF Control, Keying, ToCredential, ToClient, Flowing
    <3>3. Control(p)' /\ ~InHand(p)' /\ ~Renewing(p) /\ (PastClient(p)' => PastClient(p))
      BY <3>1, <3>2 DEF Control, Keying, ToCredential, ToClient, Flowing, InHand, Renewing, PastClient
    <3>4. Carries(p)
      BY <3>1, <3>3 DEF Carries
    <3> QED  BY <3>4, CarriesChain
  <2> QED  BY <1>3, <2>1, <2>2 DEF LoadClient
<1>4. CASE RefreshFails(p) \/ Call(p)
  <2>1. End(p) /\ UNCHANGED <<files, service, mishaps>> /\ ~Renewing(p) /\ pc[p] # "writeClient"
    BY <1>4 DEF RefreshFails, Call, Renewing, stored
  <2> QED  BY <2>1, EndCarries, CarriesChain
<1>5. CASE Killed(p)
  <2>1. /\ End(p) /\ UNCHANGED <<files, service>> /\ mishaps \subseteq mishaps'
        /\ Renewing(p) => "lost" \in mishaps'
        /\ pc[p] = "writeClient" => "torn" \in mishaps'
    BY <1>5 DEF Killed, Went, stored
  <2> QED  BY <2>1, EndCarries, CarriesChain
<1> QED  BY <1>2, <1>3, <1>4, <1>5

\* A file that is opened for writing is empty.
LEMMA OpenFileChain ==
  ASSUME CredShape, Chain, NEW p \in Procs, OpenFile(p)
  PROVE  Chain'
<1>1. /\ pc[p] \in {"openClient", "openCredential"} /\ UNCHANGED <<valid, rotates, issued, mishaps>>
      /\ op' = op /\ then' = then /\ held' = held
      /\ pc' = [pc EXCEPT ![p] = IF pc[p] = "openClient" THEN "writeClient" ELSE "writeCredential"]
  BY DEF OpenFile, Goto, memory, service
<1>2. /\ pc'[p] = IF pc[p] = "openClient" THEN "writeClient" ELSE "writeCredential"
      /\ \A q \in Procs \ {p} : pc'[q] = pc[q]
  BY <1>1 DEF CredShape, Places
<1>3. \A q \in Procs : Control(q)
  BY DEF Chain
<1>4. \A q \in Procs : Control(q)'
  BY <1>1, <1>2, <1>3 DEF Control, Keying, ToCredential, ToClient, Flowing
<1>5. \A q \in Procs : /\ InHand(q)' <=> InHand(q)
                       /\ Renewing(q) => Renewing(q)'
                       /\ PastClient(q)' => (PastClient(q) \/ pc'[q] = "writeClient")
                       /\ pc[q] = "writeClient" => pc'[q] = "writeClient"
  BY <1>1, <1>2, <1>3 DEF Control, Keying, ToCredential, ToClient, Flowing, InHand, Renewing, PastClient
<1>6. /\ Stored' \in {Stored, 0} /\ issued \in Nat
      /\ \/ files'["client"] = files["client"]
         \/ pc'[p] = "writeClient" /\ Stored' = Stored
  <2>1. CASE pc[p] = "openClient"
    BY <1>2, <2>1 DEF OpenFile, Written, Stored, Bare, Files, CredShape, Stores, Service
  <2>2. CASE pc[p] # "openClient"
    <3>1. Written(p) = "credential"
      BY <1>1, <2>2 DEF Written
    <3> QED  BY <3>1 DEF OpenFile, Stored, Bare, Files, CredShape, Stores, Service
  <2> QED  BY <2>1, <2>2
<1>7. TokenInv'
  <2>1. TokenInv
    BY DEF Chain
  <2>2. \A q \in Procs : InHand(q)' => held[q] # 0
    BY <1>1 DEF InHand
  <2>3. rotates => \A q \in Procs : InHand(q)' => Stored' # held[q]
    BY <1>5, <1>6, <2>1, <2>2 DEF TokenInv
  <2> QED  BY <1>1, <1>5, <1>6, <2>1, <2>3 DEF TokenInv
<1>8. ClientInv'
  <2>1. HasClient => HasClient'
    BY <1>5, <1>6 DEF HasClient
  <2>2. \A q \in Procs : pc'[q] = "writeClient" => HasClient'
    BY DEF HasClient
  <2> QED  BY <1>1, <1>5, <1>6, <2>1, <2>2 DEF Chain, ClientInv
<1> QED  BY <1>4, <1>7, <1>8 DEF Chain

\* A file that is written holds the token of the writer, and that writer has
\* no token to store any more.
LEMMA WriteFileChain ==
  ASSUME CredShape, Chain, NEW p \in Procs, WriteFile(p)
  PROVE  Chain'
<1>1. /\ pc[p] \in {"writeClient", "writeCredential"} /\ UNCHANGED <<valid, rotates, issued>>
      /\ op' = op /\ held' = held /\ mishaps \subseteq mishaps' /\ Control(p)
      /\ pc' = [pc EXCEPT ![p] = AfterWrite(p)]
      /\ then' = [then EXCEPT ![p] = IF pc[p] = "writeClient" THEN "openCredential" ELSE @]
  BY DEF WriteFile, service, Went, Chain
<1>2. /\ pc[p] = "writeClient" => op[p] = "add" /\ then[p] = "openClient"
      /\ pc[p] = "writeCredential" => op[p] \in {"add", "invoke"} /\ then[p] = "openCredential"
  BY <1>1 DEF Control, Keying, ToCredential, ToClient, Flowing
<1>3. /\ pc'[p] = IF pc[p] = "writeClient" THEN "key"
                  ELSE IF op[p] = "invoke" THEN "call" ELSE "stored"
      /\ then'[p] = "openCredential"
      /\ \A q \in Procs \ {p} : pc'[q] = pc[q] /\ then'[q] = then[q]
  BY <1>1, <1>2 DEF AfterWrite, CredShape, Places
<1>4. \A q \in Procs : Control(q)'
  BY <1>1, <1>2, <1>3 DEF Chain, Control, Keying, ToCredential, ToClient, Flowing
<1>5. /\ \A q \in Procs : InHand(q)' => InHand(q)
      /\ \A q \in Procs \ {p} : Renewing(q) <=> Renewing(q)'
      /\ pc[p] = "writeCredential" => ~InHand(p)'
      /\ pc[p] = "writeCredential" => (held[p] # 0 => InHand(p) /\ PastClient(p))
      /\ \A q \in Procs \ {p} : /\ PastClient(q)' <=> PastClient(q)
                                /\ pc'[q] = "writeClient" <=> pc[q] = "writeClient"
  BY <1>1, <1>2, <1>3 DEF Keying, ToCredential, ToClient, Flowing, InHand, Renewing, PastClient
<1>6. issued \in Nat /\ held[p] \in Nat /\ TokenInv /\ ClientInv
  BY DEF CredShape, Service, Places, Tokens, Chain
<1>7. CASE pc[p] = "writeClient"
  <2>1. Written(p) = "client"
    BY <1>7 DEF Written
  <2>2. /\ Stored' = Stored
        /\ files'["client"].is = "whole" \/ "torn" \in mishaps'
    BY <2>1 DEF WriteFile, Went, Stored, Files, CredShape, Stores
  <2>3. ~Renewing(p)
    BY <1>2, <1>7 DEF Renewing
  <2>4. TokenInv'
    <3>1. "lost" \notin mishaps' => (Stored' \in valid' \cup {0} \/ \E q \in Procs : Renewing(q)')
      BY <1>1, <1>5, <1>6, <2>2, <2>3 DEF TokenInv
    <3> QED  BY <1>1, <1>5, <1>6, <2>2, <3>1 DEF TokenInv
  <2>5. ClientInv'
    BY <2>2 DEF ClientInv, HasClient
  <2> QED  BY <1>4, <2>4, <2>5 DEF Chain
<1>8. CASE pc[p] = "writeCredential"
  <2>1. Written(p) = "credential"
    BY <1>8 DEF Written
  <2>2. Stored' \in {held[p], 0} /\ files'["client"] = files["client"]
    BY <1>8, <2>1 DEF WriteFile, Bare, Stored, Files, CredShape, Stores
  <2>3. Stored' # 0 => InHand(p) /\ Stored' = held[p]
    BY <1>5, <1>8, <2>2
  <2>4. Stored' \in valid \cup {0} /\ Stored' <= issued
    BY <1>6, <2>2, <2>3 DEF TokenInv
  <2>5. rotates => \A q \in Procs : InHand(q)' => Stored' # held[q]
    <3>1. ASSUME rotates, NEW q \in Procs, InHand(q)', Stored' = held[q] PROVE FALSE
      <4>1. held[q] # 0 /\ InHand(q) /\ q # p
        BY <1>1, <1>5, <1>8, <3>1 DEF InHand
      <4>2. held[p] = held[q]
        BY <2>3, <3>1, <4>1
      <4> QED  BY <1>6, <3>1, <4>1, <4>2 DEF TokenInv
    <3> QED  BY <3>1
  <2>6. TokenInv'
    BY <1>1, <1>5, <1>6, <2>4, <2>5 DEF TokenInv
  <2>7. HasClient => HasClient'
    BY <1>5, <1>8, <2>2 DEF HasClient
  <2>8. \A q \in Procs : PastClient(q)' => PastClient(q)
    BY <1>1, <1>5, <1>8 DEF PastClient
  <2>9. Stored' # 0 => PastClient(p)
    BY <1>5, <1>8, <2>3
  <2>10. ClientInv'
    BY <1>1, <1>6, <2>7, <2>8, <2>9 DEF ClientInv
  <2> QED  BY <1>4, <2>6, <2>10 DEF Chain
<1> QED  BY <1>1, <1>7, <1>8

\* An invocation takes the stored token into its memory.
LEMMA LoadChain ==
  ASSUME CredShape, Chain, NEW p \in Procs, LoadCredential(p)
  PROVE  Chain'
<1>1. pc[p] = "loadCredential" /\ Control(p) /\ TokenInv /\ ClientInv
      /\ UNCHANGED <<files, service, mishaps>>
  BY DEF LoadCredential, Chain, stored
<1>2. CASE End(p)
  <2>1. ~Renewing(p) /\ pc[p] # "writeClient"
    BY <1>1 DEF Renewing
  <2> QED  BY <1>1, <1>2, <2>1, EndCarries, CarriesChain
<1>3. CASE /\ held' = [held EXCEPT ![p] = files["credential"].token]
           /\ pc' = [pc EXCEPT ![p] = IF op[p] = "test" THEN "call" ELSE "invoke"]
           /\ UNCHANGED <<op, then, key>>
  <2>1. /\ held'[p] = Stored /\ Stored' = Stored /\ op[p] \in {"invoke", "test"}
        /\ \A q \in Procs \ {p} : pc'[q] = pc[q] /\ held'[q] = held[q]
        /\ pc'[p] = IF op[p] = "test" THEN "call" ELSE "invoke"
        /\ valid' = valid /\ issued' = issued /\ rotates' = rotates
    BY <1>1, <1>3 DEF Stored, service, Control, Keying, ToCredential, ToClient, Flowing, CredShape, Places
  <2>2. \A q \in Procs : Control(q)'
    BY <1>1, <1>3, <2>1 DEF Chain, Control, Keying, ToCredential, ToClient, Flowing
  <2>3. /\ ~InHand(p)' /\ ~Renewing(p) /\ pc[p] # "writeClient"
        /\ \A q \in Procs \ {p} : (InHand(q)' <=> InHand(q)) /\ (Renewing(q) <=> Renewing(q)')
                                  /\ (PastClient(q)' <=> PastClient(q))
        /\ PastClient(p)' => Stored # 0
    BY <1>1, <1>3, <2>1 DEF InHand, Renewing, PastClient, ToClient, ToCredential, Keying
  <2>4. TokenInv'
    <3>1. ASSUME rotates, NEW q \in Procs, InHand(q)'
          PROVE  Stored # held'[q] /\ \A r \in Procs : held'[r] = held'[q] => r = q
      <4>1. q # p /\ InHand(q) /\ held'[q] = held[q] /\ Stored # held[q]
        BY <1>1, <2>1, <2>3, <3>1 DEF TokenInv
      <4> QED  BY <1>1, <2>1, <3>1, <4>1 DEF TokenInv
    <3>2. \A q \in Procs : InHand(q)' => held'[q] \in valid
      BY <1>1, <2>1, <2>3 DEF TokenInv
    <3>3. \A q \in Procs : held'[q] <= issued
      BY <1>1, <2>1 DEF TokenInv
    <3>4. ~rotates => \A q \in Procs : held'[q] \in valid \cup {0}
      BY <1>1, <2>1 DEF TokenInv
    <3>5. "lost" \notin mishaps' => (Stored' \in valid' \cup {0} \/ \E q \in Procs : Renewing(q)')
      BY <1>1, <2>1, <2>3 DEF TokenInv
    <3> QED  BY <1>1, <2>1, <3>1, <3>2, <3>3, <3>4, <3>5 DEF TokenInv
  <2>5. ClientInv'
    <3>1. HasClient => HasClient'
      BY <1>1, <2>1, <2>3 DEF HasClient
    <3> QED  BY <1>1, <2>1, <2>3, <3>1 DEF ClientInv
  <2> QED  BY <2>2, <2>4, <2>5 DEF Chain
<1> QED  BY <1>1, <1>2, <1>3 DEF LoadCredential

\* What the provider replaces is in nobody's hand, and what it gives is new.
LEMMA UseTokens ==
  ASSUME CredShape, Chain, NEW t \in valid, Use(t)
  PROVE  /\ NextToken(t) \in valid' /\ NextToken(t) <= issued' /\ issued <= issued'
         /\ valid' \subseteq 1 .. issued' /\ rotates' = rotates /\ NextToken(t) # 0
         /\ \A x \in valid : x = t \/ x \in valid'
         /\ rotates => NextToken(t) = issued + 1
         /\ ~rotates => valid' = valid
<1>1. issued \in Nat /\ valid \subseteq 1 .. issued
  BY DEF CredShape, Service, Chain, TokenInv
<1> QED  BY <1>1 DEF Use, NextToken

\* The answer of the provider is in the hand of whoever asked, and new.
LEMMA RefreshChain ==
  ASSUME CredShape, Chain, NEW p \in Procs, Refresh(p)
  PROVE  Chain'
<1> DEFINE t == held[p]
           n == NextToken(held[p])
<1>1. /\ pc[p] = "refresh" /\ t \in valid /\ Use(t) /\ held' = [held EXCEPT ![p] = n]
      /\ pc' = [pc EXCEPT ![p] = "key"] /\ then' = [then EXCEPT ![p] = "openCredential"]
      /\ op' = op /\ UNCHANGED <<files, mishaps>> /\ Control(p) /\ TokenInv /\ ClientInv
  BY DEF Refresh, stored, Chain
<1>2. /\ pc'[p] = "key" /\ then'[p] = "openCredential" /\ held'[p] = n /\ op[p] = "invoke"
      /\ \A q \in Procs \ {p} : pc'[q] = pc[q] /\ then'[q] = then[q] /\ held'[q] = held[q]
      /\ Stored' = Stored /\ issued \in Nat
  BY <1>1 DEF Stored, CredShape, Service, Places, Control, Keying, ToCredential, ToClient, Flowing
<1>3. /\ n \in valid' /\ n <= issued' /\ issued <= issued' /\ valid' \subseteq 1 .. issued'
      /\ rotates' = rotates /\ n # 0 /\ issued' \in Nat
      /\ \A x \in valid : x = t \/ x \in valid'
      /\ rotates => n = issued + 1
      /\ ~rotates => valid' = valid /\ n \in valid
  <2>1. n \in valid' /\ n <= issued' /\ issued <= issued' /\ valid' \subseteq 1 .. issued'
        /\ rotates' = rotates /\ n # 0
        /\ (\A x \in valid : x = t \/ x \in valid')
        /\ (rotates => n = issued + 1) /\ (~rotates => valid' = valid)
    BY <1>1, UseTokens
  <2>2. issued' \in Nat
    BY <1>1, <1>2 DEF Use
  <2> QED  BY <2>1, <2>2
<1> HIDE DEF t, n
<1>4. \A q \in Procs : Control(q)'
  BY <1>1, <1>2 DEF Chain, Control, Keying, ToCredential, ToClient, Flowing
<1>5. /\ Renewing(p)' /\ pc[p] # "writeClient" /\ t # 0
      /\ \A q \in Procs \ {p} : (InHand(q)' <=> InHand(q)) /\ (PastClient(q)' <=> PastClient(q))
      /\ PastClient(p)
  BY <1>1, <1>2 DEF Renewing, InHand, PastClient, TokenInv, t, ToClient, ToCredential, Keying
<1>6. TokenInv'
  <2>1. \A q \in Procs : held'[q] <= issued'
    <3>1. ASSUME NEW q \in Procs, q # p PROVE held'[q] <= issued'
      <4>1. held[q] \in Nat /\ held'[q] = held[q] /\ held[q] <= issued
        BY <1>1, <1>2, <3>1 DEF CredShape, Places, Tokens, TokenInv
      <4> QED  BY <1>2, <1>3, <4>1
    <3> QED  BY <1>2, <1>3, <3>1
  <2>2. Stored' <= issued'
    <3>1. Stored \in Nat /\ Stored <= issued
      BY <1>1 DEF TokenInv, Stored, CredShape, Stores, Content, Files, Tokens
    <3> QED  BY <1>2, <1>3, <3>1
  <2>3. ASSUME NEW q \in Procs, q # p, InHand(q) PROVE held[q] \in valid'
    <3>1. held[q] \in valid
      BY <1>1, <2>3 DEF TokenInv
    <3>2. CASE rotates
      <4>1. held[q] # t
        BY <1>1, <2>3, <3>2 DEF TokenInv, t
      <4> QED  BY <1>3, <3>1, <4>1
    <3> QED  BY <1>3, <3>1, <3>2
  <2>4. \A q \in Procs : InHand(q)' => held'[q] \in valid'
    BY <1>2, <1>3, <1>5, <2>3
  <2>5. ASSUME rotates, NEW q \in Procs, InHand(q)'
        PROVE  Stored' # held'[q] /\ \A r \in Procs : held'[r] = held'[q] => r = q
    <3>1. \A r \in Procs : held[r] # n
      BY <1>1, <1>2, <1>3, <2>5 DEF TokenInv, CredShape, Places, Tokens
    <3>2. Stored # n
      BY <1>1, <1>2, <1>3, <2>5 DEF TokenInv
    <3>3. CASE q = p
      BY <1>2, <3>1, <3>2, <3>3
    <3>4. CASE q # p
      <4>1. InHand(q) /\ held'[q] = held[q] /\ Stored # held[q]
        BY <1>1, <1>2, <1>5, <2>5, <3>4 DEF TokenInv
      <4> QED  BY <1>1, <1>2, <2>5, <3>1, <3>4, <4>1 DEF TokenInv
    <3> QED  BY <3>3, <3>4
  <2>6. ~rotates => Stored \in valid' \cup {0} /\ \A q \in Procs : held'[q] \in valid' \cup {0}
    BY <1>1, <1>2, <1>3 DEF TokenInv
  <2> QED  BY <1>2, <1>3, <1>5, <2>1, <2>2, <2>4, <2>5, <2>6 DEF TokenInv
<1>7. ClientInv'
  <2>1. HasClient => HasClient'
    BY <1>1, <1>2, <1>5 DEF HasClient
  <2> QED  BY <1>1, <1>2, <1>5, <2>1 DEF ClientInv
<1> QED  BY <1>4, <1>6, <1>7 DEF Chain

\* An answer that is lost is lost.
LEMMA RefreshLostChain ==
  ASSUME CredShape, Chain, NEW p \in Procs, RefreshLost(p)
  PROVE  Chain'
<1> DEFINE t == held[p]
<1>1. /\ pc[p] = "refresh" /\ t \in valid /\ Use(t) /\ End(p)
      /\ UNCHANGED files /\ mishaps \subseteq mishaps' /\ "lost" \in mishaps'
      /\ TokenInv /\ ClientInv
  BY DEF RefreshLost, stored, Went, Chain
<1>2. /\ pc'[p] = "idle" /\ held'[p] = 0 /\ op'[p] = "none"
      /\ \A q \in Procs \ {p} : /\ pc'[q] = pc[q] /\ then'[q] = then[q]
                                /\ held'[q] = held[q] /\ op'[q] = op[q]
      /\ Stored' = Stored /\ issued \in Nat
  BY <1>1 DEF Stored, End, Forget, CredShape, Service, Places
<1>3. /\ issued <= issued' /\ valid' \subseteq 1 .. issued' /\ rotates' = rotates /\ issued' \in Nat
      /\ \A x \in valid : x = t \/ x \in valid'
      /\ ~rotates => valid' = valid
  <2>1. issued <= issued' /\ valid' \subseteq 1 .. issued' /\ rotates' = rotates
        /\ (\A x \in valid : x = t \/ x \in valid') /\ (~rotates => valid' = valid)
    BY <1>1, UseTokens
  <2>2. issued' \in Nat
    BY <1>1, <1>2 DEF Use
  <2> QED  BY <2>1, <2>2
<1> HIDE DEF t
<1>4. \A q \in Procs : Control(q)'
  BY <1>2 DEF Chain, Control, Keying, ToCredential, ToClient, Flowing
<1>5. /\ pc[p] # "writeClient" /\ ~InHand(p)' /\ ~PastClient(p)'
      /\ \A q \in Procs \ {p} : (InHand(q)' <=> InHand(q)) /\ (PastClient(q)' <=> PastClient(q))
  BY <1>1, <1>2 DEF InHand, PastClient
<1>6. TokenInv'
  <2>1. \A q \in Procs : held'[q] <= issued' /\ held[q] \in Nat
    <3>1. ASSUME NEW q \in Procs PROVE held'[q] <= issued' /\ held[q] \in Nat
      <4>1. held[q] \in Nat /\ held'[q] \in {held[q], 0} /\ held[q] <= issued
        BY <1>1, <1>2 DEF CredShape, Places, Tokens, TokenInv
      <4> QED  BY <1>2, <1>3, <4>1
    <3> QED  BY <3>1
  <2>2. Stored' <= issued'
    <3>1. Stored \in Nat /\ Stored <= issued
      BY <1>1 DEF TokenInv, Stored, CredShape, Stores, Content, Files, Tokens
    <3> QED  BY <1>2, <1>3, <3>1
  <2>3. ASSUME NEW q \in Procs, InHand(q)' PROVE held'[q] \in valid'
    <3>1. q # p /\ held'[q] = held[q] /\ held[q] \in valid /\ InHand(q)
      BY <1>1, <1>2, <1>5, <2>3 DEF TokenInv
    <3>2. CASE rotates
      <4>1. held[q] # t
        BY <1>1, <3>1, <3>2 DEF TokenInv, t
      <4> QED  BY <1>3, <3>1, <4>1
    <3> QED  BY <1>3, <3>1, <3>2
  <2>4. ASSUME rotates, NEW q \in Procs, InHand(q)'
        PROVE  Stored' # held'[q] /\ \A r \in Procs : held'[r] = held'[q] => r = q
    <3>1. q # p /\ InHand(q) /\ held'[q] = held[q] /\ held[q] # 0
      BY <1>2, <1>5, <2>4 DEF InHand
    <3> QED  BY <1>1, <1>2, <2>4, <3>1 DEF TokenInv
  <2>5. ~rotates => Stored \in valid' \cup {0} /\ \A q \in Procs : held'[q] \in valid' \cup {0}
    BY <1>1, <1>2, <1>3 DEF TokenInv
  <2> QED  BY <1>1, <1>2, <1>3, <2>1, <2>2, <2>3, <2>4, <2>5 DEF TokenInv
<1>7. ClientInv'
  <2>1. HasClient => HasClient'
    BY <1>1, <1>2, <1>5 DEF HasClient
  <2> QED  BY <1>1, <1>2, <1>5, <2>1 DEF ClientInv
<1> QED  BY <1>4, <1>6, <1>7 DEF Chain

\* Every step that a process takes by itself on the stored files.
LEMMA CredStepChain ==
  ASSUME CredShape, Chain, NEW p \in Procs, CredStep(p)
  PROVE  Chain'
  BY LookupChain, StoreKeyFailsChain, OpenFileChain, WriteFileChain, WriteFailsChain, LoadChain,
     InvokeChain, RefreshChain, RefreshLostChain DEF CredStep

\* What the user or a model makes a process do, and a kill.
LEMMA CredStartChain ==
  ASSUME CredShape, Chain, NEW p \in Procs, CredStart(p) \/ Killed(p)
  PROVE  Chain'
<1>0. Control(p)
  BY DEF Chain
<1>1. ASSUME NEW command \in {"invoke", "test"}, StartLoad(p, command)
      PROVE  Chain'
  <2>1. /\ pc[p] = "idle" /\ held' = held /\ UNCHANGED <<files, service, mishaps>>
        /\ pc'[p] = "key" /\ op'[p] = command /\ then'[p] = "loadCredential"
        /\ \A q \in Procs \ {p} : pc'[q] = pc[q] /\ op'[q] = op[q] /\ then'[q] = then[q]
    BY <1>1 DEF StartLoad, Begin, stored, CredShape, Places
  <2>2. held[p] = 0
    BY <1>0, <2>1 DEF Control, Keying, ToCredential, ToClient, Flowing
  <2>3. Control(p)' /\ ~InHand(p)' /\ ~Renewing(p) /\ ~PastClient(p)'
    BY <1>1, <2>1, <2>2 DEF Control, InHand, Renewing, PastClient, Keying
  <2>4. Carries(p)
    BY <2>1, <2>2, <2>3 DEF Carries
  <2> QED  BY <2>4, CarriesChain
<1>2. CASE StartRemove(p)
  <2>1. /\ pc[p] = "idle" /\ held' = held /\ then' = then /\ UNCHANGED <<files, service, mishaps>>
        /\ pc'[p] = "remove" /\ op'[p] = "remove"
        /\ \A q \in Procs \ {p} : pc'[q] = pc[q] /\ op'[q] = op[q]
    BY <1>2 DEF StartRemove, stored, CredShape, Places
  <2>2. held[p] = 0
    BY <1>0, <2>1 DEF Control, Keying, ToCredential, ToClient, Flowing
  <2>3. Control(p)' /\ ~InHand(p)' /\ ~Renewing(p) /\ ~PastClient(p)'
    BY <2>1, <2>2 DEF Control, InHand, Renewing, PastClient
  <2>4. Carries(p)
    BY <2>1, <2>2, <2>3 DEF Carries
  <2> QED  BY <2>4, CarriesChain
<1>3. CASE Remove(p)
  <2> DEFINE writing == {q \in Procs : pc[q] \in {"writeClient", "writeCredential"}}
  <2>1. /\ pc[p] = "remove" /\ held' = held /\ UNCHANGED <<valid, rotates, issued>>
        /\ files' = [f \in Files |-> Bare("absent")] /\ op' = [op EXCEPT ![p] = "none"]
        /\ pc' = [q \in Procs |-> CASE q = p         -> "idle"
                                    [] q \in writing -> AfterWrite(q)
                                    [] OTHER         -> pc[q]]
        /\ then' = [q \in Procs |-> IF pc[q] = "writeClient" THEN "openCredential" ELSE then[q]]
        /\ mishaps \subseteq mishaps' /\ TokenInv
    BY <1>3 DEF Remove, service, Went, Chain
  <2>2. \A q \in Procs :
          /\ pc'[q] = CASE q = p -> "idle" [] q \in writing -> AfterWrite(q) [] OTHER -> pc[q]
          /\ then'[q] = IF pc[q] = "writeClient" THEN "openCredential" ELSE then[q]
          /\ op'[q] = IF q = p THEN "none" ELSE op[q]
    BY <2>1 DEF CredShape, Places
  <2>3. p \notin writing /\ held[p] = 0 /\ op[p] = "remove"
    BY <1>0, <2>1 DEF Control, Keying, ToCredential, ToClient, Flowing
  <2>4. ASSUME NEW q \in Procs, q # p
        PROVE  /\ Control(q)'
               /\ InHand(q)' => InHand(q)
               /\ PastClient(q)' => pc[q] # "idle"
    <3>1. Control(q) /\ op'[q] = op[q] /\ held'[q] = held[q]
      BY <2>1, <2>2, <2>4 DEF Chain
    <3>2. CASE pc[q] = "writeClient"
      <4>1. op[q] = "add" /\ then[q] = "openClient"
        BY <3>1, <3>2 DEF Control, Keying, ToCredential, ToClient, Flowing
      <4>2. pc'[q] = "key" /\ then'[q] = "openCredential"
        BY <2>2, <2>4, <3>2, <4>1 DEF AfterWrite
      <4> QED  BY <3>1, <3>2, <4>1, <4>2 DEF Control, InHand, Keying, ToCredential, ToClient, Flowing
    <3>3. CASE pc[q] = "writeCredential"
      <4>1. op[q] \in {"add", "invoke"} /\ then[q] = "openCredential"
        BY <3>1, <3>3 DEF Control, Keying, ToCredential, ToClient, Flowing
      <4>2. pc'[q] = (IF op[q] = "invoke" THEN "call" ELSE "stored") /\ then'[q] = then[q]
        BY <2>2, <2>4, <3>3, <4>1 DEF AfterWrite
      <4> QED  BY <3>1, <3>3, <4>1, <4>2 DEF Control, InHand, Keying, ToCredential, ToClient, Flowing
    <3>4. CASE q \notin writing
      <4>1. pc'[q] = pc[q] /\ then'[q] = then[q]
        BY <2>2, <2>4, <3>4
      <4>2. pc[q] = "idle" => held[q] = 0
        BY <3>1 DEF Control, Keying, ToCredential, ToClient, Flowing
      <4> QED  BY <3>1, <4>1, <4>2 DEF Control, InHand, PastClient
    <3> QED  BY <3>2, <3>3, <3>4
  <2>5. Control(p)' /\ ~InHand(p)' /\ ~PastClient(p)'
    BY <2>1, <2>2, <2>3 DEF Control, InHand, PastClient
  <2>6. Stored' = 0
    BY <2>1 DEF Stored, Files, Bare
  <2>7. TokenInv'
    <3>1. \A q \in Procs : InHand(q)' => InHand(q)
      BY <2>4, <2>5
    <3>2. \A q \in Procs : InHand(q) => held[q] # 0
      BY DEF InHand
    <3>3. issued \in Nat
      BY DEF CredShape, Service
    <3> QED  BY <2>1, <2>6, <3>1, <3>2, <3>3 DEF TokenInv
  <2>8. ClientInv'
    <3>1. ASSUME NEW q \in Procs, PastClient(q)' PROVE "removed" \in mishaps'
      <4>1. q # p /\ pc[q] # "idle"
        BY <2>4, <2>5, <3>1
      <4> QED  BY <1>3, <4>1 DEF Remove, Went
    <3> QED  BY <2>6, <3>1 DEF ClientInv
  <2> QED  BY <2>4, <2>5, <2>7, <2>8 DEF Chain
<1> QED  BY <1>1, <1>2, <1>3, InvokeChain DEF CredStart

\* A new credential: its token is in the hand of the flow.
LEMMA ExchangeChain ==
  ASSUME CredShape, Chain, NEW p \in Procs, Exchange(p), ~Abort(p)
  PROVE  Chain'
<1>1. /\ pc[p] = "exchange" /\ issued' = issued + 1 /\ valid' = valid \cup {issued + 1}
      /\ held' = [held EXCEPT ![p] = issued + 1] /\ then' = [then EXCEPT ![p] = "openClient"]
      /\ pc' = [pc EXCEPT ![p] = "key"] /\ op' = op /\ rotates' = rotates
      /\ UNCHANGED <<files, mishaps>> /\ TokenInv /\ ClientInv /\ Control(p)
  BY DEF Exchange, stored, Chain
<1>2. /\ pc'[p] = "key" /\ then'[p] = "openClient" /\ held'[p] = issued + 1 /\ op[p] = "add"
      /\ \A q \in Procs \ {p} : pc'[q] = pc[q] /\ then'[q] = then[q] /\ held'[q] = held[q]
      /\ Stored' = Stored /\ issued \in Nat /\ Stored \in Nat /\ \A q \in Procs : held[q] \in Nat
  BY <1>1 DEF Stored, CredShape, Service, Stores, Content, Files, Places, Tokens, Control, Keying,
              ToCredential, ToClient, Flowing
<1>3. \A q \in Procs : Control(q)'
  BY <1>1, <1>2 DEF Chain, Control, Keying, ToCredential, ToClient, Flowing
<1>4. /\ pc[p] # "writeClient" /\ ~PastClient(p)' /\ ~Renewing(p)
      /\ \A q \in Procs \ {p} : /\ InHand(q)' <=> InHand(q)
                                /\ PastClient(q)' <=> PastClient(q)
                                /\ Renewing(q)' <=> Renewing(q)
  BY <1>1, <1>2 DEF InHand, PastClient, Renewing, Keying
<1>5. TokenInv'
  <2>1. valid' \subseteq 1 .. issued' /\ Stored' <= issued' /\ valid \subseteq valid'
    BY <1>1, <1>2 DEF TokenInv
  <2>2. \A q \in Procs : held'[q] <= issued'
    BY <1>1, <1>2 DEF TokenInv
  <2>3. \A q \in Procs : InHand(q)' => held'[q] \in valid'
    BY <1>1, <1>2, <1>4 DEF TokenInv
  <2>4. ASSUME rotates, NEW q \in Procs, InHand(q)'
        PROVE  Stored' # held'[q] /\ \A r \in Procs : held'[r] = held'[q] => r = q
    <3>1. Stored # issued + 1 /\ \A r \in Procs : held[r] # issued + 1
      BY <1>1, <1>2 DEF TokenInv
    <3>2. CASE q = p
      BY <1>2, <3>1, <3>2
    <3>3. CASE q # p
      <4>1. InHand(q) /\ held'[q] = held[q] /\ Stored # held[q]
        BY <1>1, <1>2, <1>4, <2>4, <3>3 DEF TokenInv
      <4> QED  BY <1>1, <1>2, <2>4, <3>1, <3>3, <4>1 DEF TokenInv
    <3> QED  BY <3>2, <3>3
  <2>5. ~rotates => Stored \in valid' \cup {0} /\ \A q \in Procs : held'[q] \in valid' \cup {0}
    BY <1>1, <1>2 DEF TokenInv
  <2>6. "lost" \notin mishaps' => (Stored' \in valid' \cup {0} \/ \E q \in Procs : Renewing(q)')
    BY <1>1, <1>2, <1>4, <2>1 DEF TokenInv
  <2> QED  BY <1>1, <1>2, <2>1, <2>2, <2>3, <2>4, <2>5, <2>6 DEF TokenInv
<1>6. ClientInv'
  <2>1. HasClient => HasClient'
    BY <1>1, <1>2, <1>4 DEF HasClient
  <2> QED  BY <1>1, <1>2, <1>4, <2>1 DEF ClientInv
<1> QED  BY <1>3, <1>5, <1>6 DEF Chain

\* The rest of the flow has no token.
LEMMA FlowStepChain ==
  ASSUME CredShape, Chain, NEW p \in Procs, FlowStep(p)
  PROVE  Chain'
<1>0. Control(p)
  BY DEF Chain
\* Within the flow only its place changes.
<1>1. ASSUME NEW from \in Flowing, NEW w \in Flowing, pc[p] = from, Goto(p, w),
             UNCHANGED <<files, service, mishaps>>
      PROVE  Chain'
  <2>1. /\ op' = op /\ then' = then /\ held' = held /\ pc'[p] = w
        /\ \A q \in Procs \ {p} : pc'[q] = pc[q]
    BY <1>1 DEF Goto, memory, CredShape, Places
  <2>2. op[p] = "add"
    BY <1>0, <1>1 DEF Control, Keying, ToCredential, ToClient, Flowing
  <2>3. Control(p)' /\ ~InHand(p)' /\ ~Renewing(p) /\ pc[p] # "writeClient"
        /\ (PastClient(p)' => PastClient(p))
    BY <1>1, <2>1, <2>2 DEF Control, InHand, Renewing, PastClient, Keying, ToCredential, ToClient, Flowing
  <2>4. Carries(p)
    BY <1>1, <2>1, <2>3 DEF Carries
  <2> QED  BY <2>4, CarriesChain
\* The flow ends.
<1>2. ASSUME pc[p] \in Flowing, Abort(p) PROVE Chain'
  <2>1. End(p) /\ UNCHANGED <<files, service, mishaps>> /\ ~Renewing(p) /\ pc[p] # "writeClient"
    BY <1>2 DEF Abort, stored, Renewing, Flowing
  <2> QED  BY <2>1, EndCarries, CarriesChain
<1>3. CASE Listen(p) \/ TimeOut(p) \/ Shutdown(p) \/ Paste(p)
  <2>1. pc[p] \in Flowing
    BY <1>3 DEF Listen, TimeOut, Shutdown, Paste, Flowing
  <2>2. \/ Abort(p)
        \/ /\ Goto(p, "listening") \/ Goto(p, "timedOut") \/ Goto(p, "exchange")
           /\ UNCHANGED <<files, service, mishaps>>
    BY <1>3 DEF Listen, TimeOut, Shutdown, Paste, stored
  <2> QED  BY <1>1, <1>2, <2>1, <2>2 DEF Flowing
<1>4. ASSUME NEW c \in Channels, Receive(p, c) PROVE Chain'
  <2>1. /\ pc[p] = "listening" /\ UNCHANGED <<files, service, mishaps>>
        /\ Goto(p, "received") \/ Goto(p, "refused")
    BY <1>4 DEF Receive, stored
  <2> QED  BY <1>1, <2>1 DEF Flowing
<1>5. CASE Exchange(p)
  <2>1. pc[p] \in Flowing
    BY <1>5 DEF Exchange, Flowing
  <2> QED  BY <1>2, <1>5, <2>1, ExchangeChain
<1>6. CASE Added(p)
  BY <1>2, <1>6 DEF Added, Flowing
<1>7. CASE AddToken(p)
  <2>1. /\ pc[p] = "idle" /\ held' = held /\ UNCHANGED <<files, service, mishaps>>
        /\ pc'[p] = "key" /\ op'[p] = "add" /\ then'[p] = "openCredential"
        /\ \A q \in Procs \ {p} : pc'[q] = pc[q] /\ op'[q] = op[q] /\ then'[q] = then[q]
    BY <1>7 DEF AddToken, Begin, stored, CredShape, Places
  <2>2. held[p] = 0
    BY <1>0, <2>1 DEF Control, Keying, ToCredential, ToClient, Flowing
  <2>3. Control(p)' /\ ~InHand(p)' /\ ~Renewing(p) /\ ~PastClient(p)'
    BY <2>1, <2>2 DEF Control, InHand, Renewing, PastClient, Keying, ToCredential
  <2>4. Carries(p)
    BY <2>1, <2>2, <2>3 DEF Carries
  <2> QED  BY <2>4, CarriesChain
<1>8. ASSUME NEW where \in {"listen", "paste"}, AddOAuth(p, where) PROVE Chain'
  <2>1. /\ pc[p] = "idle" /\ held' = held /\ then' = then /\ UNCHANGED <<files, service, mishaps>>
        /\ pc'[p] = where /\ op'[p] = "add"
        /\ \A q \in Procs \ {p} : pc'[q] = pc[q] /\ op'[q] = op[q]
    BY <1>8 DEF AddOAuth, stored, CredShape, Places
  <2>2. held[p] = 0
    BY <1>0, <2>1 DEF Control, Keying, ToCredential, ToClient, Flowing
  <2>3. Control(p)' /\ ~InHand(p)' /\ ~Renewing(p) /\ ~PastClient(p)'
    BY <1>8, <2>1, <2>2 DEF Control, InHand, Renewing, PastClient, Flowing
  <2>4. Carries(p)
    BY <2>1, <2>2, <2>3 DEF Carries
  <2> QED  BY <2>4, CarriesChain
<1>9. ASSUME UNCHANGED credVars PROVE Chain'
  BY <1>9 DEF credVars, stored, service, memory, Chain, Control, TokenInv, ClientInv, InHand,
              PastClient, Stored, HasClient, Renewing
<1>10. /\ CloseListener(p) => UNCHANGED credVars
       /\ \A f \in 1 .. flows, granted \in BOOLEAN : Callback(p, f, granted) => UNCHANGED credVars
  BY DEF CloseListener, Callback
<1> QED  BY <1>3, <1>4, <1>5, <1>6, <1>7, <1>8, <1>9, <1>10 DEF FlowStep

\* The chain is kept by every step.
LEMMA NextChain == CredShape /\ Chain /\ [Next]_vars => Chain'
<1> SUFFICES ASSUME CredShape, Chain, [Next]_vars PROVE Chain'
  OBVIOUS
<1>1. CASE UNCHANGED vars
  BY <1>1 DEF vars, credVars, stored, service, memory, Chain, Control, TokenInv, ClientInv, InHand,
              PastClient, Stored, HasClient, Renewing
<1> QED  BY <1>1, NextCases, CredStepChain, CredStartChain, FlowStepChain

\* The types of all that is stored, of every process and of its callback server
\* are those of the code, whatever commands, callbacks and faults occur.
THEOREM TypeCorrect == Spec => []TypeOK
<1>1. CredShape /\ FlowShape /\ HitInv => TypeOK
  <2> SUFFICES ASSUME CredShape, FlowShape, HitInv PROVE TypeOK
    OBVIOUS
  <2>1. CredTypeOK
    BY DEF CredShape, Stores, Service, Counts, Places, CredTypeOK
  <2>2. ASSUME NEW p \in Procs, NEW c \in Channels PROVE pending[p][c] \in 0 .. MaxHits
    <3>1. pending[p][c] + Received(p) <= hits[p]
      BY SentBound
    <3>2. pending[p][c] \in Nat /\ hits[p] \in 0 .. MaxHits /\ Received(p) \in Nat
      BY DEF FlowShape, Received
    <3>3. QED
      BY <3>1, <3>2, Bounds
  <2>3. QED
    BY <2>1, <2>2 DEF TypeOK, FlowShape
<1>2. QED
  BY <1>1, InitShape, NextShape, InitHits, NextHits, PTL DEF Spec

\* The invariant of the key is kept by every step.
LEMMA NextKey == CredShape /\ KeyInv /\ [Next]_vars => KeyInv'
<1> SUFFICES ASSUME CredShape, KeyInv, [Next]_vars PROVE KeyInv'
  OBVIOUS
<1>1. CASE UNCHANGED vars
  BY <1>1 DEF vars, credVars, stored, memory, KeyInv, Unforked, Generating
<1>2. QED
  BY <1>1, NextCases, CredStepKey, CredStartKey, FlowStepKey

\* A file that is whole is encrypted with the key in the keychain, unless a key
\* was made beside another one (credential.go:48).
THEOREM KeyOpens == Spec => []KeyOpensFiles
<1>1. KeyInv => KeyOpensFiles
  BY DEF KeyInv, Unforked, KeyOpensFiles, Opens
<1>2. QED
  BY <1>1, NextKey, InitShape, NextShape, InitKey, PTL DEF Spec

\* The refresh token in credentials.enc is one that the provider accepts, unless
\* a token was lost between its answer and the file (gateway.go:278), however
\* invocations, `add` and `remove` overlap.
THEOREM TokenIsUsable == Spec => []TokenUsable
<1>1. Chain => TokenUsable
  BY DEF Chain, TokenInv, Stored, TokenUsable
<1>2. QED
  BY <1>1, InitShape, NextShape, InitChain, NextChain, PTL DEF Spec

\* Beside a credential that can be refreshed is the client it is refreshed with,
\* encrypted with the key in the keychain, unless the client could not be
\* stored or something was removed, torn or re-keyed meanwhile.
THEOREM ClientIsThere == Spec => []Refreshable
<1>1. KeyInv /\ Chain => Refreshable
  <2> SUFFICES ASSUME KeyInv, Chain, mishaps \cap {"fork", "torn", "removed", "noclient"} = {},
                      files["credential"].token # 0, \A p \in Procs : pc[p] # "writeClient"
               PROVE  Opens(files["client"], keychain)
    BY DEF Refreshable
  <2>1. files["client"].is = "whole"
    BY DEF Chain, ClientInv, HasClient, Stored
  <2>2. QED
    BY <2>1 DEF KeyInv, Unforked, Opens, Files
<1>2. QED
  BY <1>1, NextKey, InitShape, NextShape, InitKey, InitChain, NextChain, PTL DEF Spec

\* The shutdown of the callback server waits for no handler for ever, unless
\* three callbacks, or two and the time-out, came before it (oauth2.go:182).
THEOREM ShutdownFree == Spec => []ShutdownEnds
<1>1. FlowShape /\ HitInv => ShutdownEnds
  <2> SUFFICES ASSUME FlowShape, HitInv, NEW p \in Procs,
                      pc[p] \in {"received", "refused", "timedOut"}, Stuck(p)
               PROVE  Flooded(p)
    BY DEF ShutdownEnds
  <2>1. PICK c \in Channels : pending[p][c] > 1
    BY DEF Stuck
  <2>2. pending[p][c] \in Nat /\ hits[p] \in Nat
    BY DEF FlowShape
  <2>3. pending[p][c] + Received(p) <= hits[p]
    BY SentBound
  <2>4. Received(p) = IF pc[p] = "timedOut" THEN 0 ELSE 1
    BY DEF Received, Over
  <2>5. QED
    BY <2>1, <2>2, <2>3, <2>4 DEF Flooded
<1>2. QED
  BY <1>1, InitShape, NextShape, InitHits, NextHits, PTL DEF Spec
=============================================================================
