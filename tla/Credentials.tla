---------------------------- MODULE Credentials ----------------------------
(***************************************************************************)
(* The stored credential of one integration, and the toc processes that    *)
(* use it: `toc integrate add | remove | test` and the invocations of the  *)
(* gateway.  credentials.enc and oauth2_client.enc are encrypted with one  *)
(* key, which is kept in the keychain of the system and created by         *)
(* whoever asks for it first.  An invocation whose access token has        *)
(* expired refreshes it at the provider and stores what it is given.       *)
(* Nothing is locked.                                                      *)
(***************************************************************************)
EXTENDS Naturals, FiniteSets

CONSTANTS
  Procs,      \* toc processes
  MaxKeys,    \* bound: keys generated
  MaxTokens,  \* bound: refresh tokens issued
  MaxOps,     \* bound: commands begun
  Commands,   \* add, invoke, test, remove: the commands that are run
  Faults      \* keychain, write, response, kill: which of them occur

ASSUME CredentialsAssumption ==
  /\ {MaxKeys, MaxTokens, MaxOps} \subseteq Nat
  /\ Commands \subseteq {"add", "invoke", "test", "remove"}
  /\ Faults \subseteq {"keychain", "write", "response", "kill"}

VARIABLES
  keychain,   \* the master key, 0 when there is none
  files,      \* the two encrypted files
  valid,      \* refresh tokens the provider accepts
  rotates,    \* whether it replaces a refresh token that is used
  pc, op,     \* where each process is, and in which command
  then,       \* where it goes with the master key
  key, held,  \* the key and the refresh token it holds, 0 for none
  keys, issued, ops,  \* keys generated, tokens issued, commands begun
  mishaps     \* history: what has gone wrong

stored  == <<keychain, files, keys>>
service == <<valid, rotates, issued>>
memory  == <<op, then, key, held>>
credVars == <<stored, service, pc, memory, ops, mishaps>>

Files  == {"credential", "client"}
Keys   == 1 .. MaxKeys
Tokens == 1 .. MaxTokens
Forms  == {"absent", "empty", "mixed", "whole"}
Content == [is : Forms, key : Keys \cup {0}, token : Tokens \cup {0}]
Bare(form) == [is |-> form, key |-> 0, token |-> 0]

Mishaps ==
  {"fork",     \* a key was made while there was one, or by two processes
   "lost",     \* a rotated token was not stored
   "torn",     \* a file was left half written
   "removed",  \* the integration was removed in the midst of a command
   "noclient"} \* the client could not be stored

\* The file can be read with key k: it is there, whole, and of that key.
Opens(file, k) == file.is = "whole" /\ file.key = k

Forget(p) ==
  /\ op' = [op EXCEPT ![p] = "none"]
  /\ then' = [then EXCEPT ![p] = "idle"]
  /\ key' = [key EXCEPT ![p] = 0]
  /\ held' = [held EXCEPT ![p] = 0]
End(p)  == pc' = [pc EXCEPT ![p] = "idle"] /\ Forget(p)
Goto(p, where) == pc' = [pc EXCEPT ![p] = where] /\ UNCHANGED memory
\* Every load and every store begins by asking for the key.
WithKey(p, where) ==
  /\ pc' = [pc EXCEPT ![p] = "key"]
  /\ then' = [then EXCEPT ![p] = where]
  /\ UNCHANGED <<op, key, held>>
Went(what) == mishaps' = mishaps \cup what

Begin(p, command, where) ==
  /\ pc[p] = "idle" /\ ops < MaxOps /\ command \in Commands
  /\ ops' = ops + 1
  /\ op' = [op EXCEPT ![p] = command]
  /\ pc' = [pc EXCEPT ![p] = "key"]
  /\ then' = [then EXCEPT ![p] = where]

\* A load or store of p fails.  The client of `add` is given up with a
\* warning, and so is the credential of an invocation that has refreshed it.
GiveUp(p) ==
  CASE then[p] = "openClient" ->
         WithKey(p, "openCredential") /\ Went({"noclient"})
    [] then[p] = "openCredential" /\ op[p] = "invoke" ->
         Goto(p, "call") /\ Went({"lost"})
    [] OTHER -> End(p) /\ Went({})

-----------------------------------------------------------------------------
(* The master key *)

Generating == {q \in Procs : pc[q] = "newKey"}

\* Mutant: the keychain is not looked up when the files exist already.
LookupKey_Always(p) ==
  /\ pc[p] = "key"
  /\ keys < MaxKeys
  /\ Goto(p, "newKey")
  /\ Went(IF Generating # {} THEN {"fork"} ELSE {})
  /\ UNCHANGED <<stored, service, ops>>

\* keychainMasterKey: any failure to read the key counts as "there is none".
LookupKey(p) ==
  /\ pc[p] = "key"
  /\ \/ /\ keychain # 0
        /\ key' = [key EXCEPT ![p] = keychain]
        /\ pc' = [pc EXCEPT ![p] = then[p]]
        /\ UNCHANGED <<op, then, held, mishaps>>
     \/ /\ keychain = 0 \/ "keychain" \in Faults
        /\ keys < MaxKeys
        /\ Goto(p, "newKey")
        /\ Went(IF keychain # 0 \/ Generating # {} THEN {"fork"} ELSE {})
  /\ UNCHANGED <<stored, service, ops>>

StoreKey(p) ==
  /\ pc[p] = "newKey" /\ keys < MaxKeys
  /\ keychain' = keys + 1
  /\ keys' = keys + 1
  /\ key' = [key EXCEPT ![p] = keys + 1]
  /\ pc' = [pc EXCEPT ![p] = then[p]]
  /\ UNCHANGED <<files, service, op, then, held, ops, mishaps>>

StoreKeyFails(p) ==
  /\ pc[p] = "newKey" /\ "keychain" \in Faults
  /\ GiveUp(p)
  /\ UNCHANGED <<stored, service, ops>>

-----------------------------------------------------------------------------
(* Writing a file: it is opened with O_TRUNC, then written. *)

Written(p) == IF pc[p] \in {"openClient", "writeClient"} THEN "client" ELSE "credential"
AfterWrite(q) == CASE pc[q] = "writeClient" -> "key"
                   [] op[q] = "invoke"      -> "call"
                   [] OTHER                 -> "stored"

OpenFile(p) ==
  /\ pc[p] \in {"openClient", "openCredential"}
  /\ files' = [files EXCEPT ![Written(p)] = Bare("empty")]
  /\ Goto(p, IF pc[p] = "openClient" THEN "writeClient" ELSE "writeCredential")
  /\ UNCHANGED <<keychain, keys, service, ops, mishaps>>

\* What p has written is complete, unless another process has written the
\* file since p truncated it: then the end of a longer text may remain.
WriteFile(p) ==
  /\ pc[p] \in {"writeClient", "writeCredential"}
  /\ LET mine == [is |-> "whole", key |-> key[p],
                  token |-> IF pc[p] = "writeClient" THEN 0 ELSE held[p]] IN
     \/ /\ files' = [files EXCEPT ![Written(p)] = mine]
        /\ UNCHANGED mishaps
     \/ /\ files[Written(p)].is # "empty"
        /\ files' = [files EXCEPT ![Written(p)] = Bare("mixed")]
        /\ Went({"torn"})
  /\ pc' = [pc EXCEPT ![p] = AfterWrite(p)]
  /\ then' = [then EXCEPT ![p] = IF pc[p] = "writeClient" THEN "openCredential" ELSE @]
  /\ UNCHANGED <<keychain, keys, service, op, key, held, ops>>

\* The file stays as it was truncated.
WriteFails(p) ==
  /\ pc[p] \in {"writeClient", "writeCredential"} /\ "write" \in Faults
  /\ CASE pc[p] = "writeClient" ->
            WithKey(p, "openCredential") /\ Went({"torn", "noclient"})
       [] op[p] = "invoke" -> Goto(p, "call") /\ Went({"torn", "lost"})
       [] OTHER -> End(p) /\ Went({"torn"})
  /\ UNCHANGED <<stored, service, ops>>

-----------------------------------------------------------------------------
(* Invocations, `toc integrate test` *)

\* Both begin with LoadCredential.
StartLoad(p, command) ==
  /\ Begin(p, command, "loadCredential")
  /\ UNCHANGED <<stored, service, key, held, mishaps>>

LoadCredential(p) ==
  /\ pc[p] = "loadCredential"
  /\ IF Opens(files["credential"], key[p])
     THEN /\ held' = [held EXCEPT ![p] = files["credential"].token]
          /\ pc' = [pc EXCEPT ![p] = IF op[p] = "test" THEN "call" ELSE "invoke"]
          /\ UNCHANGED <<op, then, key>>
     ELSE End(p)
  /\ UNCHANGED <<stored, service, ops, mishaps>>

\* Invoke, after approvals and rate limit: a credential that has expired by
\* then and has a refresh token is refreshed; the expiry is left open here.
Invoke(p) ==
  /\ pc[p] = "invoke"
  /\ \/ Goto(p, "call")
     \/ held[p] # 0 /\ WithKey(p, "loadClient")
  /\ UNCHANGED <<stored, service, ops, mishaps>>

LoadClient(p) ==
  /\ pc[p] = "loadClient"
  /\ IF Opens(files["client"], key[p]) THEN Goto(p, "refresh") ELSE End(p)
  /\ UNCHANGED <<stored, service, ops, mishaps>>

\* The provider's answer: the token sent when it keeps its tokens, else a new one.
NextToken(t) == IF rotates THEN issued + 1 ELSE t
Use(t) ==
  /\ rotates => issued < MaxTokens
  /\ valid' = (valid \ {t}) \cup {NextToken(t)}
  /\ issued' = IF rotates THEN issued + 1 ELSE issued
  /\ UNCHANGED rotates

\* Mutant: the refresh token of the answer is not taken over.
Refresh_KeepOld(p) ==
  /\ pc[p] = "refresh" /\ held[p] \in valid
  /\ Use(held[p])
  /\ WithKey(p, "openCredential")
  /\ UNCHANGED <<stored, ops, mishaps>>

\* RefreshAccessToken keeps the refresh token it sent if it is given none.
Refresh(p) ==
  /\ pc[p] = "refresh" /\ held[p] \in valid
  /\ Use(held[p])
  /\ held' = [held EXCEPT ![p] = NextToken(held[p])]
  /\ pc' = [pc EXCEPT ![p] = "key"]
  /\ then' = [then EXCEPT ![p] = "openCredential"]
  /\ UNCHANGED <<stored, op, key, ops, mishaps>>

\* The provider has used the token, and its answer is lost.
RefreshLost(p) ==
  /\ pc[p] = "refresh" /\ held[p] \in valid /\ "response" \in Faults
  /\ Use(held[p])
  /\ End(p) /\ Went({"lost"})
  /\ UNCHANGED <<stored, ops>>

\* No connection, or a token that has been replaced: the call is not made.
RefreshFails(p) ==
  /\ pc[p] = "refresh" /\ (held[p] \notin valid \/ "response" \in Faults)
  /\ End(p)
  /\ UNCHANGED <<stored, service, ops, mishaps>>

\* The request with the access token; for `test` the request of the test.
Call(p) ==
  /\ pc[p] = "call"
  /\ End(p)
  /\ UNCHANGED <<stored, service, ops, mishaps>>

-----------------------------------------------------------------------------
(* `toc integrate remove` *)

StartRemove(p) ==
  /\ files["credential"].is # "absent"
  /\ pc[p] = "idle" /\ ops < MaxOps /\ "remove" \in Commands
  /\ ops' = ops + 1
  /\ op' = [op EXCEPT ![p] = "remove"]
  /\ pc' = [pc EXCEPT ![p] = "remove"]
  /\ UNCHANGED <<stored, service, then, key, held, mishaps>>

\* Whoever has a file open goes on writing one that has no name any more.
Remove(p) ==
  /\ pc[p] = "remove"
  /\ files' = [f \in Files |-> Bare("absent")]
  /\ LET writing == {q \in Procs : pc[q] \in {"writeClient", "writeCredential"}} IN
     /\ pc' = [q \in Procs |-> CASE q = p         -> "idle"
                                 [] q \in writing -> AfterWrite(q)
                                 [] OTHER         -> pc[q]]
     /\ then' = [q \in Procs |-> IF pc[q] = "writeClient" THEN "openCredential" ELSE then[q]]
  /\ op' = [op EXCEPT ![p] = "none"]
  /\ Went(IF \E q \in Procs \ {p} : pc[q] # "idle" THEN {"removed"} ELSE {})
  /\ UNCHANGED <<keychain, keys, service, key, held, ops>>

\* Between the provider's answer and the end of the write the new token is
\* nowhere but in the memory of p.
Renewing(p) == op[p] = "invoke" /\ then[p] = "openCredential"
               /\ pc[p] \in {"key", "newKey", "openCredential", "writeCredential"}

Killed(p) ==
  /\ "kill" \in Faults /\ pc[p] # "idle"
  /\ End(p)
  /\ Went((IF pc[p] \in {"writeClient", "writeCredential"} THEN {"torn"} ELSE {})
          \cup (IF Renewing(p) THEN {"lost"} ELSE {}))
  /\ UNCHANGED <<stored, service, ops>>

-----------------------------------------------------------------------------
CredInit ==
  /\ keychain = 0 /\ keys = 0
  /\ files = [f \in Files |-> Bare("absent")]
  /\ valid = {} /\ issued = 0 /\ rotates \in BOOLEAN
  /\ pc = [p \in Procs |-> "idle"]
  /\ op = [p \in Procs |-> "none"]
  /\ then = [p \in Procs |-> "idle"]
  /\ key = [p \in Procs |-> 0] /\ held = [p \in Procs |-> 0]
  /\ ops = 0 /\ mishaps = {}

\* What a process does by itself.
CredStep(p) ==
  \/ LookupKey(p) \/ StoreKey(p) \/ StoreKeyFails(p)
  \/ OpenFile(p) \/ WriteFile(p) \/ WriteFails(p)
  \/ LoadCredential(p) \/ Invoke(p) \/ LoadClient(p)
  \/ Refresh(p) \/ RefreshLost(p) \/ RefreshFails(p) \/ Call(p)

\* What the user or a model makes it do.
CredStart(p) ==
  \/ \E command \in {"invoke", "test"} : StartLoad(p, command)
  \/ StartRemove(p) \/ Remove(p)

-----------------------------------------------------------------------------
(* Properties *)

\* Type invariant of the storage and the commands.
CredTypeOK ==
  /\ keychain \in Keys \cup {0} /\ keys \in 0 .. MaxKeys
  /\ files \in [Files -> Content]
  /\ valid \subseteq Tokens /\ issued \in 0 .. MaxTokens /\ rotates \in BOOLEAN
  /\ op \in [Procs -> {"none", "add", "invoke", "test", "remove"}]
  /\ key \in [Procs -> Keys \cup {0}] /\ held \in [Procs -> Tokens \cup {0}]
  /\ ops \in 0 .. MaxOps /\ mishaps \subseteq Mishaps

\* What has been stored can be decrypted: a whole file is encrypted with the
\* key in the keychain, unless two processes created a key at the same time
\* or one could not read the key that was there (the whole keychain is then
\* replaced under every file, credential.go:48).
KeyOpensFiles ==
  "fork" \notin mishaps =>
    \A f \in Files : files[f].is = "whole" => Opens(files[f], keychain)

\* The refresh token in credentials.enc is one the provider still accepts,
\* however invocations with the same token, `add` and `remove` overlap, and
\* whatever happens to the keys and the files: only a token whose answer,
\* store or process was lost breaks the chain of rotated tokens.
TokenUsable ==
  /\ "lost" \notin mishaps
  /\ \A p \in Procs : ~Renewing(p)
  => files["credential"].token \in valid \cup {0}

\* A credential that can be refreshed has the client it is refreshed with
\* beside it: `add` stores the client first.  A client that could not be
\* stored, or a removal in the midst of another command, leaves a credential
\* that works until it expires and never after.
Refreshable ==
  /\ mishaps \cap {"fork", "torn", "removed", "noclient"} = {}
  /\ files["credential"].token # 0
  /\ \A p \in Procs : pc[p] # "writeClient"
  => Opens(files["client"], keychain)
=============================================================================
