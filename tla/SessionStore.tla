---------------------------- MODULE SessionStore ----------------------------
(***************************************************************************)
(* sessions.yaml as the toc processes of a workspace share it.  A change   *)
(* takes an flock on sessions.yaml.lock, reads the file, truncates it and  *)
(* writes it back (withFileLock, Add, AddInWorkspace, UpdateStatus,        *)
(* UpdateStatusInWorkspace, RemoveByAgent).  A truncated file parses as a  *)
(* table without sessions, and the kernel releases the lock of a process   *)
(* that dies.                                                              *)
(***************************************************************************)
EXTENDS Naturals

CONSTANTS
  Actors,    \* toc processes
  NoActor,   \* nobody
  Sessions, Statuses, Agents,
  AgentOf,   \* the agent of each session
  MaxOps,    \* bound: operations over the life of the workspace
  StoreFaults     \* crash: a process dies, tear: it dies while it writes

ASSUME SessionStoreAssumption ==
  /\ NoActor \notin Actors
  /\ Statuses # {}
  /\ AgentOf \in [Sessions -> Agents]
  /\ MaxOps \in Nat
  /\ StoreFaults \subseteq {"crash", "tear"}

VARIABLES
  file,   \* what sessions.yaml parses as
  lock,   \* who holds sessions.yaml.lock
  stage,     \* where each process is
  op,     \* the operation it performs
  seen,   \* the table it has read
  ids,    \* the session ids that have been generated
  ops     \* operations begun

storeVars == <<file, lock, stage, op, seen, ids, ops>>

Tables == UNION {[S -> Statuses] : S \in SUBSET Sessions}
NoSessions  == [s \in {} |-> CHOOSE x \in Statuses : TRUE]

Put    == [kind : {"add", "update"}, id : Sessions, status : Statuses]
Remove == [kind : {"remove"}, agent : Agents]
Ops    == Put \cup Remove
NoOp   == [kind |-> "none"]

Holding == {"locked", "read", "truncated", "written", "notFound"}

StoreTypeOK ==
  /\ file \in Tables
  /\ lock \in Actors \cup {NoActor}
  /\ stage \in [Actors -> {"idle", "waiting"} \cup Holding]
  /\ op \in [Actors -> Ops \cup {NoOp}]
  /\ seen \in [Actors -> Tables]
  /\ ids \subseteq Sessions
  /\ ops \in Nat

\* The table after operation q on table t.
Apply(q, t) ==
  IF q.kind = "remove"
  THEN [r \in {s \in DOMAIN t : AgentOf[s] # q.agent} |-> t[r]]
  ELSE [r \in DOMAIN t \cup {q.id} |-> IF r = q.id THEN q.status ELSE t[r]]

\* An update of a session that is not there is an error.
Found(q, t) == q.kind = "update" => q.id \in DOMAIN t

-----------------------------------------------------------------------------
(* One operation of process a *)

\* A new session has an id of its own (uuid.New).
Begin(a, q) ==
  /\ stage[a] = "idle" /\ ops < MaxOps
  /\ q.kind = "add" => q.id \notin ids
  /\ ids' = IF q.kind = "add" THEN ids \cup {q.id} ELSE ids
  /\ stage' = [stage EXCEPT ![a] = "waiting"]
  /\ op' = [op EXCEPT ![a] = q]
  /\ ops' = ops + 1
  /\ UNCHANGED <<file, lock, seen>>

\* Mutant: the lock is not exclusive.
Acquire_Shared(a) ==
  /\ stage[a] = "waiting"
  /\ lock' = a
  /\ stage' = [stage EXCEPT ![a] = "locked"]
  /\ UNCHANGED <<file, op, seen, ids, ops>>

\* flock(LOCK_EX)
Acquire(a) ==
  /\ stage[a] = "waiting" /\ lock = NoActor
  /\ lock' = a
  /\ stage' = [stage EXCEPT ![a] = "locked"]
  /\ UNCHANGED <<file, op, seen, ids, ops>>

Read(a) ==
  /\ stage[a] = "locked"
  /\ seen' = [seen EXCEPT ![a] = file]
  /\ stage' = [stage EXCEPT ![a] = IF Found(op[a], file) THEN "read" ELSE "notFound"]
  /\ UNCHANGED <<file, lock, op, ids, ops>>

\* os.WriteFile opens the file with O_TRUNC ...
Truncate(a) ==
  /\ stage[a] = "read"
  /\ file' = NoSessions
  /\ stage' = [stage EXCEPT ![a] = "truncated"]
  /\ UNCHANGED <<lock, op, seen, ids, ops>>

\* Mutant: the result is merged into what the file holds now.
Write_FromFile(a) ==
  /\ stage[a] = "truncated"
  /\ file' = Apply(op[a], file)
  /\ stage' = [stage EXCEPT ![a] = "written"]
  /\ UNCHANGED <<lock, op, seen, ids, ops>>

\* ... and writes it.
Write(a) ==
  /\ stage[a] = "truncated"
  /\ file' = Apply(op[a], seen[a])
  /\ stage' = [stage EXCEPT ![a] = "written"]
  /\ UNCHANGED <<lock, op, seen, ids, ops>>

Leave(a) ==
  /\ lock' = IF lock = a THEN NoActor ELSE lock
  /\ stage' = [stage EXCEPT ![a] = "idle"]
  /\ UNCHANGED <<file, op, seen, ids, ops>>

\* Mutant: the early return for a missing session keeps the lock.
Release_OnlyWritten(a) == stage[a] = "written" /\ Leave(a)

\* The deferred LOCK_UN, on the error path too.
Release(a) == stage[a] \in {"written", "notFound"} /\ Leave(a)

\* The process dies and its lock with it.
Crash(a) ==
  /\ \/ "crash" \in StoreFaults /\ stage[a] \notin {"idle", "truncated"}
     \/ "tear" \in StoreFaults /\ stage[a] = "truncated"
  /\ Leave(a)

Step(a) == Acquire(a) \/ Read(a) \/ Truncate(a) \/ Write(a) \/ Release(a)

StoreInit ==
  /\ file = NoSessions
  /\ lock = NoActor
  /\ stage = [a \in Actors |-> "idle"]
  /\ op = [a \in Actors |-> NoOp]
  /\ seen = [a \in Actors |-> NoSessions]
  /\ ids = {}
  /\ ops = 0

StoreNext == \E a \in Actors : (\E q \in Ops : Begin(a, q)) \/ Step(a) \/ Crash(a)

StoreSpec == StoreInit /\ [][StoreNext]_storeVars

\* The scheduler runs each process; nobody has to begin an operation.
FairStoreSpec == StoreSpec /\ \A a \in Actors : WF_storeVars(Step(a))

-----------------------------------------------------------------------------
(* Properties *)

\* A process is told that a session does not exist only while it does not
\* (session.go:166, :306): it never looks at a file another one truncated.
NotFoundIsTrue ==
  \A a \in Actors : stage[a] = "notFound" =>
    \A b \in Actors : stage[b] # "truncated" /\ op[a].id \notin DOMAIN file

\* The table that the file stands for while it is being rewritten.
Table == IF lock # NoActor /\ stage[lock] = "truncated" THEN seen[lock] ELSE file

Abstract == INSTANCE SessionTable WITH table <- Table, Faults <- StoreFaults

\* The lock "prevents concurrent read-modify-write races on sessions.yaml"
\* (lock.go:10): no update is lost, whoever dies before it writes.
ImplementsTable == Abstract!Spec

\* Every operation that is begun ends: no path keeps the lock.
OperationsEnd == \A a \in Actors : stage[a] # "idle" ~> stage[a] = "idle"
=============================================================================
