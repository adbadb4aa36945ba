------------------------------- MODULE Outbox -------------------------------
(***************************************************************************)
(* messaging-api: processMessages, for POST /messages and for the          *)
(* invitations of an import.                                               *)
(*                                                                         *)
(* The messages of a request are created side by side in one transaction   *)
(* on one connection; each creation issues a BEGIN of its own, which       *)
(* changes nothing, and a ROLLBACK of its own if it fails, which undoes    *)
(* all of them.  Jobs are inserted after the commit and the scheduler is   *)
(* called last, so a request may fail with messages that nobody will       *)
(* deliver, or with messages that will be.  The event log is written       *)
(* through the pool while the request holds a connection, two under the    *)
(* invitations, and the pool lets everyone wait for ever.                  *)
(***************************************************************************)
EXTENDS Naturals, FiniteSets

CONSTANTS Requests,
          Invitations,  \* requests that hold a connection of their own already
          Messages,
          Batch,        \* the messages of each request
          PoolMax,      \* connections in the pool
          MaxFaults     \* bound on failures and crashes

ASSUME OutboxAssumption ==
  /\ IsFiniteSet(Requests)
  /\ Invitations \subseteq Requests
  /\ Batch \in [Requests -> (SUBSET Messages) \ {{}}]
  /\ \A r, s \in Requests : r # s => Batch[r] \intersect Batch[s] = {}
  /\ PoolMax \in Nat \ {0}
  /\ MaxFaults \in Nat

VARIABLES
  pc,        \* where each request is
  work,      \* where the creation of each message is
  draft,     \* messages inserted and not committed
  messages,  \* messages committed
  jobs,      \* messages with a row in jobs
  tasks,     \* messages with a task of the scheduler
  logged,    \* messages with an event that says they were created
  faults,    \* failures and crashes so far
  struck     \* history: requests that failed after their commit

tables == <<messages, jobs, tasks, logged>>
vars == <<pc, work, draft, tables, faults, struck>>

\* The commit has been made.
Late == {"scheduling", "inserting", "calling", "excusing", "unwinding", "marking"}
\* The connection of processMessages is held.
Connected == {"checking", "creating"} \union (Late \ {"marking"})
Open == {"asking", "marking"} \union Connected
Stages == {"idle", "outer", "ok", "failed", "cut"} \union Open

OutboxTypeOK ==
  /\ pc \in [Requests -> Stages]
  /\ work \in [Messages -> {"todo", "inserted", "created", "failed"}]
  /\ draft \in SUBSET Messages
  /\ messages \in SUBSET Messages
  /\ jobs \in SUBSET Messages
  /\ tasks \in SUBSET Messages
  /\ logged \in SUBSET Messages
  /\ faults \in 0 .. MaxFaults
  /\ struck \in SUBSET Requests

OutboxInit ==
  /\ pc = [r \in Requests |-> "idle"]
  /\ work = [m \in Messages |-> "todo"]
  /\ draft = {}
  /\ messages = {} /\ jobs = {} /\ tasks = {} /\ logged = {}
  /\ faults = 0 /\ struck = {}

Goto(r, s) == pc' = [pc EXCEPT ![r] = s]
Fault == faults < MaxFaults /\ faults' = faults + 1
Strike(r) == struck' = struck \union {r}
Created(r) == {m \in Batch[r] : work[m] = "created"}

InUse == Cardinality({r \in Requests : pc[r] \in Connected})
           + Cardinality({r \in Invitations : pc[r] \in Open})

\* A pool that keeps one connection back.
MistakenFree == InUse + 1 < PoolMax

Free == InUse < PoolMax

-----------------------------------------------------------------------------
(* Before the transaction.                                                 *)

Arrive(r) ==
  /\ pc[r] = "idle"
  /\ Goto(r, IF r \in Invitations THEN "outer" ELSE "asking")
  /\ UNCHANGED <<work, draft, tables, faults, struck>>

\* sendInvitationsForUsersImport begins a transaction and reads settings in it.
ConnectOuter(r) ==
  /\ pc[r] = "outer" /\ Free
  /\ Goto(r, "asking")
  /\ UNCHANGED <<work, draft, tables, faults, struck>>

Connect(r) ==
  /\ pc[r] = "asking" /\ Free
  /\ Goto(r, "checking")
  /\ UNCHANGED <<work, draft, tables, faults, struck>>

\* No consent, no organisation, no sender, no token: everything is released.
Refuse(r) ==
  /\ pc[r] = "checking"
  /\ Goto(r, "failed")
  /\ UNCHANGED <<work, draft, tables, faults, struck>>

Begin(r) ==
  /\ pc[r] = "checking"
  /\ Goto(r, "creating")
  /\ UNCHANGED <<work, draft, tables, faults, struck>>

-----------------------------------------------------------------------------
(* The transaction.                                                        *)

InsertMessage(r, m) ==
  /\ pc[r] = "creating" /\ m \in Batch[r] /\ work[m] = "todo"
  /\ work' = [work EXCEPT ![m] = "inserted"]
  /\ draft' = draft \union {m}
  /\ UNCHANGED <<pc, tables, faults, struck>>

\* There is no such receiver, or the insert fails and with it what was
\* inserted before.
CreationFails(r, m) ==
  /\ pc[r] = "creating" /\ m \in Batch[r] /\ work[m] = "todo"
  /\ work' = [work EXCEPT ![m] = "failed"]
  /\ draft' \in {draft, draft \ Batch[r]}
  /\ UNCHANGED <<pc, tables, faults, struck>>

\* An event that cannot be stored is only logged.
LogCreation(r, m) ==
  /\ pc[r] = "creating" /\ m \in Batch[r] /\ work[m] = "inserted" /\ Free
  /\ work' = [work EXCEPT ![m] = "created"]
  /\ logged' \in {logged, logged \union {m}}
  /\ UNCHANGED <<pc, draft, messages, jobs, tasks, faults, struck>>

\* allOrNone taken for false.
MistakenMustFail(r) == \A m \in Batch[r] : work[m] = "failed"

MustFail(r) == \E m \in Batch[r] : work[m] = "failed"

\* A COMMIT in a finally.
MistakenKept(r) == draft \intersect Batch[r]

\* What the transaction leaves behind.
Kept(r) == IF MustFail(r) THEN {} ELSE draft \intersect Batch[r]

EndTransaction(r) ==
  /\ pc[r] = "creating" /\ \A m \in Batch[r] : work[m] \in {"created", "failed"}
  /\ messages' = messages \union Kept(r)
  /\ draft' = draft \ Batch[r]
  /\ Goto(r, IF MustFail(r) THEN "failed" ELSE "scheduling")
  /\ UNCHANGED <<work, jobs, tasks, logged, faults, struck>>

\* A statement fails, or the reply to the COMMIT is lost.
TransactionFails(r) ==
  /\ pc[r] = "creating" /\ Fault
  /\ draft' = draft \ Batch[r]
  /\ \/ /\ Goto(r, "failed")
        /\ UNCHANGED <<messages, struck>>
     \/ /\ Batch[r] = Created(r)
        /\ messages' = messages \union Kept(r)
        /\ Goto(r, "unwinding") /\ Strike(r)
  /\ UNCHANGED <<work, jobs, tasks, logged>>

-----------------------------------------------------------------------------
(* After the commit.                                                       *)

LogScheduling(r) ==
  /\ pc[r] = "scheduling" /\ Free
  /\ Goto(r, "inserting")
  /\ UNCHANGED <<work, draft, tables, faults, struck>>

InsertJobs(r) ==
  /\ pc[r] = "inserting"
  /\ jobs' = jobs \union Created(r)
  /\ Goto(r, "calling")
  /\ UNCHANGED <<work, draft, messages, tasks, logged, faults, struck>>

InsertJobsFails(r) ==
  /\ pc[r] = "inserting" /\ Fault
  /\ Goto(r, "excusing") /\ Strike(r)
  /\ UNCHANGED <<work, draft, tables>>

\* An error that the SDK returns and nobody looks at.
MistakenHeard(answer) == "accepted"

\* What scheduleMessages makes of the answer.
Heard(answer) == answer

\* All tasks in one statement.  The scheduler, or the token for it, is out of
\* reach ("refused"), or its answer is ("lost").
CallScheduler(r) ==
  /\ pc[r] = "calling"
  /\ \E answer \in {"accepted", "refused", "lost"} :
       /\ tasks' = IF answer = "refused" THEN tasks ELSE tasks \union Created(r)
       /\ IF answer = "accepted" THEN UNCHANGED <<faults, struck>> ELSE Fault /\ Strike(r)
       /\ Goto(r, IF Heard(answer) = "accepted" THEN "marking" ELSE "excusing")
  /\ UNCHANGED <<work, draft, messages, jobs, logged>>

LogFailure(r) ==
  /\ pc[r] = "excusing" /\ Free
  /\ Goto(r, "unwinding")
  /\ UNCHANGED <<work, draft, tables, faults, struck>>

Unwind(r) ==
  /\ pc[r] = "unwinding"
  /\ Goto(r, "failed")
  /\ UNCHANGED <<work, draft, tables, faults, struck>>

\* The answer, or setImportedAsInvited and the commit of the invitations.
Finish(r) ==
  /\ pc[r] = "marking"
  /\ Goto(r, "ok")
  /\ UNCHANGED <<work, draft, tables, faults, struck>>

\* The settings, or the marks, cannot be read or written.
OuterFails(r) ==
  /\ r \in Invitations /\ pc[r] \in {"asking", "marking"} /\ Fault
  /\ Goto(r, "failed")
  /\ IF pc[r] = "marking" THEN Strike(r) ELSE UNCHANGED struck
  /\ UNCHANGED <<work, draft, tables>>

Crash ==
  /\ Fault
  /\ pc' = [r \in Requests |-> IF pc[r] \in Open \union {"outer"} THEN "cut" ELSE pc[r]]
  /\ draft' = {}
  /\ struck' = struck \union {r \in Requests : pc[r] \in Late}
  /\ UNCHANGED <<work, tables>>

-----------------------------------------------------------------------------
\* What a request does by itself.
Step(r) ==
  \/ ConnectOuter(r) \/ Connect(r) \/ Refuse(r) \/ Begin(r)
  \/ \E m \in Messages : InsertMessage(r, m) \/ CreationFails(r, m) \/ LogCreation(r, m)
  \/ EndTransaction(r) \/ LogScheduling(r) \/ InsertJobs(r) \/ CallScheduler(r)
  \/ LogFailure(r) \/ Unwind(r) \/ Finish(r)

OutboxNext ==
  \/ \E r \in Requests :
       Arrive(r) \/ Step(r) \/ TransactionFails(r) \/ InsertJobsFails(r) \/ OuterFails(r)
  \/ Crash

OutboxSpec == OutboxInit /\ [][OutboxNext]_vars

\* Promises settle, and the pool serves whoever waits.
OutboxFairSpec == OutboxSpec /\ \A r \in Requests : WF_vars(Step(r))

-----------------------------------------------------------------------------
(* Properties.                                                             *)

\* To its caller a request is a Submission: stored with all it sends or not at
\* all, handed over only when stored, and accepted only when every message has
\* a task.
Promise == INSTANCE Submission WITH
  stored <- {r \in Requests : Batch[r] \intersect messages # {}},
  handed <- {r \in Requests : Batch[r] \subseteq tasks},
  answer <- [r \in Requests |-> CASE pc[r] = "ok" -> "ok"
                                  [] pc[r] \in {"failed", "cut"} -> "error"
                                  [] OTHER -> "none"]

SubmissionKept == Promise!SubmissionSpec

\* A request that failed before its commit leaves no message, no job and no
\* task; and whatever has a task has a job, and whatever has a job is stored.
FailureLeavesNothing ==
  /\ \A r \in Requests : pc[r] \in {"failed", "cut"} /\ r \notin struck =>
       Batch[r] \intersect (messages \union jobs \union tasks) = {}
  /\ tasks \subseteq jobs /\ jobs \subseteq messages

\* All connections are held by requests that wait for another one.
Waits(r) ==
  \/ pc[r] \in {"scheduling", "excusing"}
  \/ pc[r] = "asking" /\ r \in Invitations
  \/ /\ pc[r] = "creating"
     /\ \E m \in Batch[r] : work[m] = "inserted"
     /\ \A m \in Batch[r] : work[m] # "todo"

Wedged ==
  /\ InUse >= PoolMax
  /\ \A r \in Requests :
       pc[r] \in Connected \/ (r \in Invitations /\ pc[r] \in Open) => Waits(r)

\* Every request is answered, unless the pool waits for itself or the process
\* dies.
EverySendEnds ==
  \A r \in Requests :
    pc[r] \notin {"idle", "ok", "failed", "cut"} ~> pc[r] \in {"ok", "failed", "cut"} \/ Wedged
=============================================================================
