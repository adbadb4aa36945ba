---------------------------- MODULE MessageJob -----------------------------
(***************************************************************************)
(* messaging-api: POST /jobs/:id, the webhook the scheduler calls to make  *)
(* a message appear in its receiver's mailbox and to send it by e-mail.    *)
(*                                                                         *)
(* Every request runs executeJob.  It reads the job row in a transaction   *)
(* that takes no lock, refuses a delivered or a working job, claims the    *)
(* job, and runs scheduleMessage: one transaction that marks message and   *)
(* job delivered, then the transports.  Neither transaction's COMMIT is    *)
(* awaited: the request goes on, up to its answer, while the COMMIT is on  *)
(* its way, and the row stays locked until it lands.  Every part works on  *)
(* connections of one pg pool, the event log included, so a request often  *)
(* waits for a second connection while it holds a first.                   *)
(***************************************************************************)
EXTENDS Naturals, FiniteSets

CONSTANTS Jobs,         \* rows of the jobs table, one per message
          Requests,     \* the requests that may arrive
          JobOf,        \* the job each request names
          PoolMax,      \* connections in the pool
          MaxJobFaults  \* bound on failures and crashes

ASSUME JobAssumption ==
  /\ IsFiniteSet(Requests)
  /\ JobOf \in [Requests -> Jobs]
  /\ PoolMax \in Nat \ {0}
  /\ MaxJobFaults \in Nat

VARIABLES
  job,          \* delivery_status of each job, null read as "pending"
  mailbox,      \* the messages whose is_delivered is true
  commit,       \* the status a COMMIT on its way will give each job, or "none"
  pc,           \* where each request is
  seen,         \* the status the request read
  carry,        \* the requests that know the message's transports
  failed,       \* the requests whose work ended in an error
  code,         \* the answer, 0 while there is none
  leaked,       \* connections that were never released
  emails,       \* history: e-mails sent per job
  staleClaims,  \* history: jobs claimed although their status had moved on
  lostCommits,  \* history: jobs whose delivery was lost with its COMMIT
  jobFaults     \* failures and crashes so far

rows == <<job, mailbox, commit>>
handler == <<pc, seen, carry, failed, code>>
history == <<emails, staleClaims, lostCommits>>
observed == <<history, jobFaults>>
jobVars == <<rows, handler, leaked, observed>>

JobStatus == {"pending", "working", "failed", "delivered"}

\* Where a request holds a connection of the pool.
Holding == {"select", "missing", "logPending", "claim", "unwind", "deliver",
            "profile", "send", "emailLog"}

Steps == Holding \union {"idle", "queued", "claimed", "transport", "markFailed",
                         "lastLog", "done", "dead"}

InUse == Cardinality({r \in Requests : pc[r] \in Holding}) + leaked

\* A pool that opens one connection too few.
MistakenFreeShort == InUse + 1 < PoolMax

Free == InUse < PoolMax

JobTypeOK ==
  /\ job \in [Jobs -> JobStatus]
  /\ mailbox \in SUBSET Jobs
  /\ commit \in [Jobs -> {"none", "working", "delivered"}]
  /\ pc \in [Requests -> Steps]
  /\ seen \in [Requests -> JobStatus]
  /\ carry \in SUBSET Requests
  /\ failed \in SUBSET Requests
  /\ code \in [Requests -> {0, 202, 400, 404, 500}]
  /\ leaked \in Nat
  /\ InUse <= PoolMax
  /\ emails \in [Jobs -> Nat]
  /\ staleClaims \in SUBSET Jobs
  /\ lostCommits \in SUBSET Jobs
  /\ jobFaults \in 0 .. MaxJobFaults

JobInit ==
  /\ job = [j \in Jobs |-> "pending"]
  /\ mailbox = {}
  /\ commit = [j \in Jobs |-> "none"]
  /\ pc = [r \in Requests |-> "idle"]
  /\ seen = [r \in Requests |-> "pending"]
  /\ carry = {}
  /\ failed = {}
  /\ code = [r \in Requests |-> 0]
  /\ leaked = 0
  /\ emails = [j \in Jobs |-> 0]
  /\ staleClaims = {}
  /\ lostCommits = {}
  /\ jobFaults = 0

Goto(r, s) == pc' = [pc EXCEPT ![r] = s]
Fault == jobFaults < MaxJobFaults /\ jobFaults' = jobFaults + 1

\* An update of the row of j waits for the transaction that holds its lock.
Unlocked(j) == commit[j] = "none"

\* The transaction has updated the row of j and its COMMIT is sent.
SendCommit(j, s) == Unlocked(j) /\ commit' = [commit EXCEPT ![j] = s]

\* The COMMIT takes effect; a delivery marks the message with the job.
CommitLands(j) ==
  /\ ~ Unlocked(j)
  /\ job' = [job EXCEPT ![j] = commit[j]]
  /\ mailbox' = IF commit[j] = "delivered" THEN mailbox \union {j} ELSE mailbox
  /\ commit' = [commit EXCEPT ![j] = "none"]
  /\ UNCHANGED <<handler, leaked, observed>>

-----------------------------------------------------------------------------
(* The claim.                                                              *)

Arrive(r) ==
  /\ pc[r] = "idle"
  /\ Goto(r, "queued")
  /\ UNCHANGED <<rows, seen, carry, failed, code, leaked, observed>>

Connect(r) ==
  /\ pc[r] = "queued"
  /\ Free
  /\ Goto(r, "select")
  /\ UNCHANGED <<rows, seen, carry, failed, code, leaked, observed>>

\* A select that forgets to leave delivered jobs out.
MistakenFound(r) == job[JobOf[r]] \in JobStatus

\* A delivered job is as good as none.
Found(r) == job[JobOf[r]] # "delivered"

\* The row is read, not locked.
Select(r) ==
  /\ pc[r] = "select"
  /\ seen' = [seen EXCEPT ![r] = job[JobOf[r]]]
  /\ Goto(r, IF Found(r) THEN "logPending" ELSE "missing")
  /\ UNCHANGED <<rows, carry, failed, code, leaked, observed>>

\* The event log is written through the pool, on a connection of its own.
LogMissing(r) ==
  /\ pc[r] = "missing"
  /\ Free
  /\ Goto(r, "unwind")
  /\ code' = [code EXCEPT ![r] = 404]
  /\ UNCHANGED <<rows, seen, carry, failed, leaked, observed>>

LogPending(r) ==
  /\ pc[r] = "logPending"
  /\ Free
  /\ IF seen[r] = "working"
     THEN Goto(r, "unwind") /\ code' = [code EXCEPT ![r] = 400]
     ELSE Goto(r, "claim") /\ UNCHANGED code
  /\ UNCHANGED <<rows, seen, carry, failed, leaked, observed>>

\* The update names the row only, whatever its status is by now.
Claim(r) ==
  /\ pc[r] = "claim"
  /\ SendCommit(JobOf[r], "working")
  /\ staleClaims' = IF job[JobOf[r]] = seen[r] THEN staleClaims
                    ELSE staleClaims \union {JobOf[r]}
  /\ Goto(r, "claimed")
  /\ UNCHANGED <<job, mailbox, seen, carry, failed, code, leaked, emails,
                 lostCommits, jobFaults>>

ClaimFails(r) ==
  /\ pc[r] \in {"select", "claim"}
  /\ Fault
  /\ Goto(r, "unwind")
  /\ code' = [code EXCEPT ![r] = 500]
  /\ UNCHANGED <<rows, seen, carry, failed, leaked, history>>

\* The catch: roll back, log, and only then release the connection.
Unwind(r) ==
  /\ pc[r] = "unwind"
  /\ Free
  /\ Goto(r, "done")
  /\ UNCHANGED <<rows, seen, carry, failed, code, leaked, observed>>

-----------------------------------------------------------------------------
(* scheduleMessage.                                                        *)

Open(r) ==
  /\ pc[r] = "claimed"
  /\ Free
  /\ Goto(r, "deliver")
  /\ UNCHANGED <<rows, seen, carry, failed, code, leaked, observed>>

Deliver(r) ==
  /\ pc[r] = "deliver"
  /\ SendCommit(JobOf[r], "delivered")
  /\ carry' = carry \union {r}
  /\ Goto(r, "transport")
  /\ UNCHANGED <<job, mailbox, seen, failed, code, leaked, observed>>

\* A statement before the COMMIT fails.  The transaction is rolled back and
\* the error is critical, but the request goes on to the transports, which
\* it knows if the first update succeeded.
DeliverFails(r, known) ==
  /\ pc[r] = "deliver"
  /\ Fault
  /\ carry' = IF known THEN carry \union {r} ELSE carry
  /\ failed' = failed \union {r}
  /\ Goto(r, "transport")
  /\ UNCHANGED <<rows, seen, code, leaked, history>>

OpenTransports(r) ==
  /\ pc[r] = "transport"
  /\ Free
  /\ Goto(r, "profile")
  /\ UNCHANGED <<rows, seen, carry, failed, code, leaked, observed>>

\* No connection can be had.  At the first connect nothing has happened yet;
\* later the error leaves scheduleMessage and fails the job.
ConnectFails(r) ==
  /\ pc[r] \in {"queued", "claimed", "transport"}
  /\ Fault
  /\ IF pc[r] = "queued"
     THEN /\ Goto(r, "done")
          /\ code' = [code EXCEPT ![r] = 500]
          /\ UNCHANGED failed
     ELSE /\ Goto(r, "markFailed")
          /\ failed' = failed \union {r}
          /\ UNCHANGED code
  /\ UNCHANGED <<rows, seen, carry, leaked, history>>

GetProfile(r) ==
  /\ pc[r] = "profile"
  /\ Goto(r, "send")
  /\ UNCHANGED <<rows, seen, carry, failed, code, leaked, observed>>

\* getProfileSdk runs between the connect and the try whose finally releases
\* the connection: when it throws, the connection is lost to the pool.
GetProfileFails(r) ==
  /\ pc[r] = "profile"
  /\ Fault
  /\ leaked' = leaked + 1
  /\ failed' = failed \union {r}
  /\ Goto(r, "markFailed")
  /\ UNCHANGED <<rows, seen, carry, code, history>>

AfterTransports(r) == IF r \in failed THEN "markFailed" ELSE "lastLog"

Send(r) ==
  /\ pc[r] = "send"
  /\ r \in carry
  /\ emails' = [emails EXCEPT ![JobOf[r]] = @ + 1]
  /\ Goto(r, AfterTransports(r))
  /\ UNCHANGED <<rows, seen, carry, failed, code, leaked, staleClaims,
                 lostCommits, jobFaults>>

\* No transport to use, or no profile for the receiver.
SkipTransports(r) ==
  /\ pc[r] = "send"
  /\ Goto(r, AfterTransports(r))
  /\ UNCHANGED <<rows, seen, carry, failed, code, leaked, observed>>

\* No address, no provider or a refusal by the provider: logged through the
\* pool while the transports' connection is still held.
SendFails(r) ==
  /\ pc[r] = "send"
  /\ r \in carry
  /\ Goto(r, "emailLog")
  /\ UNCHANGED <<rows, seen, carry, failed, code, leaked, observed>>

EmailLog(r) ==
  /\ pc[r] = "emailLog"
  /\ Free
  /\ Goto(r, AfterTransports(r))
  /\ UNCHANGED <<rows, seen, carry, failed, code, leaked, observed>>

-----------------------------------------------------------------------------
(* The end of executeJob.                                                  *)

\* The job is failed by its id, also when it had been delivered.
MarkFailed(r) ==
  /\ pc[r] = "markFailed"
  /\ Free /\ Unlocked(JobOf[r])
  /\ job' = [job EXCEPT ![JobOf[r]] = "failed"]
  /\ Goto(r, "lastLog")
  /\ UNCHANGED <<mailbox, commit, seen, carry, failed, code, leaked, observed>>

MarkFailedFails(r) ==
  /\ pc[r] = "markFailed"
  /\ Fault
  /\ Goto(r, "lastLog")
  /\ UNCHANGED <<rows, seen, carry, failed, code, leaked, history>>

\* An answer that does not look at the errors.
MistakenAnswerOf(r) == IF r \in Requests THEN 202 ELSE 500

AnswerOf(r) == IF r \in failed THEN 500 ELSE 202

LastLog(r) ==
  /\ pc[r] = "lastLog"
  /\ Free
  /\ Goto(r, "done")
  /\ code' = [code EXCEPT ![r] = AnswerOf(r)]
  /\ UNCHANGED <<rows, seen, carry, failed, leaked, observed>>

Live == {r \in Requests : pc[r] \notin {"idle", "done", "dead"}}

\* The process dies, of a COMMIT that fails among other things, for nobody
\* handles the rejection of a promise that is not awaited.  Open transactions
\* are rolled back, COMMITs on their way may be lost (those of the jobs in S)
\* or still land, the requests in flight are gone and the next process starts
\* with a pool of its own.
JobCrash(S) ==
  /\ \A j \in S : ~ Unlocked(j)
  /\ Live # {} \/ S # {}
  /\ Fault
  /\ pc' = [r \in Requests |-> IF r \in Live THEN "dead" ELSE pc[r]]
  /\ commit' = [j \in Jobs |-> IF j \in S THEN "none" ELSE commit[j]]
  /\ lostCommits' = lostCommits \union {j \in S : commit[j] = "delivered"}
  /\ leaked' = 0
  /\ UNCHANGED <<job, mailbox, seen, carry, failed, code, emails, staleClaims>>

-----------------------------------------------------------------------------
\* What the code does of itself, and what goes wrong around it.
HandlerStep(r) ==
  \/ Connect(r)  \/ Select(r)         \/ LogMissing(r) \/ LogPending(r)
  \/ Claim(r)    \/ Unwind(r)         \/ Open(r)       \/ Deliver(r)
  \/ OpenTransports(r)                \/ GetProfile(r) \/ Send(r)
  \/ SkipTransports(r)                \/ SendFails(r)  \/ EmailLog(r)
  \/ MarkFailed(r)                    \/ LastLog(r)

HandlerFault(r) ==
  \/ ClaimFails(r)
  \/ \E known \in BOOLEAN : DeliverFails(r, known)
  \/ ConnectFails(r)
  \/ GetProfileFails(r)
  \/ MarkFailedFails(r)

JobNext ==
  \/ \E r \in Requests : Arrive(r) \/ HandlerStep(r) \/ HandlerFault(r)
  \/ \E j \in Jobs : CommitLands(j)
  \/ \E S \in SUBSET Jobs : JobCrash(S)

JobSpec == JobInit /\ [][JobNext]_jobVars

\* Promises settle, the pool serves its queue and the database commits what
\* reaches it; nothing makes a request arrive.
JobFairSpec ==
  /\ JobSpec
  /\ \A r \in Requests : WF_jobVars(HandlerStep(r))
  /\ \A j \in Jobs : WF_jobVars(CommitLands(j))

-----------------------------------------------------------------------------
(* Properties.                                                             *)

\* The message of j is in the mailbox, or was handed over to a COMMIT nobody
\* waits for, which is still on its way or was lost when the process died.
HandedOver(j) == j \in mailbox \/ commit[j] = "delivered" \/ j \in lostCommits

\* A request answered 202 has put its message in the mailbox, whichever
\* requests raced for it, but for a COMMIT that is on its way or was lost with
\* the process; a job that is marked delivered has its message there for sure.
AcceptedMeansInMailbox ==
  /\ \A r \in Requests : code[r] = 202 => HandedOver(JobOf[r])
  /\ \A j \in Jobs : job[j] = "delivered" => j \in mailbox

\* A message is e-mailed twice only if something failed, or if two requests
\* read the job before the claim of either was committed.
SecondEmailNeedsCause ==
  \A j \in Jobs : emails[j] > 1 => jobFaults > 0 \/ j \in staleClaims

\* A job is 'working' only while some request works on it or its delivery is
\* being committed, unless a crash or a database failure left it so; later
\* requests then refuse it for ever.
Past == {"claimed", "deliver", "transport", "profile", "send", "emailLog",
         "markFailed"}
WorkingHasOwner ==
  \A j \in Jobs :
    job[j] = "working" =>
      \/ jobFaults > 0
      \/ commit[j] = "delivered"
      \/ \E r \in Requests : JobOf[r] = j /\ pc[r] \in Past

\* A delivered job becomes anything else only after a failure or a race.
ReopenedNeedsCause ==
  [][\A j \in Jobs :
       job[j] = "delivered" /\ job'[j] # "delivered" =>
         jobFaults' > 0 \/ j \in staleClaims']_jobVars

\* The pool waits for itself: every connection is leaked or held by a request
\* that waits for a second one.
Wedged ==
  PoolMax = leaked + Cardinality({r \in Requests :
    pc[r] \in {"missing", "logPending", "unwind", "emailLog"}})

\* Every request is answered or its process dies, unless the pool comes to
\* wait for itself; then nothing but a restart helps.
EveryRequestAnswered ==
  \A r \in Requests : pc[r] = "queued" ~> pc[r] \in {"done", "dead"} \/ Wedged
=============================================================================
