------------------------------ MODULE Cleanup ------------------------------
(***************************************************************************)
(* The chain of upload-api's cleanup job.  An instance that starts stores  *)
(* a fresh token and schedules one task with the token it then reads; the  *)
(* webhook of a task whose token is still the stored one schedules the     *)
(* next task before it works.  Nothing else keeps the job alive, and       *)
(* nothing limits it to one chain: tasks are called again when a call      *)
(* times out or fails, whatever the handler had done by then.              *)
(*                                                                         *)
(* The scheduler is reduced to what TaskQueue promises - a task waits for  *)
(* its time, is attempted a bounded number of times and is resolved by an  *)
(* attempt that is acknowledged - and to the faults of module Scheduler    *)
(* that leave a task in hand 'handling' for ever.  What the job does to    *)
(* the files is module Files.                                              *)
(***************************************************************************)
EXTENDS Integers

CONSTANTS MaxTasks,     \* identities of tasks, used again when they are free
          Instances,    \* processes of upload-api
          Nowhere,      \* the host of a call that was never served
          MaxRetries,   \* config.max_retries of the scheduler
          MaxStarts,    \* bound on starts of instances
          MaxFaults     \* bound on failures, timeouts and crashes

ASSUME CleanupAssumption ==
  /\ MaxTasks \in Nat
  /\ Nowhere \notin Instances
  /\ MaxRetries \in Nat
  /\ MaxStarts \in Nat
  /\ MaxFaults \in Nat

VARIABLES
  token,    \* the row SCHEDULER_TOKEN of settings: the start that stored it
  boot,     \* how far the start of an instance is
  carried,  \* the token an instance read while it started
  task,     \* the life of a task at the scheduler
  auth,     \* its webhookAuth
  failures, \* its failed attempts
  call,     \* where the handler of the n-th attempt of a task is
  held,     \* the token the handler read for the successor
  host,     \* the instance that serves it
  faults,   \* failures so far
  broken,   \* history: what ended the chain since it was last carried on
  doubled   \* history: a token was stored under another reader ("replaced"),
            \* or a call was made again that was past its start ("repeated")

booting == <<boot, carried>>
queue == <<task, auth, failures>>
handlers == <<call, held, host>>
vars == <<token, booting, queue, handlers, faults, broken, doubled>>

Tasks == 1 .. MaxTasks

Attempts == 1 .. MaxRetries + 1
PerCall(S) == [Tasks -> [Attempts -> S]]

\* "error" is an attempt that failed before the successor was asked for,
\* "late" one that failed afterwards.
Running == {"posted", "checked", "read", "working"}

Tokens == 0 .. MaxStarts

CleanupTypeOK ==
  /\ token \in Tokens
  /\ boot \in [Instances -> {"down", "stored", "read", "up"}]
  /\ carried \in [Instances -> Tokens]
  /\ task \in [Tasks -> {"free", "waiting", "due", "handling", "attempting",
                         "resolved", "stale", "stranded"}]
  /\ auth \in [Tasks -> Tokens]
  /\ failures \in [Tasks -> 0 .. MaxRetries + 1]
  /\ call \in PerCall(Running \union {"none", "ok", "error", "late"})
  /\ held \in PerCall(Tokens)
  /\ host \in PerCall(Instances \union {Nowhere})
  /\ faults \in 0 .. MaxFaults
  /\ broken \in SUBSET {"start", "schedule", "exhausted", "stranded"}
  /\ doubled \in SUBSET {"replaced", "repeated"}

CleanupInit ==
  /\ token = 0
  /\ boot = [i \in Instances |-> "down"]
  /\ carried = [i \in Instances |-> 0]
  /\ task = [t \in Tasks |-> "free"]
  /\ auth = [t \in Tasks |-> 0]
  /\ failures = [t \in Tasks |-> 0]
  /\ call = [t \in Tasks |-> [n \in Attempts |-> "none"]]
  /\ held = [t \in Tasks |-> [n \in Attempts |-> 0]]
  /\ host = [t \in Tasks |-> [n \in Attempts |-> Nowhere]]
  /\ faults = 0
  /\ broken = {} /\ doubled = {}

\* The number of the current attempt, and where its handler is.
Attempt(t) == failures[t] + 1
Current(t) == call[t][Attempt(t)]

\* A task with the stored token whose current attempt has not asked for the
\* successor.
Unserved(t) ==
  /\ auth[t] = token
  /\ \/ task[t] = "handling"
     \/ Current(t) \in {"posted", "checked", "read", "error"}

\* One of the failures the bound allows.
Fault == faults < MaxFaults /\ faults' = faults + 1

-----------------------------------------------------------------------------
(* The start of an instance: app.ts.                                       *)

\* storeConfig.  Who is about to read the token reads this one.
Store(i) ==
  /\ boot[i] = "down" /\ token < MaxStarts
  /\ token' = token + 1
  /\ boot' = [boot EXCEPT ![i] = "stored"]
  /\ doubled' = IF \/ \E j \in Instances : boot[j] = "stored"
                   \/ \E t \in Tasks, n \in Attempts : call[t][n] = "checked"
                  THEN doubled \union {"replaced"} ELSE doubled
  /\ UNCHANGED <<carried, queue, handlers, faults, broken>>

ReadToken(i) ==
  /\ boot[i] = "stored"
  /\ carried' = [carried EXCEPT ![i] = token]
  /\ boot' = [boot EXCEPT ![i] = "read"]
  /\ UNCHANGED <<token, queue, handlers, faults, broken, doubled>>

FirstFree(t) == \A s \in 1 .. t - 1 : task[s] # "free"

\* scheduleTasks: the row of the new task.
Insert(t, k) ==
  /\ task[t] = "free" /\ FirstFree(t)
  /\ task' = [task EXCEPT ![t] = "waiting"]
  /\ auth' = [auth EXCEPT ![t] = k]
  /\ UNCHANGED failures

\* The client never throws, so a refused call is not even logged: the
\* instance is up all the same.
ScheduleFirst(i) ==
  /\ boot[i] = "read"
  /\ boot' = [boot EXCEPT ![i] = "up"]
  /\ \/ /\ \E t \in Tasks : Insert(t, carried[i])
        /\ broken' = IF carried[i] = token THEN {} ELSE broken
        /\ UNCHANGED faults
     \/ /\ Fault
        /\ broken' = broken \union {"schedule"}
        /\ UNCHANGED queue
  /\ UNCHANGED <<token, carried, handlers, doubled>>

\* No access token, no settings, or the process is killed.
StartFails(i) ==
  /\ boot[i] \in {"stored", "read"}
  /\ Fault
  /\ boot' = [boot EXCEPT ![i] = "down"]
  /\ broken' = broken \union {"start"}
  /\ UNCHANGED <<token, carried, queue, handlers, doubled>>

-----------------------------------------------------------------------------
(* The scheduler.                                                          *)

\* SCHEDULED_JOBS_HOURS_INTERVAL is longer than starts, calls and retries.
IntervalPasses ==
  /\ \E t \in Tasks : task[t] = "waiting"
  /\ \A t \in Tasks : task[t] \in {"free", "waiting"}
  /\ \A i \in Instances : boot[i] \in {"down", "up"}
  /\ task' = [t \in Tasks |-> IF task[t] = "waiting" THEN "due" ELSE task[t]]
  /\ UNCHANGED <<token, booting, auth, failures, handlers, faults, broken, doubled>>

\* A poll marks the task 'handling'.
Select(t) ==
  /\ task[t] = "due"
  /\ task' = [task EXCEPT ![t] = "handling"]
  /\ UNCHANGED <<token, booting, auth, failures, handlers, faults, broken, doubled>>

\* The post reaches an instance, or nobody listens.
Post(t) ==
  /\ task[t] = "handling"
  /\ task' = [task EXCEPT ![t] = "attempting"]
  /\ \/ \E i \in Instances :
          /\ boot[i] = "up"
          /\ call' = [call EXCEPT ![t][Attempt(t)] = "posted"]
          /\ host' = [host EXCEPT ![t][Attempt(t)] = i]
     \/ /\ \A i \in Instances : boot[i] # "up"
        /\ call' = [call EXCEPT ![t][Attempt(t)] = "error"]
        /\ UNCHANGED host
  /\ UNCHANGED <<token, booting, auth, failures, held, faults, broken, doubled>>

\* A 200 answers the attempt.
Resolve(t) ==
  /\ task[t] = "attempting" /\ Current(t) = "ok"
  /\ task' = [task EXCEPT ![t] = "resolved"]
  /\ UNCHANGED <<token, booting, auth, failures, handlers, faults, broken, doubled>>

\* An error answers it, or a timeout the handler does not hear of.
FailAttempt(t) ==
  /\ task[t] = "attempting"
  /\ \/ Current(t) \in {"error", "late"} /\ UNCHANGED faults
     \/ Current(t) \in Running /\ Fault
  /\ failures' = [failures EXCEPT ![t] = @ + 1]
  /\ IF failures[t] < MaxRetries
       THEN /\ task' = [task EXCEPT ![t] = "due"]
            /\ doubled' = IF Current(t) = "error"
                            THEN doubled ELSE doubled \union {"repeated"}
            /\ UNCHANGED broken
       ELSE /\ task' = [task EXCEPT ![t] = "stale"]
            /\ broken' = IF Unserved(t) THEN broken \union {"exhausted"} ELSE broken
            /\ UNCHANGED doubled
  /\ UNCHANGED <<token, booting, auth, handlers>>

\* The reply of a poll is lost, the write back of an answer is refused, or a
\* process of the scheduler dies: the tasks in its hands stay 'handling' and
\* no poll selects them again.  A handler that was called goes on.
SchedulerFails(S) ==
  /\ S # {}
  /\ \A t \in S : task[t] \in {"handling", "attempting"}
  /\ Fault
  /\ task' = [t \in Tasks |-> IF t \in S THEN "stranded" ELSE task[t]]
  /\ broken' = IF \E t \in S : Unserved(t) THEN broken \union {"stranded"} ELSE broken
  /\ UNCHANGED <<token, booting, auth, failures, handlers, doubled>>

\* The identity may be used again: a bound of the model, not of the system.
Free(t) ==
  /\ task[t] \in {"resolved", "stale", "stranded"}
  /\ \A n \in Attempts : call[t][n] \notin Running
  /\ task' = [task EXCEPT ![t] = "free"]
  /\ failures' = [failures EXCEPT ![t] = 0]
  /\ auth' = [auth EXCEPT ![t] = 0]
  /\ call' = [call EXCEPT ![t] = [n \in Attempts |-> "none"]]
  /\ held' = [held EXCEPT ![t] = [n \in Attempts |-> 0]]
  /\ host' = [host EXCEPT ![t] = [n \in Attempts |-> Nowhere]]
  /\ UNCHANGED <<token, booting, faults, broken, doubled>>

-----------------------------------------------------------------------------
(* The webhook: POST /jobs.                                                *)

\* A handler that does not compare the tokens.
MistakenAccepted(t, n) == TRUE

\* token === expectedSchedulerToken.
Accepted(t, n) == auth[t] = token

\* A token that is not expected is answered with ok too.
CheckToken(t, n) ==
  /\ call[t][n] = "posted"
  /\ call' = [call EXCEPT ![t][n] = IF Accepted(t, n) THEN "checked" ELSE "ok"]
  /\ UNCHANGED <<token, booting, queue, held, host, faults, broken, doubled>>

\* A token kept in memory since the instance started.
MistakenNextToken(t, n) == IF host[t][n] = Nowhere THEN token ELSE carried[host[t][n]]

\* scheduleCleanupTask reads the token once more.
NextToken(t, n) == token

ReadAgain(t, n) ==
  /\ call[t][n] = "checked"
  /\ held' = [held EXCEPT ![t][n] = NextToken(t, n)]
  /\ call' = [call EXCEPT ![t][n] = "read"]
  /\ UNCHANGED <<token, booting, queue, host, faults, broken, doubled>>

ScheduleNext(t, n) ==
  /\ call[t][n] = "read"
  /\ call' = [call EXCEPT ![t][n] = "working"]
  /\ \/ /\ \E u \in Tasks : Insert(u, held[t][n])
        /\ broken' = IF held[t][n] = token THEN {} ELSE broken
        /\ UNCHANGED faults
     \/ /\ Fault
        /\ broken' = broken \union {"schedule"}
        /\ UNCHANGED queue
  /\ UNCHANGED <<token, booting, held, host, doubled>>

\* The rest of the handler: Files!JobStep.
Work(t, n) ==
  /\ call[t][n] = "working"
  /\ call' = [call EXCEPT ![t][n] = "ok"]
  /\ UNCHANGED <<token, booting, queue, held, host, faults, broken, doubled>>

\* What becomes of a handler that is cut off.
CutOff(t, n) == CASE call[t][n] = "working" -> "late"
               [] call[t][n] \in {"posted", "checked", "read"} -> "error"
               [] OTHER -> call[t][n]

\* No access token, or a statement fails: a 500.
CallFails(t, n) ==
  /\ call[t][n] \in Running
  /\ Fault
  /\ call' = [call EXCEPT ![t][n] = CutOff(t, n)]
  /\ UNCHANGED <<token, booting, queue, held, host, broken, doubled>>

CallStep(t, n) == CheckToken(t, n) \/ ReadAgain(t, n) \/ ScheduleNext(t, n) \/ Work(t, n)

Crash(i) ==
  /\ boot[i] = "up"
  /\ Fault
  /\ boot' = [boot EXCEPT ![i] = "down"]
  /\ call' = [t \in Tasks |-> [n \in Attempts |->
                IF host[t][n] = i THEN CutOff(t, n) ELSE call[t][n]]]
  /\ UNCHANGED <<token, carried, queue, held, host, broken, doubled>>

-----------------------------------------------------------------------------
BootStep(i) == ReadToken(i) \/ ScheduleFirst(i)
TaskStep(t) == Select(t) \/ Post(t) \/ Resolve(t) \/ Free(t)
AnsweredFailure(t) == FailAttempt(t) /\ UNCHANGED faults

CleanupNext ==
  \/ \E i \in Instances : Store(i) \/ BootStep(i) \/ StartFails(i) \/ Crash(i)
  \/ IntervalPasses
  \/ \E t \in Tasks : TaskStep(t) \/ FailAttempt(t)
  \/ \E S \in SUBSET Tasks : SchedulerFails(S)
  \/ \E t \in Tasks, n \in Attempts : CallStep(t, n) \/ CallFails(t, n)

CleanupSpec == CleanupInit /\ [][CleanupNext]_vars

\* Time passes, the scheduler works and so do requests and starts under way;
\* nobody is sure to start an instance that is down.
CleanupFairness ==
  /\ WF_vars(IntervalPasses)
  /\ \A i \in Instances : WF_vars(BootStep(i))
  /\ \A t \in Tasks : WF_vars(TaskStep(t)) /\ WF_vars(AnsweredFailure(t))
  /\ \A t \in Tasks, n \in Attempts : WF_vars(CallStep(t, n))

CleanupFairSpec == CleanupSpec /\ CleanupFairness

-----------------------------------------------------------------------------
(* Properties.                                                             *)

\* What will lead to a job with the stored token.
LiveTask(t) ==
  /\ auth[t] = token
  /\ \/ task[t] \in {"waiting", "due", "handling"}
     \/ task[t] = "attempting" /\ Current(t) = "error"
LiveCall(t, n) ==
  \/ call[t][n] = "posted" /\ auth[t] = token
  \/ call[t][n] = "checked"
  \/ call[t][n] = "read" /\ held[t][n] = token
LiveStart(i) ==
  \/ boot[i] = "stored"
  \/ boot[i] = "read" /\ carried[i] = token

\* The chain is not dropped by any interleaving of starts, calls, retries and
\* changes of the token: it ends only when a start is cut off, the scheduler
\* does not take a task, a task has used up its retries, or a fault of the
\* scheduler leaves it 'handling', before its successor was asked for.
ChainEndsForAReason ==
  token > 0 => \/ \E t \in Tasks : LiveTask(t)
               \/ \E t \in Tasks, n \in Attempts : LiveCall(t, n)
               \/ \E i \in Instances : LiveStart(i)
               \/ broken # {}

OneChain ==
  /\ \A t, u \in Tasks : LiveTask(t) /\ LiveTask(u) => t = u
  /\ \A t, u \in Tasks, n, k \in Attempts :
       LiveCall(t, n) /\ LiveCall(u, k) => t = u /\ n = k
  /\ \A i, j \in Instances : LiveStart(i) /\ LiveStart(j) => i = j
  /\ \A t, u \in Tasks, n \in Attempts : ~ (LiveTask(t) /\ LiveCall(u, n))
  /\ \A i \in Instances : LiveStart(i) =>
       /\ \A t \in Tasks : ~ LiveTask(t)
       /\ \A t \in Tasks, n \in Attempts : ~ LiveCall(t, n)

\* There is a second chain only where a call was repeated after it had begun
\* to act, or a token was stored while another reader was about to read it;
\* and any other start makes it one chain again.
SecondChainNeedsCause == doubled # {} \/ OneChain

\* The job keeps running on an instance that is up, until the chain is broken.
CleanupRecurs ==
  (\E i \in Instances : boot[i] = "up") ~>
    \/ \E t \in Tasks, n \in Attempts : call[t][n] = "working"
    \/ broken # {}
=============================================================================
