---------------------------- MODULE CleanupProofs ----------------------------
(***************************************************************************)
(* The chain of cleanup jobs for any number of instances, tasks, retries   *)
(* and failures.                                                           *)
(***************************************************************************)
EXTENDS Cleanup, TLAPS

\* The n-th attempt is made after n - 1 have failed, and a task that may be
\* attempted has an attempt left.
AttemptsInOrder ==
  /\ \A t \in Tasks :
       /\ task[t] = "free" => failures[t] = 0
       /\ task[t] # "stale" => failures[t] <= MaxRetries
  /\ \A t \in Tasks, n \in Attempts :
       call[t][n] # "none" =>
         \/ n <= failures[t]
         \/ n = Attempt(t) /\ task[t] \in {"attempting", "resolved", "stranded"}

\* What was read is not newer than what is stored, and a handler that reads
\* the token for the successor reads one at least as new as its own.
TokensGoOn ==
  /\ \A t \in Tasks : auth[t] <= token
  /\ \A i \in Instances : carried[i] <= token
  /\ \A t \in Tasks, n \in Attempts :
       held[t][n] <= token /\ (call[t][n] = "read" => auth[t] <= held[t][n])

\* The one line of succession that the stored token is sure of: the task that
\* carries it and its current attempt, until the successor is asked for.
LineOf(t) ==
  /\ auth[t] = token
  /\ \/ task[t] \in {"waiting", "due", "handling"}
     \/ /\ task[t] = "attempting"
        /\ Current(t) \in {"posted", "checked", "read", "error"}

LineGoesOn ==
  token > 0 => \/ \E t \in Tasks : LineOf(t)
               \/ \E i \in Instances : LiveStart(i)
               \/ broken # {}

\* Unless a call was repeated, only the current attempt is being served.
RunningIsCurrent ==
  doubled = {} =>
    \A t \in Tasks, n \in Attempts : call[t][n] \in Running =>
      \/ task[t] = "attempting" /\ n = Attempt(t)
      \/ task[t] \in {"stale", "stranded"}

CleanupInv ==
  /\ CleanupTypeOK
  /\ AttemptsInOrder
  /\ TokensGoOn
  /\ LineGoesOn
  /\ RunningIsCurrent
  /\ SecondChainNeedsCause

USE CleanupAssumption

LEMMA CleanupInvInit == CleanupInit => CleanupInv
<1> SUFFICES ASSUME CleanupInit PROVE CleanupInv
  OBVIOUS
<1> USE DEF CleanupInit
<1>1. CleanupTypeOK
  BY DEF CleanupTypeOK, PerCall, Attempts, Tokens, Running
<1>2. AttemptsInOrder /\ TokensGoOn /\ RunningIsCurrent
  BY DEF AttemptsInOrder, TokensGoOn, RunningIsCurrent, Running, Tokens
<1>3. LineGoesOn /\ SecondChainNeedsCause
  BY DEF LineGoesOn, SecondChainNeedsCause, OneChain, LiveTask, LiveCall,
    LiveStart
<1> QED
  BY <1>1, <1>2, <1>3 DEF CleanupInv

-----------------------------------------------------------------------------
(* One lemma for each part of the invariant, one step for each action that *)
(* can disturb it.                                                         *)

\* A task that may be attempted has an attempt left.
LEMMA AttemptIsLeft ==
  ASSUME AttemptsInOrder, failures \in [Tasks -> Nat],
         NEW t \in Tasks, task[t] # "stale"
  PROVE  Attempt(t) \in Attempts /\ failures[t] <= MaxRetries
<1>1. failures[t] \in Nat /\ failures[t] <= MaxRetries
  BY DEF AttemptsInOrder
<1> QED
  BY <1>1 DEF Attempt, Attempts

\* A task that was not given out has no calls.
LEMMA FreeHasNoCalls ==
  ASSUME AttemptsInOrder, failures \in [Tasks -> Nat],
         NEW t \in Tasks, NEW n \in Attempts, task[t] = "free"
  PROVE  call[t][n] = "none"
<1>1. failures[t] = 0
  BY DEF AttemptsInOrder
<1>2. n \in Nat /\ n > 0
  BY DEF Attempts
<1> QED
  BY <1>1, <1>2 DEF AttemptsInOrder

\* Retries are counted up to the limit and never past it.
LEMMA CleanupTypesStep ==
  CleanupTypeOK /\ AttemptsInOrder /\ [CleanupNext]_vars
  => CleanupTypeOK'
<1> SUFFICES ASSUME CleanupTypeOK, AttemptsInOrder, [CleanupNext]_vars
             PROVE  CleanupTypeOK'
  OBVIOUS
<1> USE DEF CleanupTypeOK, PerCall, Attempts, Attempt, Current,
  AttemptsInOrder, Tokens, Running
<1>1. ASSUME NEW i \in Instances, Store(i)
      PROVE  CleanupTypeOK'
  BY <1>1 DEF Store, booting, queue, handlers
<1>2. ASSUME NEW i \in Instances, ReadToken(i)
      PROVE  CleanupTypeOK'
  BY <1>2 DEF ReadToken, booting, queue, handlers
<1>3. ASSUME NEW i \in Instances, ScheduleFirst(i)
      PROVE  CleanupTypeOK'
  <2>1. ASSUME NEW u \in Tasks, Insert(u, carried[i]), UNCHANGED faults,
               broken' = IF carried[i] = token THEN {} ELSE broken
        PROVE  CleanupTypeOK'
    BY <1>3, <2>1 DEF ScheduleFirst, Insert, booting, handlers
  <2>2. ASSUME Fault, UNCHANGED queue, broken' = broken \union {"schedule"}
        PROVE  CleanupTypeOK'
    BY <1>3, <2>2 DEF ScheduleFirst, Fault, booting, queue, handlers
  <2> QED
    BY <1>3, <2>1, <2>2 DEF ScheduleFirst
<1>4. ASSUME NEW i \in Instances, StartFails(i)
      PROVE  CleanupTypeOK'
  BY <1>4 DEF StartFails, Fault, booting, queue, handlers
<1>5. CASE IntervalPasses
  BY <1>5 DEF IntervalPasses, booting, queue, handlers
<1>6. ASSUME NEW t \in Tasks, Post(t)
      PROVE  CleanupTypeOK'
  <2>1. ASSUME NEW i \in Instances,
               call' = [call EXCEPT ![t][Attempt(t)] = "posted"],
               host' = [host EXCEPT ![t][Attempt(t)] = i]
        PROVE  CleanupTypeOK'
    BY <1>6, <2>1 DEF Post, booting, queue
  <2>2. ASSUME call' = [call EXCEPT ![t][Attempt(t)] = "error"], UNCHANGED host
        PROVE  CleanupTypeOK'
    BY <1>6, <2>2 DEF Post, booting, queue
  <2> QED
    BY <1>6, <2>1, <2>2 DEF Post
<1>7. ASSUME NEW t \in Tasks, Resolve(t)
      PROVE  CleanupTypeOK'
  BY <1>7 DEF Resolve, booting, queue, handlers
<1>8. ASSUME NEW t \in Tasks, FailAttempt(t)
      PROVE  CleanupTypeOK'
  <2>1. failures' \in [Tasks -> 0 .. MaxRetries + 1] /\ faults' \in 0 .. MaxFaults
    <3>1. failures[t] <= MaxRetries
      BY <1>8, AttemptIsLeft DEF FailAttempt
    <3>2. failures' = [failures EXCEPT ![t] = @ + 1]
      BY <1>8 DEF FailAttempt
    <3>3. UNCHANGED faults \/ Fault
      BY <1>8 DEF FailAttempt
    <3>4. failures' \in [Tasks -> 0 .. MaxRetries + 1]
      BY <3>1, <3>2
    <3> QED
      BY <3>3, <3>4 DEF Fault
  <2>2. CASE failures[t] < MaxRetries
    <3>1. task' \in [Tasks -> {"free", "waiting", "due", "handling", "attempting",
                              "resolved", "stale", "stranded"}]
      BY <1>8, <2>2 DEF FailAttempt
    <3>2. doubled' \in SUBSET {"replaced", "repeated"} /\ UNCHANGED broken
      BY <1>8, <2>2 DEF FailAttempt
    <3>3. UNCHANGED <<token, boot, carried, auth, call, held, host>>
      BY <1>8 DEF FailAttempt, booting, handlers
    <3> QED
      BY <2>1, <3>1, <3>2, <3>3
  <2>3. CASE ~ (failures[t] < MaxRetries)
    BY <1>8, <2>1, <2>3 DEF FailAttempt, booting, handlers
  <2> QED
    BY <2>2, <2>3
<1>9. ASSUME NEW t \in Tasks, Free(t)
      PROVE  CleanupTypeOK'
  BY <1>9 DEF Free, booting, queue, handlers
<1>10. ASSUME NEW t \in Tasks, NEW n \in Attempts, CheckToken(t, n)
      PROVE  CleanupTypeOK'
  BY <1>10 DEF CheckToken, Accepted, booting, queue, handlers
<1>11. ASSUME NEW t \in Tasks, NEW n \in Attempts, ReadAgain(t, n)
      PROVE  CleanupTypeOK'
  BY <1>11 DEF ReadAgain, NextToken, booting, queue, handlers
<1>12. ASSUME NEW t \in Tasks, NEW n \in Attempts, ScheduleNext(t, n)
      PROVE  CleanupTypeOK'
  <2>1. ASSUME NEW u \in Tasks, Insert(u, held[t][n]), UNCHANGED faults,
               broken' = IF held[t][n] = token THEN {} ELSE broken
        PROVE  CleanupTypeOK'
    <3>1. held[t][n] \in Tokens
      OBVIOUS
    <3>2. auth' \in [Tasks -> Tokens] /\ UNCHANGED <<failures, faults>>
      BY <3>1, <2>1 DEF Insert
    <3> QED
      BY <1>12, <2>1, <3>2 DEF ScheduleNext, Insert, booting, handlers
  <2>2. ASSUME Fault, UNCHANGED queue, broken' = broken \union {"schedule"}
        PROVE  CleanupTypeOK'
    BY <1>12, <2>2 DEF ScheduleNext, Fault, booting, queue, handlers
  <2> QED
    BY <1>12, <2>1, <2>2 DEF ScheduleNext
<1>13. ASSUME NEW t \in Tasks, NEW n \in Attempts, Work(t, n)
      PROVE  CleanupTypeOK'
  BY <1>13 DEF Work, booting, queue, handlers
<1>14. ASSUME NEW t \in Tasks, NEW n \in Attempts, CallFails(t, n)
      PROVE  CleanupTypeOK'
  BY <1>14 DEF CallFails, CutOff, Fault, booting, queue, handlers
<1>15. ASSUME NEW i \in Instances, Crash(i)
      PROVE  CleanupTypeOK'
  <2>1. /\ boot' = [boot EXCEPT ![i] = "down"]
        /\ faults < MaxFaults /\ faults' = faults + 1
        /\ UNCHANGED <<token, carried, task, auth, failures, held, host, broken, doubled>>
    BY <1>15 DEF Crash, Fault, queue
  <2>2. call' \in PerCall(Running \union {"none", "ok", "error", "late"})
    <3>1. call' = [t \in Tasks |-> [n \in Attempts |->
                     IF host[t][n] = i THEN CutOff(t, n) ELSE call[t][n]]]
      BY <1>15 DEF Crash
    <3> QED
      BY <3>1 DEF CutOff
  <2>3. /\ boot' \in [Instances -> {"down", "stored", "read", "up"}]
        /\ faults' \in 0 .. MaxFaults
    BY <2>1
  <2> QED
    BY <2>1, <2>2, <2>3
<1>16. ASSUME NEW t \in Tasks, Select(t)
      PROVE  CleanupTypeOK'
  BY <1>16 DEF Select, booting, queue, handlers
<1>17. ASSUME NEW S \in SUBSET Tasks, SchedulerFails(S)
      PROVE  CleanupTypeOK'
  <2>1. /\ task' = [u \in Tasks |-> IF u \in S THEN "stranded" ELSE task[u]]
        /\ broken' \in {broken \union {"stranded"}, broken}
        /\ faults < MaxFaults /\ faults' = faults + 1
        /\ UNCHANGED <<token, boot, carried, auth, failures, call, held, host, doubled>>
    BY <1>17 DEF SchedulerFails, Fault, booting, handlers
  <2>2. task' \in [Tasks -> {"free", "waiting", "due", "handling", "attempting",
                            "resolved", "stale", "stranded"}]
    BY <2>1
  <2>3. /\ broken' \in SUBSET {"start", "schedule", "exhausted", "stranded"}
        /\ faults' \in 0 .. MaxFaults
    BY <2>1
  <2> QED
    BY <2>1, <2>2, <2>3
<1>18. CASE UNCHANGED vars
  BY <1>18 DEF vars, booting, queue, handlers
<1> QED
  BY <1>1, <1>2, <1>3, <1>4, <1>5, <1>6, <1>7, <1>8, <1>9, <1>10, <1>11,
    <1>12, <1>13, <1>14, <1>15, <1>16, <1>17, <1>18
  DEF CleanupNext, BootStep, TaskStep, CallStep

\* The attempts of a task are made one after the other.
LEMMA AttemptsStep ==
  CleanupTypeOK /\ AttemptsInOrder /\ [CleanupNext]_vars
  => AttemptsInOrder'
<1> SUFFICES ASSUME CleanupTypeOK, AttemptsInOrder, [CleanupNext]_vars
             PROVE  AttemptsInOrder'
  OBVIOUS
<1> USE DEF CleanupTypeOK, PerCall, Attempts, Attempt, Current,
  AttemptsInOrder, Running
<1>1. ASSUME NEW i \in Instances, ScheduleFirst(i)
      PROVE  AttemptsInOrder'
  <2>1. ASSUME NEW u \in Tasks, Insert(u, carried[i]), UNCHANGED faults,
               broken' = IF carried[i] = token THEN {} ELSE broken
        PROVE  AttemptsInOrder'
    BY <1>1, <2>1 DEF ScheduleFirst, Insert, booting, handlers
  <2>2. ASSUME Fault, UNCHANGED queue, broken' = broken \union {"schedule"}
        PROVE  AttemptsInOrder'
    BY <1>1, <2>2 DEF ScheduleFirst, Fault, booting, queue, handlers
  <2> QED
    BY <1>1, <2>1, <2>2 DEF ScheduleFirst
<1>2. CASE IntervalPasses
  BY <1>2 DEF IntervalPasses, booting, queue, handlers
<1>3. ASSUME NEW t \in Tasks, Post(t)
      PROVE  AttemptsInOrder'
  BY <1>3 DEF Post, booting, queue, handlers
<1>4. ASSUME NEW t \in Tasks, Resolve(t)
      PROVE  AttemptsInOrder'
  BY <1>4 DEF Resolve, booting, queue, handlers
<1>5. ASSUME NEW t \in Tasks, FailAttempt(t)
      PROVE  AttemptsInOrder'
  BY <1>5 DEF FailAttempt, Fault, booting, queue, handlers
<1>6. ASSUME NEW t \in Tasks, Free(t)
      PROVE  AttemptsInOrder'
  BY <1>6 DEF Free, booting, queue, handlers
<1>7. ASSUME NEW t \in Tasks, NEW n \in Attempts, CheckToken(t, n)
      PROVE  AttemptsInOrder'
  BY <1>7 DEF CheckToken, Accepted, booting, queue, handlers
<1>8. ASSUME NEW t \in Tasks, NEW n \in Attempts, ReadAgain(t, n)
      PROVE  AttemptsInOrder'
  BY <1>8 DEF ReadAgain, NextToken, booting, queue, handlers
<1>9. ASSUME NEW t \in Tasks, NEW n \in Attempts, ScheduleNext(t, n)
      PROVE  AttemptsInOrder'
  <2>1. ASSUME NEW u \in Tasks, Insert(u, held[t][n]), UNCHANGED faults,
               broken' = IF held[t][n] = token THEN {} ELSE broken
        PROVE  AttemptsInOrder'
    BY <1>9, <2>1 DEF ScheduleNext, Insert, booting, handlers
  <2>2. ASSUME Fault, UNCHANGED queue, broken' = broken \union {"schedule"}
        PROVE  AttemptsInOrder'
    BY <1>9, <2>2 DEF ScheduleNext, Fault, booting, queue, handlers
  <2> QED
    BY <1>9, <2>1, <2>2 DEF ScheduleNext
<1>10. ASSUME NEW t \in Tasks, NEW n \in Attempts, Work(t, n)
      PROVE  AttemptsInOrder'
  BY <1>10 DEF Work, booting, queue, handlers
<1>11. ASSUME NEW t \in Tasks, NEW n \in Attempts, CallFails(t, n)
      PROVE  AttemptsInOrder'
  BY <1>11 DEF CallFails, CutOff, Fault, booting, queue, handlers
<1>12. ASSUME NEW i \in Instances, Crash(i)
      PROVE  AttemptsInOrder'
  BY <1>12 DEF Crash, CutOff, Fault, booting, queue, handlers
<1>13. ASSUME NEW i \in Instances, Store(i) \/ ReadToken(i) \/
  StartFails(i)
      PROVE  AttemptsInOrder'
  BY <1>13 DEF Store, ReadToken, StartFails, booting, queue, handlers
<1>14. ASSUME NEW t \in Tasks, Select(t)
      PROVE  AttemptsInOrder'
  BY <1>14 DEF Select, booting, queue, handlers
<1>15. ASSUME NEW S \in SUBSET Tasks, SchedulerFails(S)
      PROVE  AttemptsInOrder'
  BY <1>15 DEF SchedulerFails, booting, queue, handlers
<1>16. CASE UNCHANGED vars
  BY <1>16 DEF vars, booting, queue, handlers
<1> QED
  BY <1>1, <1>2, <1>3, <1>4, <1>5, <1>6, <1>7, <1>8, <1>9, <1>10, <1>11,
    <1>12, <1>13, <1>14, <1>15, <1>16
  DEF CleanupNext, BootStep, TaskStep, CallStep

\* Tokens are read after they are stored, and never go back.
LEMMA TokensStep ==
  CleanupTypeOK /\ AttemptsInOrder /\ TokensGoOn /\ [CleanupNext]_vars
  => TokensGoOn'
<1> SUFFICES ASSUME CleanupTypeOK, AttemptsInOrder, TokensGoOn, [CleanupNext]_vars
             PROVE  TokensGoOn'
  OBVIOUS
<1> USE DEF CleanupTypeOK, PerCall, TokensGoOn, Tokens
<1>1. ASSUME NEW i \in Instances, Store(i)
      PROVE  TokensGoOn'
  BY <1>1 DEF Store, booting, queue, handlers
<1>2. ASSUME NEW i \in Instances, ReadToken(i)
      PROVE  TokensGoOn'
  BY <1>2 DEF ReadToken, booting, queue, handlers
<1>3. ASSUME NEW i \in Instances, ScheduleFirst(i)
      PROVE  TokensGoOn'
  <2>1. ASSUME NEW u \in Tasks, Insert(u, carried[i]), UNCHANGED faults,
               broken' = IF carried[i] = token THEN {} ELSE broken
        PROVE  TokensGoOn'
    <3>1. \A k \in Attempts : call[u][k] = "none"
      BY <2>1, FreeHasNoCalls DEF Insert
    <3>2. carried[i] \in Nat /\ carried[i] <= token
      OBVIOUS
    <3>3. /\ auth' = [auth EXCEPT ![u] = carried[i]]
          /\ UNCHANGED <<token, carried, call, held>>
      BY <1>3, <2>1 DEF ScheduleFirst, Insert, handlers
    <3>4. \A s \in Tasks : auth'[s] <= token
      BY <3>2, <3>3
    <3>5. ASSUME NEW s \in Tasks, NEW k \in Attempts, call'[s][k] = "read"
          PROVE  auth'[s] <= held[s][k]
      BY <3>1, <3>3, <3>5
    <3> QED
      BY <3>3, <3>4, <3>5
  <2>2. ASSUME Fault, UNCHANGED queue, broken' = broken \union {"schedule"}
        PROVE  TokensGoOn'
    BY <1>3, <2>2 DEF ScheduleFirst, Fault, booting, queue, handlers
  <2> QED
    BY <1>3, <2>1, <2>2 DEF ScheduleFirst
<1>4. ASSUME NEW t \in Tasks, Post(t)
      PROVE  TokensGoOn'
  BY <1>4, SMTT(30) DEF Post, booting, queue, handlers
<1>5. ASSUME NEW t \in Tasks, Free(t)
      PROVE  TokensGoOn'
  BY <1>5 DEF Free, booting, queue, handlers
<1>6. ASSUME NEW t \in Tasks, NEW n \in Attempts, CheckToken(t, n)
      PROVE  TokensGoOn'
  BY <1>6 DEF CheckToken, Accepted, booting, queue, handlers
<1>7. ASSUME NEW t \in Tasks, NEW n \in Attempts, ReadAgain(t, n)
      PROVE  TokensGoOn'
  BY <1>7 DEF ReadAgain, NextToken, booting, queue, handlers
<1>8. ASSUME NEW t \in Tasks, NEW n \in Attempts, ScheduleNext(t, n)
      PROVE  TokensGoOn'
  <2>1. ASSUME NEW u \in Tasks, Insert(u, held[t][n]), UNCHANGED faults,
               broken' = IF held[t][n] = token THEN {} ELSE broken
        PROVE  TokensGoOn'
    <3>1. \A k \in Attempts : call[u][k] = "none"
      BY <2>1, FreeHasNoCalls DEF Insert
    <3>2. /\ auth' = [auth EXCEPT ![u] = held[t][n]]
          /\ call' = [call EXCEPT ![t][n] = "working"]
          /\ UNCHANGED <<token, carried, held>>
      BY <1>8, <2>1 DEF ScheduleNext, Insert, booting
    <3>3. held[t][n] \in Nat /\ held[t][n] <= token
      OBVIOUS
    <3>4. \A s \in Tasks : auth'[s] <= token
      BY <3>2, <3>3
    <3>5. ASSUME NEW s \in Tasks, NEW k \in Attempts, call'[s][k] = "read"
          PROVE  auth'[s] <= held[s][k]
      BY <3>1, <3>2, <3>5
    <3> QED
      BY <3>2, <3>4, <3>5
  <2>2. ASSUME Fault, UNCHANGED queue, broken' = broken \union {"schedule"}
        PROVE  TokensGoOn'
    BY <1>8, <2>2 DEF ScheduleNext, Fault, booting, queue, handlers
  <2> QED
    BY <1>8, <2>1, <2>2 DEF ScheduleNext
<1>9. ASSUME NEW t \in Tasks, NEW n \in Attempts, Work(t, n)
      PROVE  TokensGoOn'
  BY <1>9 DEF Work, booting, queue, handlers
<1>10. ASSUME NEW t \in Tasks, NEW n \in Attempts, CallFails(t, n)
      PROVE  TokensGoOn'
  BY <1>10 DEF CallFails, CutOff, Fault, booting, queue, handlers
<1>11. ASSUME NEW i \in Instances, Crash(i)
      PROVE  TokensGoOn'
  BY <1>11 DEF Crash, CutOff, Fault, booting, queue, handlers
<1>12. ASSUME NEW i \in Instances, StartFails(i)
      PROVE  TokensGoOn'
  BY <1>12 DEF StartFails, booting, queue, handlers
<1>13. CASE IntervalPasses
  BY <1>13 DEF IntervalPasses, booting, queue, handlers
<1>14. ASSUME NEW t \in Tasks, Resolve(t) \/ FailAttempt(t)
      PROVE  TokensGoOn'
  BY <1>14 DEF Resolve, FailAttempt, booting, queue, handlers
<1>15. ASSUME NEW t \in Tasks, Select(t)
      PROVE  TokensGoOn'
  BY <1>15 DEF Select, booting, queue, handlers
<1>16. ASSUME NEW S \in SUBSET Tasks, SchedulerFails(S)
      PROVE  TokensGoOn'
  BY <1>16 DEF SchedulerFails, booting, queue, handlers
<1>17. CASE UNCHANGED vars
  BY <1>17 DEF vars, booting, queue, handlers
<1> QED
  BY <1>1, <1>2, <1>3, <1>4, <1>5, <1>6, <1>7, <1>8, <1>9, <1>10, <1>11,
    <1>12, <1>13, <1>14, <1>15, <1>16, <1>17
  DEF CleanupNext, BootStep, TaskStep, CallStep

\* Whatever holds the stored token hands it on, or what stops it is recorded.
LEMMA LineStep ==
  CleanupTypeOK /\ AttemptsInOrder /\ TokensGoOn /\ LineGoesOn /\
    [CleanupNext]_vars
  => LineGoesOn'
<1> SUFFICES ASSUME CleanupTypeOK, AttemptsInOrder, TokensGoOn, LineGoesOn,
  [CleanupNext]_vars
             PROVE  LineGoesOn'
  OBVIOUS
<1> USE DEF CleanupTypeOK, PerCall, Attempts, Attempt, Current,
  AttemptsInOrder, TokensGoOn, LineGoesOn, LineOf, LiveStart, Tokens,
  Running
<1>1. ASSUME NEW i \in Instances, Store(i)
      PROVE  LineGoesOn'
  BY <1>1 DEF Store, booting, queue, handlers
<1>2. ASSUME NEW i \in Instances, ReadToken(i)
      PROVE  LineGoesOn'
  BY <1>2 DEF ReadToken, booting, queue, handlers
<1>3. ASSUME NEW i \in Instances, ScheduleFirst(i)
      PROVE  LineGoesOn'
  <2>1. ASSUME NEW u \in Tasks, Insert(u, carried[i]), UNCHANGED faults,
               broken' = IF carried[i] = token THEN {} ELSE broken
        PROVE  LineGoesOn'
    BY <1>3, <2>1 DEF ScheduleFirst, Insert, booting, handlers
  <2>2. ASSUME Fault, UNCHANGED queue, broken' = broken \union {"schedule"}
        PROVE  LineGoesOn'
    BY <1>3, <2>2 DEF ScheduleFirst, Fault, booting, queue, handlers
  <2> QED
    BY <1>3, <2>1, <2>2 DEF ScheduleFirst
<1>4. ASSUME NEW i \in Instances, StartFails(i)
      PROVE  LineGoesOn'
  BY <1>4 DEF StartFails, Fault, booting, queue, handlers
<1>5. CASE IntervalPasses
  BY <1>5 DEF IntervalPasses, booting, queue, handlers
<1>6. ASSUME NEW t \in Tasks, Post(t)
      PROVE  LineGoesOn'
  <2>1. Attempt(t) \in Attempts
    BY <1>6, AttemptIsLeft DEF Post
  <2>2. call'[t][Attempt(t)] \in {"posted", "error"}
    BY <1>6, <2>1, SMTT(20) DEF Post
  <2>3. /\ task' = [task EXCEPT ![t] = "attempting"]
        /\ UNCHANGED <<token, boot, carried, auth, failures, broken>>
    BY <1>6 DEF Post, booting
  <2>4. \A u \in Tasks : u # t => call'[u] = call[u]
    BY <1>6 DEF Post
  <2>5. (\E i \in Instances : LiveStart(i)) => \E i \in Instances : LiveStart(i)'
    BY <2>3
  <2>6. ASSUME NEW u \in Tasks, LineOf(u) PROVE LineOf(u)'
    <3>1. CASE u = t
      BY <2>2, <2>3, <2>6, <3>1
    <3>2. CASE u # t
      BY <2>3, <2>4, <2>6, <3>2
    <3> QED
      BY <3>1, <3>2
  <2> QED
    BY <2>3, <2>5, <2>6
<1>7. ASSUME NEW t \in Tasks, Resolve(t)
      PROVE  LineGoesOn'
  BY <1>7 DEF Resolve, booting, queue, handlers
<1>8. ASSUME NEW t \in Tasks, FailAttempt(t)
      PROVE  LineGoesOn'
  <2>1. /\ task[t] = "attempting"
        /\ task' = [task EXCEPT ![t] = IF failures[t] < MaxRetries THEN "due" ELSE "stale"]
        /\ broken' = IF failures[t] >= MaxRetries /\ Unserved(t)
                       THEN broken \union {"exhausted"} ELSE broken
        /\ failures' = [failures EXCEPT ![t] = @ + 1]
        /\ UNCHANGED <<token, boot, carried, auth, call>>
    <3>1. failures[t] \in Nat /\ MaxRetries \in Nat
      OBVIOUS
    <3>2. failures[t] >= MaxRetries <=> ~ (failures[t] < MaxRetries)
      BY ONLY <3>1
    <3> QED
      BY <1>8, <3>2 DEF FailAttempt, booting, handlers
  <2>2. (\E i \in Instances : LiveStart(i)) => \E i \in Instances : LiveStart(i)'
    BY <2>1
  <2>3. broken # {} => broken' # {}
    BY <2>1
  <2>4. ASSUME NEW u \in Tasks, LineOf(u) PROVE LineOf(u)' \/ broken' # {}
    <3>1. CASE u # t
      <4>1. task'[u] = task[u] /\ failures'[u] = failures[u]
        BY <2>1, <3>1
      <4> QED
        BY <2>1, <2>4, <4>1
    <3>2. CASE u = t /\ failures[t] < MaxRetries
      <4>1. task'[u] = "due" /\ auth'[u] = token'
        BY <2>1, <2>4, <3>2
      <4> QED
        BY <4>1
    <3>3. CASE u = t /\ ~ (failures[t] < MaxRetries)
      <4>1. Unserved(t) /\ failures[t] >= MaxRetries
        BY <2>1, <2>4, <3>3 DEF Unserved
      <4> QED
        BY <2>1, <4>1
    <3> QED
      BY <3>1, <3>2, <3>3
  <2> QED
    BY <2>1, <2>2, <2>3, <2>4
<1>9. ASSUME NEW t \in Tasks, Free(t)
      PROVE  LineGoesOn'
  BY <1>9 DEF Free, booting, queue, handlers
<1>10. ASSUME NEW t \in Tasks, NEW n \in Attempts, CheckToken(t, n)
      PROVE  LineGoesOn'
  BY <1>10 DEF CheckToken, Accepted, booting, queue, handlers
<1>11. ASSUME NEW t \in Tasks, NEW n \in Attempts, ReadAgain(t, n)
      PROVE  LineGoesOn'
  BY <1>11 DEF ReadAgain, NextToken, booting, queue, handlers
<1>12. ASSUME NEW t \in Tasks, NEW n \in Attempts, ScheduleNext(t, n)
      PROVE  LineGoesOn'
  <2>1. ASSUME NEW u \in Tasks, Insert(u, held[t][n]), UNCHANGED faults,
               broken' = IF held[t][n] = token THEN {} ELSE broken
        PROVE  LineGoesOn'
    <3>1. /\ task' = [task EXCEPT ![u] = "waiting"]
          /\ auth' = [auth EXCEPT ![u] = held[t][n]]
          /\ call' = [call EXCEPT ![t][n] = "working"]
          /\ task[u] = "free" /\ call[t][n] = "read"
          /\ UNCHANGED <<token, boot, carried, failures>>
      BY <1>12, <2>1 DEF ScheduleNext, Insert, booting
    <3>2. (\E i \in Instances : LiveStart(i)) => \E i \in Instances : LiveStart(i)'
      BY <3>1
    <3>3. ASSUME NEW w \in Tasks, LineOf(w) PROVE LineOf(w)' \/ LineOf(u)'
      <4>1. CASE w = t /\ n = Attempt(t)
        <5>1. held[t][n] = token
          BY <3>1, <3>3, <4>1
        <5> QED
          BY <3>1, <5>1
      <4>2. CASE ~ (w = t /\ n = Attempt(t))
        <5>1. w # u
          BY <3>1, <3>3
        <5>2. task'[w] = task[w] /\ auth'[w] = auth[w]
          BY <3>1, <5>1
        <5>3. CASE task[w] # "attempting"
          <6>1. task[w] \in {"waiting", "due", "handling"} /\ auth[w] = token
            BY <3>3, <5>3
          <6>2. task'[w] \in {"waiting", "due", "handling"} /\ auth'[w] = token'
            BY <3>1, <5>2, <6>1
          <6> QED
            BY <6>2
        <5>4. CASE task[w] = "attempting"
          <6>1. Attempt(w) \in Attempts
            BY <5>4, AttemptIsLeft, SMTT(30)
          <6>2. call'[w][Attempt(w)] = call[w][Attempt(w)]
            BY <3>1, <4>2, <6>1, SMTT(30)
          <6> QED
            BY <3>1, <3>3, <5>2, <5>4, <6>2
        <5> QED
          BY <5>3, <5>4
      <4> QED
        BY <4>1, <4>2
    <3>4. CASE held[t][n] = token
      <4>1. LineOf(u)'
        BY <3>1, <3>4
      <4> QED
        BY <4>1
    <3>5. CASE held[t][n] # token
      BY <2>1, <3>1, <3>2, <3>3, <3>5
    <3> QED
      BY <3>4, <3>5
  <2>2. ASSUME Fault, UNCHANGED queue, broken' = broken \union {"schedule"}
        PROVE  LineGoesOn'
    BY <1>12, <2>2 DEF ScheduleNext, Fault, booting, queue, handlers
  <2> QED
    BY <1>12, <2>1, <2>2 DEF ScheduleNext
<1>13. ASSUME NEW t \in Tasks, NEW n \in Attempts, Work(t, n)
      PROVE  LineGoesOn'
  BY <1>13 DEF Work, booting, queue, handlers
<1>14. ASSUME NEW t \in Tasks, NEW n \in Attempts, CallFails(t, n)
      PROVE  LineGoesOn'
  BY <1>14 DEF CallFails, CutOff, Fault, booting, queue, handlers
<1>15. ASSUME NEW i \in Instances, Crash(i)
      PROVE  LineGoesOn'
  <2>1. UNCHANGED <<token, carried, task, auth, failures, broken>>
    BY <1>15 DEF Crash, queue
  <2>2. \A j \in Instances : LiveStart(j) => LiveStart(j)'
    BY <1>15, <2>1 DEF Crash
  <2>3. ASSUME NEW t \in Tasks, LineOf(t) PROVE LineOf(t)'
    <3>1. CASE task[t] # "attempting"
      BY <2>1, <2>3, <3>1
    <3>2. CASE task[t] = "attempting"
      <4>1. Attempt(t) \in Attempts
        BY <3>2, AttemptIsLeft
      <4>2. call'[t][Attempt(t)] \in {call[t][Attempt(t)], CutOff(t, Attempt(t))}
        BY <1>15, <4>1 DEF Crash
      <4> QED
        BY <2>1, <2>3, <3>2, <4>2 DEF CutOff
    <3> QED
      BY <3>1, <3>2
  <2> QED
    BY <2>1, <2>2, <2>3
<1>16. ASSUME NEW t \in Tasks, Select(t)
      PROVE  LineGoesOn'
  BY <1>16 DEF Select, booting, queue, handlers
<1>17. ASSUME NEW S \in SUBSET Tasks, SchedulerFails(S)
      PROVE  LineGoesOn'
  <2>1. /\ \A u \in Tasks : task'[u] = IF u \in S THEN "stranded" ELSE task[u]
        /\ broken' = IF \E u \in S : Unserved(u) THEN broken \union {"stranded"} ELSE broken
        /\ UNCHANGED <<token, boot, carried, auth, failures, call>>
        /\ \A u \in S : task[u] \in {"handling", "attempting"}
    BY <1>17 DEF SchedulerFails, booting, handlers
  <2>2. ASSUME NEW u \in Tasks, LineOf(u) PROVE LineOf(u)' \/ broken' # {}
    <3>1. CASE u \in S
      <4>1. Unserved(u)
        BY <2>1, <2>2, <3>1 DEF Unserved
      <4> QED
        BY <2>1, <3>1, <4>1
    <3>2. CASE u \notin S
      BY <2>1, <2>2, <3>2
    <3> QED
      BY <3>1, <3>2
  <2>3. (\E i \in Instances : LiveStart(i)) => \E i \in Instances : LiveStart(i)'
    BY <2>1
  <2>4. broken # {} => broken' # {}
    BY <2>1
  <2> QED
    BY <2>1, <2>2, <2>3, <2>4
<1>18. CASE UNCHANGED vars
  BY <1>18 DEF vars, booting, queue, handlers
<1> QED
  BY <1>1, <1>2, <1>3, <1>4, <1>5, <1>6, <1>7, <1>8, <1>9, <1>10, <1>11,
    <1>12, <1>13, <1>14, <1>15, <1>16, <1>17, <1>18
  DEF CleanupNext, BootStep, TaskStep, CallStep

\* A call that outlives its attempt is either the last one or a cause of doubling.
LEMMA CurrentStep ==
  CleanupTypeOK /\ AttemptsInOrder /\ RunningIsCurrent /\ [CleanupNext]_vars
  => RunningIsCurrent'
<1> SUFFICES ASSUME CleanupTypeOK, AttemptsInOrder, RunningIsCurrent,
  [CleanupNext]_vars
             PROVE  RunningIsCurrent'
  OBVIOUS
<1> USE DEF CleanupTypeOK, PerCall, Attempts, Attempt, Current,
  AttemptsInOrder, RunningIsCurrent, Running
<1>1. ASSUME NEW i \in Instances, Store(i)
      PROVE  RunningIsCurrent'
  BY <1>1 DEF Store, booting, queue, handlers
<1>2. ASSUME NEW i \in Instances, ScheduleFirst(i)
      PROVE  RunningIsCurrent'
  <2>1. ASSUME NEW u \in Tasks, Insert(u, carried[i]), UNCHANGED faults,
               broken' = IF carried[i] = token THEN {} ELSE broken
        PROVE  RunningIsCurrent'
    BY <1>2, <2>1 DEF ScheduleFirst, Insert, booting, handlers
  <2>2. ASSUME Fault, UNCHANGED queue, broken' = broken \union {"schedule"}
        PROVE  RunningIsCurrent'
    BY <1>2, <2>2 DEF ScheduleFirst, Fault, booting, queue, handlers
  <2> QED
    BY <1>2, <2>1, <2>2 DEF ScheduleFirst
<1>3. CASE IntervalPasses
  BY <1>3 DEF IntervalPasses, booting, queue, handlers
<1>4. ASSUME NEW t \in Tasks, Post(t)
      PROVE  RunningIsCurrent'
  BY <1>4 DEF Post, booting, queue, handlers
<1>5. ASSUME NEW t \in Tasks, Resolve(t)
      PROVE  RunningIsCurrent'
  BY <1>5 DEF Resolve, booting, queue, handlers
<1>6. ASSUME NEW t \in Tasks, FailAttempt(t)
      PROVE  RunningIsCurrent'
  <2>1. /\ task[t] = "attempting"
        /\ \A u \in Tasks \ {t} : task'[u] = task[u] /\ failures'[u] = failures[u]
        /\ task'[t] = "stale" \/ (task'[t] = "due" /\ (doubled' = {} => Current(t) = "error"))
        /\ doubled' = {} => doubled = {}
        /\ UNCHANGED <<token, auth, call>>
    <3>1. /\ task[t] = "attempting"
          /\ failures' = [failures EXCEPT ![t] = @ + 1]
          /\ UNCHANGED <<token, auth, call>>
      BY <1>6 DEF FailAttempt, booting, handlers
    <3>2. \/ /\ task' = [task EXCEPT ![t] = "due"]
             /\ doubled' = IF Current(t) = "error" THEN doubled ELSE doubled \union {"repeated"}
          \/ task' = [task EXCEPT ![t] = "stale"] /\ UNCHANGED doubled
      BY <1>6 DEF FailAttempt
    <3>3. doubled' = {} => doubled = {}
      BY <3>2
    <3>4. task'[t] = "stale" \/ (task'[t] = "due" /\ (doubled' = {} => Current(t) = "error"))
      BY <3>2
    <3>5. \A u \in Tasks \ {t} : task'[u] = task[u] /\ failures'[u] = failures[u]
      BY <3>1, <3>2
    <3> QED
      BY <3>1, <3>3, <3>4, <3>5
  <2>2. ASSUME doubled' = {}, NEW u \in Tasks, NEW n \in Attempts, call'[u][n] \in Running
        PROVE  \/ task'[u] = "attempting" /\ n = Attempt(u)'
               \/ task'[u] \in {"stale", "stranded"}
    <3>1. \/ task[u] = "attempting" /\ n = Attempt(u)
          \/ task[u] \in {"stale", "stranded"}
      BY <2>1, <2>2
    <3>2. CASE u # t
      BY <2>1, <3>1, <3>2
    <3>3. CASE u = t
      <4>1. Current(t) \in Running
        BY <2>1, <2>2, <3>1, <3>3
      <4> QED
        BY <2>1, <2>2, <3>3, <4>1
    <3> QED
      BY <3>2, <3>3
  <2> QED
    BY <2>2
<1>7. ASSUME NEW t \in Tasks, Free(t)
      PROVE  RunningIsCurrent'
  BY <1>7 DEF Free, booting, queue, handlers
<1>8. ASSUME NEW t \in Tasks, NEW n \in Attempts, CheckToken(t, n)
      PROVE  RunningIsCurrent'
  BY <1>8 DEF CheckToken, Accepted, booting, queue, handlers
<1>9. ASSUME NEW t \in Tasks, NEW n \in Attempts, ReadAgain(t, n)
      PROVE  RunningIsCurrent'
  BY <1>9 DEF ReadAgain, NextToken, booting, queue, handlers
<1>10. ASSUME NEW t \in Tasks, NEW n \in Attempts, ScheduleNext(t, n)
      PROVE  RunningIsCurrent'
  <2>1. ASSUME NEW u \in Tasks, Insert(u, held[t][n]), UNCHANGED faults,
               broken' = IF held[t][n] = token THEN {} ELSE broken
        PROVE  RunningIsCurrent'
    BY <1>10, <2>1 DEF ScheduleNext, Insert, booting, handlers
  <2>2. ASSUME Fault, UNCHANGED queue, broken' = broken \union {"schedule"}
        PROVE  RunningIsCurrent'
    BY <1>10, <2>2 DEF ScheduleNext, Fault, booting, queue, handlers
  <2> QED
    BY <1>10, <2>1, <2>2 DEF ScheduleNext
<1>11. ASSUME NEW t \in Tasks, NEW n \in Attempts, Work(t, n)
      PROVE  RunningIsCurrent'
  BY <1>11 DEF Work, booting, queue, handlers
<1>12. ASSUME NEW t \in Tasks, NEW n \in Attempts, CallFails(t, n)
      PROVE  RunningIsCurrent'
  BY <1>12 DEF CallFails, CutOff, Fault, booting, queue, handlers
<1>13. ASSUME NEW i \in Instances, Crash(i)
      PROVE  RunningIsCurrent'
  BY <1>13 DEF Crash, CutOff, Fault, booting, queue, handlers
<1>14. ASSUME NEW i \in Instances, ReadToken(i) \/ StartFails(i)
      PROVE  RunningIsCurrent'
  BY <1>14 DEF ReadToken, StartFails, booting, queue, handlers
<1>15. ASSUME NEW t \in Tasks, Select(t)
      PROVE  RunningIsCurrent'
  BY <1>15 DEF Select, booting, queue, handlers
<1>16. ASSUME NEW S \in SUBSET Tasks, SchedulerFails(S)
      PROVE  RunningIsCurrent'
  BY <1>16 DEF SchedulerFails, booting, queue, handlers
<1>17. CASE UNCHANGED vars
  BY <1>17 DEF vars, booting, queue, handlers
<1> QED
  BY <1>1, <1>2, <1>3, <1>4, <1>5, <1>6, <1>7, <1>8, <1>9, <1>10, <1>11,
    <1>12, <1>13, <1>14, <1>15, <1>16, <1>17
  DEF CleanupNext, BootStep, TaskStep, CallStep

\* Whatever holds the stored token hands it to one successor.
LEMMA OneChainStep ==
  CleanupTypeOK /\ AttemptsInOrder /\ TokensGoOn /\ RunningIsCurrent /\
    SecondChainNeedsCause /\ [CleanupNext]_vars
  => SecondChainNeedsCause'
<1> SUFFICES ASSUME CleanupTypeOK, AttemptsInOrder, TokensGoOn,
  RunningIsCurrent, SecondChainNeedsCause, [CleanupNext]_vars
             PROVE  SecondChainNeedsCause'
  OBVIOUS
<1> USE DEF CleanupTypeOK, PerCall, Attempts, Attempt, Current,
  AttemptsInOrder, TokensGoOn, RunningIsCurrent, SecondChainNeedsCause,
  Running, Tokens
<1>1. ASSUME NEW i \in Instances, Store(i)
      PROVE  SecondChainNeedsCause'
  <2> SUFFICES ASSUME doubled' = {} PROVE OneChain'
    OBVIOUS
  <2>1. OneChain
    BY <1>1 DEF Store, booting, queue, handlers
  <2>2. \A u \in Tasks : LiveTask(u)'
          => FALSE
    BY <1>1 DEF LiveTask, Store, booting, queue, handlers
  <2>3. \A u \in Tasks, k \in Attempts : LiveCall(u, k)'
          => FALSE
    BY <1>1 DEF LiveCall, Store, booting, queue, handlers
  <2>4. \A j \in Instances : LiveStart(j)'
          => j = i
    BY <1>1 DEF LiveStart, Store, booting, queue, handlers
  <2> QED
    BY <2>1, <2>2, <2>3, <2>4 DEF OneChain
<1>2. ASSUME NEW i \in Instances, ReadToken(i)
      PROVE  SecondChainNeedsCause'
  <2> SUFFICES ASSUME doubled' = {} PROVE OneChain'
    OBVIOUS
  <2>1. OneChain
    BY <1>2 DEF ReadToken, booting, queue, handlers
  <2>2. \A u \in Tasks : LiveTask(u)'
          => LiveTask(u)
    BY <1>2 DEF LiveTask, ReadToken, booting, queue, handlers
  <2>3. \A u \in Tasks, k \in Attempts : LiveCall(u, k)'
          => LiveCall(u, k)
    BY <1>2 DEF LiveCall, ReadToken, booting, queue, handlers
  <2>4. \A j \in Instances : LiveStart(j)'
          => LiveStart(j)
    BY <1>2 DEF LiveStart, ReadToken, booting, queue, handlers
  <2> QED
    BY <2>1, <2>2, <2>3, <2>4 DEF OneChain
<1>3. ASSUME NEW i \in Instances, ScheduleFirst(i)
      PROVE  SecondChainNeedsCause'
  <2>1. ASSUME NEW v \in Tasks, Insert(v, carried[i])
        PROVE  SecondChainNeedsCause'
    <3> SUFFICES ASSUME doubled' = {} PROVE OneChain'
      OBVIOUS
    <3>1. OneChain
      BY <1>3, <2>1 DEF ScheduleFirst, Insert, Fault, booting, queue, handlers
    <3>2. \A u \in Tasks : LiveTask(u)'
            => LiveTask(u) \/ (u = v /\ LiveStart(i))
      BY <1>3, <2>1 DEF LiveTask, LiveStart, ScheduleFirst, Insert, Fault, booting,
        queue, handlers
    <3>3. \A u \in Tasks, k \in Attempts : LiveCall(u, k)'
            => LiveCall(u, k)
      BY <1>3, <2>1 DEF LiveCall, ScheduleFirst, Insert, Fault, booting, queue,
        handlers
    <3>4. \A j \in Instances : LiveStart(j)'
            => LiveStart(j) /\ j # i
      BY <1>3, <2>1 DEF LiveStart, ScheduleFirst, Insert, Fault, booting, queue,
        handlers
    <3> QED
      BY <3>1, <3>2, <3>3, <3>4 DEF OneChain
  <2>2. ASSUME Fault, UNCHANGED queue
        PROVE  SecondChainNeedsCause'
    <3> SUFFICES ASSUME doubled' = {} PROVE OneChain'
      OBVIOUS
    <3>1. OneChain
      BY <1>3, <2>2 DEF ScheduleFirst, Fault, booting, queue, handlers
    <3>2. \A u \in Tasks : LiveTask(u)'
            => LiveTask(u)
      BY <1>3, <2>2 DEF LiveTask, ScheduleFirst, Fault, booting, queue, handlers
    <3>3. \A u \in Tasks, k \in Attempts : LiveCall(u, k)'
            => LiveCall(u, k)
      BY <1>3, <2>2 DEF LiveCall, ScheduleFirst, Fault, booting, queue, handlers
    <3>4. \A j \in Instances : LiveStart(j)'
            => LiveStart(j)
      BY <1>3, <2>2 DEF LiveStart, ScheduleFirst, Fault, booting, queue, handlers
    <3> QED
      BY <3>1, <3>2, <3>3, <3>4 DEF OneChain
  <2> QED
    BY <1>3, <2>1, <2>2 DEF ScheduleFirst
<1>4. ASSUME NEW i \in Instances, StartFails(i)
      PROVE  SecondChainNeedsCause'
  <2> SUFFICES ASSUME doubled' = {} PROVE OneChain'
    OBVIOUS
  <2>1. OneChain
    BY <1>4 DEF StartFails, Fault, booting, queue, handlers
  <2>2. \A u \in Tasks : LiveTask(u)'
          => LiveTask(u)
    BY <1>4 DEF LiveTask, StartFails, Fault, booting, queue, handlers
  <2>3. \A u \in Tasks, k \in Attempts : LiveCall(u, k)'
          => LiveCall(u, k)
    BY <1>4 DEF LiveCall, StartFails, Fault, booting, queue, handlers
  <2>4. \A j \in Instances : LiveStart(j)'
          => LiveStart(j)
    BY <1>4 DEF LiveStart, StartFails, Fault, booting, queue, handlers
  <2> QED
    BY <2>1, <2>2, <2>3, <2>4 DEF OneChain
<1>5. CASE IntervalPasses
  <2> SUFFICES ASSUME doubled' = {} PROVE OneChain'
    OBVIOUS
  <2>1. OneChain
    BY <1>5 DEF IntervalPasses, booting, queue, handlers
  <2>2. \A u \in Tasks : LiveTask(u)'
          => LiveTask(u)
    BY <1>5 DEF LiveTask, IntervalPasses, booting, queue, handlers
  <2>3. \A u \in Tasks, k \in Attempts : LiveCall(u, k)'
          => LiveCall(u, k)
    BY <1>5 DEF LiveCall, IntervalPasses, booting, queue, handlers
  <2>4. \A j \in Instances : LiveStart(j)'
          => LiveStart(j)
    BY <1>5 DEF LiveStart, IntervalPasses, booting, queue, handlers
  <2> QED
    BY <2>1, <2>2, <2>3, <2>4 DEF OneChain
<1>6. ASSUME NEW t \in Tasks, Post(t)
      PROVE  SecondChainNeedsCause'
  <2> SUFFICES ASSUME doubled' = {} PROVE OneChain'
    OBVIOUS
  <2>1. OneChain
    BY <1>6 DEF Post, booting, queue, handlers
  <2>2. \A u \in Tasks : LiveTask(u)'
          => LiveTask(u)
    BY <1>6 DEF LiveTask, Post, booting, queue, handlers
  <2>3. \A u \in Tasks, k \in Attempts : LiveCall(u, k)'
          => \/ LiveCall(u, k)
             \/ LiveTask(t) /\ ~ LiveTask(t)' /\ u = t /\ k = Attempt(t)
    BY <1>6, SMTT(30) DEF LiveCall, LiveTask, Post, booting, queue, handlers
  <2>4. \A j \in Instances : LiveStart(j)'
          => LiveStart(j)
    BY <1>6 DEF LiveStart, Post, booting, queue, handlers
  <2> QED
    BY <2>1, <2>2, <2>3, <2>4 DEF OneChain
<1>7. ASSUME NEW t \in Tasks, Resolve(t)
      PROVE  SecondChainNeedsCause'
  <2> SUFFICES ASSUME doubled' = {} PROVE OneChain'
    OBVIOUS
  <2>1. OneChain
    BY <1>7 DEF Resolve, booting, queue, handlers
  <2>2. \A u \in Tasks : LiveTask(u)'
          => LiveTask(u)
    BY <1>7 DEF LiveTask, Resolve, booting, queue, handlers
  <2>3. \A u \in Tasks, k \in Attempts : LiveCall(u, k)'
          => LiveCall(u, k)
    BY <1>7 DEF LiveCall, Resolve, booting, queue, handlers
  <2>4. \A j \in Instances : LiveStart(j)'
          => LiveStart(j)
    BY <1>7 DEF LiveStart, Resolve, booting, queue, handlers
  <2> QED
    BY <2>1, <2>2, <2>3, <2>4 DEF OneChain
<1>8. ASSUME NEW t \in Tasks, FailAttempt(t)
      PROVE  SecondChainNeedsCause'
  <2> SUFFICES ASSUME doubled' = {} PROVE OneChain'
    OBVIOUS
  <2>1. OneChain
    BY <1>8 DEF FailAttempt, Fault, booting, queue, handlers
  <2>2. \A u \in Tasks : LiveTask(u)'
          => LiveTask(u)
    <3>1. /\ task[t] = "attempting"
          /\ \A u \in Tasks \ {t} : task'[u] = task[u] /\ failures'[u] = failures[u]
          /\ task'[t] = "stale" \/ (task'[t] = "due" /\ (doubled' = {} => Current(t) = "error"))
          /\ doubled' = {} => doubled = {}
          /\ UNCHANGED <<token, auth, call>>
      <4>1. /\ task[t] = "attempting"
            /\ failures' = [failures EXCEPT ![t] = @ + 1]
            /\ UNCHANGED <<token, auth, call>>
        BY <1>8 DEF FailAttempt, booting, handlers
      <4>2. \/ /\ task' = [task EXCEPT ![t] = "due"]
               /\ doubled' = IF Current(t) = "error" THEN doubled ELSE doubled \union {"repeated"}
            \/ task' = [task EXCEPT ![t] = "stale"] /\ UNCHANGED doubled
        BY <1>8 DEF FailAttempt
      <4>3. doubled' = {} => doubled = {}
        BY <4>2
      <4>4. task'[t] = "stale" \/ (task'[t] = "due" /\ (doubled' = {} => Current(t) = "error"))
        BY <4>2
      <4>5. \A u \in Tasks \ {t} : task'[u] = task[u] /\ failures'[u] = failures[u]
        BY <4>1, <4>2
      <4> QED
        BY <4>1, <4>3, <4>4, <4>5
    <3>2. ASSUME NEW u \in Tasks, LiveTask(u)' PROVE LiveTask(u)
      <4>1. CASE u # t
        BY <3>1, <3>2, <4>1 DEF LiveTask
      <4>2. CASE u = t
        BY <3>1, <3>2, <4>2 DEF LiveTask
      <4> QED
        BY <4>1, <4>2
    <3> QED
      BY <3>2
  <2>3. \A u \in Tasks, k \in Attempts : LiveCall(u, k)'
          => LiveCall(u, k)
    BY <1>8 DEF LiveCall, FailAttempt, Fault, booting, queue, handlers
  <2>4. \A j \in Instances : LiveStart(j)'
          => LiveStart(j)
    BY <1>8 DEF LiveStart, FailAttempt, Fault, booting, queue, handlers
  <2> QED
    BY <2>1, <2>2, <2>3, <2>4 DEF OneChain
<1>9. ASSUME NEW t \in Tasks, Free(t)
      PROVE  SecondChainNeedsCause'
  <2> SUFFICES ASSUME doubled' = {} PROVE OneChain'
    OBVIOUS
  <2>1. OneChain
    BY <1>9 DEF Free, booting, queue, handlers
  <2>2. \A u \in Tasks : LiveTask(u)'
          => LiveTask(u)
    BY <1>9 DEF LiveTask, Free, booting, queue, handlers
  <2>3. \A u \in Tasks, k \in Attempts : LiveCall(u, k)'
          => LiveCall(u, k)
    BY <1>9 DEF LiveCall, Free, booting, queue, handlers
  <2>4. \A j \in Instances : LiveStart(j)'
          => LiveStart(j)
    BY <1>9 DEF LiveStart, Free, booting, queue, handlers
  <2> QED
    BY <2>1, <2>2, <2>3, <2>4 DEF OneChain
<1>10. ASSUME NEW t \in Tasks, NEW n \in Attempts, CheckToken(t, n)
      PROVE  SecondChainNeedsCause'
  <2> SUFFICES ASSUME doubled' = {} PROVE OneChain'
    OBVIOUS
  <2>1. OneChain
    BY <1>10 DEF CheckToken, Accepted, booting, queue, handlers
  <2>2. \A u \in Tasks : LiveTask(u)'
          => LiveTask(u)
    BY <1>10 DEF LiveTask, CheckToken, Accepted, booting, queue, handlers
  <2>3. \A u \in Tasks, k \in Attempts : LiveCall(u, k)'
          => LiveCall(u, k)
    BY <1>10, SMTT(30) DEF LiveCall, CheckToken, Accepted, booting, queue, handlers
  <2>4. \A j \in Instances : LiveStart(j)'
          => LiveStart(j)
    BY <1>10 DEF LiveStart, CheckToken, Accepted, booting, queue, handlers
  <2> QED
    BY <2>1, <2>2, <2>3, <2>4 DEF OneChain
<1>11. ASSUME NEW t \in Tasks, NEW n \in Attempts, ReadAgain(t, n)
      PROVE  SecondChainNeedsCause'
  <2> SUFFICES ASSUME doubled' = {} PROVE OneChain'
    OBVIOUS
  <2>1. OneChain
    BY <1>11 DEF ReadAgain, NextToken, booting, queue, handlers
  <2>2. \A u \in Tasks : LiveTask(u)'
          => LiveTask(u)
    BY <1>11 DEF LiveTask, ReadAgain, NextToken, booting, queue, handlers
  <2>3. \A u \in Tasks, k \in Attempts : LiveCall(u, k)'
          => LiveCall(u, k)
    BY <1>11 DEF LiveCall, ReadAgain, NextToken, booting, queue, handlers
  <2>4. \A j \in Instances : LiveStart(j)'
          => LiveStart(j)
    BY <1>11 DEF LiveStart, ReadAgain, NextToken, booting, queue, handlers
  <2> QED
    BY <2>1, <2>2, <2>3, <2>4 DEF OneChain
<1>12. ASSUME NEW t \in Tasks, NEW n \in Attempts, ScheduleNext(t, n)
      PROVE  SecondChainNeedsCause'
  <2>1. ASSUME NEW v \in Tasks, Insert(v, held[t][n])
        PROVE  SecondChainNeedsCause'
    <3> SUFFICES ASSUME doubled' = {} PROVE OneChain'
      OBVIOUS
    <3>1. OneChain
      BY <1>12, <2>1 DEF ScheduleNext, Insert, Fault, booting, queue, handlers
    <3>2. \A u \in Tasks : LiveTask(u)'
            => LiveTask(u) \/ (u = v /\ LiveCall(t, n))
      <4>1. /\ task' = [task EXCEPT ![v] = "waiting"]
            /\ auth' = [auth EXCEPT ![v] = held[t][n]]
            /\ call' = [call EXCEPT ![t][n] = "working"]
            /\ call[t][n] = "read"
            /\ UNCHANGED <<token, failures>>
        BY <1>12, <2>1 DEF ScheduleNext, Insert
      <4>2. ASSUME NEW u \in Tasks, LiveTask(u)', u # v
            PROVE  LiveTask(u)
        <5>1. \A k \in Attempts : call'[u][k] = "error" => call[u][k] = "error"
          BY <4>1
        <5>2. task'[u] = task[u] /\ auth'[u] = auth[u] /\ failures'[u] = failures[u]
          BY <4>1, <4>2
        <5>3. CASE task[u] = "attempting"
          <6>1. Attempt(u) \in Attempts
            BY <5>3, AttemptIsLeft, SMTT(30)
          <6>2. auth'[u] = token' /\ call'[u][Attempt(u)] = "error"
            BY <4>2, <5>2, <5>3 DEF LiveTask
          <6>3. call[u][Attempt(u)] = "error"
            BY <5>1, <6>1, <6>2
          <6> QED
            BY <4>1, <5>2, <5>3, <6>2, <6>3 DEF LiveTask
        <5>4. CASE task[u] # "attempting"
          BY <4>1, <4>2, <5>2, <5>4 DEF LiveTask
        <5> QED
          BY <5>3, <5>4
      <4>3. LiveTask(v)' => LiveCall(t, n)
        BY <4>1 DEF LiveTask, LiveCall
      <4> QED
        BY <4>2, <4>3
    <3>3. \A u \in Tasks, k \in Attempts : LiveCall(u, k)'
            => LiveCall(u, k) /\ ~ (u = t /\ k = n)
      <4>1. /\ call' = [call EXCEPT ![t][n] = "working"]
            /\ auth' = [auth EXCEPT ![v] = held[t][n]]
            /\ UNCHANGED <<token, held>>
            /\ \A k \in Attempts : call[v][k] = "none"
        BY <1>12, <2>1, FreeHasNoCalls DEF ScheduleNext, Insert, booting
      <4>2. ASSUME NEW u \in Tasks, NEW k \in Attempts, LiveCall(u, k)'
            PROVE  ~ (u = t /\ k = n)
        BY <4>1, <4>2 DEF LiveCall
      <4>3. ASSUME NEW u \in Tasks, NEW k \in Attempts, LiveCall(u, k)'
            PROVE  LiveCall(u, k)
        <5>1. call'[u][k] = call[u][k]
          BY <4>1, <4>2, <4>3, SMTT(30)
        <5>2. u # v
          BY <4>1, <4>3, <5>1 DEF LiveCall
        <5> QED
          BY <4>1, <4>3, <5>1, <5>2 DEF LiveCall
      <4> QED
        BY <4>2, <4>3
    <3>4. \A j \in Instances : LiveStart(j)'
            => LiveStart(j)
      BY <1>12, <2>1 DEF LiveStart, ScheduleNext, Insert, Fault, booting, queue,
        handlers
    <3>5. \A u, w \in Tasks : LiveTask(u)' /\ LiveTask(w)' => u = w
      <4>1. CASE LiveCall(t, n)
        <5>1. \A u \in Tasks : ~ LiveTask(u)
          BY <3>1, <4>1 DEF OneChain
        <5> QED
          BY <3>2, <5>1
      <4>2. CASE ~ LiveCall(t, n)
        <5>1. \A u, w \in Tasks : LiveTask(u) /\ LiveTask(w) => u = w
          BY <3>1 DEF OneChain
        <5> QED
          BY <3>2, <4>2, <5>1
      <4> QED
        BY <4>1, <4>2
    <3>6. \A u, w \in Tasks, k \in Attempts : ~ (LiveTask(u)' /\ LiveCall(w, k)')
      BY <3>1, <3>2, <3>3 DEF OneChain
    <3>7. \A j \in Instances : LiveStart(j)' =>
            /\ \A u \in Tasks : ~ LiveTask(u)'
            /\ \A u \in Tasks, k \in Attempts : ~ LiveCall(u, k)'
      BY <3>1, <3>2, <3>3, <3>4 DEF OneChain
    <3>8. /\ \A u, w \in Tasks, k, l \in Attempts :
               LiveCall(u, k)' /\ LiveCall(w, l)' => u = w /\ k = l
          /\ \A h, j \in Instances : LiveStart(h)' /\ LiveStart(j)' => h = j
      BY <3>1, <3>3, <3>4, SMTT(30) DEF OneChain
    <3> QED
      BY <3>5, <3>6, <3>7, <3>8 DEF OneChain
  <2>2. ASSUME Fault, UNCHANGED queue
        PROVE  SecondChainNeedsCause'
    <3> SUFFICES ASSUME doubled' = {} PROVE OneChain'
      OBVIOUS
    <3>1. OneChain
      BY <1>12, <2>2 DEF ScheduleNext, Fault, booting, queue, handlers
    <3>2. \A u \in Tasks : LiveTask(u)'
            => LiveTask(u)
      BY <1>12, <2>2 DEF LiveTask, ScheduleNext, Fault, booting, queue, handlers
    <3>3. \A u \in Tasks, k \in Attempts : LiveCall(u, k)'
            => LiveCall(u, k)
      BY <1>12, <2>2 DEF LiveCall, ScheduleNext, Fault, booting, queue, handlers
    <3>4. \A j \in Instances : LiveStart(j)'
            => LiveStart(j)
      BY <1>12, <2>2 DEF LiveStart, ScheduleNext, Fault, booting, queue, handlers
    <3> QED
      BY <3>1, <3>2, <3>3, <3>4 DEF OneChain
  <2> QED
    BY <1>12, <2>1, <2>2 DEF ScheduleNext
<1>13. ASSUME NEW t \in Tasks, NEW n \in Attempts, Work(t, n)
      PROVE  SecondChainNeedsCause'
  <2> SUFFICES ASSUME doubled' = {} PROVE OneChain'
    OBVIOUS
  <2>1. OneChain
    BY <1>13 DEF Work, booting, queue, handlers
  <2>2. \A u \in Tasks : LiveTask(u)'
          => LiveTask(u)
    BY <1>13 DEF LiveTask, Work, booting, queue, handlers
  <2>3. \A u \in Tasks, k \in Attempts : LiveCall(u, k)'
          => LiveCall(u, k)
    BY <1>13 DEF LiveCall, Work, booting, queue, handlers
  <2>4. \A j \in Instances : LiveStart(j)'
          => LiveStart(j)
    BY <1>13 DEF LiveStart, Work, booting, queue, handlers
  <2> QED
    BY <2>1, <2>2, <2>3, <2>4 DEF OneChain
<1>14. ASSUME NEW t \in Tasks, NEW n \in Attempts, CallFails(t, n)
      PROVE  SecondChainNeedsCause'
  <2> SUFFICES ASSUME doubled' = {} PROVE OneChain'
    OBVIOUS
  <2>1. OneChain
    BY <1>14 DEF CallFails, CutOff, Fault, booting, queue, handlers
  <2>2. \A u \in Tasks : LiveTask(u)'
          => LiveTask(u) \/ (u = t /\ LiveCall(t, n))
    BY <1>14 DEF LiveTask, LiveCall, CallFails, CutOff, Fault, booting, queue,
      handlers
  <2>3. \A u \in Tasks, k \in Attempts : LiveCall(u, k)'
          => LiveCall(u, k) /\ ~ (u = t /\ k = n)
    BY <1>14, SMTT(30) DEF LiveCall, CallFails, CutOff, Fault, booting, queue, handlers
  <2>4. \A j \in Instances : LiveStart(j)'
          => LiveStart(j)
    BY <1>14 DEF LiveStart, CallFails, CutOff, Fault, booting, queue, handlers
  <2> QED
    BY <2>1, <2>2, <2>3, <2>4 DEF OneChain
<1>15. ASSUME NEW i \in Instances, Crash(i)
      PROVE  SecondChainNeedsCause'
  <2> SUFFICES ASSUME doubled' = {} PROVE OneChain'
    OBVIOUS
  <2>1. OneChain
    BY <1>15 DEF Crash, CutOff, Fault, booting, queue, handlers
  <2>2. /\ UNCHANGED <<token, carried, task, auth, failures, held>>
        /\ \A u \in Tasks, k \in Attempts :
             call'[u][k] = call[u][k] \/ call'[u][k] = CutOff(u, k)
    BY <1>15 DEF Crash, queue
  <2>3. ASSUME NEW u \in Tasks, LiveTask(u)'
        PROVE  \/ LiveTask(u)
               \/ \E k \in Attempts : LiveCall(u, k) /\ ~ LiveCall(u, k)'
    <3>1. CASE task[u] # "attempting"
      BY <2>2, <2>3, <3>1 DEF LiveTask
    <3>2. CASE task[u] = "attempting" /\ Current(u) = "error"
      BY <2>2, <2>3, <3>2 DEF LiveTask
    <3>3. CASE task[u] = "attempting" /\ Current(u) # "error"
      <4>1. Attempt(u) \in Attempts
        BY <3>3, AttemptIsLeft
      <4>2. call'[u][Attempt(u)] = "error" /\ auth[u] = token
        BY <2>2, <2>3, <3>3 DEF LiveTask
      <4>3. call[u][Attempt(u)] \in {"posted", "checked", "read"}
        BY <2>2, <3>3, <4>1, <4>2 DEF CutOff
      <4>4. call[u][Attempt(u)] = "read" => held[u][Attempt(u)] = token
        BY <4>1, <4>2
      <4>5. ASSUME NEW k \in Attempts, k = Attempt(u)
            PROVE  LiveCall(u, k) /\ ~ LiveCall(u, k)'
        BY <2>2, <4>2, <4>3, <4>4, <4>5 DEF LiveCall
      <4> QED
        BY <4>1, <4>5
    <3> QED
      BY <3>1, <3>2, <3>3
  <2>4. \A u \in Tasks, k \in Attempts : LiveCall(u, k)'
          => LiveCall(u, k)
    BY <1>15 DEF LiveCall, Crash, CutOff, Fault, booting, queue, handlers
  <2>5. \A j \in Instances : LiveStart(j)'
          => LiveStart(j)
    BY <1>15 DEF LiveStart, Crash, CutOff, Fault, booting, queue, handlers
  <2>6. \A u, v \in Tasks : LiveTask(u)' /\ LiveTask(v)' => u = v
    BY <2>1, <2>3 DEF OneChain
  <2>7. \A u, v \in Tasks, k \in Attempts : ~ (LiveTask(u)' /\ LiveCall(v, k)')
    BY <2>1, <2>3, <2>4 DEF OneChain
  <2>8. \A j \in Instances : LiveStart(j)' =>
          /\ \A u \in Tasks : ~ LiveTask(u)'
          /\ \A u \in Tasks, k \in Attempts : ~ LiveCall(u, k)'
    BY <2>1, <2>3, <2>4, <2>5 DEF OneChain
  <2>9. /\ \A u, v \in Tasks, k, l \in Attempts :
             LiveCall(u, k)' /\ LiveCall(v, l)' => u = v /\ k = l
        /\ \A h, j \in Instances : LiveStart(h)' /\ LiveStart(j)' => h = j
    BY <2>1, <2>4, <2>5 DEF OneChain
  <2> QED
    BY <2>6, <2>7, <2>8, <2>9 DEF OneChain
<1>16. ASSUME NEW t \in Tasks, Select(t)
      PROVE  SecondChainNeedsCause'
  <2> SUFFICES ASSUME doubled' = {} PROVE OneChain'
    OBVIOUS
  <2>1. OneChain
    BY <1>16 DEF Select, booting, queue, handlers
  <2>2. \A u \in Tasks : LiveTask(u)'
          => LiveTask(u)
    BY <1>16 DEF LiveTask, Select, booting, queue, handlers
  <2>3. \A u \in Tasks, k \in Attempts : LiveCall(u, k)'
          => LiveCall(u, k)
    BY <1>16 DEF LiveCall, Select, booting, queue, handlers
  <2>4. \A j \in Instances : LiveStart(j)'
          => LiveStart(j)
    BY <1>16 DEF LiveStart, Select, booting, queue, handlers
  <2> QED
    BY <2>1, <2>2, <2>3, <2>4 DEF OneChain
<1>17. ASSUME NEW S \in SUBSET Tasks, SchedulerFails(S)
      PROVE  SecondChainNeedsCause'
  <2> SUFFICES ASSUME doubled' = {} PROVE OneChain'
    OBVIOUS
  <2>1. OneChain
    BY <1>17 DEF SchedulerFails, booting, queue, handlers
  <2>2. \A u \in Tasks : LiveTask(u)'
          => LiveTask(u)
    BY <1>17 DEF LiveTask, SchedulerFails, booting, queue, handlers
  <2>3. \A u \in Tasks, k \in Attempts : LiveCall(u, k)'
          => LiveCall(u, k)
    BY <1>17 DEF LiveCall, SchedulerFails, booting, queue, handlers
  <2>4. \A j \in Instances : LiveStart(j)'
          => LiveStart(j)
    BY <1>17 DEF LiveStart, SchedulerFails, booting, queue, handlers
  <2> QED
    BY <2>1, <2>2, <2>3, <2>4 DEF OneChain
<1>18. CASE UNCHANGED vars
  <2>1. OneChain' <=> OneChain
    BY <1>18 DEF OneChain, LiveTask, LiveCall, LiveStart, vars, booting, queue,
      handlers
  <2> QED
    BY <1>18, <2>1 DEF vars
<1> QED
  BY <1>1, <1>2, <1>3, <1>4, <1>5, <1>6, <1>7, <1>8, <1>9, <1>10, <1>11,
    <1>12, <1>13, <1>14, <1>15, <1>16, <1>17, <1>18
  DEF CleanupNext, BootStep, TaskStep, CallStep

-----------------------------------------------------------------------------
LEMMA CleanupInvStep == CleanupInv /\ [CleanupNext]_vars => CleanupInv'
<1> SUFFICES ASSUME CleanupInv, [CleanupNext]_vars PROVE CleanupInv'
  OBVIOUS
<1> USE DEF CleanupInv
<1> QED
  BY CleanupTypesStep, AttemptsStep, TokensStep, LineStep, CurrentStep, OneChainStep

LEMMA CleanupInvAlways == CleanupSpec => []CleanupInv
BY CleanupInvInit, CleanupInvStep, PTL DEF CleanupSpec

\* Tasks, calls and tokens of the cleanup job keep their types: no retry is
\* counted past the limit.
THEOREM CleanupTypeCorrect == CleanupSpec => []CleanupTypeOK
<1>1. CleanupInv => CleanupTypeOK
  BY DEF CleanupInv
<1> QED
  BY <1>1, CleanupInvAlways, PTL

\* However starts, calls, retries and tokens interleave, the chain of jobs goes
\* on until a start is cut off, a task is refused, its retries are used up or a
\* fault of the scheduler leaves it 'handling'.
THEOREM ChainEndsForAReasonCorrect == CleanupSpec => []ChainEndsForAReason
<1>1. CleanupInv => ChainEndsForAReason
  <2> SUFFICES ASSUME CleanupInv, NEW t \in Tasks, LineOf(t)
               PROVE  LiveTask(t) \/ \E n \in Attempts : LiveCall(t, n)
    BY DEF ChainEndsForAReason, CleanupInv, LineGoesOn
  <2> USE DEF LineOf, CleanupInv
  <2>1. CASE task[t] \in {"waiting", "due", "handling"} \/ Current(t) = "error"
    BY <2>1 DEF LiveTask
  <2>2. CASE task[t] = "attempting" /\ Current(t) # "error"
    <3>1. Attempt(t) \in Attempts
      BY <2>2, AttemptIsLeft DEF CleanupTypeOK
    <3>2. Current(t) = "read" => held[t][Attempt(t)] = token
      <4>1. /\ token \in Nat /\ held[t][Attempt(t)] \in Nat
            /\ held[t][Attempt(t)] <= token
        BY <3>1 DEF TokensGoOn, CleanupTypeOK, PerCall, Tokens
      <4> QED
        BY <3>1, <4>1 DEF TokensGoOn, Current
    <3> QED
      BY <2>2, <3>1, <3>2 DEF LiveCall, Current
  <2> QED
    BY <2>1, <2>2
<1> QED
  BY <1>1, CleanupInvAlways, PTL

\* There is one chain unless a call was repeated after it began to act or a
\* token was replaced under a reader.
THEOREM SecondChainNeedsCauseCorrect == CleanupSpec => []SecondChainNeedsCause
<1>1. CleanupInv => SecondChainNeedsCause
  BY DEF CleanupInv
<1> QED
  BY <1>1, CleanupInvAlways, PTL
=============================================================================
