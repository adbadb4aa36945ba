--------------------------- MODULE DeliveryProofs --------------------------
(***************************************************************************)
(* From the scheduler to the mailbox, for any number of events, processes, *)
(* units and connections, any batch size, any retry limit and any bound on *)
(* faults: first the scheduler alone, with the messaging side answering as *)
(* it likes; then that the composition is a run of each of the two sides;  *)
(* then what follows from both together.                                   *)
(***************************************************************************)
EXTENDS Delivery, FiniteSetTheorems, TLAPS

USE ConfigAssumption

\* A unit's batch is a set of rows that were eligible.
LEMMA BatchIsEligible ==
  ASSUME NEW B, B \in Batches
  PROVE  B \in SUBSET Events /\ \A e \in B : e \in Eligible
  BY DEF Batches, Eligible

LEMMA TypeStep == TypeOK /\ [Next]_vars => TypeOK'
<1> SUFFICES ASSUME TypeOK, [Next]_vars
             PROVE  TypeOK'
  OBVIOUS
<1> USE DEF TypeOK, table, work, history
<1>1. CASE Tick
  BY <1>1 DEF Tick
<1>2. ASSUME NEW S \in SUBSET Events, NEW at \in [Events -> 0 .. MaxTime],
             Submit(S, at)
      PROVE  TypeOK'
  BY <1>2 DEF Submit
<1>3. ASSUME NEW p \in Processes, NEW u \in Units, NEW B \in SUBSET Events,
             Poll(p, u, B)
      PROVE  TypeOK'
  BY <1>3 DEF Poll, MarkHandling
<1>4. ASSUME NEW B \in SUBSET Events, PollReplyLost(B)
      PROVE  TypeOK'
  BY <1>4 DEF PollReplyLost, MarkHandling
<1>5. ASSUME NEW u \in Units, Call(u)
      PROVE  TypeOK'
  BY <1>5 DEF Call, Outcome
<1>6. ASSUME NEW u \in Units, NEW e \in Events, NEW o \in Outcome, Settle(u, e, o)
      PROVE  TypeOK'
  BY <1>6 DEF Settle
<1>7. ASSUME NEW u \in Units, Record(u)
      PROVE  TypeOK'
  BY <1>7 DEF Record, AllSettled, StatusAfter, RetriesAfter, Drop
<1>8. ASSUME NEW p \in Processes, Crash(p)
      PROVE  TypeOK'
  BY <1>8 DEF Crash, Drop
<1>9. ASSUME NEW u \in Units, RecordFails(u)
      PROVE  TypeOK'
  BY <1>8, <1>9 DEF RecordFails
<1>10. CASE UNCHANGED vars
  BY <1>10 DEF vars
<1>11. QED
  BY <1>1, <1>2, <1>3, <1>4, <1>5, <1>6, <1>7, <1>8, <1>9, <1>10
  DEF Next, PollSome, SettleSome

\* Type correctness: every variable keeps its type.
THEOREM TypeCorrect == Spec => []TypeOK
<1>1. Init => TypeOK
  BY DEF Init, TypeOK, Outcome
<1>2. QED
  BY <1>1, TypeStep, PTL DEF Spec

-----------------------------------------------------------------------------
(* The inductive invariant.  No part of it but TypeOK is inductive alone:  *)
(* that a row stays in one pair of hands rests on idle units holding       *)
(* nothing, and the counters of a row in hand are only as good as what the *)
(* unit that holds it remembers.                                           *)

Inv ==
  /\ TypeOK
  /\ ExclusiveHandling
  /\ AttemptsAccounted
  /\ UnitsAgreeWithRows

LEMMA InitInv == Init => Inv
  BY DEF Init, Inv, TypeOK, Outcome, ExclusiveHandling, AttemptsAccounted,
         UnitsAgreeWithRows

\* The steps that touch neither rows nor units.
LEMMA TickInv ==
  ASSUME Inv, Tick
  PROVE  ExclusiveHandling' /\ AttemptsAccounted' /\ UnitsAgreeWithRows'
  BY DEF Inv, Tick, ExclusiveHandling, AttemptsAccounted, UnitsAgreeWithRows,
         table, work, history

LEMMA SubmitInv ==
  ASSUME Inv, NEW S \in SUBSET Events, NEW at \in [Events -> 0 .. MaxTime],
         Submit(S, at)
  PROVE  ExclusiveHandling' /\ AttemptsAccounted' /\ UnitsAgreeWithRows'
<1> USE DEF Inv, TypeOK, Outcome, Submit, work, history
<1>1. ExclusiveHandling'
  BY DEF ExclusiveHandling
<1>2. AttemptsAccounted'
  BY DEF AttemptsAccounted
<1>3. UnitsAgreeWithRows'
  BY DEF UnitsAgreeWithRows
<1>4. QED
  BY <1>1, <1>2, <1>3

\* Rows change hands only from the table to one unit.
LEMMA PollInv ==
  ASSUME Inv, NEW p \in Processes, NEW u \in Units, NEW B \in SUBSET Events,
         Poll(p, u, B)
  PROVE  ExclusiveHandling' /\ AttemptsAccounted' /\ UnitsAgreeWithRows'
<1> USE DEF Inv, TypeOK, Outcome, Poll, MarkHandling, history
<1>1. \A e \in B : status[e] = "pending" /\ retries[e] <= MaxRetries
  BY BatchIsEligible DEF Eligible
<1>2. \A v \in Units : batch[v] \intersect B = {}
  BY <1>1 DEF ExclusiveHandling
<1>3. ExclusiveHandling'
  BY <1>2 DEF ExclusiveHandling
<1>4. AttemptsAccounted'
  BY <1>1 DEF AttemptsAccounted
<1>5. UnitsAgreeWithRows'
  BY <1>1, <1>2 DEF UnitsAgreeWithRows, AttemptsAccounted
<1>6. QED
  BY <1>3, <1>4, <1>5

LEMMA PollReplyLostInv ==
  ASSUME Inv, NEW B \in SUBSET Events, PollReplyLost(B)
  PROVE  ExclusiveHandling' /\ AttemptsAccounted' /\ UnitsAgreeWithRows'
<1> USE DEF Inv, TypeOK, Outcome, PollReplyLost, MarkHandling, work
<1>1. \A e \in B : status[e] = "pending" /\ retries[e] <= MaxRetries
  BY BatchIsEligible DEF Eligible
<1>2. ExclusiveHandling'
  BY <1>1 DEF ExclusiveHandling
<1>3. AttemptsAccounted'
  BY <1>1 DEF AttemptsAccounted
<1>4. UnitsAgreeWithRows'
  BY <1>1 DEF UnitsAgreeWithRows
<1>5. QED
  BY <1>2, <1>3, <1>4

LEMMA CallInv ==
  ASSUME Inv, NEW u \in Units, Call(u)
  PROVE  ExclusiveHandling' /\ AttemptsAccounted' /\ UnitsAgreeWithRows'
<1> USE DEF Inv, TypeOK, Outcome, Call, table
<1>1. \A e \in batch[u] : status[e] = "handling" /\ attempts[e] = retries[e]
  BY DEF ExclusiveHandling, UnitsAgreeWithRows
<1>2. ExclusiveHandling'
  BY DEF ExclusiveHandling
<1>3. AttemptsAccounted'
  BY <1>1 DEF AttemptsAccounted
<1>4. \A e \in batch[u] : e \notin acked
  BY DEF UnitsAgreeWithRows
<1>5. UnitsAgreeWithRows'
  BY <1>1, <1>4 DEF UnitsAgreeWithRows, ExclusiveHandling
<1>6. QED
  BY <1>2, <1>3, <1>5

LEMMA SettleInv ==
  ASSUME Inv, NEW u \in Units, NEW e \in Events, NEW o \in Outcome,
         Settle(u, e, o)
  PROVE  ExclusiveHandling' /\ AttemptsAccounted' /\ UnitsAgreeWithRows'
<1> USE DEF Inv, TypeOK, Outcome, Settle, table
<1>1. e \in batch[u] /\ status[e] = "handling" /\ e \notin acked
  BY DEF ExclusiveHandling, UnitsAgreeWithRows
<1>2. ExclusiveHandling'
  BY DEF ExclusiveHandling
<1>3. AttemptsAccounted'
  BY DEF AttemptsAccounted
<1>4. UnitsAgreeWithRows'
  BY <1>1 DEF UnitsAgreeWithRows, ExclusiveHandling
<1>5. QED
  BY <1>2, <1>3, <1>4

LEMMA RecordInv ==
  ASSUME Inv, NEW u \in Units, Record(u)
  PROVE  ExclusiveHandling' /\ AttemptsAccounted' /\ UnitsAgreeWithRows'
<1> USE DEF Inv, TypeOK, Outcome, Record, AllSettled, Drop, StatusAfter,
            RetriesAfter, history
<1>1. \A e \in batch[u] : /\ status[e] = "handling"
                          /\ attempts[e] = retries[e] + 1
                          /\ retries[e] <= MaxRetries
                          /\ e \in acked <=> answer[u][e] = "delivered"
  BY DEF ExclusiveHandling, UnitsAgreeWithRows
<1>2. ExclusiveHandling'
  BY DEF ExclusiveHandling
<1>3. AttemptsAccounted'
  BY <1>1 DEF AttemptsAccounted
<1>4. UnitsAgreeWithRows'
  BY <1>1 DEF UnitsAgreeWithRows, ExclusiveHandling
<1>5. QED
  BY <1>2, <1>3, <1>4

LEMMA CrashInv ==
  ASSUME Inv, NEW p \in Processes, Crash(p)
  PROVE  ExclusiveHandling' /\ AttemptsAccounted' /\ UnitsAgreeWithRows'
<1> USE DEF Inv, TypeOK, Outcome, Crash, Drop, table
<1>1. ExclusiveHandling'
  BY DEF ExclusiveHandling
<1>2. AttemptsAccounted'
  BY DEF AttemptsAccounted
<1>3. UnitsAgreeWithRows'
  BY DEF UnitsAgreeWithRows
<1>4. QED
  BY <1>1, <1>2, <1>3

LEMMA InvStep == Inv /\ [Next]_vars => Inv'
<1> SUFFICES ASSUME Inv, [Next]_vars
             PROVE  ExclusiveHandling' /\ AttemptsAccounted' /\ UnitsAgreeWithRows'
  BY TypeStep DEF Inv
<1>1. CASE Tick
  BY <1>1, TickInv
<1>2. CASE \E S \in SUBSET Events, at \in [Events -> 0 .. MaxTime] : Submit(S, at)
  BY <1>2, SubmitInv
<1>3. CASE PollSome
  BY <1>3, PollInv DEF PollSome
<1>4. CASE \E B \in SUBSET Events : PollReplyLost(B)
  BY <1>4, PollReplyLostInv
<1>5. CASE \E u \in Units : Call(u)
  BY <1>5, CallInv
<1>6. CASE \E u \in Units : SettleSome(u)
  BY <1>6, SettleInv DEF SettleSome
<1>7. CASE \E u \in Units : Record(u)
  BY <1>7, RecordInv
<1>8. CASE \E p \in Processes : Crash(p)
  BY <1>8, CrashInv
<1>9. CASE \E u \in Units : RecordFails(u)
  <2>1. \A u \in Units : owner[u] \in Processes
    BY DEF Inv, TypeOK
  <2>2. QED
    BY <1>9, <2>1, CrashInv DEF RecordFails
<1>10. CASE UNCHANGED vars
  BY <1>10 DEF Inv, vars, table, work, history, ExclusiveHandling,
     AttemptsAccounted, UnitsAgreeWithRows
<1>11. QED
  BY <1>1, <1>2, <1>3, <1>4, <1>5, <1>6, <1>7, <1>8, <1>9, <1>10 DEF Next

LEMMA InvCorrect == Spec => []Inv
  BY InitInv, InvStep, PTL DEF Spec

\* However many units and processes overlap, an event is in one pair of hands.
THEOREM ExclusiveHandlingCorrect == Spec => []ExclusiveHandling
<1>1. Inv => ExclusiveHandling
  BY DEF Inv
<1>2. QED
  BY <1>1, InvCorrect, PTL

\* Posts, retries and logs agree, and no event is posted more than
\* MaxRetries + 1 times.
THEOREM AttemptsAccountedCorrect == Spec => []AttemptsAccounted
<1>1. Inv => AttemptsAccounted
  BY DEF Inv
<1>2. QED
  BY <1>1, InvCorrect, PTL

\* The memory of every unit in flight agrees with the table.
THEOREM UnitsAgreeWithRowsCorrect == Spec => []UnitsAgreeWithRows
<1>1. Inv => UnitsAgreeWithRows
  BY DEF Inv
<1>2. QED
  BY <1>1, InvCorrect, PTL

-----------------------------------------------------------------------------
(* What a step may never do.                                               *)

\* Only a call of the unit that holds an event adds to its posts.
LEMMA OnlyCallsAttempt ==
  ASSUME Inv, [Next]_vars, NEW e \in Events, attempts'[e] # attempts[e]
  PROVE  \E u \in Units : Call(u) /\ e \in batch[u]
<1> USE DEF vars, table, work, history
<1>1. CASE \E u \in Units : Call(u)
  BY <1>1 DEF Call, Inv, TypeOK
<1>2. CASE ~ \E u \in Units : Call(u)
  <2>1. attempts' = attempts
    BY <1>2 DEF Next, Tick, Submit, PollSome, Poll, PollReplyLost, SettleSome,
       Settle, Record, RecordFails, Crash
  <2>2. QED
    BY <2>1
<1>3. QED
  BY <1>1, <1>2

\* An acknowledged event is never called again, crashes included.
THEOREM AckedNeverCalledAgainCorrect == Spec => AckedNeverCalledAgain
<1>1. ASSUME Inv, [Next]_vars, NEW e \in acked
      PROVE  attempts'[e] = attempts[e]
  <2>1. SUFFICES ASSUME NEW u \in Units, Call(u), e \in batch[u]
                 PROVE  FALSE
    BY <1>1, OnlyCallsAttempt DEF Inv, TypeOK
  <2>2. answer[u][e] = "none"
    BY <1>1, <2>1 DEF Inv, TypeOK, Call, UnitsAgreeWithRows
  <2>3. QED
    BY <1>1, <2>1, <2>2 DEF Inv, UnitsAgreeWithRows
<1>2. Inv /\ [Next]_vars => [\A e \in acked : attempts'[e] = attempts[e]]_vars
  BY <1>1
<1>3. QED
  BY <1>2, InvCorrect, PTL DEF Spec, AckedNeverCalledAgain

\* A task that has exhausted its retries stalls for good.
THEOREM StaleForeverCorrect == Spec => StaleForever
<1>1. ASSUME Inv, [Next]_vars, NEW e \in Events, Stale(e)
      PROVE  Stale(e)' /\ attempts'[e] = attempts[e]
  <2> USE <1>1 DEF Inv, TypeOK, Stale, vars, table, work, history
  <2>1. \A u \in Units : e \notin batch[u]
    BY DEF ExclusiveHandling
  <2>2. attempts'[e] = attempts[e]
    BY <2>1, OnlyCallsAttempt
  <2>3. \A B \in Batches : e \notin B
    BY BatchIsEligible DEF Eligible
  <2>4. status'[e] = status[e] /\ retries'[e] = retries[e]
    BY <2>1, <2>3 DEF Next, Tick, Submit, PollSome, Poll, PollReplyLost,
       MarkHandling, SettleSome, Settle, Call, Record, RecordFails, Crash
  <2>5. QED
    BY <2>2, <2>4
<1>2. Inv /\ [Next]_vars =>
        [\A e \in Events : Stale(e) => Stale(e)' /\ attempts'[e] = attempts[e]]_vars
  BY <1>1
<1>3. QED
  BY <1>2, InvCorrect, PTL DEF Spec, StaleForever

-----------------------------------------------------------------------------
(* Orphans.                                                                *)

LEMMA OrphanStep == Inv /\ OrphansNeedFault /\ [Next]_vars => OrphansNeedFault'
<1> SUFFICES ASSUME Inv, OrphansNeedFault, [Next]_vars, faults' = 0
             PROVE  Orphans' = {}
  BY DEF OrphansNeedFault
<1> USE DEF Inv, TypeOK, OrphansNeedFault, Orphans, vars, table, work, history
<1>1. ASSUME NEW u \in Units, Record(u)
      PROVE  Orphans' = {}
  BY <1>1 DEF Record, Drop, StatusAfter
<1>2. ASSUME NEW p \in Processes, NEW u \in Units, NEW B \in SUBSET Events,
             Poll(p, u, B)
      PROVE  Orphans' = {}
  <2>1. batch[u] = {}
    BY <1>2 DEF Poll, UnitsAgreeWithRows
  <2>2. QED
    BY <1>2, <2>1 DEF Poll, MarkHandling, history
<1>3. CASE Tick
  BY <1>3 DEF Tick
<1>4. CASE \E S \in SUBSET Events, at \in [Events -> 0 .. MaxTime] : Submit(S, at)
  BY <1>4 DEF Submit
<1>5. CASE \E u \in Units : Call(u) \/ SettleSome(u)
  BY <1>5 DEF Call, SettleSome, Settle
<1>6. CASE (\E B \in SUBSET Events : PollReplyLost(B)) \/ (\E p \in Processes : Crash(p))
           \/ (\E u \in Units : RecordFails(u))
  <2>1. faults' = faults + 1
    BY <1>6 DEF PollReplyLost, Crash, RecordFails
  <2>2. QED
    BY <2>1
<1>7. CASE UNCHANGED vars
  BY <1>7
<1>8. QED
  BY <1>1, <1>2, <1>3, <1>4, <1>5, <1>6, <1>7 DEF Next, PollSome

\* Without a crash or a lost reply no row is ever left behind.
THEOREM OrphansNeedFaultCorrect == Spec => []OrphansNeedFault
<1>1. Init => OrphansNeedFault
  BY DEF Init, OrphansNeedFault, Orphans
<1>2. QED
  BY <1>1, OrphanStep, InvCorrect, PTL DEF Spec

-----------------------------------------------------------------------------
(* The scheduler keeps the promise of TaskQueue.                           *)

LEMMA PromiseInit == Init => Queue!Init
  BY DEF Init, Queue!Init

LEMMA PromiseStep == Inv /\ [Next]_vars => [Queue!Next]_Queue!vars
<1> SUFFICES ASSUME Inv, [Next]_vars
             PROVE  Queue!Next \/ UNCHANGED Queue!vars
  OBVIOUS
<1> USE DEF Inv, TypeOK, vars, table, work, history, Queue!vars
<1>1. CASE Tick
  <2>1. Queue!Advance
    BY <1>1 DEF Tick, Queue!Advance
  <2>2. QED
    BY <2>1 DEF Queue!Next
<1>2. ASSUME NEW S \in SUBSET Events, NEW at \in [Events -> 0 .. MaxTime],
             Submit(S, at)
      PROVE  Queue!Next
  <2>1. Queue!Enqueue(S, at)
    BY <1>2 DEF Submit, Queue!Enqueue
  <2>2. QED
    BY <2>1 DEF Queue!Next
<1>3. ASSUME NEW B \in SUBSET Events, B \in Batches, MarkHandling(B),
             UNCHANGED <<now, retries, executeAt, acked>>
      PROVE  Queue!Next
  <2>1. \A e \in B : /\ status[e] = "pending"
                     /\ executeAt[e] <= now
                     /\ retries[e] <= MaxRetries
    BY <1>3, BatchIsEligible DEF Eligible
  <2>2. Queue!Begin(B)
    BY <1>3, <2>1 DEF MarkHandling, Queue!Begin
  <2>3. QED
    BY <2>2 DEF Queue!Next
<1>4. CASE PollSome
  BY <1>3, <1>4 DEF PollSome, Poll
<1>5. CASE \E B \in SUBSET Events : PollReplyLost(B)
  BY <1>3, <1>5 DEF PollReplyLost
<1>6. CASE \E u \in Units : Call(u)
  BY <1>6 DEF Call
<1>7. ASSUME NEW u \in Units, NEW e \in Events, NEW o \in Outcome, Settle(u, e, o)
      PROVE  Queue!Next \/ UNCHANGED Queue!vars
  <2>1. status[e] = "handling"
    BY <1>7 DEF Settle, ExclusiveHandling, UnitsAgreeWithRows
  <2>2. CASE o = "delivered"
    <3>1. Queue!Acknowledge(e)
      BY <1>7, <2>1, <2>2 DEF Settle, Queue!Acknowledge
    <3>2. QED
      BY <3>1 DEF Queue!Next
  <2>3. CASE o # "delivered"
    BY <1>7, <2>3 DEF Settle
  <2>4. QED
    BY <2>2, <2>3
<1>8. ASSUME NEW u \in Units, Record(u)
      PROVE  Queue!Next
  <2>1. \A e \in batch[u] : /\ status[e] = "handling"
                            /\ e \in acked <=> answer[u][e] = "delivered"
    BY DEF ExclusiveHandling, UnitsAgreeWithRows
  <2>2. PICK S \in SUBSET Events : S = batch[u]
    OBVIOUS
  <2>3. Queue!Finish(S)
    BY <1>8, <2>1, <2>2 DEF Record, StatusAfter, RetriesAfter, Queue!Finish
  <2>4. QED
    BY <2>3 DEF Queue!Next
<1>9. CASE (\E p \in Processes : Crash(p)) \/ (\E u \in Units : RecordFails(u))
  BY <1>9 DEF Crash, RecordFails
<1>10. CASE UNCHANGED vars
  BY <1>10
<1>11. QED
  BY <1>1, <1>2, <1>4, <1>5, <1>6, <1>7, <1>8, <1>9, <1>10 DEF Next, SettleSome

\* Every behaviour of the workers, crashes included, is one of TaskQueue.
THEOREM PromiseKept == Spec => Promise
  BY PromiseInit, PromiseStep, InvCorrect, PTL DEF Spec, Promise, Queue!Spec

-----------------------------------------------------------------------------
(* The scheduler and the messaging side together: whatever the composition *)
(* does is a step of the scheduler and a step of the messaging side, so    *)
(* that what is proved of either holds of the two together.                *)

JobProofs == INSTANCE MessageJobProofs WITH
  Jobs <- Events, Requests <- Calls, JobOf <- [c \in Calls |-> c[1]]

LEMMA AssumptionFits == JobProofs!JobAssumption
<1>1. IsFiniteSet(Calls)
  <2>1. IsFiniteSet(1 .. MaxRetries + 1)
    BY FS_Interval
  <2> QED
    BY <2>1, FS_Product, DeliveryAssumption DEF Calls
<1>2. JobProofs!IsFiniteSet(Calls)
  BY <1>1 DEF IsFiniteSet, JobProofs!IsFiniteSet
<1>3. [c \in Calls |-> c[1]] \in [Calls -> Events]
  BY DEF Calls
<1> QED
  BY <1>2, <1>3, DeliveryAssumption DEF JobProofs!JobAssumption

\* JobProofs names the definitions of the instance Messaging once more.
LEMMA JobStatesSame ==
  /\ Messaging!JobInit <=> JobProofs!JobInit
  /\ Messaging!jobVars = JobProofs!jobVars
BY DEF Messaging!JobInit, JobProofs!JobInit, Messaging!jobVars,
   JobProofs!jobVars, Messaging!rows, JobProofs!rows, Messaging!handler,
   JobProofs!handler, Messaging!history, JobProofs!history, Messaging!observed,
   JobProofs!observed

LEMMA CountsSame ==
  ASSUME NEW S
  PROVE  Messaging!Cardinality(S) = JobProofs!Cardinality(S)
BY DEF Messaging!Cardinality, JobProofs!Cardinality

LEMMA InUseSame == Messaging!InUse = JobProofs!InUse
BY CountsSame
DEF Messaging!InUse, JobProofs!InUse, Messaging!Holding, JobProofs!Holding

LEMMA FreeSame == Messaging!Free <=> JobProofs!Free
BY InUseSame DEF Messaging!Free, JobProofs!Free

LEMMA JobStepsSame ==
  ASSUME NEW c \in Calls
  PROVE  Messaging!HandlerStep(c) <=> JobProofs!HandlerStep(c)
<1> USE DEF Messaging!Goto, JobProofs!Goto, Messaging!rows, JobProofs!rows,
        Messaging!handler, JobProofs!handler, Messaging!history,
        JobProofs!history, Messaging!observed, JobProofs!observed,
        Messaging!Unlocked, JobProofs!Unlocked
<1>1. /\ Messaging!Connect(c) <=> JobProofs!Connect(c)
      /\ Messaging!Select(c) <=> JobProofs!Select(c)
      /\ Messaging!LogMissing(c) <=> JobProofs!LogMissing(c)
      /\ Messaging!LogPending(c) <=> JobProofs!LogPending(c)
  BY FreeSame DEF Messaging!Connect, JobProofs!Connect, Messaging!Select,
     JobProofs!Select, Messaging!LogMissing, JobProofs!LogMissing,
     Messaging!LogPending, JobProofs!LogPending, Messaging!Found,
     JobProofs!Found
<1>2. /\ Messaging!Claim(c) <=> JobProofs!Claim(c)
      /\ Messaging!Unwind(c) <=> JobProofs!Unwind(c)
      /\ Messaging!Open(c) <=> JobProofs!Open(c)
      /\ Messaging!Deliver(c) <=> JobProofs!Deliver(c)
  BY FreeSame DEF Messaging!Claim, JobProofs!Claim, Messaging!Unwind,
     JobProofs!Unwind, Messaging!Open, JobProofs!Open, Messaging!Deliver,
     JobProofs!Deliver, Messaging!SendCommit, JobProofs!SendCommit
<1>3. /\ Messaging!OpenTransports(c) <=> JobProofs!OpenTransports(c)
      /\ Messaging!GetProfile(c) <=> JobProofs!GetProfile(c)
      /\ Messaging!Send(c) <=> JobProofs!Send(c)
      /\ Messaging!SkipTransports(c) <=> JobProofs!SkipTransports(c)
  BY FreeSame DEF Messaging!OpenTransports, JobProofs!OpenTransports,
     Messaging!GetProfile, JobProofs!GetProfile, Messaging!Send,
     JobProofs!Send, Messaging!SkipTransports, JobProofs!SkipTransports,
     Messaging!AfterTransports, JobProofs!AfterTransports
<1>4. /\ Messaging!SendFails(c) <=> JobProofs!SendFails(c)
      /\ Messaging!EmailLog(c) <=> JobProofs!EmailLog(c)
      /\ Messaging!MarkFailed(c) <=> JobProofs!MarkFailed(c)
      /\ Messaging!LastLog(c) <=> JobProofs!LastLog(c)
  BY FreeSame DEF Messaging!SendFails, JobProofs!SendFails,
     Messaging!EmailLog, JobProofs!EmailLog, Messaging!MarkFailed,
     JobProofs!MarkFailed, Messaging!LastLog, JobProofs!LastLog,
     Messaging!AfterTransports, JobProofs!AfterTransports, Messaging!AnswerOf,
     JobProofs!AnswerOf
<1> QED
  BY <1>1, <1>2, <1>3, <1>4 DEF Messaging!HandlerStep, JobProofs!HandlerStep

LEMMA JobFaultsSame ==
  /\ \A c \in Calls : Messaging!HandlerFault(c) <=> JobProofs!HandlerFault(c)
  /\ \A S \in SUBSET Events : Messaging!JobCrash(S) <=> JobProofs!JobCrash(S)
  /\ \A e \in Events : Messaging!CommitLands(e) <=> JobProofs!CommitLands(e)
<1> USE DEF Messaging!Goto, JobProofs!Goto, Messaging!Fault, JobProofs!Fault,
        Messaging!rows, JobProofs!rows, Messaging!handler, JobProofs!handler,
        Messaging!history, JobProofs!history, Messaging!observed,
        JobProofs!observed, Messaging!Unlocked, JobProofs!Unlocked
<1>1. ASSUME NEW c \in Calls
      PROVE  /\ Messaging!ClaimFails(c) <=> JobProofs!ClaimFails(c)
             /\ Messaging!ConnectFails(c) <=> JobProofs!ConnectFails(c)
             /\ Messaging!GetProfileFails(c) <=> JobProofs!GetProfileFails(c)
             /\ Messaging!MarkFailedFails(c) <=> JobProofs!MarkFailedFails(c)
  BY DEF Messaging!ClaimFails, JobProofs!ClaimFails, Messaging!ConnectFails,
     JobProofs!ConnectFails, Messaging!GetProfileFails,
     JobProofs!GetProfileFails, Messaging!MarkFailedFails,
     JobProofs!MarkFailedFails
<1>2. ASSUME NEW c \in Calls, NEW known \in BOOLEAN
      PROVE  Messaging!DeliverFails(c, known) <=> JobProofs!DeliverFails(c, known)
  BY DEF Messaging!DeliverFails, JobProofs!DeliverFails
<1>3. ASSUME NEW S \in SUBSET Events
      PROVE  Messaging!JobCrash(S) <=> JobProofs!JobCrash(S)
  BY DEF Messaging!JobCrash, JobProofs!JobCrash, Messaging!Live, JobProofs!Live
<1>4. ASSUME NEW e \in Events
      PROVE  Messaging!CommitLands(e) <=> JobProofs!CommitLands(e)
  BY DEF Messaging!CommitLands, JobProofs!CommitLands
<1> QED
  BY <1>1, <1>2, <1>3, <1>4 DEF Messaging!HandlerFault, JobProofs!HandlerFault

LEMMA ArrivalsSame ==
  ASSUME NEW c \in Calls
  PROVE  Messaging!Arrive(c) <=> JobProofs!Arrive(c)
BY DEF Messaging!Arrive, JobProofs!Arrive, Messaging!Goto, JobProofs!Goto,
   Messaging!rows, JobProofs!rows, Messaging!history, JobProofs!history,
   Messaging!observed, JobProofs!observed

LEMMA JobSpecSame == Messaging!JobSpec <=> JobProofs!JobSpec
<1>1. Messaging!JobNext <=> JobProofs!JobNext
  BY JobStepsSame, JobFaultsSame, ArrivalsSame
  DEF Messaging!JobNext, JobProofs!JobNext
<1>2. [Messaging!JobNext]_Messaging!jobVars <=> [JobProofs!JobNext]_JobProofs!jobVars
  BY <1>1 DEF Messaging!jobVars, JobProofs!jobVars, Messaging!rows, JobProofs!rows,
     Messaging!handler, JobProofs!handler, Messaging!history, JobProofs!history,
     Messaging!observed, JobProofs!observed
<1> QED
  BY <1>2, JobStatesSame, PTL DEF Messaging!JobSpec, JobProofs!JobSpec

-----------------------------------------------------------------------------
LEMMA SchedulerSide == DeliveryNext => [Next]_vars
<1> SUFFICES ASSUME DeliveryNext
             PROVE  Next \/ UNCHANGED vars
  OBVIOUS
<1>1. CASE SchedulerStep
  BY <1>1 DEF SchedulerStep, Next
<1>2. CASE ArriveSome \/ MessagingStep
  BY <1>2 DEF ArriveSome, MessagingStep
<1>3. ASSUME NEW u \in Units, SettleCall(u)
      PROVE  SettleSome(u)
  BY <1>3 DEF SettleCall, AnswerCall, TimeOutCall, ResultOf, SettleSome, Outcome
<1> QED
  BY <1>1, <1>2, <1>3 DEF DeliveryNext, Next

\* Seen from the tables of the scheduler, the composition is a run of the
\* scheduler: the messaging side decides its answers and nothing else.
THEOREM DeliveryRunsScheduler == DeliverySpec => Spec
<1>1. DeliveryInit => Init
  BY DEF DeliveryInit
<1>2. [DeliveryNext]_allVars => [Next]_vars
  BY SchedulerSide DEF allVars
<1> QED
  BY <1>1, <1>2, PTL DEF DeliverySpec, Spec

LEMMA MessagingSide == DeliveryNext => [Messaging!JobNext]_Messaging!jobVars
<1> SUFFICES ASSUME DeliveryNext
             PROVE  Messaging!JobNext \/ UNCHANGED Messaging!jobVars
  OBVIOUS
<1> USE DEF jobVars, Messaging!jobVars, Messaging!rows, Messaging!handler,
        Messaging!history, Messaging!observed
<1>1. CASE SchedulerStep
  BY <1>1 DEF SchedulerStep
<1>2. CASE ArriveSome
  BY <1>2 DEF ArriveSome, Messaging!JobNext, Calls
<1>3. CASE \E u \in Units : SettleCall(u)
  BY <1>3 DEF SettleCall, AnswerCall, TimeOutCall
<1>4. CASE MessagingStep
  BY <1>4 DEF MessagingStep, Messaging!JobNext
<1> QED
  BY <1>1, <1>2, <1>3, <1>4 DEF DeliveryNext

\* Seen from the jobs and the requests, the composition is a run of the
\* messaging side: the scheduler decides which requests arrive, and nothing
\* else.
THEOREM DeliveryRunsMessaging == DeliverySpec => Messaging!JobSpec
<1>1. DeliveryInit => Messaging!JobInit
  BY DEF DeliveryInit
<1>2. [DeliveryNext]_allVars => [Messaging!JobNext]_Messaging!jobVars
  BY MessagingSide DEF allVars, jobVars, Messaging!jobVars, Messaging!rows,
     Messaging!handler, Messaging!history, Messaging!observed
<1> QED
  BY <1>1, <1>2, PTL DEF DeliverySpec, Messaging!JobSpec

\* Nobody claims a job that was 'working' or 'delivered' when read.
ClaimsWereOpen == \A c \in Calls : pc[c] = "claim" => seen[c] \in {"pending", "failed"}

\* As long as nothing failed, a request stands behind a claim on its way.
Delivering == {"claimed", "deliver"}
ClaimsInHand ==
  jobFaults = 0 =>
    \A e \in Events : commit[e] = "working" =>
      \E c \in Calls : c[1] = e /\ pc[c] \in Delivering

\* What the proofs below take from the two sides.
Sides ==
  /\ Inv
  /\ Messaging!JobTypeOK
  /\ Messaging!AcceptedMeansInMailbox
  /\ Messaging!SecondEmailNeedsCause
  /\ ClaimsWereOpen
  /\ ClaimsInHand

LEMMA SidesHold == DeliverySpec => []Sides
<1>1. Messaging!JobSpec => []Messaging!JobTypeOK
  <2>1. JobProofs!JobTypeOK => Messaging!JobTypeOK
    BY InUseSame DEF JobProofs!JobTypeOK, Messaging!JobTypeOK, JobProofs!JobStatus,
       Messaging!JobStatus, JobProofs!Steps, Messaging!Steps, JobProofs!Holding,
       Messaging!Holding
  <2> QED
    BY <2>1, JobProofs!JobTypeCorrect, JobSpecSame, AssumptionFits, PTL
<1>2. Messaging!JobSpec => []Messaging!AcceptedMeansInMailbox
  <2>1. JobProofs!AcceptedMeansInMailbox => Messaging!AcceptedMeansInMailbox
    BY DEF JobProofs!AcceptedMeansInMailbox, Messaging!AcceptedMeansInMailbox,
       JobProofs!HandedOver, Messaging!HandedOver
  <2> QED
    BY <2>1, JobProofs!AcceptedMeansInMailboxCorrect, JobSpecSame, AssumptionFits, PTL
<1>3. Messaging!JobSpec => []Messaging!SecondEmailNeedsCause
  <2>1. JobProofs!SecondEmailNeedsCause => Messaging!SecondEmailNeedsCause
    BY DEF JobProofs!SecondEmailNeedsCause, Messaging!SecondEmailNeedsCause
  <2> QED
    BY <2>1, JobProofs!SecondEmailNeedsCauseCorrect, JobSpecSame, AssumptionFits, PTL
<1>4. Messaging!JobSpec => [](ClaimsWereOpen /\ ClaimsInHand)
  <2>1. JobProofs!CauseInv => ClaimsWereOpen
    BY DEF JobProofs!CauseInv, JobProofs!ReadAsSeen, ClaimsWereOpen
  <2>2. JobProofs!CauseInv => ClaimsInHand
    BY DEF JobProofs!CauseInv, JobProofs!NoFaultNoError, ClaimsInHand, Delivering
  <2> QED
    BY <2>1, <2>2, JobProofs!CauseCorrect, JobSpecSame, AssumptionFits, PTL
<1> QED
  BY <1>1, <1>2, <1>3, <1>4, InvCorrect, DeliveryRunsScheduler, DeliveryRunsMessaging, PTL
  DEF Sides

-----------------------------------------------------------------------------
(* An acknowledgement is worth what the messaging side answered.           *)

AckedHandedOver == \A e \in acked : Messaging!HandedOver(e)

\* What one step of a request leaves alone and what it does to its own job.
LEMMA OwnRow ==
  ASSUME Messaging!JobTypeOK, NEW c \in Calls,
         Messaging!HandlerStep(c) \/ Messaging!HandlerFault(c)
  PROVE  /\ mailbox' = mailbox /\ lostCommits' = lostCommits
         /\ \A e \in Events : commit[e] # "none" =>
              commit'[e] = commit[e] /\ job'[e] = job[e]
         /\ \A e \in Events \ {c[1]} : commit'[e] = commit[e] /\ job'[e] = job[e]
         /\ commit'[c[1]] # commit[c[1]] =>
              \/ pc[c] = "claim" /\ pc'[c] = "claimed" /\ commit'[c[1]] = "working"
              \/ pc[c] = "deliver" /\ commit'[c[1]] = "delivered"
         /\ pc'[c] = "claimed" => pc[c] = "claim" /\ commit'[c[1]] = "working"
         /\ pc'[c] = "deliver" => pc[c] = "claimed"
         /\ job'[c[1]] # job[c[1]] => pc[c] = "markFailed"
<1> USE DEF Messaging!JobTypeOK, Messaging!Goto, Messaging!Fault, Messaging!rows,
        Messaging!handler, Messaging!history, Messaging!observed
<1>0. c[1] \in Events /\ [d \in Calls |-> d[1]][c] = c[1]
  BY DEF Calls
<1>1. CASE Messaging!Connect(c) \/ Messaging!Select(c) \/ Messaging!LogMissing(c)
           \/ Messaging!LogPending(c)
  BY <1>0, <1>1 DEF Messaging!Connect, Messaging!Select, Messaging!LogMissing,
     Messaging!LogPending
<1>2. CASE Messaging!Claim(c) \/ Messaging!Deliver(c)
  BY <1>0, <1>2 DEF Messaging!Claim, Messaging!Deliver, Messaging!SendCommit,
     Messaging!Unlocked
<1>3. CASE Messaging!Unwind(c) \/ Messaging!Open(c)
  BY <1>0, <1>3 DEF Messaging!Unwind, Messaging!Open
<1>4. CASE Messaging!OpenTransports(c) \/ Messaging!GetProfile(c) \/ Messaging!Send(c)
           \/ Messaging!SkipTransports(c)
  BY <1>0, <1>4 DEF Messaging!OpenTransports, Messaging!GetProfile, Messaging!Send,
     Messaging!SkipTransports, Messaging!AfterTransports
<1>5. CASE Messaging!SendFails(c) \/ Messaging!EmailLog(c) \/ Messaging!LastLog(c)
  BY <1>0, <1>5 DEF Messaging!SendFails, Messaging!EmailLog, Messaging!LastLog,
     Messaging!AfterTransports
<1>6. CASE Messaging!MarkFailed(c)
  BY <1>0, <1>6 DEF Messaging!MarkFailed, Messaging!Unlocked
<1>7. CASE Messaging!HandlerFault(c)
  BY <1>0, <1>7 DEF Messaging!HandlerFault, Messaging!ClaimFails,
     Messaging!DeliverFails, Messaging!ConnectFails, Messaging!GetProfileFails,
     Messaging!MarkFailedFails
<1> QED
  BY <1>1, <1>2, <1>3, <1>4, <1>5, <1>6, <1>7 DEF Messaging!HandlerStep

\* The two steps of the messaging side that no request takes.
LEMMA CrashRow ==
  ASSUME Messaging!JobTypeOK, NEW S \in SUBSET Events, Messaging!JobCrash(S)
  PROVE  /\ jobFaults' = jobFaults + 1
         /\ UNCHANGED <<job, mailbox, seen, failed, code, staleClaims, emails>>
         /\ \A e \in Events :
              \/ commit'[e] = commit[e] /\ (e \in lostCommits' <=> e \in lostCommits)
              \/ /\ commit[e] # "none" /\ commit'[e] = "none"
                 /\ e \in lostCommits' <=> (e \in lostCommits \/ commit[e] = "delivered")
         /\ \A c \in Calls : pc'[c] \in {"idle", "done", "dead"}
         /\ \A c \in Calls : pc[c] \in {"idle", "done", "dead"} => pc'[c] = pc[c]
         /\ \A c \in Calls : pc'[c] = "idle" => pc[c] = "idle"
BY DEF Messaging!JobTypeOK, Messaging!JobCrash, Messaging!Live, Messaging!Fault,
   Messaging!Unlocked

LEMMA LandedRow ==
  ASSUME Messaging!JobTypeOK, NEW e \in Events, Messaging!CommitLands(e)
  PROVE  /\ commit[e] \in {"working", "delivered"}
         /\ job'[e] = commit[e] /\ commit'[e] = "none"
         /\ e \in mailbox' <=> (e \in mailbox \/ commit[e] = "delivered")
         /\ \A f \in Events \ {e} : /\ job'[f] = job[f] /\ commit'[f] = commit[f]
                                    /\ f \in mailbox' <=> f \in mailbox
         /\ UNCHANGED <<pc, seen, carry, failed, code, emails, staleClaims,
                        lostCommits, jobFaults>>
BY DEF Messaging!JobTypeOK, Messaging!CommitLands, Messaging!Unlocked,
   Messaging!handler, Messaging!history, Messaging!observed

\* What is in the mailbox or was handed over stays so, whatever happens.
LEMMA HandedOverStays ==
  ASSUME Messaging!JobTypeOK, [DeliveryNext]_allVars, NEW e \in Events
  PROVE  /\ e \in mailbox => e \in mailbox'
         /\ Messaging!HandedOver(e) => Messaging!HandedOver(e)'
<1> USE DEF Messaging!HandedOver
<1>1. CASE SchedulerStep \/ (\E u \in Units : SettleCall(u)) \/ UNCHANGED allVars
  BY <1>1 DEF SchedulerStep, SettleCall, AnswerCall, TimeOutCall, allVars, jobVars
<1>2. CASE ArriveSome
  BY <1>2 DEF ArriveSome, Messaging!Arrive, Messaging!rows, Messaging!history,
     Messaging!observed
<1>3. ASSUME NEW c \in Calls, Messaging!HandlerStep(c) \/ Messaging!HandlerFault(c)
      PROVE  /\ e \in mailbox => e \in mailbox'
             /\ Messaging!HandedOver(e) => Messaging!HandedOver(e)'
  BY <1>3, OwnRow
<1>4. ASSUME NEW f \in Events, Messaging!CommitLands(f)
      PROVE  /\ e \in mailbox => e \in mailbox'
             /\ Messaging!HandedOver(e) => Messaging!HandedOver(e)'
  BY <1>4, LandedRow
<1>5. ASSUME NEW S \in SUBSET Events, Messaging!JobCrash(S)
      PROVE  /\ e \in mailbox => e \in mailbox'
             /\ Messaging!HandedOver(e) => Messaging!HandedOver(e)'
  BY <1>5, CrashRow
<1> QED
  BY <1>1, <1>2, <1>3, <1>4, <1>5 DEF DeliveryNext, MessagingStep

LEMMA AckedStep == Sides /\ AckedHandedOver /\ [DeliveryNext]_allVars => AckedHandedOver'
<1> SUFFICES ASSUME Sides, AckedHandedOver, [DeliveryNext]_allVars
             PROVE  AckedHandedOver'
  OBVIOUS
<1> USE DEF AckedHandedOver, history
<1>0. acked \in SUBSET Events
  BY DEF Sides, Inv, TypeOK
<1>1. \A e \in Events : Messaging!HandedOver(e) => Messaging!HandedOver(e)'
  BY HandedOverStays DEF Sides
<1>2. CASE SchedulerStep
  <2>1. acked' = acked
    BY <1>2 DEF SchedulerStep, Tick, Submit, PollSome, Poll, PollReplyLost, Call,
       Record, RecordFails, Crash
  <2> QED
    BY <1>0, <1>1, <2>1
<1>3. CASE ArriveSome \/ MessagingStep \/ UNCHANGED allVars
  BY <1>0, <1>1, <1>3 DEF ArriveSome, MessagingStep, allVars, vars
<1>4. ASSUME NEW u \in Units, NEW e \in Events, AnswerCall(u, e)
      PROVE  AckedHandedOver'
  <2>1. PICK n \in 1 .. MaxRetries + 1 : Settle(u, e, ResultOf(<<e, n>>))
    BY <1>4 DEF AnswerCall
  <2>2. <<e, n>> \in Calls
    BY DEF Calls
  <2>3. code[<<e, n>>] = 202 => Messaging!HandedOver(e)
    BY <2>2 DEF Sides, Messaging!AcceptedMeansInMailbox
  <2> QED
    BY <1>0, <1>1, <2>1, <2>3 DEF Settle, ResultOf
<1>5. ASSUME NEW u \in Units, NEW e \in Events, TimeOutCall(u, e)
      PROVE  AckedHandedOver'
  BY <1>0, <1>1, <1>5 DEF TimeOutCall, Settle
<1> QED
  BY <1>2, <1>3, <1>4, <1>5 DEF DeliveryNext, SettleCall

\* Whatever timed out, crashed or raced on the way, an event the scheduler
\* gives up as delivered has its message in the mailbox or had it handed to a
\* COMMIT that is still on its way or was lost with the process.
THEOREM DeliveredEventInMailboxCorrect == DeliverySpec => []DeliveredEventInMailbox
<1>1. DeliveryInit => AckedHandedOver
  BY DEF DeliveryInit, Init, AckedHandedOver
<1>2. Sides /\ AckedHandedOver => DeliveredEventInMailbox
  BY DEF Sides, Inv, UnitsAgreeWithRows, AckedHandedOver, DeliveredEventInMailbox
<1> QED
  BY <1>1, <1>2, AckedStep, SidesHold, PTL DEF DeliverySpec

-----------------------------------------------------------------------------
(* As long as no call of an event is recorded as timed out, its requests   *)
(* come one after the other: the scheduler posts the next one only when    *)
(* the last one is over.  A COMMIT the last one sent may still be on its   *)
(* way then, but without a failure nobody claims the job over a stale read.*)

Over == {"done", "dead"}
NeverTimedOut(e) == logs[e]["timeout"] = 0
Answered(e) == \A c \in Calls : c[1] = e /\ c[2] <= attempts[e] => pc[c] \in Over

PostsFollowCalls == \A c \in Calls : pc[c] # "idle" => c[2] <= attempts[c[1]]

OneAfterTheOther ==
  \A e \in Events : NeverTimedOut(e) =>
    /\ \A c \in Calls : c[1] = e /\ c[2] < attempts[e] => pc[c] \in Over
    /\ status[e] \in {"absent", "pending"} => Answered(e)
    /\ \A u \in Units :
         /\ phase[u] = "picked" /\ e \in batch[u] => Answered(e)
         /\ answer[u][e] \in {"delivered", "error"} => Answered(e)

\* The job is 'working', and nobody works on it or is about to claim it.
Shut(e) ==
  /\ job[e] = "working"
  /\ \A c \in Calls : c[1] = e =>
       /\ pc[c] \notin Messaging!Past
       /\ pc[c] \in {"logPending", "claim"} => seen[c] = "working"

CommitInTurn(e) ==
  /\ commit[e] = "delivered" => job[e] = "working"
  /\ e \in lostCommits => Shut(e) \/ e \in mailbox
  /\ \A c \in Calls : c[1] = e =>
       /\ pc[c] \in Delivering =>
            commit[e] = "working" \/ (commit[e] = "none" /\ job[e] = "working")
       /\ pc[c] = "logPending" /\ seen[c] = "working" =>
            job[e] = "working" \/ e \in mailbox

ReadIsFresh(e) ==
  jobFaults = 0 =>
    /\ e \notin staleClaims
    /\ \A c \in Calls :
         c[1] = e /\ pc[c] \in {"logPending", "claim"} /\ seen[c] # "working" =>
           seen[c] = job[e] /\ commit[e] = "none"

RowsInTurn ==
  \A e \in Events : NeverTimedOut(e) => CommitInTurn(e) /\ ReadIsFresh(e)

InTurn == PostsFollowCalls /\ OneAfterTheOther /\ RowsInTurn

LEMMA CallsArePairs ==
  \A c \in Calls : c[1] \in Events /\ c[2] \in Nat /\ c = <<c[1], c[2]>>
BY DEF Calls

\* A request that is not over is the only one of its event at work.
AtWork(c) == pc[c] \notin Over \union {"idle"}
LEMMA OneAtWork ==
  ASSUME Sides, InTurn, NEW c \in Calls, NEW d \in Calls,
         AtWork(c), AtWork(d), c[1] = d[1], NeverTimedOut(c[1])
  PROVE  c = d
<1>1. attempts[c[1]] \in Nat
  BY CallsArePairs DEF Sides, Inv, TypeOK
<1>2. c[2] = attempts[c[1]] /\ d[2] = attempts[d[1]]
  BY <1>1, CallsArePairs DEF InTurn, PostsFollowCalls, OneAfterTheOther, AtWork, Over
<1> QED
  BY <1>2, CallsArePairs

\* What one step of a request leaves alone: every other request, every job
\* but its own, and the requests that are over or have not arrived.
LEMMA RequestStep ==
  ASSUME Messaging!JobTypeOK, NEW c \in Calls,
         Messaging!HandlerStep(c) \/ Messaging!HandlerFault(c)
  PROVE  /\ AtWork(c)
         /\ pc'[c] # "idle"
         /\ \A d \in Calls \ {c} : pc'[d] = pc[d] /\ seen'[d] = seen[d]
         /\ \A e \in Events \ {c[1]} :
              job'[e] = job[e] /\ (e \in staleClaims' => e \in staleClaims)
         /\ pc'[c] \in {"logPending", "claim"} =>
              \/ pc[c] = "select" /\ seen'[c] = job[c[1]]
              \/ pc[c] = "logPending" /\ seen'[c] = seen[c] /\ seen[c] # "working"
         /\ jobFaults \in Nat /\ jobFaults' \in {jobFaults, jobFaults + 1}
         /\ pc[c] \notin Messaging!Past /\ pc'[c] \in Messaging!Past => pc[c] = "claim"
         /\ c[1] \in staleClaims' =>
              c[1] \in staleClaims \/ (pc[c] = "claim" /\ seen[c] # job[c[1]])
<1> USE DEF Messaging!JobTypeOK, Messaging!Goto, Messaging!Fault, Messaging!rows,
        Messaging!handler, Messaging!history, Messaging!observed, Messaging!Past,
        AtWork, Over
<1>0. c[1] \in Events /\ [d \in Calls |-> d[1]][c] = c[1]
  BY DEF Calls
<1>1. CASE Messaging!Connect(c) \/ Messaging!Select(c) \/ Messaging!LogMissing(c)
           \/ Messaging!LogPending(c)
  BY <1>0, <1>1 DEF Messaging!Connect, Messaging!Select, Messaging!Found,
     Messaging!LogMissing, Messaging!LogPending
<1>2. CASE Messaging!Claim(c) \/ Messaging!Unwind(c) \/ Messaging!Open(c)
           \/ Messaging!Deliver(c)
  BY <1>0, <1>2 DEF Messaging!Claim, Messaging!Unwind, Messaging!Open,
     Messaging!Deliver, Messaging!SendCommit
<1>3. CASE Messaging!OpenTransports(c) \/ Messaging!GetProfile(c) \/ Messaging!Send(c)
           \/ Messaging!SkipTransports(c)
  BY <1>0, <1>3 DEF Messaging!OpenTransports, Messaging!GetProfile, Messaging!Send,
     Messaging!SkipTransports, Messaging!AfterTransports
<1>4. CASE Messaging!SendFails(c) \/ Messaging!EmailLog(c) \/ Messaging!MarkFailed(c)
           \/ Messaging!LastLog(c)
  BY <1>0, <1>4 DEF Messaging!SendFails, Messaging!EmailLog, Messaging!MarkFailed,
     Messaging!LastLog, Messaging!AfterTransports
<1>5. CASE Messaging!HandlerFault(c)
  BY <1>0, <1>5 DEF Messaging!HandlerFault, Messaging!ClaimFails,
     Messaging!DeliverFails, Messaging!ConnectFails, Messaging!GetProfileFails,
     Messaging!MarkFailedFails
<1> QED
  BY <1>1, <1>2, <1>3, <1>4, <1>5 DEF Messaging!HandlerStep

\* A step of the messaging side that ends nothing disturbs nothing, as far as
\* the scheduler's posts are concerned.
LEMMA OthersInTurn ==
  ASSUME Sides, InTurn, UNCHANGED vars,
         \A c \in Calls : /\ pc[c] \in Over => pc'[c] \in Over
                          /\ pc'[c] # "idle" => c[2] <= attempts[c[1]]
  PROVE  PostsFollowCalls' /\ OneAfterTheOther'
BY DEF InTurn, PostsFollowCalls, OneAfterTheOther, Answered, NeverTimedOut, vars,
   table, work, history

\* A job that is shut stays so until its message is in the mailbox.
LEMMA ShutStays ==
  ASSUME Sides, ArriveSome \/ MessagingStep, NEW e \in Events,
         Shut(e) \/ e \in mailbox
  PROVE  Shut(e)' \/ e \in mailbox'
<1>t. Messaging!JobTypeOK
  BY DEF Sides
<1>1. CASE e \in mailbox
  BY <1>1, <1>t, HandedOverStays DEF DeliveryNext
<1> SUFFICES ASSUME Shut(e)
             PROVE  Shut(e)' \/ e \in mailbox'
  BY <1>1
<1>2. ASSUME NEW c \in Calls, Messaging!HandlerStep(c) \/ Messaging!HandlerFault(c)
      PROVE  Shut(e)'
  <2>1. \A d \in Calls \ {c} : pc'[d] = pc[d] /\ seen'[d] = seen[d]
    BY <1>2, <1>t, RequestStep
  <2>2. CASE e = c[1]
    <3>1. pc[c] \notin Messaging!Past /\ pc[c] # "markFailed" /\ pc[c] # "claim"
      BY <2>2 DEF Shut, Sides, ClaimsWereOpen, Messaging!Past
    <3>2. job'[e] = "working" /\ pc'[c] \notin Messaging!Past
      BY <1>2, <1>t, <2>2, <3>1, OwnRow, RequestStep DEF Shut
    <3>3. pc'[c] \in {"logPending", "claim"} => seen'[c] = "working"
      BY <1>2, <1>t, <2>2, RequestStep DEF Shut
    <3> QED
      BY <2>1, <3>2, <3>3 DEF Shut
  <2>3. CASE e # c[1]
    <3>1. job'[e] = job[e]
      BY <1>2, <1>t, <2>3, OwnRow
    <3> QED
      BY <2>1, <2>3, <3>1 DEF Shut
  <2> QED
    BY <2>2, <2>3
<1>3. ASSUME NEW f \in Events, Messaging!CommitLands(f)
      PROVE  Shut(e)' \/ e \in mailbox'
  <2>1. (job'[e] = "working" \/ e \in mailbox') /\ UNCHANGED <<pc, seen>>
    BY <1>3, <1>t, LandedRow DEF Shut
  <2> QED
    BY <2>1 DEF Shut
<1>4. ASSUME NEW S \in SUBSET Events, Messaging!JobCrash(S)
      PROVE  Shut(e)'
  BY <1>4, <1>t, CrashRow DEF Shut, Messaging!Past
<1>5. CASE ArriveSome
  <2>1. UNCHANGED <<job, seen>>
    BY <1>5 DEF ArriveSome, Messaging!Arrive, Messaging!rows
  <2>2. \A c \in Calls : pc'[c] = pc[c] \/ pc'[c] = "queued"
    BY <1>5, <1>t DEF ArriveSome, Messaging!Arrive, Messaging!Goto, Messaging!JobTypeOK
  <2> QED
    BY <2>1, <2>2 DEF Shut, Messaging!Past
<1> QED
  BY <1>2, <1>3, <1>4, <1>5 DEF MessagingStep

\* A request changes its own row only, and is the only one at work on it.
LEMMA RequestRowsInTurn ==
  ASSUME Sides, InTurn, MessagingStep, NEW c \in Calls,
         Messaging!HandlerStep(c) \/ Messaging!HandlerFault(c)
  PROVE  RowsInTurn'
<1>t. Messaging!JobTypeOK
  BY DEF Sides
<1>1. SUFFICES ASSUME NEW e \in Events, NeverTimedOut(e)'
               PROVE  CommitInTurn(e)' /\ ReadIsFresh(e)'
  BY DEF RowsInTurn
<1>2. NeverTimedOut(e)
  BY <1>1 DEF MessagingStep, NeverTimedOut, vars, table
<1>3. CommitInTurn(e) /\ ReadIsFresh(e)
  BY <1>2 DEF InTurn, RowsInTurn
<1>4. /\ jobFaults' = 0 => jobFaults = 0
      /\ mailbox' = mailbox /\ lostCommits' = lostCommits
      /\ \A d \in Calls \ {c} : pc'[d] = pc[d] /\ seen'[d] = seen[d]
      /\ AtWork(c)
  BY <1>t, OwnRow, RequestStep
<1>5. e \in lostCommits' => Shut(e)' \/ e \in mailbox'
  BY <1>3, <1>4, ShutStays DEF CommitInTurn
<1>6. CASE e # c[1]
  <2>1. job'[e] = job[e] /\ commit'[e] = commit[e] /\ (e \in staleClaims' => e \in staleClaims)
    BY <1>t, <1>6, OwnRow, RequestStep
  <2> QED
    BY <1>3, <1>4, <1>5, <1>6, <2>1 DEF CommitInTurn, ReadIsFresh
<1>7. CASE e = c[1]
  <2>1. ASSUME NEW d \in Calls \ {c}, d[1] = e
        PROVE  pc[d] \in {"idle", "done", "dead"} /\ pc'[d] = pc[d]
    <3>1. ~ AtWork(d)
      BY <1>2, <1>4, <1>7, <2>1, OneAtWork
    <3> QED
      BY <1>4, <2>1, <3>1 DEF AtWork, Over
  <2>2. commit'[e] = "delivered" => job'[e] = "working"
    BY <1>t, <1>3, <1>7, OwnRow DEF CommitInTurn, Delivering
  <2>3. pc'[c] \in Delivering =>
          commit'[e] = "working" \/ (commit'[e] = "none" /\ job'[e] = "working")
    BY <1>t, <1>3, <1>7, OwnRow DEF CommitInTurn, Delivering
  <2>4. pc'[c] \in {"logPending", "claim"} =>
          /\ job'[e] = job[e] /\ commit'[e] = commit[e]
          /\ \/ pc[c] = "select" /\ seen'[c] = job[e]
             \/ pc[c] = "logPending" /\ seen'[c] = seen[c] /\ seen[c] # "working"
    BY <1>t, <1>7, OwnRow, RequestStep
  <2>5. CommitInTurn(e)'
    BY <1>5, <1>7, <2>1, <2>2, <2>3, <2>4 DEF CommitInTurn, Delivering
  <2>6. ASSUME jobFaults' = 0
        PROVE  e \notin staleClaims'
    <3>1. pc[c] = "claim" => seen[c] = job[e]
      BY <1>3, <1>4, <1>7, <2>6 DEF Sides, ClaimsWereOpen, ReadIsFresh
    <3> QED
      BY <1>t, <1>3, <1>4, <1>7, <2>6, <3>1, RequestStep DEF ReadIsFresh
  <2>7. ASSUME jobFaults' = 0, pc'[c] \in {"logPending", "claim"}, seen'[c] # "working"
        PROVE  seen'[c] = job'[e] /\ commit'[e] = "none"
    <3>1. CASE pc[c] = "select" /\ seen'[c] = job[e]
      <4>1. commit[e] # "delivered"
        BY <1>3, <2>7, <3>1 DEF CommitInTurn
      <4>2. commit[e] # "working"
        <5>1. ASSUME commit[e] = "working"
              PROVE  \E d \in Calls : d[1] = e /\ pc[d] \in Delivering
          BY <1>4, <2>7, <5>1 DEF Sides, ClaimsInHand
        <5> QED
          BY <2>1, <3>1, <5>1 DEF Delivering
      <4> QED
        BY <1>t, <2>4, <2>7, <3>1, <4>1, <4>2 DEF Messaging!JobTypeOK
    <3>2. CASE pc[c] = "logPending" /\ seen'[c] = seen[c]
      BY <1>3, <1>4, <1>7, <2>4, <2>7, <3>2 DEF ReadIsFresh
    <3> QED
      BY <2>4, <2>7, <3>1, <3>2
  <2>8. ReadIsFresh(e)'
    BY <1>7, <2>1, <2>6, <2>7 DEF ReadIsFresh
  <2> QED
    BY <2>5, <2>8
<1> QED
  BY <1>6, <1>7

\* A COMMIT of a request in turn lands where it is expected, or is lost with
\* the process.
LEMMA LandedRowsInTurn ==
  ASSUME Sides, InTurn, MessagingStep, NEW f \in Events, Messaging!CommitLands(f)
  PROVE  RowsInTurn'
<1>t. Messaging!JobTypeOK
  BY DEF Sides
<1>1. SUFFICES ASSUME NEW e \in Events, NeverTimedOut(e)'
               PROVE  CommitInTurn(e)' /\ ReadIsFresh(e)'
  BY DEF RowsInTurn
<1>2. CommitInTurn(e) /\ ReadIsFresh(e)
  BY <1>1 DEF MessagingStep, NeverTimedOut, vars, table, InTurn, RowsInTurn
<1>3. e \in lostCommits' => Shut(e)' \/ e \in mailbox'
  BY <1>t, <1>2, ShutStays, LandedRow DEF CommitInTurn
<1>4. CASE e # f
  <2>1. /\ job'[e] = job[e] /\ commit'[e] = commit[e]
        /\ e \in mailbox' <=> e \in mailbox
        /\ UNCHANGED <<pc, seen, staleClaims, jobFaults>>
    BY <1>t, <1>4, LandedRow
  <2> QED
    BY <1>2, <1>3, <2>1 DEF CommitInTurn, ReadIsFresh
<1>5. CASE e = f
  <2>1. /\ commit[e] \in {"working", "delivered"}
        /\ job'[e] = commit[e] /\ commit'[e] = "none"
        /\ commit[e] = "delivered" => e \in mailbox'
        /\ UNCHANGED <<pc, seen, staleClaims, jobFaults>>
    BY <1>t, <1>5, LandedRow
  <2> QED
    BY <1>2, <1>3, <2>1 DEF CommitInTurn, ReadIsFresh
<1> QED
  BY <1>4, <1>5

LEMMA CrashedRowsInTurn ==
  ASSUME Sides, InTurn, MessagingStep, NEW S \in SUBSET Events, Messaging!JobCrash(S)
  PROVE  RowsInTurn'
<1>t. Messaging!JobTypeOK
  BY DEF Sides
<1>1. SUFFICES ASSUME NEW e \in Events, NeverTimedOut(e)'
               PROVE  CommitInTurn(e)' /\ ReadIsFresh(e)'
  BY DEF RowsInTurn
<1>2. CommitInTurn(e)
  BY <1>1 DEF MessagingStep, NeverTimedOut, vars, table, InTurn, RowsInTurn
<1>3. \A c \in Calls : pc'[c] \in {"idle", "done", "dead"}
  BY <1>t, CrashRow
<1>4. /\ jobFaults' # 0 /\ job' = job
      /\ commit'[e] \in {commit[e], "none"}
      /\ e \in lostCommits' => e \in lostCommits \/ commit[e] = "delivered"
  BY <1>t, CrashRow DEF Messaging!JobTypeOK
<1>5. e \in lostCommits' => Shut(e)' \/ e \in mailbox'
  <2>1. CASE e \in lostCommits
    BY <1>2, <2>1, ShutStays DEF CommitInTurn
  <2>2. CASE commit[e] = "delivered"
    BY <1>2, <1>3, <1>4, <2>2 DEF CommitInTurn, Shut, Messaging!Past
  <2> QED
    BY <1>4, <2>1, <2>2
<1> QED
  BY <1>2, <1>3, <1>4, <1>5 DEF CommitInTurn, ReadIsFresh, Delivering

LEMMA MessagingInTurn ==
  ASSUME Sides, InTurn, ArriveSome \/ MessagingStep
  PROVE  InTurn'
<1>t. Messaging!JobTypeOK
  BY DEF Sides
<1>0. UNCHANGED vars
  BY DEF ArriveSome, MessagingStep
<1>1. ASSUME NEW c \in Calls, Messaging!HandlerStep(c) \/ Messaging!HandlerFault(c),
             MessagingStep
      PROVE  InTurn'
  <2>1. PostsFollowCalls' /\ OneAfterTheOther'
    BY <1>0, <1>1, <1>t, RequestStep, OthersInTurn
    DEF InTurn, PostsFollowCalls, AtWork, Over
  <2> QED
    BY <1>1, <2>1, RequestRowsInTurn DEF InTurn
<1>2. ASSUME NEW S \in SUBSET Events, Messaging!JobCrash(S), MessagingStep
      PROVE  InTurn'
  <2>1. \A c \in Calls : /\ pc[c] \in Over => pc'[c] \in Over
                         /\ pc'[c] # "idle" => pc[c] # "idle"
    BY <1>2, <1>t, CrashRow DEF Over
  <2>2. PostsFollowCalls' /\ OneAfterTheOther'
    BY <1>0, <2>1, OthersInTurn DEF InTurn, PostsFollowCalls
  <2> QED
    BY <1>2, <2>2, CrashedRowsInTurn DEF InTurn
<1>3. ASSUME NEW e \in Events, Messaging!CommitLands(e), MessagingStep
      PROVE  InTurn'
  <2>1. pc' = pc
    BY <1>3, <1>t, LandedRow
  <2>2. PostsFollowCalls' /\ OneAfterTheOther'
    BY <1>0, <2>1, OthersInTurn DEF InTurn, PostsFollowCalls
  <2> QED
    BY <1>3, <2>2, LandedRowsInTurn DEF InTurn
<1>4. ASSUME NEW e \in Events, NEW n \in 1 .. MaxRetries + 1, n <= attempts[e],
             Messaging!Arrive(<<e, n>>), ArriveSome
      PROVE  InTurn'
  <2> DEFINE c == <<e, n>>
  <2>0. c \in Calls /\ c[1] = e /\ c[2] = n
    BY DEF Calls
  <2> HIDE DEF c
  <2>1. /\ pc[c] = "idle" /\ pc'[c] = "queued"
        /\ \A d \in Calls \ {c} : pc'[d] = pc[d]
        /\ UNCHANGED <<job, mailbox, commit, seen, staleClaims, lostCommits, jobFaults>>
    BY <1>4, <2>0 DEF c, Messaging!Arrive, Messaging!Goto, Messaging!rows,
       Messaging!history, Messaging!observed, Sides, Messaging!JobTypeOK
  <2>2. PostsFollowCalls' /\ OneAfterTheOther'
    BY <1>0, <1>4, <2>0, <2>1, OthersInTurn DEF InTurn, PostsFollowCalls, Over
  <2>3. RowsInTurn'
    <3>1. SUFFICES ASSUME NEW f \in Events, NeverTimedOut(f)'
                   PROVE  CommitInTurn(f)' /\ ReadIsFresh(f)'
      BY DEF RowsInTurn
    <3>2. CommitInTurn(f) /\ ReadIsFresh(f)
      BY <1>0, <3>1 DEF NeverTimedOut, vars, table, InTurn, RowsInTurn
    <3>3. f \in lostCommits' => Shut(f)' \/ f \in mailbox'
      BY <1>4, <2>1, <3>2, ShutStays DEF CommitInTurn
    <3> QED
      BY <2>1, <3>2, <3>3 DEF CommitInTurn, ReadIsFresh, Delivering
  <2> QED
    BY <2>2, <2>3 DEF InTurn
<1> QED
  BY <1>1, <1>2, <1>3, <1>4 DEF ArriveSome, MessagingStep

\* Of the scheduler's steps one posts again, and it holds events whose last
\* request is over.
LEMMA PostsInTurn ==
  ASSUME Sides, InTurn, NEW u \in Units, Call(u), UNCHANGED jobVars
  PROVE  PostsFollowCalls' /\ OneAfterTheOther'
<1> USE DEF Sides, Inv, TypeOK, Call, table, jobVars
<1>1. \A e \in Events :
        attempts'[e] = IF e \in batch[u] THEN attempts[e] + 1 ELSE attempts[e]
  OBVIOUS
<1>2. \A c \in Calls : c[1] \in Events /\ c[2] \in Nat
  BY DEF Calls
<1>3. PostsFollowCalls'
  BY <1>1, <1>2 DEF InTurn, PostsFollowCalls
<1>4. ASSUME NEW e \in Events, NeverTimedOut(e)'
      PROVE  /\ \A c \in Calls : c[1] = e /\ c[2] < attempts'[e] => pc'[c] \in Over
             /\ status'[e] \in {"absent", "pending"} => Answered(e)'
             /\ \A v \in Units :
                  /\ phase'[v] = "picked" /\ e \in batch'[v] => Answered(e)'
                  /\ answer'[v][e] \in {"delivered", "error"} => Answered(e)'
  <2>0. NeverTimedOut(e)
    BY <1>4 DEF NeverTimedOut
  <2>1. CASE e \in batch[u]
    <3>1. Answered(e)
      BY <2>0, <2>1 DEF InTurn, OneAfterTheOther
    <3>2. status[e] = "handling" /\ \A v \in Units \ {u} : e \notin batch[v]
      BY <2>1 DEF ExclusiveHandling
    <3>3. \A v \in Units \ {u} : answer[v][e] = "none"
      BY <3>2 DEF UnitsAgreeWithRows
    <3> QED
      BY <1>1, <1>2, <2>1, <3>1, <3>2, <3>3 DEF Answered
  <2>2. CASE e \notin batch[u]
    <3>1. Answered(e)' <=> Answered(e)
      BY <1>1, <2>2 DEF Answered
    <3>2. answer'[u][e] = "none"
      BY <2>2
    <3> QED
      BY <1>1, <2>0, <2>2, <3>1, <3>2 DEF InTurn, OneAfterTheOther
  <2> QED
    BY <2>1, <2>2
<1> QED
  BY <1>3, <1>4 DEF OneAfterTheOther

\* A unit that writes back without logging a timeout for e has had an answer.
LEMMA SettledInTime ==
  ASSUME Sides, NEW u \in Units, Record(u), NEW e \in Events
  PROVE  /\ NeverTimedOut(e)' => NeverTimedOut(e)
         /\ e \in batch[u] /\ NeverTimedOut(e)' => answer[u][e] \in {"delivered", "error"}
<1>1. CASE e \in batch[u]
  <2>1. logs'[e] = [logs[e] EXCEPT ![answer[u][e]] = @ + 1]
    BY <1>1 DEF Record
  <2>2. logs[e] \in [Outcome -> Nat]
    BY DEF Sides, Inv, TypeOK
  <2>3. answer[u][e] \in Outcome
    BY <1>1 DEF Record, AllSettled
  <2> QED
    BY <2>1, <2>2, <2>3 DEF Outcome, NeverTimedOut
<1>2. CASE e \notin batch[u]
  BY <1>2 DEF Record, NeverTimedOut
<1> QED
  BY <1>1, <1>2

\* A timeout stays on record.
LEMMA TimeoutsStay ==
  ASSUME Sides, SchedulerStep
  PROVE  \A e \in Events : NeverTimedOut(e)' => NeverTimedOut(e)
<1>1. CASE \E u \in Units : Record(u)
  BY <1>1, SettledInTime
<1>2. CASE ~ \E u \in Units : Record(u)
  <2>1. logs' = logs
    BY <1>2 DEF SchedulerStep, Tick, Submit, PollSome, Poll, PollReplyLost, Call,
       RecordFails, Crash, table
  <2> QED
    BY <2>1 DEF NeverTimedOut
<1> QED
  BY <1>1, <1>2

\* A request that is over does nothing any more.
LEMMA OverStays ==
  ASSUME Sides, MessagingStep \/ ArriveSome, NEW c \in Calls, pc[c] \in Over
  PROVE  pc'[c] \in Over
<1>1. ASSUME NEW d \in Calls, Messaging!HandlerStep(d) \/ Messaging!HandlerFault(d)
      PROVE  pc'[c] = pc[c]
  BY <1>1, RequestStep DEF Sides, AtWork
<1>2. ASSUME NEW S \in SUBSET Events, Messaging!JobCrash(S)
      PROVE  pc'[c] = pc[c]
  BY <1>2, CrashRow DEF Sides, Over
<1>3. CASE ArriveSome
  BY <1>3 DEF ArriveSome, Messaging!Arrive, Messaging!Goto, Over, Sides,
     Messaging!JobTypeOK
<1>4. ASSUME NEW e \in Events, Messaging!CommitLands(e)
      PROVE  pc'[c] = pc[c]
  BY <1>4, LandedRow DEF Sides
<1> QED
  BY <1>1, <1>2, <1>3, <1>4 DEF MessagingStep

LEMMA SchedulerInTurn ==
  ASSUME Sides, InTurn, SchedulerStep
  PROVE  InTurn'
<1>0. UNCHANGED jobVars
  BY DEF SchedulerStep
<1>1. \A e \in Events : logs'[e]["timeout"] = 0 => logs[e]["timeout"] = 0
  BY TimeoutsStay DEF NeverTimedOut
<1>2. RowsInTurn'
  <2>1. \A e \in Events : CommitInTurn(e) /\ ReadIsFresh(e) =>
                            (CommitInTurn(e) /\ ReadIsFresh(e))'
    BY <1>0 DEF CommitInTurn, ReadIsFresh, Shut, jobVars
  <2> QED
    BY <1>1, <2>1 DEF InTurn, RowsInTurn, NeverTimedOut
<1>3. ASSUME attempts' = attempts,
             \A e \in Events : NeverTimedOut(e) /\ NeverTimedOut(e)' =>
               /\ status'[e] \in {"absent", "pending"} =>
                    status[e] \in {"absent", "pending"} \/ Answered(e)
               /\ \A v \in Units :
                    /\ phase'[v] = "picked" /\ e \in batch'[v] =>
                         Answered(e) \/ (phase[v] = "picked" /\ e \in batch[v])
                    /\ answer'[v][e] \in {"delivered", "error"} =>
                         answer[v][e] \in {"delivered", "error"}
      PROVE  InTurn'
  <2>1. \A e \in Events : Answered(e)' <=> Answered(e)
    BY <1>0, <1>3 DEF Answered, jobVars
  <2>2. PostsFollowCalls'
    BY <1>0, <1>3 DEF InTurn, PostsFollowCalls, jobVars
  <2>3. OneAfterTheOther'
    BY <1>0, <1>1, <1>3, <2>1 DEF InTurn, OneAfterTheOther, NeverTimedOut, jobVars
  <2> QED
    BY <1>2, <2>2, <2>3 DEF InTurn
<1> USE DEF Sides, Inv, TypeOK, table, work, history
<1>4. CASE Tick
  BY <1>3, <1>4 DEF Tick
<1>5. ASSUME NEW S \in SUBSET Events, NEW at \in [Events -> 0 .. MaxTime], Submit(S, at)
      PROVE  InTurn'
  BY <1>3, <1>5 DEF Submit
<1>6. ASSUME NEW p \in Processes, NEW u \in Units, NEW B \in SUBSET Events, Poll(p, u, B)
      PROVE  InTurn'
  <2>1. \A e \in B : NeverTimedOut(e) => Answered(e)
    BY <1>6, BatchIsEligible DEF Poll, Eligible, InTurn, OneAfterTheOther
  <2> HIDE DEF Answered, InTurn
  <2> QED
    BY <1>3, <1>6, <2>1 DEF Poll, MarkHandling
<1>7. ASSUME NEW B \in SUBSET Events, PollReplyLost(B)
      PROVE  InTurn'
  BY <1>3, <1>7 DEF PollReplyLost, MarkHandling
<1>8. ASSUME NEW u \in Units, Call(u)
      PROVE  InTurn'
  BY <1>0, <1>2, <1>8, PostsInTurn DEF InTurn
<1>9. ASSUME NEW u \in Units, Record(u)
      PROVE  InTurn'
  <2>1. ASSUME NEW e \in batch[u], NeverTimedOut(e), NeverTimedOut(e)'
        PROVE  Answered(e)
    <3>1. answer[u][e] \in {"delivered", "error"}
      BY <1>9, <2>1 DEF Record, AllSettled, Outcome, NeverTimedOut
    <3> QED
      BY <2>1, <3>1 DEF InTurn, OneAfterTheOther
  <2> QED
    BY <1>3, <1>9, <2>1 DEF Record, Drop
<1>10. ASSUME NEW p \in Processes, Crash(p)
       PROVE  InTurn'
  BY <1>3, <1>10 DEF Crash, Drop
<1>11. ASSUME NEW u \in Units, RecordFails(u)
       PROVE  InTurn'
  BY <1>10, <1>11 DEF RecordFails
<1> QED
  BY <1>4, <1>5, <1>6, <1>7, <1>8, <1>9, <1>10, <1>11 DEF SchedulerStep, PollSome

LEMMA SettleInTurn ==
  ASSUME Sides, InTurn, NEW u \in Units, NEW e \in Events,
         AnswerCall(u, e) \/ TimeOutCall(u, e)
  PROVE  InTurn'
<1> USE DEF Sides, Inv, TypeOK, AnswerCall, TimeOutCall, Settle, table, jobVars
<1>1. UNCHANGED <<logs, status, attempts, phase, batch, jobVars>>
  OBVIOUS
<1>2. PostsFollowCalls' /\ RowsInTurn'
  BY <1>1 DEF InTurn, PostsFollowCalls, RowsInTurn, CommitInTurn, ReadIsFresh, Shut,
     NeverTimedOut
<1>3. \A f \in Events : (Answered(f)' <=> Answered(f)) /\ (NeverTimedOut(f)' <=> NeverTimedOut(f))
  BY <1>1 DEF Answered, NeverTimedOut
<1>4. \A v \in Units, f \in Events :
        v # u \/ f # e => answer'[v][f] = answer[v][f]
  <2>1. PICK o : answer' = [answer EXCEPT ![u][e] = o]
    OBVIOUS
  <2>2. answer \in [Units -> [Events -> Outcome \union {"none", "waiting"}]]
    OBVIOUS
  <2> QED
    BY ONLY <2>1, <2>2
<1>5. NeverTimedOut(e) /\ answer'[u][e] \in {"delivered", "error"} => Answered(e)
  <2>1. CASE TimeOutCall(u, e)
    <3>1. answer'[u][e] = "timeout"
      BY <2>1
    <3> QED
      BY <3>1
  <2>2. ASSUME AnswerCall(u, e), NeverTimedOut(e)
        PROVE  Answered(e)
    <3>1. pc[<<e, attempts[e]>>] \in Over
      BY <2>2 DEF Over
    <3>2. ASSUME NEW c \in Calls, c[1] = e, c[2] <= attempts[e]
          PROVE  pc[c] \in Over
      <4>1. CASE c[2] = attempts[e]
        <5>1. c = <<e, attempts[e]>>
          BY ONLY CallsArePairs, <3>2, <4>1
        <5> QED
          BY <3>1, <5>1
      <4>2. CASE c[2] # attempts[e]
        <5>1. attempts[e] \in Nat
          OBVIOUS
        <5>2. c[2] < attempts[e]
          BY ONLY <3>2, <4>2, <5>1, CallsArePairs
        <5> QED
          BY <2>2, <3>2, <5>2 DEF InTurn, OneAfterTheOther
      <4> QED
        BY <4>1, <4>2
    <3> QED
      BY <3>2 DEF Answered
  <2> QED
    BY <2>1, <2>2
<1>6. OneAfterTheOther'
  BY <1>1, <1>3, <1>4, <1>5 DEF InTurn, OneAfterTheOther
<1> QED
  BY <1>2, <1>6 DEF InTurn

LEMMA InTurnCorrect == DeliverySpec => []InTurn
<1>1. DeliveryInit => InTurn
  BY DEF DeliveryInit, Init, Messaging!JobInit, InTurn, PostsFollowCalls,
     OneAfterTheOther, RowsInTurn, CommitInTurn, ReadIsFresh, Delivering, Answered,
     NeverTimedOut, Calls
<1>2. Sides /\ InTurn /\ [DeliveryNext]_allVars => InTurn'
  <2> SUFFICES ASSUME Sides, InTurn, [DeliveryNext]_allVars
               PROVE  InTurn'
    OBVIOUS
  <2>1. CASE UNCHANGED allVars
    BY <2>1 DEF allVars, vars, jobVars, table, work, history, InTurn,
       PostsFollowCalls, OneAfterTheOther, RowsInTurn, CommitInTurn, ReadIsFresh,
       Shut, Answered, NeverTimedOut
  <2> QED
    BY <2>1, SchedulerInTurn, MessagingInTurn, SettleInTurn DEF DeliveryNext, SettleCall
<1> QED
  BY <1>1, <1>2, SidesHold, PTL DEF DeliverySpec

\* At most one request of an event is served at a time, unless a call of it
\* is recorded as timed out: a slow answer is the only way to two workers.
OneRequestAtATime ==
  \A c, d \in Calls :
    AtWork(c) /\ AtWork(d) /\ c[1] = d[1] /\ NeverTimedOut(c[1]) => c = d

\* So the check for a job in progress has nothing to refuse before a timeout.
THEOREM OneRequestAtATimeCorrect == DeliverySpec => []OneRequestAtATime
<1>1. Sides /\ InTurn => OneRequestAtATime
  BY OneAtWork DEF OneRequestAtATime
<1> QED
  BY <1>1, SidesHold, InTurnCorrect, PTL

\* A receiver gets a second e-mail about a message only if a call of its event
\* timed out or something failed on the messaging side.
THEOREM SecondEmailNeedsTimeoutCorrect == DeliverySpec => []SecondEmailNeedsTimeout
<1>1. Sides /\ InTurn => SecondEmailNeedsTimeout
  <2> SUFFICES ASSUME Sides, InTurn, NEW e \in Events, emails[e] > 1, ~ (jobFaults > 0)
               PROVE  logs[e]["timeout"] > 0
    BY DEF SecondEmailNeedsTimeout, TimedOut
  <2>1. e \in staleClaims
    BY DEF Sides, Messaging!SecondEmailNeedsCause
  <2>2. logs[e]["timeout"] \in Nat /\ logs[e]["timeout"] # 0
    BY <2>1 DEF InTurn, RowsInTurn, ReadIsFresh, NeverTimedOut, Sides, Inv, TypeOK,
       Outcome, Messaging!JobTypeOK
  <2> QED
    BY <2>2
<1> QED
  BY <1>1, SidesHold, InTurnCorrect, PTL

-----------------------------------------------------------------------------
(* Retries are for failures only: the first call of an event gets through  *)
(* unless it is recorded as timed out or something fails.                  *)

Early == {"idle", "queued", "select", "logPending", "claim"}

\* Request c is on its way to a 202.
GoesThrough(c) ==
  /\ c \notin failed
  /\ pc[c] \notin {"missing", "unwind", "markFailed", "dead"}
  /\ pc[c] \in {"logPending", "claim"} => seen[c] = "pending"
  /\ pc[c] = "done" => code[c] = 202

FirstCallSuffices ==
  \A e \in Events : jobFaults = 0 /\ NeverTimedOut(e) =>
    /\ logs[e]["error"] = 0
    /\ \A u \in Units : answer[u][e] # "error"
    /\ \A c \in Calls : c[1] = e => GoesThrough(c)
    /\ (\A c \in Calls : c[1] = e => pc[c] \in Early) => job[e] = "pending"

\* An event whose calls all went well was posted once at most.
LEMMA OneCallOnly ==
  ASSUME Sides, InTurn, FirstCallSuffices, jobFaults = 0,
         NEW c \in Calls, NEW d \in Calls, NeverTimedOut(c[1]),
         c[1] = d[1], pc[c] # "idle", pc[d] # "idle"
  PROVE  c = d
<1> DEFINE e == c[1]
<1>1. /\ e \in Events /\ logs[e]["error"] = 0 /\ logs[e]["timeout"] = 0
      /\ attempts[e] \in Nat /\ retries[e] \in Nat
  BY CallsArePairs DEF FirstCallSuffices, NeverTimedOut, Sides, Inv, TypeOK
<1>2. attempts[e] <= 1
  BY <1>1 DEF Sides, Inv, AttemptsAccounted
<1>3. c[2] <= attempts[e] /\ d[2] <= attempts[e]
  BY DEF InTurn, PostsFollowCalls
<1>4. c[2] >= 1 /\ d[2] >= 1
  BY DEF Calls
<1>5. c[2] = d[2]
  BY <1>1, <1>2, <1>3, <1>4, CallsArePairs
<1> QED
  BY <1>5, CallsArePairs

\* A request that finds its job pending gets through, step by step.
LEMMA HandlerGoesThrough ==
  ASSUME Messaging!JobTypeOK, NEW c \in Calls, Messaging!HandlerStep(c),
         GoesThrough(c), pc[c] \in Early => job[c[1]] = "pending"
  PROVE  /\ GoesThrough(c)'
         /\ pc'[c] \in Early => job'[c[1]] = "pending"
         /\ \A d \in Calls \ {c} : GoesThrough(d) => GoesThrough(d)'
<1> USE DEF Messaging!JobTypeOK, Messaging!Goto, Messaging!rows, Messaging!handler,
        Messaging!history, Messaging!observed, GoesThrough, Early
<1>0. c[1] \in Events /\ [d \in Calls |-> d[1]][c] = c[1]
  BY CallsArePairs
<1>1. CASE Messaging!Connect(c) \/ Messaging!Select(c) \/ Messaging!LogMissing(c)
           \/ Messaging!LogPending(c)
  BY <1>0, <1>1 DEF Messaging!Connect, Messaging!Select, Messaging!Found,
     Messaging!LogMissing, Messaging!LogPending
<1>2. CASE Messaging!Claim(c) \/ Messaging!Unwind(c) \/ Messaging!Open(c)
           \/ Messaging!Deliver(c)
  BY <1>0, <1>2 DEF Messaging!Claim, Messaging!Unwind, Messaging!Open,
     Messaging!Deliver, Messaging!SendCommit
<1>3. CASE Messaging!OpenTransports(c) \/ Messaging!GetProfile(c) \/ Messaging!Send(c)
           \/ Messaging!SkipTransports(c)
  BY <1>0, <1>3 DEF Messaging!OpenTransports, Messaging!GetProfile, Messaging!Send,
     Messaging!SkipTransports, Messaging!AfterTransports
<1>4. CASE Messaging!SendFails(c) \/ Messaging!EmailLog(c) \/ Messaging!MarkFailed(c)
           \/ Messaging!LastLog(c)
  BY <1>0, <1>4 DEF Messaging!SendFails, Messaging!EmailLog, Messaging!MarkFailed,
     Messaging!LastLog, Messaging!AfterTransports, Messaging!AnswerOf
<1> QED
  BY <1>1, <1>2, <1>3, <1>4 DEF Messaging!HandlerStep

LEMMA FirstCallStep ==
  Sides /\ InTurn /\ FirstCallSuffices /\ [DeliveryNext]_allVars => FirstCallSuffices'
<1> SUFFICES ASSUME Sides, InTurn, FirstCallSuffices, [DeliveryNext]_allVars
             PROVE  FirstCallSuffices'
  OBVIOUS
<1>t. Messaging!JobTypeOK
  BY DEF Sides
<1>1. CASE SchedulerStep
  <2>1. UNCHANGED <<jobFaults, failed, pc, seen, code, job>>
    BY <1>1 DEF SchedulerStep, jobVars
  <2>2. \A c \in Calls : GoesThrough(c)' <=> GoesThrough(c)
    BY <2>1 DEF GoesThrough
  <2>3. ASSUME NEW e \in Events, NeverTimedOut(e)', jobFaults = 0
        PROVE  /\ NeverTimedOut(e)
               /\ logs'[e]["error"] = 0
               /\ \A u \in Units : answer'[u][e] # "error"
    <3> USE DEF FirstCallSuffices, NeverTimedOut, table, work
    <3>1. CASE \E u \in Units : Record(u)
      <4>1. PICK u \in Units : Record(u)
        BY <3>1
      <4>2. logs[e] \in [Outcome -> Nat]
        BY DEF Sides, Inv, TypeOK
      <4>3. CASE e \in batch[u]
        <5>1. logs'[e] = [logs[e] EXCEPT ![answer[u][e]] = @ + 1]
          BY <4>1, <4>3 DEF Record
        <5>2. NeverTimedOut(e) /\ answer[u][e] # "timeout"
          BY <2>3, <4>2, <5>1 DEF Outcome
        <5>3. logs'[e]["error"] = 0
          BY <2>3, <4>2, <5>1, <5>2 DEF Outcome
        <5> QED
          BY <2>3, <4>1, <5>2, <5>3 DEF Record, Drop
      <4>4. CASE e \notin batch[u]
        <5>1. logs'[e] = logs[e]
          BY <4>1, <4>4 DEF Record
        <5> QED
          BY <2>3, <4>1, <5>1 DEF Record, Drop
      <4> QED
        BY <4>3, <4>4
    <3>2. CASE ~ \E u \in Units : Record(u)
      <4>1. logs' = logs
        BY <1>1, <3>2 DEF SchedulerStep, Tick, Submit, PollSome, Poll, PollReplyLost,
           Call, RecordFails, Crash
      <4>2. CASE \E u \in Units : Call(u)
        <5>1. \A u \in Units : answer'[u][e] = "error" => answer[u][e] = "error"
          BY <4>2 DEF Call, Sides, Inv, TypeOK
        <5> QED
          BY <2>3, <4>1, <5>1
      <4>3. ASSUME NEW S \in SUBSET Units, Drop(S)
            PROVE  \A u \in Units : answer'[u][e] = "error" => answer[u][e] = "error"
        BY <4>3 DEF Drop
      <4>4. CASE \E p \in Processes : Crash(p)
        <5>1. PICK S \in SUBSET Units : Drop(S)
          BY <4>4 DEF Crash
        <5> QED
          BY <2>3, <4>1, <4>3, <5>1
      <4>5. CASE \E u \in Units : RecordFails(u)
        <5>1. PICK S \in SUBSET Units : Drop(S)
          BY <4>5 DEF RecordFails, Crash
        <5> QED
          BY <2>3, <4>1, <4>3, <5>1
      <4>6. CASE answer' = answer
        BY <2>3, <4>1, <4>6
      <4> QED
        BY <1>1, <3>2, <4>2, <4>4, <4>5, <4>6
        DEF SchedulerStep, Tick, Submit, PollSome, Poll, PollReplyLost
    <3> QED
      BY <3>1, <3>2
  <2> QED
    BY <2>1, <2>2, <2>3 DEF FirstCallSuffices
<1>2. ASSUME NEW c \in Calls, Messaging!HandlerStep(c), UNCHANGED vars
      PROVE  FirstCallSuffices'
  <2>1. ASSUME NEW e \in Events, jobFaults' = 0, NeverTimedOut(e)'
        PROVE  /\ \A d \in Calls : d[1] = e => GoesThrough(d)'
               /\ (\A d \in Calls : d[1] = e => pc'[d] \in Early) => job'[e] = "pending"
               /\ jobFaults = 0 /\ NeverTimedOut(e)
    <3>1. jobFaults = 0
      BY <1>2, <1>t, <2>1, RequestStep
    <3>2. NeverTimedOut(e)
      BY <1>2, <2>1 DEF NeverTimedOut, vars, table
    <3>3. CASE e = c[1]
      <4>1. AtWork(c)
        BY <1>2, <1>t, RequestStep
      <4>2. \A d \in Calls \ {c} : d[1] = e => pc[d] = "idle"
        BY <3>1, <3>2, <3>3, <4>1, OneCallOnly DEF AtWork
      <4>3. pc[c] \in Early => job[e] = "pending"
        BY <3>1, <3>2, <4>2 DEF FirstCallSuffices, Early
      <4> QED
        BY <1>2, <1>t, <3>1, <3>2, <3>3, <4>3, HandlerGoesThrough DEF FirstCallSuffices
    <3>4. CASE e # c[1]
      <4>1. \A d \in Calls : d[1] = e => pc'[d] = pc[d] /\ seen'[d] = seen[d]
        BY <1>2, <1>t, <3>4, RequestStep
      <4>2. job'[e] = job[e]
        BY <1>2, <1>t, <3>4, RequestStep
      <4>3. failed' = failed /\ \A d \in Calls \ {c} : code'[d] = code[d]
        BY <1>2, <1>t DEF Messaging!HandlerStep, Messaging!Connect, Messaging!Select,
           Messaging!LogMissing, Messaging!LogPending, Messaging!Claim,
           Messaging!Unwind, Messaging!Open, Messaging!Deliver,
           Messaging!OpenTransports, Messaging!GetProfile, Messaging!Send,
           Messaging!SkipTransports, Messaging!SendFails, Messaging!EmailLog,
           Messaging!MarkFailed, Messaging!LastLog, Messaging!JobTypeOK
      <4> QED
        BY <3>1, <3>2, <3>4, <4>1, <4>2, <4>3 DEF FirstCallSuffices, GoesThrough
    <3> QED
      BY <3>1, <3>2, <3>3, <3>4
  <2> QED
    BY <1>2, <2>1 DEF FirstCallSuffices, vars, table, work
<1>3. ASSUME \/ \E c \in Calls : Messaging!HandlerFault(c)
             \/ \E S \in SUBSET Events : Messaging!JobCrash(S)
      PROVE  FirstCallSuffices'
  <2>1. jobFaults' = jobFaults + 1 /\ jobFaults \in Nat
    BY <1>3, <1>t DEF Messaging!JobTypeOK, Messaging!HandlerFault, Messaging!JobCrash,
       Messaging!ClaimFails, Messaging!DeliverFails, Messaging!ConnectFails,
       Messaging!GetProfileFails, Messaging!MarkFailedFails, Messaging!Fault
  <2> QED
    BY <2>1 DEF FirstCallSuffices
<1>4. ASSUME NEW c \in Calls, Messaging!Arrive(c), UNCHANGED vars
      PROVE  FirstCallSuffices'
  <2>1. /\ pc[c] = "idle" /\ pc'[c] = "queued"
        /\ \A d \in Calls \ {c} : pc'[d] = pc[d]
        /\ UNCHANGED <<job, seen, failed, code, jobFaults>>
    BY <1>4, <1>t DEF Messaging!Arrive, Messaging!Goto, Messaging!rows,
       Messaging!history, Messaging!observed, Messaging!JobTypeOK
  <2> QED
    BY <1>4, <2>1 DEF FirstCallSuffices, GoesThrough, Early, NeverTimedOut, vars,
       table, work
<1>5. ASSUME NEW u \in Units, NEW e \in Events, AnswerCall(u, e) \/ TimeOutCall(u, e)
      PROVE  FirstCallSuffices'
  <2>1. UNCHANGED <<logs, jobFaults, failed, pc, seen, code, job>>
    BY <1>5 DEF AnswerCall, TimeOutCall, Settle, jobVars, table
  <2>2. \A c \in Calls : GoesThrough(c)' <=> GoesThrough(c)
    BY <2>1 DEF GoesThrough
  <2>3. PICK o : answer' = [answer EXCEPT ![u][e] = o] /\
                 (o = "timeout" \/ \E n \in 1 .. MaxRetries + 1 :
                    pc[<<e, n>>] \in {"done", "dead"} /\ o = ResultOf(<<e, n>>))
    BY <1>5 DEF AnswerCall, TimeOutCall, Settle
  <2>4. ASSUME jobFaults = 0, NeverTimedOut(e)
        PROVE  o # "error"
    <3>1. \A n \in 1 .. MaxRetries + 1 : GoesThrough(<<e, n>>)
      BY <2>4 DEF FirstCallSuffices, Calls
    <3> QED
      BY <2>3, <3>1 DEF GoesThrough, ResultOf
  <2>5. answer \in [Units -> [Events -> Outcome \union {"none", "waiting"}]]
    BY DEF Sides, Inv, TypeOK
  <2>6. \A v \in Units, f \in Events :
          answer'[v][f] = IF v = u /\ f = e THEN o ELSE answer[v][f]
    BY <2>3, <2>5
  <2> QED
    BY <2>1, <2>2, <2>4, <2>6 DEF FirstCallSuffices, NeverTimedOut
<1>6. CASE UNCHANGED allVars
  BY <1>6 DEF allVars, vars, jobVars, table, work, FirstCallSuffices, GoesThrough,
     NeverTimedOut
<1>7. CASE ArriveSome
  BY <1>4, <1>7 DEF ArriveSome, Calls
<1>8. ASSUME NEW f \in Events, Messaging!CommitLands(f), UNCHANGED vars
      PROVE  FirstCallSuffices'
  <2>1. /\ UNCHANGED <<pc, seen, failed, code, jobFaults>>
        /\ commit[f] \in {"working", "delivered"}
        /\ \A e \in Events \ {f} : job'[e] = job[e]
    BY <1>8, <1>t, LandedRow
  <2>2. ASSUME jobFaults = 0, NeverTimedOut(f), \A c \in Calls : c[1] = f => pc[c] \in Early
        PROVE  FALSE
    <3>1. job[f] = "pending"
      BY <2>2 DEF FirstCallSuffices
    <3>2. commit[f] # "delivered"
      BY <2>2, <3>1 DEF InTurn, RowsInTurn, CommitInTurn
    <3>3. commit[f] # "working"
      BY <2>2 DEF Sides, ClaimsInHand, Delivering, Early
    <3> QED
      BY <2>1, <3>2, <3>3
  <2>3. ASSUME NEW e \in Events, jobFaults = 0, NeverTimedOut(e)
        PROVE  (\A c \in Calls : c[1] = e => pc[c] \in Early) => job'[e] = "pending"
    BY <2>1, <2>2, <2>3 DEF FirstCallSuffices
  <2>4. \A c \in Calls : GoesThrough(c)' <=> GoesThrough(c)
    BY <2>1 DEF GoesThrough
  <2> QED
    BY <1>8, <2>1, <2>3, <2>4 DEF FirstCallSuffices, NeverTimedOut, vars, table, work
<1>9. CASE MessagingStep
  BY <1>2, <1>3, <1>8, <1>9 DEF MessagingStep
<1> QED
  BY <1>1, <1>5, <1>6, <1>7, <1>9 DEF DeliveryNext, SettleCall

\* The scheduler counts a failed call of an event only if a call of it timed
\* out or something failed on the messaging side: executeJob never refuses
\* the first request for a job.
RetryNeedsCause ==
  \A e \in Events : retries[e] > 0 => jobFaults > 0 \/ ~ NeverTimedOut(e)

\* A first call is refused by nothing but a failure.
THEOREM RetryNeedsCauseCorrect == DeliverySpec => []RetryNeedsCause
<1>1. DeliveryInit => FirstCallSuffices
  BY DEF DeliveryInit, Init, Messaging!JobInit, FirstCallSuffices, GoesThrough, Outcome
<1>2. Sides /\ FirstCallSuffices => RetryNeedsCause
  BY DEF Sides, Inv, TypeOK, Outcome, AttemptsAccounted, Messaging!JobTypeOK,
     FirstCallSuffices, NeverTimedOut, RetryNeedsCause
<1> QED
  BY <1>1, <1>2, FirstCallStep, SidesHold, InTurnCorrect, PTL DEF DeliverySpec

-----------------------------------------------------------------------------
(* What it takes to lose a message: timeouts alone do not, and as long as  *)
(* no call timed out every failed call costs a fault of its own.           *)

\* Request c has been posted and nothing it read so far refuses it, or it has
\* claimed the job and is about to deliver the message.
OnItsWay(c) ==
  \/ pc[c] \in Delivering
  \/ job[c[1]] = "pending" /\ pc[c] \in Early

\* As long as nothing fails on the messaging side, an event that was posted
\* has its message in the mailbox, or a COMMIT or a request on its way to put
\* it there, however often its calls time out and are refused.
TimeoutsLoseNothing ==
  \A e \in Events : attempts[e] > 0 /\ jobFaults = 0 =>
    \/ e \in mailbox
    \/ commit[e] = "delivered"
    \/ \E c \in Calls : c[1] = e /\ c[2] <= attempts[e] /\ OnItsWay(c)

\* A retry that finds the job 'working' and uses up the event's last attempt
\* loses no message: the request it gave way to delivers it.
THEOREM TimeoutsLoseNothingCorrect == DeliverySpec => []TimeoutsLoseNothing
<1>1. ASSUME Sides, InTurn, JobProofs!CauseInv, JobProofs!PendingIsOpenToAll,
             NEW e \in Events, attempts[e] > 0, jobFaults = 0, e \notin mailbox,
             commit[e] # "delivered"
      PROVE  \E c \in Calls : c[1] = e /\ c[2] <= attempts[e] /\ OnItsWay(c)
  <2>1. job[e] \in {"pending", "working"}
    <3>1. job[e] \in {"pending", "working", "failed", "delivered"}
      BY <1>1 DEF Sides, Messaging!JobTypeOK, Messaging!JobStatus
    <3>2. job[e] # "failed"
      BY <1>1 DEF JobProofs!CauseInv, JobProofs!NoFaultNoError
    <3>3. job[e] # "delivered"
      BY <1>1 DEF Sides, Messaging!AcceptedMeansInMailbox
    <3> QED
      BY <3>1, <3>2, <3>3
  <2>2. CASE job[e] = "pending"
    <3> DEFINE c == <<e, 1>>
    <3>1. c \in Calls /\ c[1] = e /\ c[2] = 1
      BY DEF Calls
    <3> HIDE DEF c
    <3>2. attempts[e] \in Nat
      BY <1>1 DEF Sides, Inv, TypeOK
    <3>3. [d \in Calls |-> d[1]][c] = e
      BY <3>1
    <3>4. pc[c] \in Early \union Delivering
      BY <1>1, <2>2, <3>1, <3>3 DEF JobProofs!PendingIsOpenToAll, JobProofs!Early, Early,
         JobProofs!Delivering, Delivering
    <3> QED
      BY <1>1, <2>2, <3>1, <3>2, <3>4 DEF OnItsWay, Sides, Inv, TypeOK
  <2>3. CASE job[e] = "working"
    <3>1. commit[e] \in {"none", "working"}
      BY <1>1 DEF Sides, Messaging!JobTypeOK
    <3>2. PICK c \in Calls : [d \in Calls |-> d[1]][c] = e /\ pc[c] \in {"claimed", "deliver"}
      BY <1>1, <2>3, <3>1 DEF JobProofs!CauseInv, JobProofs!NoFaultNoError
    <3> QED
      BY <1>1, <3>2 DEF InTurn, PostsFollowCalls, OnItsWay, Delivering
  <2> QED
    BY <2>1, <2>2, <2>3
<1>2. Sides /\ InTurn /\ JobProofs!CauseInv /\ JobProofs!PendingIsOpenToAll
        => TimeoutsLoseNothing
  BY <1>1 DEF TimeoutsLoseNothing
<1> QED
  BY <1>2, SidesHold, InTurnCorrect, DeliveryRunsMessaging, JobSpecSame, AssumptionFits,
     JobProofs!CauseCorrect, JobProofs!PendingIsOpenToAllCorrect, PTL

\* Request c will not be answered 202, or has been answered.
Doomed(c) == c \in failed \/ pc[c] \in {"missing", "unwind", "markFailed"} \union Over

\* Requests come in turn, so the number of a request says how many of its
\* event's are doomed with it.
FaultsSpent ==
  \A c \in Calls : NeverTimedOut(c[1]) /\ Doomed(c) =>
    c[1] \in mailbox \/ Shut(c[1]) \/ c[2] <= jobFaults

\* An earlier request of an event in turn is over, so its fault is spent.
LEMMA EarlierSpent ==
  ASSUME Sides, InTurn, FaultsSpent, NEW c \in Calls, NeverTimedOut(c[1]),
         pc[c] # "idle", c[1] \notin mailbox, ~ Shut(c[1])
  PROVE  c[2] <= jobFaults + 1
<1>1. c[2] \in 1 .. MaxRetries + 1 /\ c[1] \in Events /\ attempts[c[1]] \in Nat
      /\ jobFaults \in Nat
  BY DEF Calls, Sides, Inv, TypeOK, Messaging!JobTypeOK
<1>2. CASE c[2] = 1
  BY <1>1, <1>2
<1>3. CASE c[2] > 1
  <2> DEFINE d == <<c[1], c[2] - 1>>
  <2>1. d \in Calls /\ d[1] = c[1] /\ d[2] = c[2] - 1
    BY <1>1, <1>3 DEF Calls
  <2>2. d[2] < attempts[c[1]]
    BY <1>1, <2>1 DEF InTurn, PostsFollowCalls
  <2>3. pc[d] \in Over
    BY <1>1, <2>1, <2>2 DEF InTurn, OneAfterTheOther
  <2>4. d[2] <= jobFaults
    BY <2>1, <2>3 DEF FaultsSpent, Doomed
  <2> QED
    BY <1>1, <2>1, <2>4
<1> QED
  BY <1>1, <1>2, <1>3

\* A fault pays for every request it dooms.
LEMMA FaultPays ==
  ASSUME Sides, InTurn, FaultsSpent, NEW c \in Calls, NeverTimedOut(c[1]),
         c[1] \notin mailbox, ~ Shut(c[1]),
         Doomed(c) \/ pc[c] # "idle"
  PROVE  c[2] <= jobFaults + 1
BY EarlierSpent, CallsArePairs DEF FaultsSpent, Doomed, Over, Sides, Messaging!JobTypeOK

\* What dooms a request: a fault, a job it finds taken, or its answer.
LEMMA SpendingStep ==
  ASSUME Sides, NEW c \in Calls,
         Messaging!HandlerStep(c) \/ Messaging!HandlerFault(c)
  PROVE  /\ failed' \ {c} = failed \ {c}
         /\ Doomed(c)' =>
              \/ Doomed(c)
              \/ jobFaults' = jobFaults + 1
              \/ pc[c] = "select" /\ job[c[1]] = "delivered"
              \/ pc[c] = "logPending" /\ seen[c] = "working"
              \/ pc[c] = "lastLog" /\ pc'[c] = "done" /\ code'[c] = 202
<1> USE DEF Sides, Messaging!JobTypeOK, Messaging!Goto, Messaging!Fault, Messaging!rows,
        Messaging!handler, Messaging!history, Messaging!observed, Doomed, Over
<1>0. c[1] \in Events /\ [d \in Calls |-> d[1]][c] = c[1]
  BY CallsArePairs
<1>1. CASE Messaging!Connect(c) \/ Messaging!Select(c)
  BY <1>0, <1>1 DEF Messaging!Connect, Messaging!Select, Messaging!Found
<1>2. CASE Messaging!LogMissing(c) \/ Messaging!LogPending(c)
  BY <1>0, <1>2 DEF Messaging!LogMissing, Messaging!LogPending
<1>3. CASE Messaging!Claim(c) \/ Messaging!Unwind(c)
  BY <1>0, <1>3 DEF Messaging!Claim, Messaging!Unwind
<1>4. CASE Messaging!Open(c) \/ Messaging!Deliver(c)
  BY <1>0, <1>4 DEF Messaging!Open, Messaging!Deliver
<1>5. CASE Messaging!OpenTransports(c) \/ Messaging!GetProfile(c) \/ Messaging!Send(c)
           \/ Messaging!SkipTransports(c)
  BY <1>0, <1>5 DEF Messaging!OpenTransports, Messaging!GetProfile, Messaging!Send,
     Messaging!SkipTransports, Messaging!AfterTransports
<1>6. CASE Messaging!SendFails(c) \/ Messaging!EmailLog(c)
  BY <1>0, <1>6 DEF Messaging!SendFails, Messaging!EmailLog, Messaging!AfterTransports
<1>7. CASE Messaging!MarkFailed(c) \/ Messaging!LastLog(c)
  BY <1>0, <1>7 DEF Messaging!MarkFailed, Messaging!LastLog, Messaging!AnswerOf
<1>8. CASE Messaging!HandlerFault(c)
  BY <1>0, <1>8 DEF Messaging!HandlerFault, Messaging!ClaimFails,
     Messaging!DeliverFails, Messaging!ConnectFails, Messaging!GetProfileFails,
     Messaging!MarkFailedFails
<1> QED
  BY <1>1, <1>2, <1>3, <1>4, <1>5, <1>6, <1>7, <1>8 DEF Messaging!HandlerStep

\* A request in turn that is alone at work and past nothing finds a 'working'
\* job shut.
LEMMA AloneMeansShut ==
  ASSUME Sides, InTurn, NEW c \in Calls, NeverTimedOut(c[1]), AtWork(c),
         job[c[1]] = "working", pc[c] \notin Messaging!Past,
         pc[c] \in {"logPending", "claim"} => seen[c] = "working"
  PROVE  Shut(c[1])
<1>1. ASSUME NEW d \in Calls, d[1] = c[1], d # c
      PROVE  pc[d] \in {"idle", "done", "dead"}
  BY <1>1, OneAtWork DEF AtWork, Over
<1> QED
  BY <1>1 DEF Shut, Messaging!Past

LEMMA SpentByRequests ==
  ASSUME Sides, Sides', InTurn, InTurn', FaultsSpent, MessagingStep, NEW c \in Calls,
         Messaging!HandlerStep(c) \/ Messaging!HandlerFault(c)
  PROVE  FaultsSpent'
<1>t. Messaging!JobTypeOK /\ UNCHANGED vars
  BY DEF Sides, MessagingStep
<1>1. ASSUME NEW d \in Calls, NeverTimedOut(d[1])', Doomed(d)',
             d[1] \notin mailbox', ~ Shut(d[1])'
      PROVE  d[2] <= jobFaults'
  <2>1. d[1] \in Events /\ NeverTimedOut(d[1])
    BY <1>t, <1>1, CallsArePairs DEF NeverTimedOut, vars, table
  <2>3. d[1] \notin mailbox /\ ~ Shut(d[1])
    BY <1>1, <2>1, ShutStays
  <2>4. /\ jobFaults \in Nat /\ jobFaults' \in {jobFaults, jobFaults + 1}
        /\ d[2] \in Nat
    BY <1>t, RequestStep, CallsArePairs
  <2>5. CASE Doomed(d)
    BY <2>1, <2>3, <2>4, <2>5 DEF FaultsSpent
  <2>6. CASE ~ Doomed(d)
    <3>1. d = c
      <4>1. d # c => pc'[d] = pc[d]
        BY <1>t, RequestStep
      <4>2. d # c => (d \in failed' => d \in failed)
        BY SpendingStep
      <4> QED
        BY <1>1, <2>6, <4>1, <4>2 DEF Doomed
    <3>2. AtWork(c) /\ CommitInTurn(c[1]) /\ CommitInTurn(c[1])'
      BY <1>t, <1>1, <2>1, <3>1, RequestStep DEF InTurn, RowsInTurn
    <3>3. ~ (pc[c] = "select" /\ job[c[1]] = "delivered")
      BY <2>1, <2>3, <3>1 DEF Sides, Messaging!AcceptedMeansInMailbox
    <3>4. ~ (pc[c] = "logPending" /\ seen[c] = "working")
      <4>1. pc[c] = "logPending" => pc[c] \notin Messaging!Past
        BY DEF Messaging!Past
      <4> QED
        BY <2>1, <2>3, <3>1, <3>2, <4>1, AloneMeansShut DEF CommitInTurn
    <3>5. ~ (pc[c] = "lastLog" /\ pc'[c] = "done" /\ code'[c] = 202)
      <4>1. SUFFICES ASSUME pc[c] = "lastLog", pc'[c] = "done", code'[c] = 202
                     PROVE  FALSE
        OBVIOUS
      <4>2. [x \in Calls |-> x[1]][c] = c[1]
        OBVIOUS
      <4>3. c[1] \in mailbox' \/ commit'[c[1]] = "delivered" \/ c[1] \in lostCommits'
        BY <4>1, <4>2 DEF Sides, Messaging!AcceptedMeansInMailbox, Messaging!HandedOver
      <4>4. commit'[c[1]] = "delivered"
        BY <1>1, <3>1, <3>2, <4>3 DEF CommitInTurn
      <4>5. job[c[1]] = "working"
        <5>1. commit[c[1]] = "delivered"
          BY <1>t, <4>1, <4>4, OwnRow
        <5> QED
          BY <3>2, <5>1 DEF CommitInTurn
      <4> QED
        BY <2>1, <2>3, <3>1, <3>2, <4>1, <4>5, AloneMeansShut DEF Messaging!Past
    <3>6. jobFaults' = jobFaults + 1
      BY <1>1, <2>6, <3>1, <3>3, <3>4, <3>5, SpendingStep
    <3> QED
      BY <2>1, <2>3, <3>1, <3>2, <3>6, EarlierSpent DEF AtWork
  <2> QED
    BY <2>5, <2>6
<1> QED
  BY <1>1 DEF FaultsSpent

LEMMA SpentByCrash ==
  ASSUME Sides, InTurn, FaultsSpent, MessagingStep,
         NEW S \in SUBSET Events, Messaging!JobCrash(S)
  PROVE  FaultsSpent'
<1>t. Messaging!JobTypeOK /\ UNCHANGED vars
  BY DEF Sides, MessagingStep
<1>1. ASSUME NEW d \in Calls, NeverTimedOut(d[1])', Doomed(d)',
             d[1] \notin mailbox', ~ Shut(d[1])'
      PROVE  d[2] <= jobFaults'
  <2>1. /\ jobFaults' = jobFaults + 1 /\ failed' = failed
        /\ pc[d] = "idle" => pc'[d] = "idle"
    BY <1>t, CrashRow
  <2>2. d[1] \in Events /\ NeverTimedOut(d[1])
    BY <1>t, <1>1, CallsArePairs DEF NeverTimedOut, vars, table
  <2>3. d[1] \notin mailbox /\ ~ Shut(d[1])
    BY <1>1, <2>2, ShutStays
  <2>4. Doomed(d) \/ pc[d] # "idle"
    BY <1>1, <2>1 DEF Doomed, Over
  <2> QED
    BY <2>1, <2>2, <2>3, <2>4, FaultPays
<1> QED
  BY <1>1 DEF FaultsSpent

\* A COMMIT that lands dooms nobody.
LEMMA SpentByCommit ==
  ASSUME Sides, FaultsSpent, MessagingStep, NEW e \in Events, Messaging!CommitLands(e)
  PROVE  FaultsSpent'
<1>1. UNCHANGED <<pc, failed, jobFaults, vars>>
  BY LandedRow DEF Sides, MessagingStep
<1>2. \A c \in Calls : Doomed(c)' <=> Doomed(c)
  BY <1>1 DEF Doomed
<1>3. \A f \in Events : Shut(f) \/ f \in mailbox => Shut(f)' \/ f \in mailbox'
  BY ShutStays
<1> QED
  BY <1>1, <1>2, <1>3, CallsArePairs DEF FaultsSpent, NeverTimedOut, vars, table

LEMMA FaultsSpentStep ==
  Sides /\ Sides' /\ InTurn /\ InTurn' /\ FaultsSpent /\ [DeliveryNext]_allVars
    => FaultsSpent'
<1> SUFFICES ASSUME Sides, Sides', InTurn, InTurn', FaultsSpent, [DeliveryNext]_allVars
             PROVE  FaultsSpent'
  OBVIOUS
<1>1. ASSUME UNCHANGED jobVars,
             \A e \in Events : NeverTimedOut(e)' => NeverTimedOut(e)
      PROVE  FaultsSpent'
  <2>1. ASSUME NEW c \in Calls
        PROVE  (Doomed(c)' <=> Doomed(c)) /\ (Shut(c[1])' <=> Shut(c[1]))
    BY <1>1 DEF jobVars, Doomed, Shut
  <2> QED
    BY <1>1, <2>1, CallsArePairs DEF FaultsSpent, jobVars
<1>2. CASE SchedulerStep
  BY <1>1, <1>2, TimeoutsStay DEF SchedulerStep
<1>3. CASE \E u \in Units : SettleCall(u)
  BY <1>1, <1>3 DEF SettleCall, AnswerCall, TimeOutCall, Settle, NeverTimedOut, table
<1>4. CASE UNCHANGED allVars
  BY <1>1, <1>4 DEF allVars, vars, table, NeverTimedOut
<1>5. ASSUME NEW c \in Calls, Messaging!Arrive(c), ArriveSome
      PROVE  FaultsSpent'
  <2>1. /\ pc[c] = "idle" /\ pc'[c] = "queued"
        /\ \A d \in Calls \ {c} : pc'[d] = pc[d]
        /\ UNCHANGED <<job, mailbox, seen, failed, jobFaults>>
    BY <1>5 DEF Messaging!Arrive, Messaging!Goto, Messaging!rows, Messaging!history,
       Messaging!observed, Sides, Messaging!JobTypeOK
  <2>2. \A d \in Calls : Doomed(d)' => Doomed(d)
    BY <2>1 DEF Doomed, Over
  <2>3. \A e \in Events : Shut(e) => Shut(e)'
    BY <2>1 DEF Shut, Messaging!Past
  <2> QED
    BY <1>5, <2>1, <2>2, <2>3, CallsArePairs
    DEF FaultsSpent, NeverTimedOut, ArriveSome, vars, table
<1>6. CASE ArriveSome
  BY <1>5, <1>6 DEF ArriveSome, Calls
<1>7. CASE MessagingStep
  BY <1>7, SpentByRequests, SpentByCrash, SpentByCommit DEF MessagingStep
<1> QED
  BY <1>2, <1>3, <1>4, <1>6, <1>7 DEF DeliveryNext

\* A call that was counted as failed without timing out was answered.
CountedAreAnswered ==
  \A e \in Events : NeverTimedOut(e) /\ retries[e] = attempts[e] => Answered(e)

LEMMA CountedAreAnsweredCorrect == DeliverySpec => []CountedAreAnswered
<1>1. DeliveryInit => CountedAreAnswered
  BY DEF DeliveryInit, Init, CountedAreAnswered, Answered, Calls
<1>2. Sides /\ InTurn /\ CountedAreAnswered /\ [DeliveryNext]_allVars => CountedAreAnswered'
  <2> SUFFICES ASSUME Sides, InTurn, CountedAreAnswered, [DeliveryNext]_allVars
               PROVE  CountedAreAnswered'
    OBVIOUS
  <2>1. ASSUME UNCHANGED <<retries, attempts>>,
               \A e \in Events : NeverTimedOut(e)' => NeverTimedOut(e),
               \A c \in Calls : pc[c] \in Over => pc'[c] \in Over
        PROVE  CountedAreAnswered'
    BY <2>1 DEF CountedAreAnswered, Answered
  <2>2. CASE SchedulerStep
    <3>1. /\ \A e \in Events : NeverTimedOut(e)' => NeverTimedOut(e)
          /\ \A e \in Events : Answered(e) /\ attempts'[e] = attempts[e] => Answered(e)'
          /\ \A c \in Calls : pc'[c] = pc[c]
      BY <2>2, TimeoutsStay DEF SchedulerStep, jobVars, Answered
    <3>2. ASSUME NEW u \in Units, Call(u)
          PROVE  CountedAreAnswered'
      <4>1. \A e \in Events : e \in batch[u] => attempts'[e] = retries'[e] + 1
        BY <3>2 DEF Call, Sides, Inv, TypeOK, UnitsAgreeWithRows, table
      <4>2. \A e \in Events \ batch[u] : attempts'[e] = attempts[e] /\ retries'[e] = retries[e]
        BY <3>2 DEF Call, Sides, Inv, TypeOK, table
      <4>3. \A e \in Events : retries[e] \in Nat /\ retries'[e] = retries[e]
        BY <3>2 DEF Call, Sides, Inv, TypeOK, table
      <4> QED
        BY <3>1, <4>1, <4>2, <4>3 DEF CountedAreAnswered
    <3>3. ASSUME NEW u \in Units, Record(u)
          PROVE  CountedAreAnswered'
      <4>1. attempts' = attempts
        BY <3>3 DEF Record, history
      <4>2. ASSUME NEW e \in batch[u], e \in Events, NeverTimedOut(e)'
            PROVE  Answered(e)
        <5>1. answer[u][e] \in {"delivered", "error"}
          BY <3>3, <4>2, SettledInTime
        <5> QED
          BY <3>1, <4>2, <5>1 DEF InTurn, OneAfterTheOther
      <4>3. \A e \in Events \ batch[u] : retries'[e] = retries[e]
        BY <3>3 DEF Record, history
      <4> QED
        BY <3>1, <4>1, <4>2, <4>3 DEF CountedAreAnswered
    <3>4. CASE ~ \E u \in Units : Call(u) \/ Record(u)
      <4>1. UNCHANGED <<retries, attempts>>
        BY <2>2, <3>4 DEF SchedulerStep, Tick, Submit, PollSome, Poll, PollReplyLost,
           MarkHandling, RecordFails, Crash, table, history
      <4> QED
        BY <2>1, <3>1, <4>1
    <3> QED
      BY <3>2, <3>3, <3>4
  <2>3. CASE \E u \in Units : SettleCall(u)
    BY <2>1, <2>3 DEF SettleCall, AnswerCall, TimeOutCall, Settle, NeverTimedOut,
       table, jobVars
  <2>4. CASE MessagingStep \/ ArriveSome
    <3>1. UNCHANGED <<retries, attempts, logs>>
      BY <2>4 DEF MessagingStep, ArriveSome, vars, table, history
    <3>2. \A c \in Calls : pc[c] \in Over => pc'[c] \in Over
      BY <2>4, OverStays
    <3> QED
      BY <2>1, <3>1, <3>2 DEF NeverTimedOut
  <2>5. CASE UNCHANGED allVars
    BY <2>1, <2>5 DEF allVars, vars, table, history, jobVars, NeverTimedOut
  <2> QED
    BY <2>2, <2>3, <2>4, <2>5 DEF DeliveryNext
<1> QED
  BY <1>1, <1>2, SidesHold, InTurnCorrect, PTL DEF DeliverySpec

\* As long as no call of an event timed out, its failed calls are no more than
\* the faults of the messaging side, unless its message is in the mailbox
\* anyway or a failure left its job 'working' with nobody at work.
FailuresLoseNothing ==
  \A e \in Events : NeverTimedOut(e) =>
    e \in mailbox \/ Abandoned(e) \/ retries[e] <= jobFaults

\* An event uses up its attempts on failures alone only if there are as many
\* of them: the code refuses, forgets and counts no attempt for nothing.
THEOREM FailuresLoseNothingCorrect == DeliverySpec => []FailuresLoseNothing
<1>1. DeliveryInit => FaultsSpent
  BY DEF DeliveryInit, Messaging!JobInit, FaultsSpent, Doomed, Over
<1>2. ASSUME Sides, InTurn, FaultsSpent, CountedAreAnswered, NEW e \in Events,
             NeverTimedOut(e), e \notin mailbox, ~ Abandoned(e), retries[e] # 0
      PROVE  retries[e] <= jobFaults
  <2> DEFINE c == <<e, retries[e]>>
  <2>1. /\ retries[e] \in 1 .. MaxRetries + 1
        /\ attempts[e] \in Nat
        /\ retries[e] <= attempts[e]
    <3> USE <1>2 DEF Sides, Inv, TypeOK
    <3>1. retries[e] \in Nat /\ attempts[e] \in Nat /\ retries[e] <= MaxRetries + 1
      BY DEF AttemptsAccounted
    <3>2. attempts[e] - retries[e] \in {0, 1}
      BY DEF AttemptsAccounted
    <3> QED
      BY <3>1, <3>2
  <2>2. c \in Calls /\ c[1] = e /\ c[2] = retries[e]
    BY <2>1 DEF Calls
  <2> HIDE DEF c
  <2>3. pc[c] \in Over
    <3>1. CASE retries[e] < attempts[e]
      BY <1>2, <2>2, <3>1 DEF InTurn, OneAfterTheOther
    <3>2. CASE retries[e] = attempts[e]
      <4>1. Answered(e)
        BY <1>2, <3>2 DEF CountedAreAnswered
      <4> QED
        BY <1>2, <2>1, <2>2, <3>2, <4>1 DEF Answered
    <3> QED
      BY <2>1, <3>1, <3>2
  <2> QED
    BY <1>2, <2>2, <2>3 DEF FaultsSpent, Doomed, Shut, Abandoned
<1>3. Sides /\ InTurn /\ FaultsSpent /\ CountedAreAnswered => FailuresLoseNothing
  <2>1. Sides => \A e \in Events : retries[e] = 0 => retries[e] <= jobFaults
    BY DEF Sides, Messaging!JobTypeOK
  <2> QED
    BY <1>2, <2>1 DEF FailuresLoseNothing
<1> QED
  BY <1>1, <1>3, FaultsSpentStep, SidesHold, InTurnCorrect, CountedAreAnsweredCorrect, PTL
  DEF DeliverySpec
=============================================================================
