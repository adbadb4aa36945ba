-------------------------- MODULE JourneyRunProofs --------------------------
(***************************************************************************)
(* What holds of a run for every journey and any number of requests.       *)
(*                                                                         *)
(* The right to move a run forward is a token: an active row holds it, or  *)
(* the request that is between completing one row and creating the next.   *)
(* A row is named by the request that creates it, so the token of the      *)
(* request becomes the token of its row without changing its name.         *)
(***************************************************************************)
EXTENDS JourneyRun, TLAPS

Token(x) == Active(x) \/ pc[x] \in Between

\* A request's row exists only once the request is done; what a request read
\* exists, and only a request past its reading can have written.
RowsFollowRequests ==
  /\ \A x \in Rows : status[x] # "absent" => pc[x] = "done"
  /\ \A r \in Requests : pc[r] \notin Reading => held[r] \in Rows
  /\ \A r \in Requests :
       pc[r] \in Between \union {"write", "done", "cut"} =>
         status[held[r]] # "absent"
  /\ \A r \in stale : pc[r] \notin Reading \union {"write", "told", "dead", "noStep"}
  /\ \A r \in Executes : pc[r] \notin Between
  /\ pc[Start] \in {"idle", "create", "done", "cut"}
  /\ run = "none" <=> pc[Start] = "idle"
  /\ run = "none" => \A r \in Requests : pc[r] = "idle"

FinishingHasReason ==
  \A t \in Transitions :
    /\ pc[t] = "finish" => AtTheEnd(t) \/ t \in misread
    /\ pc[t] = "create" => ~ AtTheEnd(t)

OneToken ==
  stale = {} => \A x, y \in Rows : Token(x) /\ Token(y) => x = y

RunInv ==
  /\ RunTypeOK
  /\ RowsFollowRequests
  /\ FinishingHasReason
  /\ OneToken
  /\ PendingRunHasWork
  /\ SubmissionsKept
  /\ CompletedHasReason

USE JourneyAssumption DEF Requests, Rows, Callers

LEMMA RunInvInit == RunInit => RunInv
BY DEF RunInit, RunInv, RunTypeOK, RowsFollowRequests, FinishingHasReason,
  OneToken, PendingRunHasWork, SubmissionsKept, CompletedHasReason, Token,
  Active, Between, Reading, Stages

-----------------------------------------------------------------------------
(* One lemma for each part of the invariant, one step for each action.     *)

\* Only a step of the journey is ever inserted: FinishingHasReason keeps End out.
LEMMA TypesStep ==
  RunTypeOK /\ FinishingHasReason /\ [RunNext]_runVars
  => RunTypeOK'
<1> SUFFICES ASSUME RunTypeOK, FinishingHasReason, [RunNext]_runVars
             PROVE  RunTypeOK'
  OBVIOUS
<1> USE DEF RunTypeOK, FinishingHasReason, AtTheEnd,
           Goto, Reading, Between, Stages
<1>1. CASE CreateRun
  BY <1>1 DEF CreateRun, history
<1>2. CASE CreateFirstStep
  BY <1>2 DEF CreateFirstStep, InsertStep, history
<1>3. ASSUME NEW r \in Requests,
             Arrive(r) \/ ReadRun(r) \/ ReadActive(r) \/ NoActiveStep(r)
      PROVE  RunTypeOK'
  BY <1>3 DEF Arrive, ReadRun, ReadActive, NoActiveStep, table, history
<1>4. ASSUME NEW r \in Executes, PutInProgress(r)
      PROVE  RunTypeOK'
  BY <1>4 DEF PutInProgress, UpdateHeld
<1>5. ASSUME NEW t \in Transitions, Complete(t)
      PROVE  RunTypeOK'
  BY <1>5 DEF Complete, UpdateHeld
<1>6. ASSUME NEW t \in Transitions, ReadConnections(t) \/ MisreadConnections(t)
      PROVE  RunTypeOK'
  BY <1>6 DEF ReadConnections, MisreadConnections, NextStep, table, history
<1>7. ASSUME NEW t \in Transitions, CreateNextStep(t)
      PROVE  RunTypeOK'
  BY <1>7 DEF CreateNextStep, InsertStep, NextStep, history
<1>8. ASSUME NEW t \in Transitions, FinishRun(t)
      PROVE  RunTypeOK'
  BY <1>8 DEF FinishRun, history
<1>9. ASSUME NEW r \in Callers, Abort(r)
      PROVE  RunTypeOK'
  BY <1>9 DEF Abort, table, history
<1>10. CASE UNCHANGED runVars
  BY <1>10 DEF runVars, handler, table, history
<1> QED
  BY <1>1, <1>2, <1>3, <1>4, <1>5, <1>6, <1>7, <1>8, <1>9, <1>10
  DEF RunNext, TransitionStep

\* Rows appear when their request is done, and never disappear.
LEMMA RowsStep ==
  RunTypeOK /\ RowsFollowRequests /\ [RunNext]_runVars
  => RowsFollowRequests'
<1> SUFFICES ASSUME RunTypeOK, RowsFollowRequests, [RunNext]_runVars
             PROVE  RowsFollowRequests'
  OBVIOUS
<1> USE DEF RunTypeOK, RowsFollowRequests, Active,
           Goto, Reading, Between, Stages
<1>1. CASE CreateRun
  BY <1>1 DEF CreateRun, history
<1>2. CASE CreateFirstStep
  BY <1>2 DEF CreateFirstStep, InsertStep, history
<1>3. ASSUME NEW r \in Requests,
             Arrive(r) \/ ReadRun(r) \/ ReadActive(r) \/ NoActiveStep(r)
      PROVE  RowsFollowRequests'
  BY <1>3 DEF Arrive, ReadRun, ReadActive, NoActiveStep, table, history
<1>4. ASSUME NEW r \in Executes, PutInProgress(r)
      PROVE  RowsFollowRequests'
  BY <1>4 DEF PutInProgress, UpdateHeld
<1>5. ASSUME NEW t \in Transitions, Complete(t)
      PROVE  RowsFollowRequests'
  BY <1>5 DEF Complete, UpdateHeld
<1>6. ASSUME NEW t \in Transitions, ReadConnections(t) \/ MisreadConnections(t)
      PROVE  RowsFollowRequests'
  BY <1>6 DEF ReadConnections, MisreadConnections, NextStep, table, history
<1>7. ASSUME NEW t \in Transitions, CreateNextStep(t)
      PROVE  RowsFollowRequests'
  BY <1>7 DEF CreateNextStep, InsertStep, NextStep, history
<1>8. ASSUME NEW t \in Transitions, FinishRun(t)
      PROVE  RowsFollowRequests'
  BY <1>8 DEF FinishRun, history
<1>9. ASSUME NEW r \in Callers, Abort(r)
      PROVE  RowsFollowRequests'
  BY <1>9 DEF Abort, table, history
<1>10. CASE UNCHANGED runVars
  BY <1>10 DEF runVars, handler, table, history
<1> QED
  BY <1>1, <1>2, <1>3, <1>4, <1>5, <1>6, <1>7, <1>8, <1>9, <1>10
  DEF RunNext, TransitionStep

\* The step a request held keeps its successor while the request decides.
LEMMA FinishingStep ==
  RunTypeOK /\ RowsFollowRequests /\ FinishingHasReason /\ [RunNext]_runVars
  => FinishingHasReason'
<1> SUFFICES ASSUME RunTypeOK, RowsFollowRequests, FinishingHasReason, [RunNext]_runVars
             PROVE  FinishingHasReason'
  OBVIOUS
<1> USE DEF RunTypeOK, RowsFollowRequests, FinishingHasReason, AtTheEnd,
           Goto, Reading, Between, Stages
<1>1. CASE CreateRun
  BY <1>1 DEF CreateRun, history
<1>2. CASE CreateFirstStep
  BY <1>2 DEF CreateFirstStep, InsertStep, history
<1>3. ASSUME NEW r \in Requests,
             Arrive(r) \/ ReadRun(r) \/ ReadActive(r) \/ NoActiveStep(r)
      PROVE  FinishingHasReason'
  BY <1>3 DEF Arrive, ReadRun, ReadActive, NoActiveStep, table, history
<1>4. ASSUME NEW r \in Executes, PutInProgress(r)
      PROVE  FinishingHasReason'
  BY <1>4 DEF PutInProgress, UpdateHeld
<1>5. ASSUME NEW t \in Transitions, Complete(t)
      PROVE  FinishingHasReason'
  BY <1>5 DEF Complete, UpdateHeld
<1>6. ASSUME NEW t \in Transitions, ReadConnections(t) \/ MisreadConnections(t)
      PROVE  FinishingHasReason'
  BY <1>6 DEF ReadConnections, MisreadConnections, NextStep, table, history
<1>7. ASSUME NEW t \in Transitions, CreateNextStep(t)
      PROVE  FinishingHasReason'
  BY <1>7 DEF CreateNextStep, InsertStep, NextStep, history
<1>8. ASSUME NEW t \in Transitions, FinishRun(t)
      PROVE  FinishingHasReason'
  BY <1>8 DEF FinishRun, history
<1>9. ASSUME NEW r \in Callers, Abort(r)
      PROVE  FinishingHasReason'
  BY <1>9 DEF Abort, table, history
<1>10. CASE UNCHANGED runVars
  BY <1>10 DEF runVars, handler, table, history
<1> QED
  BY <1>1, <1>2, <1>3, <1>4, <1>5, <1>6, <1>7, <1>8, <1>9, <1>10
  DEF RunNext, TransitionStep

\* A write that is not stale passes the token on or leaves it; none makes another.
LEMMA TokenStep ==
  RunTypeOK /\ RowsFollowRequests /\ OneToken /\ [RunNext]_runVars
  => OneToken'
<1> SUFFICES ASSUME RunTypeOK, RowsFollowRequests, OneToken, [RunNext]_runVars
             PROVE  OneToken'
  OBVIOUS
<1> USE DEF RunTypeOK, RowsFollowRequests, OneToken, Token, Active,
           Goto, Reading, Between, Stages
<1>1. CASE CreateRun
  BY <1>1 DEF CreateRun, history
<1>2. CASE CreateFirstStep
  BY <1>2 DEF CreateFirstStep, InsertStep, history
<1>3. ASSUME NEW r \in Requests,
             Arrive(r) \/ ReadRun(r) \/ ReadActive(r) \/ NoActiveStep(r)
      PROVE  OneToken'
  BY <1>3 DEF Arrive, ReadRun, ReadActive, NoActiveStep, table, history
<1>4. ASSUME NEW r \in Executes, PutInProgress(r)
      PROVE  OneToken'
  BY <1>4 DEF PutInProgress, UpdateHeld
<1>5. ASSUME NEW t \in Transitions, Complete(t)
      PROVE  OneToken'
  BY <1>5 DEF Complete, UpdateHeld
<1>6. ASSUME NEW t \in Transitions, ReadConnections(t) \/ MisreadConnections(t)
      PROVE  OneToken'
  BY <1>6 DEF ReadConnections, MisreadConnections, NextStep, table, history
<1>7. ASSUME NEW t \in Transitions, CreateNextStep(t)
      PROVE  OneToken'
  BY <1>7 DEF CreateNextStep, InsertStep, NextStep, history
<1>8. ASSUME NEW t \in Transitions, FinishRun(t)
      PROVE  OneToken'
  BY <1>8 DEF FinishRun, history
<1>9. ASSUME NEW r \in Callers, Abort(r)
      PROVE  OneToken'
  BY <1>9 DEF Abort, table, history
<1>10. CASE UNCHANGED runVars
  BY <1>10 DEF runVars, handler, table, history
<1> QED
  BY <1>1, <1>2, <1>3, <1>4, <1>5, <1>6, <1>7, <1>8, <1>9, <1>10
  DEF RunNext, TransitionStep

\* Whoever takes the last active row away is then between its two writes.
LEMMA WorkStep ==
  RunTypeOK /\ RowsFollowRequests /\ PendingRunHasWork /\ [RunNext]_runVars
  => PendingRunHasWork'
<1> SUFFICES ASSUME RunTypeOK, RowsFollowRequests, PendingRunHasWork, [RunNext]_runVars
             PROVE  PendingRunHasWork'
  OBVIOUS
<1> USE DEF RunTypeOK, RowsFollowRequests, PendingRunHasWork, Active,
           Goto, Reading, Between, Stages
<1>1. CASE CreateRun
  BY <1>1 DEF CreateRun, history
<1>2. CASE CreateFirstStep
  BY <1>2 DEF CreateFirstStep, InsertStep, history
<1>3. ASSUME NEW r \in Requests,
             Arrive(r) \/ ReadRun(r) \/ ReadActive(r) \/ NoActiveStep(r)
      PROVE  PendingRunHasWork'
  BY <1>3 DEF Arrive, ReadRun, ReadActive, NoActiveStep, table, history
<1>4. ASSUME NEW r \in Executes, PutInProgress(r)
      PROVE  PendingRunHasWork'
  BY <1>4 DEF PutInProgress, UpdateHeld
<1>5. ASSUME NEW t \in Transitions, Complete(t)
      PROVE  PendingRunHasWork'
  BY <1>5 DEF Complete, UpdateHeld
<1>6. ASSUME NEW t \in Transitions, ReadConnections(t) \/ MisreadConnections(t)
      PROVE  PendingRunHasWork'
  BY <1>6 DEF ReadConnections, MisreadConnections, NextStep, table, history
<1>7. ASSUME NEW t \in Transitions, CreateNextStep(t)
      PROVE  PendingRunHasWork'
  BY <1>7 DEF CreateNextStep, InsertStep, NextStep, history
<1>8. ASSUME NEW t \in Transitions, FinishRun(t)
      PROVE  PendingRunHasWork'
  BY <1>8 DEF FinishRun, history
<1>9. ASSUME NEW r \in Callers, Abort(r)
      PROVE  PendingRunHasWork'
  BY <1>9 DEF Abort, table, history
<1>10. CASE UNCHANGED runVars
  BY <1>10 DEF runVars, handler, table, history
<1> QED
  BY <1>1, <1>2, <1>3, <1>4, <1>5, <1>6, <1>7, <1>8, <1>9, <1>10
  DEF RunNext, TransitionStep

\* A write over a completed row is stale.
LEMMA SubmissionsStep ==
  RunTypeOK /\ RowsFollowRequests /\ SubmissionsKept /\ [RunNext]_runVars
  => SubmissionsKept'
<1> SUFFICES ASSUME RunTypeOK, RowsFollowRequests, SubmissionsKept, [RunNext]_runVars
             PROVE  SubmissionsKept'
  OBVIOUS
<1> USE DEF RunTypeOK, RowsFollowRequests, SubmissionsKept, Active,
           Goto, Reading, Between, Stages
<1>1. CASE CreateRun
  BY <1>1 DEF CreateRun, history
<1>2. CASE CreateFirstStep
  BY <1>2 DEF CreateFirstStep, InsertStep, history
<1>3. ASSUME NEW r \in Requests,
             Arrive(r) \/ ReadRun(r) \/ ReadActive(r) \/ NoActiveStep(r)
      PROVE  SubmissionsKept'
  BY <1>3 DEF Arrive, ReadRun, ReadActive, NoActiveStep, table, history
<1>4. ASSUME NEW r \in Executes, PutInProgress(r)
      PROVE  SubmissionsKept'
  BY <1>4 DEF PutInProgress, UpdateHeld
<1>5. ASSUME NEW t \in Transitions, Complete(t)
      PROVE  SubmissionsKept'
  BY <1>5 DEF Complete, UpdateHeld
<1>6. ASSUME NEW t \in Transitions, ReadConnections(t) \/ MisreadConnections(t)
      PROVE  SubmissionsKept'
  BY <1>6 DEF ReadConnections, MisreadConnections, NextStep, table, history
<1>7. ASSUME NEW t \in Transitions, CreateNextStep(t)
      PROVE  SubmissionsKept'
  BY <1>7 DEF CreateNextStep, InsertStep, NextStep, history
<1>8. ASSUME NEW t \in Transitions, FinishRun(t)
      PROVE  SubmissionsKept'
  BY <1>8 DEF FinishRun, history
<1>9. ASSUME NEW r \in Callers, Abort(r)
      PROVE  SubmissionsKept'
  BY <1>9 DEF Abort, table, history
<1>10. CASE UNCHANGED runVars
  BY <1>10 DEF runVars, handler, table, history
<1> QED
  BY <1>1, <1>2, <1>3, <1>4, <1>5, <1>6, <1>7, <1>8, <1>9, <1>10
  DEF RunNext, TransitionStep

\* The transition that completes the run is done and its row keeps its step.
LEMMA ReasonStep ==
  RunTypeOK /\ RowsFollowRequests /\ FinishingHasReason
  /\ CompletedHasReason /\ [RunNext]_runVars
  => CompletedHasReason'
<1> SUFFICES ASSUME RunTypeOK, RowsFollowRequests, FinishingHasReason,
                    CompletedHasReason, [RunNext]_runVars
             PROVE  CompletedHasReason'
  OBVIOUS
<1> USE DEF RunTypeOK, RowsFollowRequests, FinishingHasReason,
           CompletedHasReason, AtTheEnd, Goto, Reading, Between, Stages
<1>1. CASE CreateRun
  BY <1>1 DEF CreateRun, history
<1>2. CASE CreateFirstStep
  BY <1>2 DEF CreateFirstStep, InsertStep, history
<1>3. ASSUME NEW r \in Requests,
             Arrive(r) \/ ReadRun(r) \/ ReadActive(r) \/ NoActiveStep(r)
      PROVE  CompletedHasReason'
  BY <1>3 DEF Arrive, ReadRun, ReadActive, NoActiveStep, table, history
<1>4. ASSUME NEW r \in Executes, PutInProgress(r)
      PROVE  CompletedHasReason'
  BY <1>4 DEF PutInProgress, UpdateHeld
<1>5. ASSUME NEW t \in Transitions, Complete(t)
      PROVE  CompletedHasReason'
  BY <1>5 DEF Complete, UpdateHeld
<1>6. ASSUME NEW t \in Transitions, ReadConnections(t) \/ MisreadConnections(t)
      PROVE  CompletedHasReason'
  BY <1>6 DEF ReadConnections, MisreadConnections, NextStep, table, history
<1>7. ASSUME NEW t \in Transitions, CreateNextStep(t)
      PROVE  CompletedHasReason'
  BY <1>7 DEF CreateNextStep, InsertStep, NextStep, history
<1>8. ASSUME NEW t \in Transitions, FinishRun(t)
      PROVE  CompletedHasReason'
  BY <1>8 DEF FinishRun, history
<1>9. ASSUME NEW r \in Callers, Abort(r)
      PROVE  CompletedHasReason'
  BY <1>9 DEF Abort, table, history
<1>10. CASE UNCHANGED runVars
  BY <1>10 DEF runVars, handler, table, history
<1> QED
  BY <1>1, <1>2, <1>3, <1>4, <1>5, <1>6, <1>7, <1>8, <1>9, <1>10
  DEF RunNext, TransitionStep

LEMMA RunInvariant == RunSpec => []RunInv
<1>1. RunInv /\ [RunNext]_runVars => RunInv'
  BY TypesStep, RowsStep, FinishingStep, TokenStep, WorkStep, SubmissionsStep,
     ReasonStep DEF RunInv
<1> QED
  BY RunInvInit, <1>1, PTL DEF RunSpec

-----------------------------------------------------------------------------

\* Every column and every handler keeps its type, for any journey.
THEOREM RunTypeCorrect == RunSpec => []RunTypeOK
BY RunInvariant, PTL DEF RunInv

\* A pending run never loses its place, however many requests race, unless a
\* request was cut off between completing a step and creating the next.
THEOREM PendingRunHasWorkCorrect == RunSpec => []PendingRunHasWork
BY RunInvariant, PTL DEF RunInv

\* Two active steps need a write over a row that had been completed.
THEOREM OneActiveStepCorrect == RunSpec => []OneActiveStep
<1>1. OneToken => OneActiveStep
  BY DEF OneToken, OneActiveStep, Token
<1> QED
  BY <1>1, RunInvariant, PTL DEF RunInv

\* A submission is lost only to such a write.
THEOREM SubmissionsKeptCorrect == RunSpec => []SubmissionsKept
BY RunInvariant, PTL DEF RunInv

\* A run ends at the end of its journey or by a failed read.
THEOREM CompletedHasReasonCorrect == RunSpec => []CompletedHasReason
BY RunInvariant, PTL DEF RunInv
=============================================================================
