----------------------------- MODULE JourneyRun -----------------------------
(***************************************************************************)
(* intg-api: one run of a journey, driven by POST /run, /execute and       *)
(* /transition.                                                            *)
(*                                                                         *)
(* Every handler is a chain of awaited statements, each a transaction of   *)
(* its own, so the requests of one user (two tabs, a reloaded callback     *)
(* page, a retry) interleave at every await.  A row of run_steps is named  *)
(* here by the request that inserts it: Start for the initial step, the    *)
(* /transition request for any other.                                      *)
(***************************************************************************)
CONSTANTS Steps,        \* the steps of the journey
          InitialStep,  \* journeys.initial_step_id
          Successor,    \* the connections: the step after each step, or End
          End,          \* no step
          Start,        \* the /run request
          Executes,     \* the /execute requests that may arrive
          Transitions,  \* the /transition requests that may arrive
          NoData        \* the data of a step nobody submitted

Requests == Executes \union Transitions
Rows == Transitions \union {Start}
Callers == Requests \union {Start}

ASSUME JourneyAssumption ==
  /\ InitialStep \in Steps
  /\ End \notin Steps
  /\ Successor \in [Steps -> Steps \union {End}]
  /\ Start \notin Requests
  /\ Executes \intersect Transitions = {}
  /\ NoData \notin Transitions

VARIABLES
  run,      \* status of the row of runs, "none" before it is inserted
  status,   \* status of each row of run_steps, "absent" before it is inserted
  step,     \* its step_id
  data,     \* the submission it holds, named by the request that sent it
  pc,       \* where each request is
  held,     \* the active row each request read
  seen,     \* the data it read with it
  stale,    \* history: requests that wrote a row completed since they read it
  misread   \* history: requests that took a failed read for "no connections"

table == <<run, status, step, data>>
handler == <<pc, held, seen>>
history == <<stale, misread>>
runVars == <<table, handler, history>>

\* Between its two writes a request alone knows what the run should do next.
Between == {"connections", "create", "finish"}
Reading == {"idle", "readRun", "readActive"}
Stages == Reading \union Between
          \union {"write", "done", "told", "noStep", "dead", "cut"}

RunTypeOK ==
  /\ run \in {"none", "pending", "completed"}
  /\ status \in [Rows -> {"absent", "pending", "in_progress", "completed"}]
  /\ step \in [Rows -> Steps]
  /\ data \in [Rows -> Transitions \union {NoData}]
  /\ pc \in [Callers -> Stages]
  /\ held \in [Requests -> Rows]
  /\ seen \in [Requests -> Transitions \union {NoData}]
  /\ stale \in SUBSET Requests
  /\ misread \in SUBSET Transitions

RunInit ==
  /\ run = "none"
  /\ status = [x \in Rows |-> "absent"]
  /\ step = [x \in Rows |-> InitialStep]
  /\ data = [x \in Rows |-> NoData]
  /\ pc = [r \in Callers |-> "idle"]
  /\ held = [r \in Requests |-> Start]
  /\ seen = [r \in Requests |-> NoData]
  /\ stale = {}
  /\ misread = {}

Goto(r, s) == pc' = [pc EXCEPT ![r] = s]

-----------------------------------------------------------------------------
(* POST /run: two inserts, no transaction around them.                     *)

CreateRun ==
  /\ pc[Start] = "idle"
  /\ run' = "pending"
  /\ Goto(Start, "create")
  /\ UNCHANGED <<status, step, data, held, seen, history>>

\* An insert that takes the wrong member of the status enumeration.
MistakenInsertStep(x, s) ==
  /\ status' = [status EXCEPT ![x] = "completed"]
  /\ step' = [step EXCEPT ![x] = s]
  /\ data' = [data EXCEPT ![x] = NoData]

InsertStep(x, s) ==
  /\ status' = [status EXCEPT ![x] = "pending"]
  /\ step' = [step EXCEPT ![x] = s]
  /\ data' = [data EXCEPT ![x] = NoData]

CreateFirstStep ==
  /\ pc[Start] = "create"
  /\ InsertStep(Start, InitialStep)
  /\ Goto(Start, "done")
  /\ UNCHANGED <<run, held, seen, history>>

-----------------------------------------------------------------------------
(* What /execute and /transition share.  Neither names the step it means.  *)

Arrive(r) ==
  /\ pc[r] = "idle"
  /\ run # "none"
  /\ Goto(r, "readRun")
  /\ UNCHANGED <<table, held, seen, history>>

ReadRun(r) ==
  /\ pc[r] = "readRun"
  /\ Goto(r, IF run = "completed" THEN "told" ELSE "readActive")
  /\ UNCHANGED <<table, held, seen, history>>

Active(x) == status[x] \in {"pending", "in_progress"}

\* The first of the active rows, which the query returns in no stated order.
ReadActive(r) ==
  /\ pc[r] = "readActive"
  /\ \E x \in Rows :
       /\ Active(x)
       /\ held' = [held EXCEPT ![r] = x]
       /\ seen' = [seen EXCEPT ![r] = data[x]]
  /\ Goto(r, "write")
  /\ UNCHANGED <<table, history>>

NoActiveStep(r) ==
  /\ pc[r] = "readActive"
  /\ \A x \in Rows : ~ Active(x)
  /\ Goto(r, "noStep")
  /\ UNCHANGED <<table, held, seen, history>>

\* The update is by id alone: it does not look at the row again.
UpdateHeld(r, newStatus, newData) ==
  /\ status' = [status EXCEPT ![held[r]] = newStatus]
  /\ data' = [data EXCEPT ![held[r]] = newData]
  /\ stale' = IF status[held[r]] = "completed" THEN stale \union {r} ELSE stale

-----------------------------------------------------------------------------
(* POST /execute writes back the data it read.                             *)

PutInProgress(r) ==
  /\ pc[r] = "write"
  /\ UpdateHeld(r, "in_progress", seen[r])
  /\ Goto(r, "done")
  /\ UNCHANGED <<run, step, held, seen, misread>>

-----------------------------------------------------------------------------
(* POST /transition.                                                       *)

\* A copy of /execute's update: the step stays open.
MistakenComplete(t) ==
  /\ pc[t] = "write"
  /\ UpdateHeld(t, "in_progress", t)
  /\ Goto(t, "connections")
  /\ UNCHANGED <<run, step, held, seen, misread>>

\* The data that was read is saved in place of the data that was sent.
MistakenlyCompleteOldData(t) ==
  /\ pc[t] = "write"
  /\ UpdateHeld(t, "completed", seen[t])
  /\ Goto(t, "connections")
  /\ UNCHANGED <<run, step, held, seen, misread>>

Complete(t) ==
  /\ pc[t] = "write"
  /\ UpdateHeld(t, "completed", t)
  /\ Goto(t, "connections")
  /\ UNCHANGED <<run, step, held, seen, misread>>

NextStep(t) == Successor[step[held[t]]]

ReadConnections(t) ==
  /\ pc[t] = "connections"
  /\ Goto(t, IF NextStep(t) = End THEN "finish" ELSE "create")
  /\ UNCHANGED <<table, held, seen, history>>

\* A query that fails is logged and read as "no connections".
MisreadConnections(t) ==
  /\ pc[t] = "connections"
  /\ misread' = misread \union {t}
  /\ Goto(t, "finish")
  /\ UNCHANGED <<table, held, seen, stale>>

CreateNextStep(t) ==
  /\ pc[t] = "create"
  /\ InsertStep(t, NextStep(t))
  /\ Goto(t, "done")
  /\ UNCHANGED <<run, held, seen, history>>

FinishRun(t) ==
  /\ pc[t] = "finish"
  /\ run' = "completed"
  /\ Goto(t, "done")
  /\ UNCHANGED <<status, step, data, held, seen, history>>

-----------------------------------------------------------------------------
\* A statement fails, and the handler with it, or the process dies: what was
\* written before stays.
Abort(r) ==
  /\ pc[r] \in {"readRun", "readActive", "write"} \union Between
  /\ Goto(r, IF pc[r] \in Between THEN "cut" ELSE "dead")
  /\ UNCHANGED <<table, held, seen, history>>

TransitionStep(t) ==
  Complete(t) \/ ReadConnections(t) \/ MisreadConnections(t)
  \/ CreateNextStep(t) \/ FinishRun(t)

RunNext ==
  \/ CreateRun \/ CreateFirstStep
  \/ \E r \in Requests :
       Arrive(r) \/ ReadRun(r) \/ ReadActive(r) \/ NoActiveStep(r)
  \/ \E r \in Executes : PutInProgress(r)
  \/ \E t \in Transitions : TransitionStep(t)
  \/ \E r \in Callers : Abort(r)

RunSpec == RunInit /\ [][RunNext]_runVars

-----------------------------------------------------------------------------
(* Properties.                                                             *)

\* A run that is not completed can go on: it has an active step, or a request
\* is about to create one, or a request was cut off between its two writes.
PendingRunHasWork ==
  run = "pending" =>
    \E x \in Rows : Active(x) \/ pc[x] \in Between \union {"cut"}

\* The user is at one step at a time: a run has a second active row only after
\* a request wrote a row that another had completed since it read it.
OneActiveStep ==
  stale = {} => \A x, y \in Rows : Active(x) /\ Active(y) => x = y

\* What a transition submitted stays, in a row that stays completed, unless
\* a request that had read the row earlier overwrites it.
SubmissionsKept ==
  \A t \in Transitions :
    pc[t] \in Between \union {"done", "cut"} =>
      \/ status[held[t]] = "completed" /\ data[held[t]] = t
      \/ \E r \in stale : held[r] = held[t]

AtTheEnd(t) == Successor[step[held[t]]] = End

\* A run is completed by a transition of a step that has no successor, or by
\* one that could not read the connections.
CompletedHasReason ==
  run = "completed" =>
    \E t \in Transitions : /\ pc[t] = "done"
                           /\ AtTheEnd(t) \/ t \in misread

\* The handler's comment on completing a run: "If there are no more steps in
\* the Journey, the Run has to be marked as COMPLETED", and only then.
CompletedAtTheEnd ==
  run = "completed" =>
    \E t \in Transitions : pc[t] = "done" /\ AtTheEnd(t)
=============================================================================
