----------------------------- MODULE Scheduler -----------------------------
(***************************************************************************)
(* scheduler-api: the scheduled_events table, the route that fills it and  *)
(* the workers that poll it, call the webhooks and write the outcome back. *)
(*                                                                         *)
(* A worker process starts a unit of work at every tick of its timer and   *)
(* does not wait for the previous one, so one process may have several     *)
(* units in flight.  A unit runs one statement that picks rows and marks   *)
(* them 'handling', then posts every webhook at once, waits until all have *)
(* settled, and runs one statement that writes logs and new statuses.      *)
(* Those two statements are atomic in PostgreSQL: the first locks the rows *)
(* it picks and skips the rows another statement has locked.               *)
(***************************************************************************)
EXTENDS Integers, FiniteSets

CONSTANTS Events,       \* the rows scheduled_events may ever hold
          Processes,    \* worker processes, one per scheduler instance
          Units,        \* units of work in flight at once: a model bound
          MaxRetries,   \* config.max_retries
          BatchSize,    \* config.select_size
          MaxTime,      \* bound on the clock
          MaxFaults     \* bound on crashes and lost database replies

ASSUME ConfigAssumption ==
  /\ MaxRetries \in Nat
  /\ BatchSize \in Nat \ {0}
  /\ MaxTime \in Nat
  /\ MaxFaults \in Nat

VARIABLES
  now,          \* the database clock
  status,       \* event_status; "absent" before the row is inserted
  retries,      \* the retries column
  executeAt,    \* the execute_at column
  logs,         \* event_logs: how many rows of each status_code per event
  phase,        \* where a unit of work is: idle, picked or calling
  owner,        \* the process that started the unit
  batch,        \* the rows the unit's first statement returned
  answer,       \* what each of the unit's calls came to
  attempts,     \* history: posts sent per event
  acked,        \* history: events whose webhook answered 200, 202 or 204
  faults        \* crashes and lost replies so far

table == <<status, retries, executeAt, logs>>
work == <<phase, owner, batch, answer>>
history == <<attempts, acked, faults>>
vars == <<now, table, work, history>>

Outcome == {"delivered", "error", "timeout"}

TypeOK ==
  /\ now \in 0 .. MaxTime
  /\ status \in [Events -> {"absent", "pending", "handling", "delivered"}]
  /\ retries \in [Events -> Nat]
  /\ executeAt \in [Events -> 0 .. MaxTime]
  /\ logs \in [Events -> [Outcome -> Nat]]
  /\ phase \in [Units -> {"idle", "picked", "calling"}]
  /\ owner \in [Units -> Processes]
  /\ batch \in [Units -> SUBSET Events]
  /\ answer \in [Units -> [Events -> Outcome \union {"none", "waiting"}]]
  /\ attempts \in [Events -> Nat]
  /\ acked \in SUBSET Events
  /\ faults \in 0 .. MaxFaults

Init ==
  /\ now = 0
  /\ status = [e \in Events |-> "absent"]
  /\ retries = [e \in Events |-> 0]
  /\ executeAt = [e \in Events |-> 0]
  /\ logs = [e \in Events |-> [o \in Outcome |-> 0]]
  /\ phase = [u \in Units |-> "idle"]
  /\ owner \in [Units -> Processes]
  /\ batch = [u \in Units |-> {}]
  /\ answer = [u \in Units |-> [e \in Events |-> "none"]]
  /\ attempts = [e \in Events |-> 0]
  /\ acked = {}
  /\ faults = 0

-----------------------------------------------------------------------------
(* The route and the clock.                                                *)

Tick ==
  /\ now < MaxTime
  /\ now' = now + 1
  /\ UNCHANGED <<table, work, history>>

\* POST /tasks: one insert of every task in the body, each with its time.
Submit(S, at) ==
  /\ S # {}
  /\ \A e \in S : status[e] = "absent"
  /\ status' = [e \in Events |-> IF e \in S THEN "pending" ELSE status[e]]
  /\ executeAt' = [e \in Events |-> IF e \in S THEN at[e] ELSE executeAt[e]]
  /\ UNCHANGED <<now, retries, logs, work, history>>

-----------------------------------------------------------------------------
(* The selection.                                                          *)

\* A selection that forgets execute_at, and one that stops a retry early.  Definitions named Mistaken... are plausible
\* bugs that the properties below must notice; nothing uses them.
MistakenEligibleEarly ==
  {e \in Events : status[e] = "pending" /\ retries[e] <= MaxRetries}
MistakenEligibleShort ==
  {e \in Events : /\ status[e] = "pending"
                  /\ executeAt[e] <= now
                  /\ retries[e] < MaxRetries}

Eligible ==
  {e \in Events : /\ status[e] = "pending"
                  /\ executeAt[e] <= now
                  /\ retries[e] <= MaxRetries}

\* The order by: NULLs come first in a descending order, so rows that never
\* failed lead, then the rows that failed most, then the oldest.
Before(e, f) ==
  \/ retries[e] = 0 /\ retries[f] > 0
  \/ retries[e] > retries[f] /\ retries[f] > 0
  \/ retries[e] = retries[f] /\ executeAt[e] < executeAt[f]

Batches ==
  {B \in SUBSET Eligible :
     /\ B # {}
     /\ Cardinality(B) <= BatchSize
     /\ B = Eligible \/ Cardinality(B) = BatchSize
     /\ \A e \in B, f \in Eligible \ B : ~ Before(f, e)}

\* A selection without the update that marks its rows.
MistakenMarkHandling(B) == B \in SUBSET Events /\ UNCHANGED status

MarkHandling(B) ==
  status' = [e \in Events |-> IF e \in B THEN "handling" ELSE status[e]]

\* The timer fires in process p: a unit picks a batch.  A poll that finds no
\* row changes nothing.
Poll(p, u, B) ==
  /\ phase[u] = "idle"
  /\ B \in Batches
  /\ MarkHandling(B)
  /\ phase' = [phase EXCEPT ![u] = "picked"]
  /\ owner' = [owner EXCEPT ![u] = p]
  /\ batch' = [batch EXCEPT ![u] = B]
  /\ UNCHANGED <<now, retries, executeAt, logs, answer, history>>

\* The statement commits but its reply is lost: the unit ends in its catch.
PollReplyLost(B) ==
  /\ faults < MaxFaults
  /\ B \in Batches
  /\ MarkHandling(B)
  /\ faults' = faults + 1
  /\ UNCHANGED <<now, retries, executeAt, logs, work, attempts, acked>>

-----------------------------------------------------------------------------
(* The webhook calls.                                                      *)

\* Every webhook of the batch is posted at once.
Call(u) ==
  /\ phase[u] = "picked"
  /\ phase' = [phase EXCEPT ![u] = "calling"]
  /\ answer' = [answer EXCEPT ![u] =
                  [e \in Events |-> IF e \in batch[u] THEN "waiting" ELSE "none"]]
  /\ attempts' = [e \in Events |->
                    IF e \in batch[u] THEN attempts[e] + 1 ELSE attempts[e]]
  /\ UNCHANGED <<now, table, owner, batch, acked, faults>>

\* One call settles: a 200, 202 or 204 answer counts as delivered, any other
\* answer or a failed connection as an error, the abort signal as a timeout.
Settle(u, e, o) ==
  /\ phase[u] = "calling"
  /\ answer[u][e] = "waiting"
  /\ answer' = [answer EXCEPT ![u][e] = o]
  /\ acked' = IF o = "delivered" THEN acked \union {e} ELSE acked
  /\ UNCHANGED <<now, table, phase, owner, batch, attempts, faults>>

-----------------------------------------------------------------------------
(* The write back.                                                         *)

AllSettled(u) ==
  /\ phase[u] = "calling"
  /\ \A e \in batch[u] : answer[u][e] \in Outcome

Drop(S) ==
  /\ phase' = [u \in Units |-> IF u \in S THEN "idle" ELSE phase[u]]
  /\ batch' = [u \in Units |-> IF u \in S THEN {} ELSE batch[u]]
  /\ answer' = [u \in Units |-> IF u \in S THEN [e \in Events |-> "none"]
                                ELSE answer[u]]
  /\ UNCHANGED owner

\* A write back that leaves a timed out event 'handling', and one that does
\* not count a timeout as a retry.
MistakenStatusAfterTimeout(u, e) ==
  IF answer[u][e] = "timeout" THEN status[e]
  ELSE IF answer[u][e] = "delivered" THEN "delivered" ELSE "pending"
MistakenRetriesAfter(u, e) ==
  IF answer[u][e] = "error" THEN retries[e] + 1 ELSE retries[e]

StatusAfter(u, e) == IF answer[u][e] = "delivered" THEN "delivered" ELSE "pending"
RetriesAfter(u, e) ==
  IF answer[u][e] = "delivered" THEN retries[e] ELSE retries[e] + 1

\* The statement that inserts the logs and updates the rows.  The code does
\* not await it, so nothing in the process depends on when it takes effect.
Record(u) ==
  /\ AllSettled(u)
  /\ status' = [e \in Events |->
                  IF e \in batch[u] THEN StatusAfter(u, e) ELSE status[e]]
  /\ retries' = [e \in Events |->
                   IF e \in batch[u] THEN RetriesAfter(u, e) ELSE retries[e]]
  /\ logs' = [e \in Events |->
                IF e \in batch[u]
                THEN [logs[e] EXCEPT ![answer[u][e]] = @ + 1] ELSE logs[e]]
  /\ Drop({u})
  /\ UNCHANGED <<now, executeAt, history>>

\* A process dies with the units it had in flight and is started again.
Crash(p) ==
  LET lost == {u \in Units : phase[u] # "idle" /\ owner[u] = p}
  IN  /\ faults < MaxFaults
      /\ lost # {}
      /\ Drop(lost)
      /\ faults' = faults + 1
      /\ UNCHANGED <<now, table, attempts, acked>>

\* The database refuses the write back.  The promise is not awaited, so the
\* catch around it never runs and the unhandled rejection ends the process.
RecordFails(u) == AllSettled(u) /\ Crash(owner[u])

-----------------------------------------------------------------------------
PollSome == \E p \in Processes, u \in Units, B \in SUBSET Events : Poll(p, u, B)
SettleSome(u) == \E e \in Events, o \in Outcome : Settle(u, e, o)

Next ==
  \/ Tick
  \/ \E S \in SUBSET Events, at \in [Events -> 0 .. MaxTime] : Submit(S, at)
  \/ PollSome
  \/ \E B \in SUBSET Events : PollReplyLost(B)
  \/ \E u \in Units : Call(u) \/ SettleSome(u) \/ Record(u) \/ RecordFails(u)
  \/ \E p \in Processes : Crash(p)

Spec == Init /\ [][Next]_vars

\* The timer re-arms itself for ever, fetch is called as soon as the rows
\* are back, the abort signal settles a silent call, and the write back is
\* issued as soon as the last call has settled.
Fairness ==
  /\ WF_vars(Tick)
  /\ WF_vars(PollSome)
  /\ \A u \in Units : /\ WF_vars(Call(u))
                      /\ WF_vars(SettleSome(u))
                      /\ WF_vars(Record(u))

FairSpec == Spec /\ Fairness

-----------------------------------------------------------------------------
(* Properties.                                                             *)

\* An event is in the hands of at most one unit of work, over all processes,
\* and is 'handling' for as long as it is: what "for update skip locked" and
\* the 'handling' status are for, although units overlap freely.
ExclusiveHandling ==
  \A u \in Units :
    /\ \A e \in batch[u] : status[e] = "handling"
    /\ \A v \in Units \ {u} : batch[u] \intersect batch[v] = {}

\* The retries column, the logs and the posts really sent tell one story:
\* every failed call is counted and logged once, a delivered event was
\* delivered once, and only an event in hand may have a post not counted.
AttemptsAccounted ==
  \A e \in Events :
    /\ retries[e] = logs[e]["error"] + logs[e]["timeout"]
    /\ retries[e] <= MaxRetries + 1
    /\ logs[e]["delivered"] = IF status[e] = "delivered" THEN 1 ELSE 0
    /\ attempts[e] - retries[e] \in
         CASE status[e] = "delivered" -> {1}
           [] status[e] = "handling" -> {0, 1}
           [] OTHER -> {0}

\* What a unit remembers agrees with the table until it writes back: only a
\* calling unit has answers, for the rows of its batch and no others; a row
\* in hand has retries left, and one post more than failures once it was
\* called; a row was acknowledged exactly if it is delivered, or in hand and
\* answered so, or orphaned after that.
UnitsAgreeWithRows ==
  /\ \A u \in Units :
       /\ phase[u] = "idle" => batch[u] = {}
       /\ \A e \in Events :
            answer[u][e] # "none" <=> phase[u] = "calling" /\ e \in batch[u]
       /\ \A e \in batch[u] :
            /\ attempts[e] = retries[e] + (IF phase[u] = "calling" THEN 1 ELSE 0)
            /\ e \in acked <=> answer[u][e] = "delivered"
  /\ \A e \in Events :
       /\ status[e] = "handling" => retries[e] <= MaxRetries
       /\ status[e] = "delivered" => e \in acked
       /\ e \in acked => status[e] \in {"handling", "delivered"}

\* Rows marked 'handling' that no unit will ever write back.
Orphans ==
  {e \in Events : status[e] = "handling" /\ \A u \in Units : e \notin batch[u]}

\* Only a crash or a lost reply leaves a row 'handling' with nobody to
\* handle it; nothing in the code ever picks such a row up again.
OrphansNeedFault == faults = 0 => Orphans = {}

\* Once a webhook has acknowledged a call of an event the scheduler never
\* calls it for that event again, whatever crashes afterwards.
AckedNeverCalledAgain ==
  [][\A e \in acked : attempts'[e] = attempts[e]]_vars

Stale(e) == status[e] = "pending" /\ retries[e] > MaxRetries

\* A task that has exhausted its retries stalls for good and is not invoked
\* again, as the README says.
StaleForever ==
  [][\A e \in Events : Stale(e) => Stale(e)' /\ attempts'[e] = attempts[e]]_vars

\* The workers implement the life cycle of TaskQueue, task by task.
Queue == INSTANCE TaskQueue WITH
  clock <- now,
  due <- executeAt,
  failures <- retries,
  task <- [e \in Events |->
             CASE status[e] = "pending" -> "waiting"
               [] status[e] = "handling" -> "attempting"
               [] status[e] = "delivered" -> "resolved"
               [] OTHER -> "absent"]

Promise == Queue!Spec

\* Every enqueued task ends delivered or stale, or orphaned by a fault, and
\* these are the only ways: a crash never costs the tasks that were not in
\* the crashed unit.  Without faults there are no orphans (OrphansNeedFault).
EverySubmittedEventSettles ==
  \A e \in Events :
    status[e] # "absent" ~> \/ status[e] = "delivered"
                            \/ Stale(e)
                            \/ e \in Orphans
=============================================================================
