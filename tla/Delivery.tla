----------------------------- MODULE Delivery ------------------------------
(***************************************************************************)
(* From the scheduler to the mailbox: the events of Scheduler are the jobs *)
(* of MessageJob, every post of a webhook is a request of its own, and a   *)
(* call settles by the answer of its request, by the death of the process  *)
(* that served it, or by the scheduler's timeout, which the request never  *)
(* hears of.                                                               *)
(***************************************************************************)
EXTENDS Scheduler

CONSTANTS PoolMax, MaxJobFaults

ASSUME DeliveryAssumption ==
  /\ IsFiniteSet(Events)
  /\ PoolMax \in Nat \ {0}
  /\ MaxJobFaults \in Nat

VARIABLES job, mailbox, commit, pc, seen, carry, failed, code, leaked, emails,
          staleClaims, lostCommits, jobFaults

\* The n-th post of an event.
Calls == Events \X (1 .. MaxRetries + 1)

Messaging == INSTANCE MessageJob WITH
  Jobs <- Events, Requests <- Calls, JobOf <- [c \in Calls |-> c[1]]

jobVars == <<job, mailbox, commit, pc, seen, carry, failed, code, leaked,
             emails, staleClaims, lostCommits, jobFaults>>
allVars == <<vars, jobVars>>

DeliveryInit == Init /\ Messaging!JobInit

\* Everything in the scheduler but the outcome of a call.
SchedulerStep ==
  /\ \/ Tick
     \/ \E S \in SUBSET Events, at \in [Events -> 0 .. MaxTime] : Submit(S, at)
     \/ PollSome
     \/ \E B \in SUBSET Events : PollReplyLost(B)
     \/ \E u \in Units : Call(u) \/ Record(u) \/ RecordFails(u)
     \/ \E p \in Processes : Crash(p)
  /\ UNCHANGED jobVars

\* A post arrives after it was sent, possibly long after the abort.
ArriveSome ==
  /\ \E e \in Events, n \in 1 .. MaxRetries + 1 :
       n <= attempts[e] /\ Messaging!Arrive(<<e, n>>)
  /\ UNCHANGED vars

\* An answer taken for good whatever its status, as fetch itself does.
MistakenResultOf(c) == IF pc[c] = "done" THEN "delivered" ELSE "error"

\* Any 2xx the handler can send is a 202; a dead process resets the call.
ResultOf(c) == IF code[c] = 202 THEN "delivered" ELSE "error"

AnswerCall(u, e) ==
  /\ \E n \in 1 .. MaxRetries + 1 :
       /\ n = attempts[e]
       /\ pc[<<e, n>>] \in {"done", "dead"}
       /\ Settle(u, e, ResultOf(<<e, n>>))
  /\ UNCHANGED jobVars

TimeOutCall(u, e) ==
  /\ Settle(u, e, "timeout")
  /\ UNCHANGED jobVars

SettleCall(u) == \E e \in Events : AnswerCall(u, e) \/ TimeOutCall(u, e)

MessagingStep ==
  /\ \/ \E c \in Calls : Messaging!HandlerStep(c) \/ Messaging!HandlerFault(c)
     \/ \E e \in Events : Messaging!CommitLands(e)
     \/ \E S \in SUBSET Events : Messaging!JobCrash(S)
  /\ UNCHANGED vars

DeliveryNext ==
  \/ SchedulerStep
  \/ ArriveSome
  \/ \E u \in Units : SettleCall(u)
  \/ MessagingStep

DeliverySpec == DeliveryInit /\ [][DeliveryNext]_allVars

\* As in the two modules; posts are not lost, though they may be late.
DeliveryFairness ==
  /\ WF_allVars(Tick /\ UNCHANGED jobVars)
  /\ WF_allVars(PollSome /\ UNCHANGED jobVars)
  /\ WF_allVars(ArriveSome)
  /\ \A u \in Units : /\ WF_allVars(Call(u) /\ UNCHANGED jobVars)
                      /\ WF_allVars(SettleCall(u))
                      /\ WF_allVars(Record(u) /\ UNCHANGED jobVars)
  /\ \A c \in Calls : WF_allVars(Messaging!HandlerStep(c) /\ UNCHANGED vars)
  /\ \A e \in Events : WF_allVars(Messaging!CommitLands(e) /\ UNCHANGED vars)

DeliveryFairSpec == DeliverySpec /\ DeliveryFairness

-----------------------------------------------------------------------------
(* Properties.                                                             *)

\* An event the scheduler gives up as delivered has its message in the
\* mailbox, whatever timed out, crashed or raced on the way, or in the hands
\* of a COMMIT nobody waited for: on its way, or lost when the process of
\* messaging-api died.
DeliveredEventInMailbox ==
  \A e \in Events : status[e] = "delivered" => Messaging!HandedOver(e)

\* Retrying is safe for the receiver as long as no call timed out and
\* nothing failed: then at most one e-mail is sent.
TimedOut(e) == logs[e]["timeout"] > 0 \/ \E u \in Units : answer[u][e] = "timeout"
SecondEmailNeedsTimeout ==
  \A e \in Events : emails[e] > 1 => jobFaults > 0 \/ TimedOut(e)

\* A job left 'working' by a process that died, be it at work on the job or
\* with its delivery not yet committed.
Abandoned(e) ==
  job[e] = "working" /\ \A c \in Calls : c[1] = e => pc[c] \notin Messaging!Past

\* Every enqueued message reaches the mailbox, or: the scheduler lost its
\* event to a fault of its own; or something failed on the messaging side and
\* either a call of the event timed out (the retry may be refused while the
\* first request still works, and then fails with no retry left), or the
\* process died while it worked on the job or before the delivery it had
\* answered 202 for was committed; or something failed there as often as a
\* task is attempted; or the pool waits for itself.  Timeouts alone cost no
\* message, nor do fewer failures than attempts that leave the job open.
EveryMessageReachesMailbox ==
  \A e \in Events :
    status[e] # "absent" ~>
      \/ e \in mailbox
      \/ e \in Orphans
      \/ jobFaults > 0 /\ (TimedOut(e) \/ Abandoned(e))
      \/ jobFaults > MaxRetries
      \/ Messaging!Wedged

\* executeJob refuses a request with "job is already in progress" while
\* another one works on the job: at most one request works on a job.
OneWorkerPerJob ==
  \A c, d \in Calls :
    /\ pc[c] \in Messaging!Past
    /\ pc[d] \in Messaging!Past
    /\ c[1] = d[1]
    => c = d
=============================================================================
