----------------------------- MODULE TaskQueue -----------------------------
(***************************************************************************)
(* What the scheduler promises to the applications that enqueue callbacks, *)
(* with no worker, batch, unit of work or process in sight: a task waits   *)
(* for its time, is attempted a bounded number of times, and is resolved   *)
(* only by an attempt its webhook acknowledged.  Scheduler implements it   *)
(* (Scheduler!Promise).                                                    *)
(***************************************************************************)
EXTENDS Naturals

CONSTANTS Events,       \* the identities a task row may have
          MaxRetries,   \* config.max_retries
          MaxTime       \* bound on the clock

VARIABLES clock,        \* the time
          due,          \* when each task may first be attempted
          task,         \* "absent", "waiting", "attempting" or "resolved"
          failures,     \* failed attempts so far
          acked         \* the tasks whose webhook acknowledged a call

vars == <<clock, due, task, failures, acked>>

Init ==
  /\ clock = 0
  /\ due = [e \in Events |-> 0]
  /\ task = [e \in Events |-> "absent"]
  /\ failures = [e \in Events |-> 0]
  /\ acked = {}

Advance ==
  /\ clock' \in clock .. MaxTime
  /\ UNCHANGED <<due, task, failures, acked>>

Enqueue(S, at) ==
  /\ \A e \in S : task[e] = "absent"
  /\ task' = [e \in Events |-> IF e \in S THEN "waiting" ELSE task[e]]
  /\ due' = [e \in Events |-> IF e \in S THEN at[e] ELSE due[e]]
  /\ UNCHANGED <<clock, failures, acked>>

\* Attempts start only on tasks that wait, are due and have retries left.
Begin(S) ==
  /\ \A e \in S : /\ task[e] = "waiting"
                  /\ due[e] <= clock
                  /\ failures[e] <= MaxRetries
  /\ task' = [e \in Events |-> IF e \in S THEN "attempting" ELSE task[e]]
  /\ UNCHANGED <<clock, due, failures, acked>>

Acknowledge(e) ==
  /\ task[e] = "attempting"
  /\ acked' = acked \union {e}
  /\ UNCHANGED <<clock, due, task, failures>>

\* Attempts end: an acknowledged one resolves its task, another is counted
\* as a failure and puts its task back to wait.
Finish(S) ==
  /\ \A e \in S : task[e] = "attempting"
  /\ task' = [e \in Events |->
                IF e \notin S THEN task[e]
                ELSE IF e \in acked THEN "resolved" ELSE "waiting"]
  /\ failures' = [e \in Events |->
                    IF e \in S \ acked THEN failures[e] + 1 ELSE failures[e]]
  /\ UNCHANGED <<clock, due, acked>>

Next ==
  \/ Advance
  \/ \E S \in SUBSET Events :
       \/ \E at \in [Events -> 0 .. MaxTime] : Enqueue(S, at)
       \/ Begin(S)
       \/ Finish(S)
  \/ \E e \in Events : Acknowledge(e)

Spec == Init /\ [][Next]_vars
=============================================================================
