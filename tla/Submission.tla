----------------------------- MODULE Submission -----------------------------
(***************************************************************************)
(* What whoever asks messaging-api to send something may rely on.  The     *)
(* messages of a request are stored, then handed to the scheduler, and the *)
(* request is answered once: "ok" only when all of it has been handed      *)
(* over.  An error says nothing: it may have been stored and handed over.  *)
(***************************************************************************)
EXTENDS FiniteSets

CONSTANT Requests

VARIABLES stored, handed, answer

submissionVars == <<stored, handed, answer>>

SubmissionInit ==
  /\ stored = {} /\ handed = {}
  /\ answer = [r \in Requests |-> "none"]

Store(r) ==
  /\ answer[r] = "none" /\ r \notin stored
  /\ stored' = stored \union {r}
  /\ UNCHANGED <<handed, answer>>

Hand(r) ==
  /\ answer[r] = "none" /\ r \in stored
  /\ handed' = handed \union {r}
  /\ UNCHANGED <<stored, answer>>

Accept(r) ==
  /\ answer[r] = "none" /\ r \in handed
  /\ answer' = [answer EXCEPT ![r] = "ok"]
  /\ UNCHANGED <<stored, handed>>

\* A process that dies takes all its requests with it.
Fail(S) ==
  /\ \A r \in S : answer[r] = "none"
  /\ answer' = [r \in Requests |-> IF r \in S THEN "error" ELSE answer[r]]
  /\ UNCHANGED <<stored, handed>>

SubmissionNext ==
  \/ \E r \in Requests : Store(r) \/ Hand(r) \/ Accept(r)
  \/ \E S \in SUBSET Requests : Fail(S)

SubmissionSpec == SubmissionInit /\ [][SubmissionNext]_submissionVars
=============================================================================
