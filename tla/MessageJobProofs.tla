-------------------------- MODULE MessageJobProofs -------------------------
(***************************************************************************)
(* Theorems about MessageJob for any finite set of requests, any jobs and  *)
(* any size of the connection pool.                                        *)
(***************************************************************************)
EXTENDS MessageJob, FiniteSetTheorems, TLAPS

USE JobAssumption

\* The type invariant without the count of connections.
Types ==
  /\ job \in [Jobs -> JobStatus]
  /\ mailbox \in SUBSET Jobs
  /\ commit \in [Jobs -> {"none", "working", "delivered"}]
  /\ pc \in [Requests -> Steps]
  /\ seen \in [Requests -> JobStatus]
  /\ carry \in SUBSET Requests
  /\ failed \in SUBSET Requests
  /\ code \in [Requests -> {0, 202, 400, 404, 500}]
  /\ leaked \in Nat
  /\ emails \in [Jobs -> Nat]
  /\ staleClaims \in SUBSET Jobs
  /\ lostCommits \in SUBSET Jobs
  /\ jobFaults \in 0 .. MaxJobFaults

LEMMA TypesStep == Types /\ [JobNext]_jobVars => Types'
<1> SUFFICES ASSUME Types, [JobNext]_jobVars
             PROVE  Types'
  OBVIOUS
<1> USE DEF Types, JobStatus, Steps, Holding, Goto, Fault, rows, handler,
        history, observed
<1>1. ASSUME NEW r \in Requests, Arrive(r) \/ HandlerStep(r)
      PROVE  Types'
  <2>1. CASE Arrive(r) \/ Connect(r) \/ Select(r) \/ LogMissing(r) \/ LogPending(r)
    BY <2>1 DEF Arrive, Connect, Select, LogMissing, LogPending
  <2>2. CASE Claim(r) \/ Unwind(r) \/ Open(r) \/ Deliver(r) \/ OpenTransports(r)
    BY <2>2 DEF Claim, Unwind, Open, Deliver, SendCommit, OpenTransports
  <2>3. CASE GetProfile(r) \/ Send(r) \/ SkipTransports(r) \/ SendFails(r)
             \/ EmailLog(r)
    BY <2>3 DEF GetProfile, Send, SkipTransports, SendFails, EmailLog, AfterTransports
  <2>4. CASE MarkFailed(r) \/ LastLog(r)
    BY <2>4 DEF MarkFailed, LastLog, AnswerOf
  <2>5. QED
    BY <1>1, <2>1, <2>2, <2>3, <2>4 DEF HandlerStep
<1>2. ASSUME NEW r \in Requests, HandlerFault(r)
      PROVE  Types'
  BY <1>2 DEF HandlerFault, ClaimFails, DeliverFails, ConnectFails,
     GetProfileFails, MarkFailedFails
<1>3. ASSUME NEW S \in SUBSET Jobs, JobCrash(S)
      PROVE  Types'
  BY <1>3 DEF JobCrash
<1>4. ASSUME NEW j \in Jobs, CommitLands(j)
      PROVE  Types'
  BY <1>4 DEF CommitLands, Unlocked
<1>5. CASE UNCHANGED jobVars
  BY <1>5 DEF jobVars
<1>6. QED
  BY <1>1, <1>2, <1>3, <1>4, <1>5 DEF JobNext

-----------------------------------------------------------------------------
(* The pool is never overdrawn.                                            *)

Holders == {r \in Requests : pc[r] \in Holding}

LEMMA HoldersFinite == IsFiniteSet(Holders) /\ Cardinality(Holders) \in Nat
  BY FS_Subset, FS_CardinalityType DEF Holders

\* One request moves: at most one more connection is held, none more if the
\* request does not start to hold one, one less if it stops.
LEMMA OneMove ==
  ASSUME Types, NEW r \in Requests, NEW s, Goto(r, s)
  PROVE  /\ Cardinality(Holders') \in Nat
         /\ Cardinality(Holders') <= Cardinality(Holders) + 1
         /\ pc[r] \in Holding \/ s \notin Holding =>
              Cardinality(Holders') <= Cardinality(Holders)
         /\ pc[r] \in Holding /\ s \notin Holding =>
              Cardinality(Holders') = Cardinality(Holders) - 1
<1> USE DEF Types, Goto
<1>1. IsFiniteSet(Holders) /\ Cardinality(Holders) \in Nat
  BY HoldersFinite
<1>2. CASE pc[r] \in Holding /\ s \in Holding
  <2>1. Holders' = Holders
    BY <1>2 DEF Holders
  <2>2. QED
    BY <1>1, <1>2, <2>1
<1>3. CASE pc[r] \in Holding /\ s \notin Holding
  <2>1. Holders' = Holders \ {r} /\ r \in Holders
    BY <1>3 DEF Holders
  <2>2. IsFiniteSet(Holders') /\ Cardinality(Holders') = Cardinality(Holders) - 1
    BY <1>1, <2>1, FS_RemoveElement
  <2>3. Cardinality(Holders') \in Nat
    BY <2>2, FS_CardinalityType
  <2>4. QED
    BY <1>1, <1>3, <2>2, <2>3
<1>4. CASE pc[r] \notin Holding /\ s \in Holding
  <2>1. Holders' = Holders \union {r} /\ r \notin Holders
    BY <1>4 DEF Holders
  <2>2. IsFiniteSet(Holders') /\ Cardinality(Holders') = Cardinality(Holders) + 1
    BY <1>1, <2>1, FS_AddElement
  <2>3. Cardinality(Holders') \in Nat
    BY <2>2, FS_CardinalityType
  <2>4. QED
    BY <1>1, <1>4, <2>2, <2>3
<1>5. CASE pc[r] \notin Holding /\ s \notin Holding
  <2>1. Holders' = Holders
    BY <1>5 DEF Holders
  <2>2. QED
    BY <1>1, <1>5, <2>1
<1>6. QED
  BY <1>2, <1>3, <1>4, <1>5

PoolInv == Types /\ InUse <= PoolMax

LEMMA PoolStep == PoolInv /\ [JobNext]_jobVars => PoolInv'
<1> SUFFICES ASSUME PoolInv, [JobNext]_jobVars
             PROVE  PoolInv'
  OBVIOUS
<1>t. Types /\ Types'
  BY TypesStep DEF PoolInv
<1>i. /\ InUse = Cardinality(Holders) + leaked
      /\ InUse' = Cardinality(Holders') + leaked'
      /\ InUse <= PoolMax
      /\ leaked \in Nat /\ Cardinality(Holders) \in Nat
  BY <1>t, HoldersFinite DEF InUse, Holders, PoolInv, Types
<1>1. ASSUME NEW r \in Requests, Arrive(r) \/ HandlerStep(r) \/ HandlerFault(r)
      PROVE  InUse' <= PoolMax
  <2>1. CASE /\ Free
             /\ leaked' = leaked
             /\ \E s \in Steps : Goto(r, s)
    BY <2>1, <1>t, <1>i, OneMove DEF Free
  <2>2. CASE /\ leaked' = leaked
             /\ \E s \in Steps :
                  Goto(r, s) /\ (pc[r] \in Holding \/ s \notin Holding)
    BY <2>2, <1>t, <1>i, OneMove
  <2>3. CASE /\ leaked' = leaked + 1
             /\ pc[r] \in Holding
             /\ Goto(r, "markFailed")
    BY <2>3, <1>t, <1>i, OneMove DEF Holding
  <2>4. CASE Arrive(r) \/ Select(r) \/ Claim(r) \/ Deliver(r) \/ GetProfile(r)
    <3>1. leaked' = leaked
      BY <2>4 DEF Arrive, Select, Claim, Deliver, GetProfile
    <3>2. \E s \in Steps : Goto(r, s) /\ (pc[r] \in Holding \/ s \notin Holding)
      BY <2>4, <1>t
      DEF Arrive, Select, Claim, Deliver, GetProfile, Steps, Holding, Types
    <3>3. QED
      BY <3>1, <3>2, <2>2
  <2>5. CASE Send(r) \/ SkipTransports(r) \/ SendFails(r)
    <3>1. leaked' = leaked
      BY <2>5 DEF Send, SkipTransports, SendFails
    <3>2. \E s \in Steps : Goto(r, s) /\ (pc[r] \in Holding \/ s \notin Holding)
      BY <2>5, <1>t
      DEF Send, SkipTransports, SendFails, AfterTransports, Steps, Holding, Types
    <3>3. QED
      BY <3>1, <3>2, <2>2
  <2>6. CASE Connect(r) \/ LogMissing(r) \/ LogPending(r) \/ Unwind(r) \/ Open(r)
             \/ OpenTransports(r) \/ EmailLog(r) \/ MarkFailed(r) \/ LastLog(r)
    <3>1. leaked' = leaked /\ Free
      BY <2>6 DEF Connect, LogMissing, LogPending, Unwind, Open,
         OpenTransports, EmailLog, MarkFailed, LastLog
    <3>2. \E s \in Steps : Goto(r, s)
      BY <2>6, <1>t DEF Connect, LogMissing, LogPending, Unwind, Open,
         OpenTransports, EmailLog, AfterTransports, MarkFailed, LastLog,
         Steps, Holding, Types
    <3>3. QED
      BY <3>1, <3>2, <2>1
  <2>7. CASE ClaimFails(r) \/ ConnectFails(r) \/ MarkFailedFails(r)
             \/ \E known \in BOOLEAN : DeliverFails(r, known)
    <3>1. leaked' = leaked
      BY <2>7 DEF ClaimFails, ConnectFails, MarkFailedFails, DeliverFails
    <3>2. \E s \in Steps : Goto(r, s) /\ (pc[r] \in Holding \/ s \notin Holding)
      BY <2>7, <1>t DEF ClaimFails, ConnectFails, MarkFailedFails,
         DeliverFails, Steps, Holding, Types
    <3>3. QED
      BY <3>1, <3>2, <2>2
  <2>8. CASE GetProfileFails(r)
    BY <2>8, <2>3 DEF GetProfileFails, Holding
  <2>9. QED
    BY <1>1, <2>4, <2>5, <2>6, <2>7, <2>8 DEF HandlerStep, HandlerFault
<1>2. ASSUME NEW S \in SUBSET Jobs, JobCrash(S)
      PROVE  PoolInv'
  <2>1. Holders' = {}
    BY <1>2, <1>t DEF JobCrash, Holders, Live, Holding, Types
  <2>2. InUse' = 0
    BY <1>2, <1>i, <2>1, FS_EmptySet DEF JobCrash
  <2>3. QED
    BY <1>t, <2>2 DEF PoolInv
<1>3. CASE UNCHANGED jobVars \/ \E j \in Jobs : CommitLands(j)
  <2>1. UNCHANGED <<pc, leaked>>
    BY <1>3 DEF jobVars, handler, CommitLands
  <2>2. QED
    BY <2>1, <1>i, <1>t DEF Holders, PoolInv
<1>4. QED
  BY <1>t, <1>1, <1>2, <1>3 DEF JobNext, PoolInv

LEMMA PoolInit == JobInit => PoolInv
<1> SUFFICES ASSUME JobInit
             PROVE  PoolInv
  OBVIOUS
<1>1. Types
  BY DEF JobInit, Types, JobStatus, Steps, Holding
<1>2. Holders = {}
  BY DEF JobInit, Holders, Holding
<1>3. InUse = 0
  BY <1>2, FS_EmptySet DEF InUse, Holders, JobInit
<1>4. QED
  BY <1>1, <1>3 DEF PoolInv

\* Every variable keeps its type, and the connections held and leaked are
\* never more than the pool has.
THEOREM JobTypeCorrect == JobSpec => []JobTypeOK
<1>1. JobInit => PoolInv
  BY PoolInit
<1>2. PoolInv /\ [JobNext]_jobVars => PoolInv'
  BY PoolStep
<1>3. PoolInv => JobTypeOK
  BY DEF PoolInv, Types, JobTypeOK
<1>4. QED
  BY <1>1, <1>2, <1>3, PTL DEF JobSpec

-----------------------------------------------------------------------------
(* The mailbox: from Deliver on, a request without an error has handed its *)
(* message over, and only such a request is answered 202.                  *)

Beyond == {"transport", "profile", "send", "emailLog", "lastLog"}

DeliveredByNow ==
  \A r \in Requests :
    /\ pc[r] \in Beyond /\ r \notin failed => HandedOver(JobOf[r])
    /\ pc[r] = "markFailed" => r \in failed

MailboxInv == Types /\ DeliveredByNow /\ AcceptedMeansInMailbox

LEMMA MailboxStep == MailboxInv /\ [JobNext]_jobVars => MailboxInv'
<1> SUFFICES ASSUME MailboxInv, [JobNext]_jobVars
             PROVE  (DeliveredByNow /\ AcceptedMeansInMailbox)'
  BY TypesStep DEF MailboxInv
<1> USE DEF MailboxInv, Types, DeliveredByNow, AcceptedMeansInMailbox, HandedOver,
        Beyond, Goto, Fault, rows, handler, history, observed
<1>1. ASSUME NEW r \in Requests, Arrive(r) \/ HandlerStep(r)
      PROVE  (DeliveredByNow /\ AcceptedMeansInMailbox)'
  <2>1. CASE Arrive(r) \/ Connect(r) \/ Select(r) \/ LogMissing(r) \/ LogPending(r)
    BY <2>1 DEF Arrive, Connect, Select, LogMissing, LogPending
  <2>2. CASE Claim(r) \/ Unwind(r) \/ Open(r) \/ OpenTransports(r)
    BY <2>2 DEF Claim, SendCommit, Unlocked, Unwind, Open, OpenTransports
  <2>3. CASE Deliver(r)
    BY <2>3 DEF Deliver, SendCommit, Unlocked
  <2>4. CASE GetProfile(r) \/ Send(r) \/ SkipTransports(r) \/ SendFails(r)
             \/ EmailLog(r)
    BY <2>4 DEF GetProfile, Send, SkipTransports, SendFails, EmailLog, AfterTransports
  <2>5. CASE MarkFailed(r) \/ LastLog(r)
    BY <2>5 DEF MarkFailed, LastLog, AnswerOf
  <2>6. QED
    BY <1>1, <2>1, <2>2, <2>3, <2>4, <2>5 DEF HandlerStep
<1>2. ASSUME NEW r \in Requests, HandlerFault(r)
      PROVE  (DeliveredByNow /\ AcceptedMeansInMailbox)'
  BY <1>2 DEF HandlerFault, ClaimFails, DeliverFails, ConnectFails,
     GetProfileFails, MarkFailedFails
<1>3. ASSUME NEW S \in SUBSET Jobs, JobCrash(S)
      PROVE  (DeliveredByNow /\ AcceptedMeansInMailbox)'
  <2>1. \A j \in Jobs : HandedOver(j) => HandedOver(j)'
    BY <1>3 DEF JobCrash
  <2>2. /\ \A r \in Requests : pc'[r] \in Beyond \union {"markFailed"} => pc'[r] = pc[r]
        /\ UNCHANGED <<job, mailbox, failed, code>>
    BY <1>3 DEF JobCrash
  <2>3. QED
    BY <2>1, <2>2
<1>4. ASSUME NEW j \in Jobs, CommitLands(j)
      PROVE  (DeliveredByNow /\ AcceptedMeansInMailbox)'
  <2>1. /\ job' = [job EXCEPT ![j] = commit[j]]
        /\ commit' = [commit EXCEPT ![j] = "none"]
        /\ mailbox' = IF commit[j] = "delivered" THEN mailbox \union {j} ELSE mailbox
        /\ UNCHANGED <<pc, failed, code, lostCommits>>
    BY <1>4 DEF CommitLands
  <2>2. \A k \in Jobs : HandedOver(k) => HandedOver(k)'
    BY <2>1
  <2>3. QED
    BY <2>1, <2>2
<1>5. CASE UNCHANGED jobVars
  BY <1>5 DEF jobVars
<1>6. QED
  BY <1>1, <1>2, <1>3, <1>4, <1>5 DEF JobNext

\* A request answered 202 has its message in the mailbox, or handed over to a
\* COMMIT that is on its way or was lost with the process, and a job marked
\* delivered has it there, however many requests race and whatever fails.
THEOREM AcceptedMeansInMailboxCorrect == JobSpec => []AcceptedMeansInMailbox
<1>1. JobInit => MailboxInv
  BY DEF JobInit, MailboxInv, Types, DeliveredByNow, AcceptedMeansInMailbox,
     HandedOver, Beyond, JobStatus, Steps, Holding
<1>2. MailboxInv => AcceptedMeansInMailbox
  BY DEF MailboxInv
<1>3. QED
  BY <1>1, <1>2, MailboxStep, PTL DEF JobSpec

-----------------------------------------------------------------------------
(* Without faults: who owns a job, and how often it is e-mailed.           *)

\* The requests that own a job and have not tried to send its e-mail yet.
Owning == {"claimed", "deliver", "transport", "profile", "send"}

\* What the reader of the row may have seen where it stands.
ReadAsSeen ==
  \A r \in Requests :
    /\ pc[r] = "logPending" => seen[r] # "delivered"
    /\ pc[r] = "claim" => seen[r] \in {"pending", "failed"}

\* While the COMMIT of a claim is on its way nobody else can deliver the job:
\* a claim of a delivered job is over a stale read.
LateClaims ==
  \A j \in Jobs : commit[j] = "working" /\ job[j] = "delivered" => j \in staleClaims

NoFaultNoError ==
  jobFaults = 0 =>
    /\ failed = {} /\ lostCommits = {}
    /\ \A r \in Requests : pc[r] # "markFailed"
    /\ \A j \in Jobs : job[j] # "failed"
    /\ \A r \in Requests : seen[r] # "failed"
    /\ \A j \in Jobs :
         commit[j] = "working" \/ (job[j] = "working" /\ commit[j] = "none") =>
           \E r \in Requests : JobOf[r] = j /\ pc[r] \in {"claimed", "deliver"}

\* A job nobody claimed over a stale read has one owner at most, none while
\* it is pending but for the one whose claim is on its way, and is not
\* e-mailed before its owner does.
OneOwner ==
  \A j \in Jobs :
    jobFaults = 0 /\ j \notin staleClaims =>
      /\ emails[j] <= 1
      /\ job[j] = "pending" => emails[j] = 0
      /\ \A r \in Requests :
           JobOf[r] = j /\ pc[r] \in Owning =>
             /\ job[j] # "pending" \/ commit[j] = "working"
             /\ emails[j] = 0
             /\ \A q \in Requests : JobOf[q] = j /\ pc[q] \in Owning => q = r

CauseInv == Types /\ ReadAsSeen /\ LateClaims /\ NoFaultNoError /\ OneOwner

LEMMA FaultsGrow ==
  ASSUME Types, [JobNext]_jobVars
  PROVE  jobFaults' \in Nat /\ jobFaults <= jobFaults' /\ staleClaims \subseteq staleClaims'
<1> USE DEF Types, Fault, history, observed
<1>1. ASSUME NEW r \in Requests, Arrive(r) \/ HandlerStep(r) \/ HandlerFault(r)
      PROVE  jobFaults' \in Nat /\ jobFaults <= jobFaults' /\ staleClaims \subseteq staleClaims'
  BY <1>1 DEF Arrive, HandlerStep, HandlerFault, Connect, Select, LogMissing,
     LogPending, Claim, Unwind, Open, Deliver, OpenTransports, GetProfile, Send,
     SkipTransports, SendFails, EmailLog, MarkFailed, LastLog, ClaimFails,
     DeliverFails, ConnectFails, GetProfileFails, MarkFailedFails
<1>2. ASSUME NEW S \in SUBSET Jobs, JobCrash(S)
      PROVE  jobFaults' \in Nat /\ jobFaults <= jobFaults' /\ staleClaims \subseteq staleClaims'
  BY <1>2 DEF JobCrash
<1>3. CASE UNCHANGED jobVars \/ \E j \in Jobs : CommitLands(j)
  BY <1>3 DEF jobVars, CommitLands
<1>4. QED
  BY <1>1, <1>2, <1>3 DEF JobNext

\* After a fault nothing is claimed about owners, so only the other steps
\* need the definitions of the actions.
LEMMA FaultStep ==
  ASSUME CauseInv, [JobNext]_jobVars,
         (\E r \in Requests : HandlerFault(r)) \/ \E S \in SUBSET Jobs : JobCrash(S)
  PROVE  CauseInv'
<1>1. Types'
  BY TypesStep DEF CauseInv
<1>2. jobFaults' > 0
  BY DEF CauseInv, Types, HandlerFault, JobCrash, ClaimFails, DeliverFails,
     ConnectFails, GetProfileFails, MarkFailedFails, Fault
<1>3. ReadAsSeen'
  BY DEF CauseInv, Types, ReadAsSeen, HandlerFault, JobCrash, ClaimFails,
     DeliverFails, ConnectFails, GetProfileFails, MarkFailedFails, Goto
<1>4. LateClaims'
  <2>1. /\ job' = job /\ staleClaims' = staleClaims
        /\ \A j \in Jobs : commit'[j] = "working" => commit[j] = "working"
    BY DEF HandlerFault, JobCrash, ClaimFails, DeliverFails, ConnectFails,
       GetProfileFails, MarkFailedFails, rows, history
  <2>2. QED
    BY <2>1 DEF CauseInv, LateClaims
<1>5. QED
  BY <1>1, <1>2, <1>3, <1>4 DEF CauseInv, NoFaultNoError, OneOwner

LEMMA CauseStep == CauseInv /\ [JobNext]_jobVars => CauseInv'
<1> SUFFICES ASSUME CauseInv, [JobNext]_jobVars
             PROVE  CauseInv'
  OBVIOUS
<1>t. Types'
  BY TypesStep DEF CauseInv
<1> DEFINE Goal == (ReadAsSeen /\ LateClaims /\ NoFaultNoError /\ OneOwner)'
<1> USE DEF CauseInv, Types, ReadAsSeen, LateClaims, NoFaultNoError, OneOwner,
        Owning, JobStatus, Goto, rows, handler, history, observed
<1>1. ASSUME NEW r \in Requests, Arrive(r) \/ HandlerStep(r)
      PROVE  Goal
  <2>1. CASE Arrive(r) \/ Connect(r) \/ LogMissing(r) \/ Unwind(r)
    BY <2>1 DEF Arrive, Connect, LogMissing, Unwind
  <2>2. CASE Select(r)
    BY <2>2 DEF Select, Found
  <2>3. CASE LogPending(r)
    BY <2>3 DEF LogPending
  <2>4. CASE Claim(r)
    <3>1. ReadAsSeen' /\ LateClaims'
      BY <2>4 DEF Claim, SendCommit, Unlocked
    <3>2. NoFaultNoError'
      BY <2>4 DEF Claim, SendCommit, Unlocked
    <3>3. OneOwner'
      BY <2>4 DEF Claim, SendCommit, Unlocked
    <3>4. QED
      BY <3>1, <3>2, <3>3
  <2>5. CASE Open(r) \/ OpenTransports(r) \/ GetProfile(r)
    BY <2>5 DEF Open, OpenTransports, GetProfile
  <2>6. CASE Deliver(r)
    BY <2>6 DEF Deliver, SendCommit, Unlocked
  <2>7. CASE Send(r)
    BY <2>7 DEF Send, AfterTransports
  <2>8. CASE SkipTransports(r) \/ SendFails(r) \/ EmailLog(r)
    BY <2>8 DEF SkipTransports, SendFails, EmailLog, AfterTransports
  <2>9. CASE MarkFailed(r) \/ LastLog(r)
    BY <2>9 DEF MarkFailed, Unlocked, LastLog
  <2>10. QED
    BY <1>1, <2>1, <2>2, <2>3, <2>4, <2>5, <2>6, <2>7, <2>8, <2>9 DEF HandlerStep
<1>2. CASE (\E r \in Requests : HandlerFault(r)) \/ \E S \in SUBSET Jobs : JobCrash(S)
  BY <1>2, FaultStep
<1>3. ASSUME NEW j \in Jobs, CommitLands(j)
      PROVE  Goal
  <2>1. /\ commit[j] \in {"working", "delivered"}
        /\ job' = [job EXCEPT ![j] = commit[j]]
        /\ commit' = [commit EXCEPT ![j] = "none"]
        /\ UNCHANGED <<handler, observed>>
    BY <1>3 DEF CommitLands, Unlocked
  <2>2. ReadAsSeen' /\ LateClaims'
    BY <2>1
  <2>3. NoFaultNoError'
    BY <2>1
  <2>4. OneOwner'
    BY <2>1
  <2>5. QED
    BY <2>2, <2>3, <2>4
<1>4. CASE UNCHANGED jobVars
  BY <1>4 DEF jobVars
<1>5. QED
  BY <1>t, <1>1, <1>2, <1>3, <1>4 DEF JobNext

LEMMA CauseCorrect == JobSpec => []CauseInv
<1>1. JobInit => CauseInv
  BY DEF JobInit, CauseInv, Types, ReadAsSeen, LateClaims, NoFaultNoError,
     OneOwner, Owning, JobStatus, Steps, Holding
<1>2. QED
  BY <1>1, CauseStep, PTL DEF JobSpec

\* A message is e-mailed twice only after a failure or over a stale read.
THEOREM SecondEmailNeedsCauseCorrect == JobSpec => []SecondEmailNeedsCause
<1>1. CauseInv => SecondEmailNeedsCause
  BY DEF CauseInv, Types, OneOwner, SecondEmailNeedsCause
<1>2. QED
  BY <1>1, CauseCorrect, PTL

\* Only a failure or a crash leaves a job 'working' with nobody at work and no
\* delivery on its way.
THEOREM WorkingHasOwnerCorrect == JobSpec => []WorkingHasOwner
<1>1. CauseInv => WorkingHasOwner
  BY DEF CauseInv, Types, NoFaultNoError, WorkingHasOwner, Past
<1>2. QED
  BY <1>1, CauseCorrect, PTL

\* Only a failure or a race takes a job back from delivered.
THEOREM ReopenedNeedsCauseCorrect == JobSpec => ReopenedNeedsCause
<1>1. ASSUME CauseInv, [JobNext]_jobVars, NEW j \in Jobs,
             job[j] = "delivered", job'[j] # "delivered"
      PROVE  jobFaults' > 0 \/ j \in staleClaims'
  <2>1. jobFaults' \in Nat /\ jobFaults <= jobFaults' /\ staleClaims \subseteq staleClaims'
    BY <1>1, FaultsGrow DEF CauseInv
  <2>2. \/ \E k \in Jobs : CommitLands(k)
        \/ \E r \in Requests : MarkFailed(r)
    BY <1>1 DEF JobNext, HandlerStep, HandlerFault, JobCrash, jobVars, rows,
       Arrive, Connect, Select, LogMissing, LogPending, Claim, Unwind, Open,
       Deliver, OpenTransports, GetProfile, Send, SkipTransports,
       SendFails, EmailLog, LastLog, ClaimFails, DeliverFails, ConnectFails,
       GetProfileFails, MarkFailedFails
  <2>3. ASSUME NEW k \in Jobs, CommitLands(k)
        PROVE  j \in staleClaims
    <3>1. k = j /\ commit[j] = "working"
      BY <1>1, <2>3 DEF CommitLands, Unlocked, CauseInv, Types
    <3> QED
      BY <1>1, <3>1 DEF CauseInv, LateClaims
  <2>4. ASSUME NEW r \in Requests, MarkFailed(r)
        PROVE  jobFaults' > 0
    BY <1>1, <2>1, <2>4 DEF MarkFailed, CauseInv, Types, NoFaultNoError
  <2>5. QED
    BY <2>1, <2>2, <2>3, <2>4
<1>2. CauseInv /\ [JobNext]_jobVars =>
        [\A j \in Jobs : job[j] = "delivered" /\ job'[j] # "delivered" =>
           jobFaults' > 0 \/ j \in staleClaims']_jobVars
  BY <1>1
<1>3. QED
  BY <1>2, CauseCorrect, PTL DEF JobSpec, ReopenedNeedsCause

-----------------------------------------------------------------------------
(* Without failures no job is dropped, however many requests race for it   *)
(* and however often they refuse each other: until a claim is committed    *)
(* nobody is refused the job, and the claim leads to a delivery            *)
(* (NoFaultNoError).                                                       *)

Early == {"idle", "queued", "select", "logPending", "claim"}
Delivering == {"claimed", "deliver"}

PendingIsOpenToAll ==
  jobFaults = 0 =>
    \A r \in Requests : job[JobOf[r]] = "pending" =>
      /\ commit[JobOf[r]] # "delivered"
      /\ \/ pc[r] \in Early
         \/ pc[r] \in Delivering /\ commit[JobOf[r]] = "working"
      /\ pc[r] \in {"logPending", "claim"} => seen[r] = "pending"

LEMMA PendingIsOpenToAllCorrect == JobSpec => []PendingIsOpenToAll
<1>1. JobInit => PendingIsOpenToAll
  BY DEF JobInit, PendingIsOpenToAll, Early, Delivering
<1>2. ASSUME CauseInv, PendingIsOpenToAll, [JobNext]_jobVars, jobFaults' = 0
      PROVE  PendingIsOpenToAll'
  <2> USE DEF CauseInv, Types, NoFaultNoError, PendingIsOpenToAll, Early, Delivering,
          JobStatus, Goto, rows, handler, history, observed
  <2>1. jobFaults = 0
    BY <1>2, FaultsGrow
  <2>2. ASSUME NEW r \in Requests, Arrive(r) \/ HandlerStep(r)
        PROVE  PendingIsOpenToAll'
    <3>1. CASE Arrive(r) \/ Connect(r) \/ LogMissing(r) \/ Unwind(r)
      BY <1>2, <2>1, <3>1 DEF Arrive, Connect, LogMissing, Unwind
    <3>2. CASE Select(r) \/ LogPending(r)
      BY <1>2, <2>1, <3>2 DEF Select, Found, LogPending
    <3>3. CASE Claim(r) \/ Deliver(r)
      BY <1>2, <2>1, <3>3 DEF Claim, Deliver, SendCommit, Unlocked
    <3>4. CASE Open(r) \/ OpenTransports(r) \/ GetProfile(r)
      BY <1>2, <2>1, <3>4 DEF Open, OpenTransports, GetProfile
    <3>5. CASE Send(r) \/ SkipTransports(r) \/ SendFails(r) \/ EmailLog(r)
      BY <1>2, <2>1, <3>5 DEF Send, SkipTransports, SendFails, EmailLog, AfterTransports
    <3>6. CASE MarkFailed(r) \/ LastLog(r)
      BY <1>2, <2>1, <3>6 DEF MarkFailed, Unlocked, LastLog
    <3> QED
      BY <2>2, <3>1, <3>2, <3>3, <3>4, <3>5, <3>6 DEF HandlerStep
  <2>3. ~ (\E S \in SUBSET Jobs : JobCrash(S)) /\ ~ \E r \in Requests : HandlerFault(r)
    BY <1>2, <2>1 DEF HandlerFault, JobCrash, ClaimFails, DeliverFails, ConnectFails,
       GetProfileFails, MarkFailedFails, Fault
  <2>4. ASSUME NEW j \in Jobs, CommitLands(j)
        PROVE  PendingIsOpenToAll'
    BY <1>2, <2>1, <2>4 DEF CommitLands, Unlocked
  <2>5. CASE UNCHANGED jobVars
    BY <1>2, <2>5 DEF jobVars
  <2> QED
    BY <1>2, <2>2, <2>3, <2>4, <2>5 DEF JobNext
<1>3. CauseInv /\ PendingIsOpenToAll /\ [JobNext]_jobVars => PendingIsOpenToAll'
  BY <1>2 DEF PendingIsOpenToAll
<1> QED
  BY <1>1, <1>3, CauseCorrect, PTL DEF JobSpec

\* Without failures a request is refused only when its message is in the
\* mailbox already, the COMMIT that puts it there is on its way, or another
\* request is about to deliver it.
NothingRefusedInVain ==
  jobFaults = 0 =>
    \A r \in Requests : pc[r] \notin Early =>
      \/ JobOf[r] \in mailbox
      \/ commit[JobOf[r]] = "delivered"
      \/ \E q \in Requests : JobOf[q] = JobOf[r] /\ pc[q] \in Delivering

\* "Job is already in progress" and "not found" cost no message unless
\* something failed, whatever the number of requests and their order.
THEOREM NothingRefusedInVainCorrect == JobSpec => []NothingRefusedInVain
<1>1. CauseInv /\ AcceptedMeansInMailbox /\ PendingIsOpenToAll => NothingRefusedInVain
  BY DEF CauseInv, Types, JobStatus, NoFaultNoError, Delivering,
     AcceptedMeansInMailbox, PendingIsOpenToAll, NothingRefusedInVain
<1> QED
  BY <1>1, CauseCorrect, AcceptedMeansInMailboxCorrect, PendingIsOpenToAllCorrect, PTL

-----------------------------------------------------------------------------
(* Where the pool can bring the process to a stop.                         *)

\* The next step of request r has all it needs.
Ready(r) ==
  /\ \/ pc[r] \in {"select", "claim", "deliver", "profile", "send"}
     \/ Free /\ pc[r] \notin {"idle", "done", "dead"}
  /\ pc[r] \in {"claim", "deliver", "markFailed"} => Unlocked(JobOf[r])

\* As long as a request is unanswered, one of them can go on or a COMMIT that
\* they wait for is on its way, unless every connection is leaked or held by
\* a request that waits for a second one.
StopsOnlyWedged ==
  Live # {} =>
    \/ Wedged
    \/ \E r \in Requests : Ready(r)
    \/ \E j \in Jobs : ~ Unlocked(j)

\* The only way to a standstill is the pool waiting for itself: no request
\* waits for another in any other way.
THEOREM StopsOnlyWedgedCorrect == JobSpec => []StopsOnlyWedged
<1>1. ASSUME JobTypeOK, Live # {}, ~ \E r \in Requests : Ready(r),
             ~ \E j \in Jobs : ~ Unlocked(j)
      PROVE  Wedged
  <2>1. InUse = PoolMax
    <3>1. ~ Free
      BY <1>1 DEF Live, Ready
    <3>2. leaked \in Nat /\ InUse \in Nat
      BY <1>1, HoldersFinite DEF JobTypeOK, InUse, Holders
    <3> QED
      BY <1>1, <3>1, <3>2 DEF Free, JobTypeOK
  <2>2. Holders = {r \in Requests : pc[r] \in {"missing", "logPending", "unwind", "emailLog"}}
    BY <1>1 DEF Ready, Holders, Holding
  <2>3. leaked \in Nat /\ Cardinality(Holders) \in Nat
    BY <1>1, HoldersFinite DEF JobTypeOK
  <2> QED
    BY <2>1, <2>2, <2>3 DEF InUse, Holders, Wedged
<1>2. JobTypeOK => StopsOnlyWedged
  BY <1>1 DEF StopsOnlyWedged
<1> QED
  BY <1>2, JobTypeCorrect, PTL
=============================================================================
